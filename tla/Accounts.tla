-------------------------------- MODULE Accounts -------------------------------
(******************************************************************************)
(* User accounts: registration and login behind the rate limiter, sign-in     *)
(* with Google, the tokens they issue, and what tokens give access to: the    *)
(* caller's profile and the administrators' route.                            *)
(*                                                                            *)
(* A statement on table users is one step.  An account's id is the request    *)
(* that made it (uuid.New), and a name stands for the request that supplied   *)
(* it, so a first or last name is a member of Requests.                       *)
(*                                                                            *)
(* Fault "db": a statement fails, or its acknowledgement is lost.             *)
(******************************************************************************)
EXTENDS RateLimit

CONSTANTS
    Emails,
    Passwords,
    LongPasswords,    \* those bcrypt refuses to hash
    RandomPassword,   \* what GoogleLogin makes up: no client's password
    RegisterRoles,    \* the roles clients ask for; "" is none
    None

Roles == (RegisterRoles \ {""}) \cup {"customer"}

Row == [email : Emails, password : Passwords \cup {RandomPassword}, role : Roles,
        first : Requests, last : Requests]

Claims == [id : Requests, email : Emails, role : Roles]

Fields == {"first", "last"}

ASSUME AccountsAssumption ==
    /\ Routes = {"auth_register", "auth_login"}
    /\ LongPasswords \subseteq Passwords
    /\ RandomPassword \notin Passwords
    /\ None \notin Row

VARIABLES
    users,     \* table users: the row of an id, None where there is none
    tokens,    \* the claims of the tokens handed out
    pc,        \* the statement a request runs next
    account,   \* the id of the row it inserts or updates
    draft,     \* the domain.User it builds or has read and changed
    answer,
    patch,     \* history: the fields an update changes
    applied,   \* history: the updates of an account that took effect
    before     \* history: those of its account when an update read the row

accountVars == <<users, tokens, pc, account, draft, answer, patch, applied, before>>
vars == <<limitVars, accountVars>>

Answers ==
    {"none", "ok", "exists", "invalid_credentials", "unauthorized", "forbidden",
     "admitted", "bad_request", "too_many_requests", "error", "died"}

TypeOK ==
    /\ LimitTypeOK
    /\ users \in [Requests -> Row \cup {None}]
    /\ tokens \subseteq Claims
    /\ pc \in [Requests -> {"start", "create", "update", "done"}]
    /\ account \in [Requests -> Requests]
    /\ draft \in [Requests -> Row \cup {None}]
    /\ answer \in [Requests -> Answers]
    /\ patch \in [Requests -> SUBSET Fields]
    /\ applied \in [Requests -> SUBSET Requests]
    /\ before \in [Requests -> SUBSET Requests]

Init ==
    /\ LimitInit
    /\ users = [r \in Requests |-> None]
    /\ tokens = {}
    /\ pc = [r \in Requests |-> "start"]
    /\ account = [r \in Requests |-> r]
    /\ draft = [r \in Requests |-> None]
    /\ answer = [r \in Requests |-> "none"]
    /\ patch = [r \in Requests |-> {}]
    /\ applied = [r \in Requests |-> {}]
    /\ before = [r \in Requests |-> {}]

DbFails == "db" \in Faults

Answer(r, a) ==
    /\ pc' = [pc EXCEPT ![r] = "done"]
    /\ answer' = [answer EXCEPT ![r] = a]

Goto(r, step) == pc' = [pc EXCEPT ![r] = step] /\ UNCHANGED answer

\* The ids of the accounts with an address: GetByEmail.
GetByEmail(e) == {i \in Requests : users[i] # None /\ users[i].email = e}

GenerateToken(i, row) ==
    tokens' = tokens \cup {[id |-> i, email |-> row.email, role |-> row.role]}

--------------------------------------------------------------------------------
(* The limited routes                                                         *)

\* A request comes to a limited route; above the limit it is answered 429.
Limited(r) ==
    /\ pc[r] = "start"
    /\ \E k \in Keys : Limit(r, k)
    /\ IF gate'[r] = "refused" THEN Answer(r, "too_many_requests")
                               ELSE UNCHANGED <<pc, answer>>
    /\ UNCHANGED <<users, tokens, account, draft, patch, applied, before>>

LimitedExpire(r) == Expire(r) /\ UNCHANGED accountVars

\* The handler of a limited route runs; that of a route with no limiter.
InRoute(r, route) ==
    /\ pc[r] = "start"
    /\ gate[r] = "passed" /\ gateKey[r][1] = route
    /\ UNCHANGED limitVars

InOpenRoute(r) ==
    /\ pc[r] = "start"
    /\ gate[r] = "outside"
    /\ UNCHANGED limitVars

--------------------------------------------------------------------------------
(* Register                                                                   *)

\* Mutant of DefaultRole: the default is missing.
RoleAsGiven(role) == role

DefaultRole(role) == IF role = "" THEN "customer" ELSE role

\* No JSON, or a required field is missing.
BadRequest(r) ==
    /\ InOpenRoute(r) \/ \E route \in Routes : InRoute(r, route)
    /\ Answer(r, "bad_request")
    /\ UNCHANGED <<users, tokens, account, draft, patch, applied, before>>

RegisterExists(r) ==
    /\ InRoute(r, "auth_register")
    /\ \E e \in Emails : GetByEmail(e) # {}
    /\ Answer(r, "exists")
    /\ UNCHANGED <<users, tokens, account, draft, patch, applied, before>>

\* The address is free, or the lookup failed: its error is not looked at.
Register(r) ==
    /\ InRoute(r, "auth_register")
    /\ \E e \in Emails, p \in Passwords, role \in RegisterRoles :
        /\ GetByEmail(e) = {} \/ DbFails
        /\ \/ p \in LongPasswords /\ Answer(r, "error") /\ UNCHANGED draft
           \/ /\ p \notin LongPasswords
              /\ draft' = [draft EXCEPT ![r] =
                    [email |-> e, password |-> p, role |-> DefaultRole(role),
                     first |-> r, last |-> r]]
              /\ Goto(r, "create")
    /\ UNCHANGED <<users, tokens, account, patch, applied, before>>

\* Mutant of EmailIsFree: no UNIQUE constraint, only the lookup.
EmailAlwaysFree(e) == TRUE

\* The UNIQUE constraint of column email.
EmailIsFree(e) == GetByEmail(e) = {}

InsertUser(r) ==
    /\ pc[r] = "create"
    /\ EmailIsFree(draft[r].email)
    /\ users' = [users EXCEPT ![r] = draft[r]]
    /\ UNCHANGED <<limitVars, account, draft, patch, applied, before>>

\* The INSERT of a registration or of a Google sign-in, then its token.
Create(r) ==
    /\ InsertUser(r)
    /\ GenerateToken(r, draft[r])
    /\ Answer(r, "ok")

CreateUnacknowledged(r) ==
    /\ DbFails
    /\ InsertUser(r)
    /\ Answer(r, "error")
    /\ UNCHANGED tokens

\* Mutant of CreateFails: the error of the INSERT is dropped.
CreateIgnored(r) ==
    /\ pc[r] = "create"
    /\ ~EmailIsFree(draft[r].email) \/ DbFails
    /\ GenerateToken(r, draft[r])
    /\ Answer(r, "ok")
    /\ UNCHANGED <<limitVars, users, account, draft, patch, applied, before>>

\* It is refused or fails: 500, for the loser of a race for an address too.
CreateFails(r) ==
    /\ pc[r] = "create"
    /\ ~EmailIsFree(draft[r].email) \/ DbFails
    /\ Answer(r, "error")
    /\ UNCHANGED <<limitVars, users, tokens, account, draft, patch, applied, before>>

--------------------------------------------------------------------------------
(* Login and GoogleLogin                                                      *)

CheckPassword(p, i) == users[i].password = p

Login(r) ==
    /\ InRoute(r, "auth_login")
    /\ \E e \in Emails, p \in Passwords : \E i \in GetByEmail(e) :
        CheckPassword(p, i) /\ GenerateToken(i, users[i])
    /\ Answer(r, "ok")
    /\ UNCHANGED <<users, account, draft, patch, applied, before>>

\* No such account, a failed lookup, or the wrong password.
LoginFails(r) ==
    /\ InRoute(r, "auth_login")
    /\ \/ DbFails
       \/ \E e \in Emails, p \in Passwords : \A i \in GetByEmail(e) : ~CheckPassword(p, i)
    /\ Answer(r, "invalid_credentials")
    /\ UNCHANGED <<users, tokens, account, draft, patch, applied, before>>

\* Google vouches for an address that has an account.
GoogleLogin(r) ==
    /\ InOpenRoute(r)
    /\ \E e \in Emails : \E i \in GetByEmail(e) : GenerateToken(i, users[i])
    /\ Answer(r, "ok")
    /\ UNCHANGED <<users, account, draft, patch, applied, before>>

\* It has none: one is made.
GoogleRegister(r) ==
    /\ InOpenRoute(r)
    /\ \E e \in Emails :
        /\ GetByEmail(e) = {}
        /\ draft' = [draft EXCEPT ![r] =
              [email |-> e, password |-> RandomPassword, role |-> "customer",
               first |-> r, last |-> r]]
    /\ Goto(r, "create")
    /\ UNCHANGED <<users, tokens, account, patch, applied, before>>

\* Google's token is not valid or has no address, or the lookup failed.
GoogleFails(r) ==
    /\ InOpenRoute(r)
    /\ Answer(r, "error")
    /\ UNCHANGED <<users, tokens, account, draft, patch, applied, before>>

--------------------------------------------------------------------------------
(* Routes behind AuthMiddleware                                               *)

\* No token, a malformed or an expired one.
Unauthorized(r) ==
    /\ InOpenRoute(r)
    /\ Answer(r, "unauthorized")
    /\ UNCHANGED <<users, tokens, account, draft, patch, applied, before>>

\* RequireRole(RoleAdmin), on the role the token claims.
RequireRole(r) ==
    /\ InOpenRoute(r)
    /\ \E t \in tokens :
        /\ account' = [account EXCEPT ![r] = t.id]
        /\ Answer(r, IF t.role = "admin" THEN "admitted" ELSE "forbidden")
    /\ UNCHANGED <<users, tokens, draft, patch, applied, before>>

\* Mutant of Patched: an absent field is written too.
PatchedBlindly(row, fields, r) == [row EXCEPT !.first = r, !.last = r]

\* The row with the fields the request gives.
Patched(row, fields, r) ==
    [row EXCEPT !.first = IF "first" \in fields THEN r ELSE @,
                !.last = IF "last" \in fields THEN r ELSE @]

\* UpdateMe reads the row of the token's account and changes its copy.
UpdateProfile(r) ==
    /\ InOpenRoute(r)
    /\ \E t \in tokens, fields \in (SUBSET Fields) \ {{}} :
        /\ users[t.id] # None
        /\ account' = [account EXCEPT ![r] = t.id]
        /\ draft' = [draft EXCEPT ![r] = Patched(users[t.id], fields, r)]
        /\ patch' = [patch EXCEPT ![r] = fields]
        /\ before' = [before EXCEPT ![r] = applied[t.id]]
    /\ Goto(r, "update")
    /\ UNCHANGED <<users, tokens, applied>>

\* The query fails, or finds no row.
UpdateProfileFails(r) ==
    /\ InOpenRoute(r)
    /\ \E t \in tokens : users[t.id] = None \/ DbFails
    /\ Answer(r, "error")
    /\ UNCHANGED <<users, tokens, account, draft, patch, applied, before>>

\* UPDATE users SET first_name, last_name: both, from the copy.
UpdateUser(r) ==
    /\ pc[r] = "update"
    /\ users' = [users EXCEPT ![account[r]].first = draft[r].first,
                              ![account[r]].last = draft[r].last]
    /\ applied' = [applied EXCEPT ![account[r]] = @ \cup {r}]
    /\ UNCHANGED <<limitVars, tokens, account, draft, patch, before>>

Update(r) == UpdateUser(r) /\ Answer(r, "ok")

UpdateUnacknowledged(r) == DbFails /\ UpdateUser(r) /\ Answer(r, "error")

UpdateFails(r) ==
    /\ pc[r] = "update"
    /\ DbFails
    /\ Answer(r, "error")
    /\ UNCHANGED <<limitVars, users, tokens, account, draft, patch, applied, before>>

--------------------------------------------------------------------------------

\* The requests under way die with the process.
Crash ==
    LET dead == {r \in Requests : \/ pc[r] \in {"create", "update"}
                                  \/ pc[r] = "start" /\ gate[r] # "outside"}
    IN  /\ "crash" \in Faults
        /\ dead # {}
        /\ LimitCrash
        /\ gate' = [r \in Requests |-> IF r \in dead THEN "outside" ELSE gate[r]]
        /\ pc' = [r \in Requests |-> IF r \in dead THEN "done" ELSE pc[r]]
        /\ answer' = [r \in Requests |-> IF r \in dead THEN "died" ELSE answer[r]]
        /\ UNCHANGED <<users, tokens, account, draft, patch, applied, before>>

RequestStep(r) ==
    \/ Limited(r) \/ LimitedExpire(r) \/ BadRequest(r)
    \/ RegisterExists(r) \/ Register(r)
    \/ Create(r) \/ CreateUnacknowledged(r) \/ CreateFails(r)
    \/ Login(r) \/ LoginFails(r)
    \/ GoogleLogin(r) \/ GoogleRegister(r) \/ GoogleFails(r)
    \/ Unauthorized(r) \/ RequireRole(r)
    \/ UpdateProfile(r) \/ UpdateProfileFails(r)
    \/ Update(r) \/ UpdateUnacknowledged(r) \/ UpdateFails(r)

Next ==
    \/ \E r \in Requests : RequestStep(r)
    \/ \E k \in Keys : WindowEnds(k) /\ UNCHANGED accountVars
    \/ Crash

Spec == Init /\ [][Next]_vars

--------------------------------------------------------------------------------
(* Properties                                                                 *)

\* An address has one account, although registrations and Google sign-ins look it
\* up and insert it in separate statements, and a failed lookup goes on to insert.
OneAccountPerEmail ==
    \A e \in Emails : Cardinality(GetByEmail(e)) <= 1

\* What a token claims is true of a stored account, for ever, and who is admitted
\* to the administrators' route is one: GenerateToken, RequireRole.
ClaimsHold ==
    /\ \A t \in tokens :
        /\ users[t.id] # None
        /\ users[t.id].email = t.email
        /\ users[t.id].role = t.role
    /\ \A r \in Requests :
        answer[r] = "admitted" => users[account[r]].role = "admin"

\* "UpdateProfile patches editable user fields" (user/service.go): a field holds
\* what an applied update put there unless another applied update of the account
\* changed that field too, or had read the row before this one wrote it.  An update
\* that comes later never undoes a field it does not give.
PatchLostOnlyInRace ==
    \A i \in Requests : \A r \in applied[i] : \A f \in patch[r] :
        \/ users[i][f] = r
        \/ \E w \in applied[i] \ {r} : f \in patch[w] \/ r \notin before[w]
================================================================================
