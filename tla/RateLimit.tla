------------------------------- MODULE RateLimit -------------------------------
(******************************************************************************)
(* The RateLimit middleware of the registration and login routes: INCR of a   *)
(* counter per route and client, and an EXPIRE, sent by the request that      *)
(* counted 1, which ends the window.  The two are separate commands, and the  *)
(* second one's result is dropped.                                            *)
(*                                                                            *)
(* Fault "redis": a command fails, or is applied with its reply lost.  The    *)
(* limiter then lets the request through.                                     *)
(******************************************************************************)
EXTENDS Naturals, FiniteSets

CONSTANTS
    Requests,         \* requests, each served once
    Routes,           \* limited routes
    Clients,          \* what realIP returns
    MaxRequests,      \* maxRequests
    NoKey,            \* a request that is not in the middleware has no key
    RedisConnected,   \* the limiter was given a Redis client
    Faults            \* subset of {"redis", "db", "crash"}

ASSUME RateLimitAssumption ==
    /\ IsFiniteSet(Requests)
    /\ MaxRequests \in Nat \ {0}
    /\ RedisConnected \in BOOLEAN
    /\ Faults \subseteq {"redis", "db", "crash"}

Keys == Routes \X Clients

VARIABLES
    hits,       \* the counter of a key; 0: the key does not exist
    expiring,   \* the keys that have an expiry
    gate,       \* how far a request is in the middleware
    gateKey,    \* the key it counts under
    admitted,   \* history: requests counted and let through, in the key's life
    uncounted,  \* history: requests whose INCR was applied with its reply lost
    refused,    \* history: requests answered 429
    orphaned    \* history: keys whose EXPIRE was never sent, or was lost

limitVars == <<hits, expiring, gate, gateKey, admitted, uncounted, refused, orphaned>>

LimitTypeOK ==
    /\ hits \in [Keys -> 0 .. Cardinality(Requests)]
    /\ expiring \subseteq Keys
    /\ gate \in [Requests -> {"outside", "expire", "passed", "refused"}]
    /\ gateKey \in [Requests -> Keys \cup {NoKey}]
    /\ admitted \in [Keys -> SUBSET Requests]
    /\ uncounted \in [Keys -> SUBSET Requests]
    /\ refused \in [Keys -> SUBSET Requests]
    /\ orphaned \subseteq Keys

LimitInit ==
    /\ hits = [k \in Keys |-> 0]
    /\ expiring = {}
    /\ gate = [r \in Requests |-> "outside"]
    /\ gateKey = [r \in Requests |-> NoKey]
    /\ admitted = [k \in Keys |-> {}]
    /\ uncounted = [k \in Keys |-> {}]
    /\ refused = [k \in Keys |-> {}]
    /\ orphaned = {}

RedisFails == "redis" \in Faults

\* Mutant of Exceeds: off by one.
ExceedsByTwo(count) == count > MaxRequests + 1

Exceeds(count) == count > MaxRequests

\* Mutant of FirstHit: compared with the count before the INCR.
FirstHitMissed(count) == count = 0

FirstHit(count) == count = 1

Enter(r, k) ==
    /\ gate[r] = "outside"
    /\ gateKey' = [gateKey EXCEPT ![r] = k]

\* INCR creates the key if need be; the request that counted 1 sends EXPIRE next,
\* any other is let through or refused.
Incr(r, k) ==
    LET count == hits[k] + 1
    IN  /\ RedisConnected
        /\ Enter(r, k)
        /\ hits' = [hits EXCEPT ![k] = count]
        /\ gate' = [gate EXCEPT ![r] = IF FirstHit(count) THEN "expire"
                                       ELSE IF Exceeds(count) THEN "refused" ELSE "passed"]
        /\ admitted' = IF Exceeds(count) THEN admitted
                       ELSE [admitted EXCEPT ![k] = @ \cup {r}]
        /\ refused' = IF Exceeds(count) THEN [refused EXCEPT ![k] = @ \cup {r}]
                      ELSE refused
        /\ UNCHANGED <<expiring, uncounted, orphaned>>

\* No Redis client, or INCR fails: fail open.
FailOpen(r, k) ==
    /\ ~RedisConnected \/ RedisFails
    /\ Enter(r, k)
    /\ gate' = [gate EXCEPT ![r] = "passed"]
    /\ UNCHANGED <<hits, expiring, admitted, uncounted, refused, orphaned>>

\* INCR is applied and its reply lost: fail open, and if it created the key, no
\* request will give it an expiry.
IncrUnacknowledged(r, k) ==
    /\ RedisConnected
    /\ RedisFails
    /\ Enter(r, k)
    /\ hits' = [hits EXCEPT ![k] = @ + 1]
    /\ gate' = [gate EXCEPT ![r] = "passed"]
    /\ uncounted' = [uncounted EXCEPT ![k] = @ \cup {r}]
    /\ orphaned' = IF hits[k] = 0 THEN orphaned \cup {k} ELSE orphaned
    /\ UNCHANGED <<expiring, admitted, refused>>

\* EXPIRE, or its failure, which is not noticed; then on to the comparison, which a
\* count of 1 passes.
Expire(r) ==
    LET k == gateKey[r]
    IN  /\ gate[r] = "expire"
        /\ gate' = [gate EXCEPT ![r] = "passed"]
        /\ \/ expiring' = expiring \cup {k} /\ UNCHANGED orphaned
           \/ RedisFails /\ orphaned' = orphaned \cup {k} /\ UNCHANGED expiring
        /\ UNCHANGED <<hits, gateKey, admitted, uncounted, refused>>

\* Redis deletes an expired key: the next request opens a new window.
WindowEnds(k) ==
    /\ k \in expiring
    /\ hits' = [hits EXCEPT ![k] = 0]
    /\ expiring' = expiring \ {k}
    /\ admitted' = [admitted EXCEPT ![k] = {}]
    /\ uncounted' = [uncounted EXCEPT ![k] = {}]
    /\ refused' = [refused EXCEPT ![k] = {}]
    /\ UNCHANGED <<gate, gateKey, orphaned>>

Limit(r, k) == Incr(r, k) \/ FailOpen(r, k) \/ IncrUnacknowledged(r, k)

\* A crash between INCR and EXPIRE leaves the key without expiry.
LimitCrash ==
    /\ orphaned' = orphaned \cup {gateKey[r] : r \in {q \in Requests : gate[q] = "expire"}}
    /\ UNCHANGED <<hits, expiring, gateKey, admitted, uncounted, refused>>

--------------------------------------------------------------------------------
(* Properties                                                                 *)

\* In one window, the life of a key, at most maxRequests requests are counted and
\* let through, and one is refused only when that many have been counted before
\* it, those with a lost reply included.
WindowBound ==
    \A k \in Keys :
        /\ Cardinality(admitted[k]) <= MaxRequests
        /\ refused[k] # {} => Cardinality(admitted[k] \cup uncounted[k]) >= MaxRequests

\* A key without expiry, which would refuse its client for ever, is one whose
\* EXPIRE is about to be sent, or was lost with a command or with the process.
KeyExpires ==
    \A k \in Keys :
        hits[k] > 0 /\ k \notin expiring =>
            k \in orphaned \/ \E r \in Requests : gate[r] = "expire" /\ gateKey[r] = k
================================================================================
