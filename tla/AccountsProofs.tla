----------------------------- MODULE AccountsProofs ----------------------------
(******************************************************************************)
(* Proofs about Accounts and its RateLimit, for any finite set of requests,   *)
(* any addresses, passwords, roles and clients, any limit and any faults.     *)
(******************************************************************************)
EXTENDS Accounts, FiniteSetTheorems, TLAPS

\* The requests counted in the life of a key.
Counted(k) == admitted[k] \cup uncounted[k] \cup refused[k]

\* The counter is the number of requests counted, each of them once.
CountInv ==
    /\ \A k \in Keys : hits[k] = Cardinality(Counted(k))
    /\ \A r \in Requests : pc[r] = "start" /\ gate[r] = "outside" =>
          \A k \in Keys : r \notin Counted(k)

\* Who is to send EXPIRE knows the key.
ExpireInv == \A r \in Requests : gate[r] = "expire" => gateKey[r] \in Keys

LimitInv == LimitTypeOK /\ CountInv /\ ExpireInv /\ WindowBound /\ KeyExpires

AccountTypeOK ==
    /\ users \in [Requests -> Row \cup {None}]
    /\ tokens \subseteq Claims
    /\ pc \in [Requests -> {"start", "create", "update", "done"}]
    /\ account \in [Requests -> Requests]
    /\ draft \in [Requests -> Row \cup {None}]
    /\ answer \in [Requests -> Answers]
    /\ patch \in [Requests -> SUBSET Fields]
    /\ applied \in [Requests -> SUBSET Requests]
    /\ before \in [Requests -> SUBSET Requests]

\* A request inserts the row of its own id, once; it has an answer only at its end.
InsertInv ==
    \A r \in Requests :
        /\ pc[r] \in {"start", "create"} => users[r] = None
        /\ pc[r] = "create" => draft[r] \in Row
        /\ pc[r] # "done" => answer[r] = "none"

UniqueInv ==
    \A i, j \in Requests :
        users[i] # None /\ users[j] # None /\ users[i].email = users[j].email => i = j

ClaimInv ==
    /\ \A t \in tokens : /\ users[t.id] # None
                         /\ users[t.id].email = t.email
                         /\ users[t.id].role = t.role
    /\ \A r \in Requests : answer[r] = "admitted" =>
          users[account[r]] # None /\ users[account[r]].role = "admin"

\* The value of field f that update r wrote may have been overwritten: by an update of
\* that field, or by one that had read the row before r wrote it.
Raced(i, r, f) == \E w \in applied[i] \ {r} : f \in patch[w] \/ r \notin before[w]

\* The updates applied are over, and of an account that exists.
AppliedInv ==
    \A i \in Requests : /\ applied[i] # {} => users[i] # None
                        /\ \A r \in applied[i] : pc[r] = "done"

\* The copy a pending update will write back: its own fields, and in the others what
\* the updates it has seen put there, unless they were lost already.
DraftInv ==
    \A w \in Requests : pc[w] = "update" =>
        /\ users[account[w]] # None
        /\ draft[w] \in Row
        /\ before[w] \subseteq applied[account[w]]
        /\ \A f \in patch[w] : draft[w][f] = w
        /\ \A r \in before[w] : \A f \in patch[r] \ patch[w] :
              draft[w][f] = r \/ Raced(account[w], r, f)

AccountInv ==
    /\ AccountTypeOK
    /\ InsertInv
    /\ UniqueInv
    /\ ClaimInv
    /\ AppliedInv
    /\ DraftInv
    /\ PatchLostOnlyInRace

IndInv == LimitInv /\ AccountInv

--------------------------------------------------------------------------------
(* The limiter                                                                *)

\* The requests counted are finitely many.
LEMMA CountedFinite ==
    ASSUME LimitTypeOK, NEW k \in Keys
    PROVE  /\ Counted(k) \subseteq Requests /\ IsFiniteSet(Counted(k))
           /\ Cardinality(Counted(k)) \in Nat
           /\ Cardinality(Counted(k)) <= Cardinality(Requests)
           /\ IsFiniteSet(admitted[k]) /\ Cardinality(admitted[k]) \in Nat
           /\ Cardinality(admitted[k]) <= Cardinality(Counted(k))
           /\ IsFiniteSet(admitted[k] \cup uncounted[k])
           /\ Cardinality(admitted[k] \cup uncounted[k]) \in Nat
<1>1. Counted(k) \subseteq Requests /\ admitted[k] \cup uncounted[k] \subseteq Requests
  BY DEF LimitTypeOK, Counted
<1>2. admitted[k] \subseteq Counted(k)
  BY DEF Counted
<1>3. IsFiniteSet(Requests) /\ Cardinality(Requests) \in Nat
  BY RateLimitAssumption, FS_CardinalityType
<1>4. /\ IsFiniteSet(Counted(k)) /\ Cardinality(Counted(k)) <= Cardinality(Requests)
      /\ IsFiniteSet(admitted[k] \cup uncounted[k])
  BY <1>1, <1>3, FS_Subset
<1>5. IsFiniteSet(admitted[k]) /\ Cardinality(admitted[k]) <= Cardinality(Counted(k))
  BY <1>2, <1>4, FS_Subset
<1> QED
  BY <1>1, <1>4, <1>5, FS_CardinalityType

\* A step that leaves the limiter alone.
LEMMA LimitIdle ==
    ASSUME LimitInv, UNCHANGED limitVars,
           \A r \in Requests : pc'[r] = "start" => pc[r] = "start"
    PROVE  LimitInv'
<1>1. UNCHANGED <<hits, expiring, gate, gateKey, admitted, uncounted, refused, orphaned>>
  BY DEF limitVars
<1>2. LimitTypeOK' /\ ExpireInv' /\ WindowBound' /\ KeyExpires'
  BY <1>1 DEF LimitInv, LimitTypeOK, ExpireInv, WindowBound, KeyExpires
<1>3. CountInv'
  BY <1>1 DEF LimitInv, CountInv, Counted
<1> QED
  BY <1>2, <1>3 DEF LimitInv

\* A request is counted under a key: INCR, with or without its reply.
LEMMA CountsOne ==
    ASSUME LimitInv, NEW r \in Requests, NEW k \in Keys,
           pc[r] = "start", gate[r] = "outside",
           \A q \in Requests : pc'[q] = "start" => pc[q] = "start",
           hits' = [hits EXCEPT ![k] = hits[k] + 1],
           gate'[r] # "outside", \A q \in Requests \ {r} : gate'[q] = gate[q],
           Counted(k)' = Counted(k) \cup {r},
           \A m \in Keys \ {k} : Counted(m)' = Counted(m)
    PROVE  CountInv' /\ hits' \in [Keys -> 0 .. Cardinality(Requests)]
<1>1. /\ LimitTypeOK /\ CountInv /\ r \notin Counted(k) /\ hits[k] = Cardinality(Counted(k))
  BY DEF LimitInv, CountInv
<1>2. /\ IsFiniteSet(Counted(k)) /\ Counted(k) \cup {r} \subseteq Requests
      /\ Cardinality(Counted(k)) \in Nat
  BY <1>1, CountedFinite
<1>3. Cardinality(Counted(k)') = hits[k] + 1
  BY <1>1, <1>2, FS_AddElement
<1>4. IsFiniteSet(Requests) /\ Cardinality(Requests) \in Nat
  BY RateLimitAssumption, FS_CardinalityType
<1>5. hits[k] + 1 \in 0 .. Cardinality(Requests)
  <2>1. Cardinality(Counted(k) \cup {r}) <= Cardinality(Requests)
    BY <1>2, <1>4, FS_Subset
  <2> QED
    BY <1>1, <1>2, <1>3, <1>4, <2>1
<1>6. hits' \in [Keys -> 0 .. Cardinality(Requests)]
  BY <1>1, <1>5 DEF LimitTypeOK
<1>7. \A m \in Keys : hits'[m] = Cardinality(Counted(m)')
  BY <1>1, <1>3 DEF LimitTypeOK, CountInv
<1>8. ASSUME NEW q \in Requests, pc'[q] = "start", gate'[q] = "outside", NEW m \in Keys
      PROVE  q \notin Counted(m)'
  <2>1. q # r /\ pc[q] = "start" /\ gate[q] = "outside"
    BY <1>8
  <2> QED
    BY <1>1, <2>1 DEF CountInv
<1> QED
  BY <1>6, <1>7, <1>8 DEF CountInv

\* A request that INCR counts is in no key yet, and is let through below the limit only.
LEMMA IncrInv ==
    ASSUME LimitInv, NEW r \in Requests, NEW k \in Keys, pc[r] = "start", Incr(r, k),
           \A q \in Requests : pc'[q] = "start" => pc[q] = "start"
    PROVE  LimitInv'
<1> DEFINE count == hits[k] + 1
<1>1. LimitTypeOK /\ CountInv /\ ExpireInv /\ WindowBound /\ KeyExpires
  BY DEF LimitInv
<1>2. hits[k] \in Nat /\ MaxRequests \in Nat \ {0} /\ hits[k] = Cardinality(Counted(k))
  BY <1>1, RateLimitAssumption, CountedFinite DEF CountInv
<1>3. /\ gate[r] = "outside" /\ gateKey' = [gateKey EXCEPT ![r] = k]
      /\ hits' = [hits EXCEPT ![k] = count]
      /\ gate' = [gate EXCEPT ![r] = IF count = 1 THEN "expire"
                                     ELSE IF count > MaxRequests THEN "refused" ELSE "passed"]
      /\ admitted' = IF count > MaxRequests THEN admitted
                     ELSE [admitted EXCEPT ![k] = admitted[k] \cup {r}]
      /\ refused' = IF count > MaxRequests THEN [refused EXCEPT ![k] = refused[k] \cup {r}]
                    ELSE refused
      /\ UNCHANGED <<expiring, uncounted, orphaned>>
  BY DEF Incr, Enter, FirstHit, Exceeds
<1>4. /\ gate'[r] # "outside" /\ \A q \in Requests \ {r} : gate'[q] = gate[q]
      /\ gate' \in [Requests -> {"outside", "expire", "passed", "refused"}]
      /\ gateKey' \in [Requests -> Keys \cup {NoKey}]
      /\ gateKey'[r] = k /\ \A q \in Requests \ {r} : gateKey'[q] = gateKey[q]
      /\ count = 1 => gate'[r] = "expire"
  BY <1>1, <1>3 DEF LimitTypeOK
<1>5. /\ admitted' \in [Keys -> SUBSET Requests] /\ refused' \in [Keys -> SUBSET Requests]
      /\ \A m \in Keys \ {k} : admitted'[m] = admitted[m] /\ refused'[m] = refused[m]
  BY <1>1, <1>3 DEF LimitTypeOK
<1>6. /\ count > MaxRequests => admitted'[k] = admitted[k] /\ refused'[k] = refused[k] \cup {r}
      /\ ~(count > MaxRequests) => admitted'[k] = admitted[k] \cup {r}
                                     /\ refused'[k] = refused[k]
  BY <1>1, <1>3 DEF LimitTypeOK
<1>7. /\ Counted(k)' = Counted(k) \cup {r}
      /\ \A m \in Keys \ {k} : Counted(m)' = Counted(m)
  BY <1>3, <1>5, <1>6 DEF Counted
<1>8. CountInv' /\ hits' \in [Keys -> 0 .. Cardinality(Requests)]
  BY <1>3, <1>4, <1>7, CountsOne
<1>9. LimitTypeOK'
  BY <1>1, <1>3, <1>4, <1>5, <1>8 DEF LimitTypeOK
<1>10. ExpireInv'
  BY <1>1, <1>4 DEF ExpireInv
<1>11. WindowBound'
  <2>1. ASSUME NEW m \in Keys, m # k
        PROVE  /\ Cardinality(admitted'[m]) <= MaxRequests
               /\ refused'[m] # {} => Cardinality(admitted'[m] \cup uncounted'[m]) >= MaxRequests
    BY <1>1, <1>3, <1>5, <2>1 DEF WindowBound
  <2>2. CASE count > MaxRequests
    <3>1. hits[k] >= MaxRequests
      BY <1>2, <2>2
    <3>2. Cardinality(admitted[k] \cup uncounted[k]) >= MaxRequests
      <4>1. CASE refused[k] = {}
        <5>1. Counted(k) = admitted[k] \cup uncounted[k]
          BY <4>1 DEF Counted
        <5> QED
          BY <1>2, <3>1, <5>1
      <4>2. CASE refused[k] # {}
        BY <1>1, <4>2 DEF WindowBound
      <4> QED
        BY <4>1, <4>2
    <3>3. Cardinality(admitted[k]) <= MaxRequests
      BY <1>1 DEF WindowBound
    <3> QED
      BY <1>3, <1>6, <2>1, <2>2, <3>2, <3>3 DEF WindowBound
  <2>3. CASE ~(count > MaxRequests)
    <3>1. /\ IsFiniteSet(admitted[k]) /\ Cardinality(admitted[k]) \in Nat
          /\ Cardinality(admitted[k]) <= hits[k]
      BY <1>1, <1>2, CountedFinite
    <3>2. r \notin admitted[k]
      BY <1>1, <1>3 DEF CountInv, Counted
    <3>3. Cardinality(admitted'[k]) <= MaxRequests
      <4>1. Cardinality(admitted[k] \cup {r}) = Cardinality(admitted[k]) + 1
        BY <3>1, <3>2, FS_AddElement
      <4>2. admitted'[k] = admitted[k] \cup {r}
        BY <1>6, <2>3
      <4>3. hits[k] + 1 <= MaxRequests
        BY <1>2, <2>3
      <4> QED
        BY <1>2, <3>1, <4>1, <4>2, <4>3
    <3>4. refused'[k] # {} => Cardinality(admitted'[k] \cup uncounted'[k]) >= MaxRequests
      <4>1. SUFFICES ASSUME refused[k] # {}
                     PROVE  Cardinality(admitted'[k] \cup uncounted'[k]) >= MaxRequests
        BY <1>6, <2>3
      <4>2. /\ Cardinality(admitted[k] \cup uncounted[k]) >= MaxRequests
            /\ Cardinality(admitted[k] \cup uncounted[k]) \in Nat
        BY <1>1, <4>1, CountedFinite DEF WindowBound
      <4>3. /\ admitted'[k] \cup uncounted'[k] \subseteq Requests
            /\ admitted[k] \cup uncounted[k] \subseteq admitted'[k] \cup uncounted'[k]
        BY <1>3, <1>6, <1>9, <2>3 DEF LimitTypeOK
      <4>4. /\ IsFiniteSet(admitted'[k] \cup uncounted'[k])
            /\ Cardinality(admitted'[k] \cup uncounted'[k]) \in Nat
        BY <4>3, RateLimitAssumption, FS_Subset, FS_CardinalityType
      <4>5. Cardinality(admitted[k] \cup uncounted[k])
              <= Cardinality(admitted'[k] \cup uncounted'[k])
        BY <4>3, <4>4, FS_Subset
      <4> QED
        BY <1>2, <4>2, <4>4, <4>5
    <3> QED
      BY <2>1, <3>3, <3>4 DEF WindowBound
  <2> QED
    BY <2>2, <2>3
<1>12. KeyExpires'
  <2>1. SUFFICES ASSUME NEW m \in Keys, hits'[m] > 0, m \notin expiring
                 PROVE  \/ m \in orphaned
                        \/ \E q \in Requests : gate'[q] = "expire" /\ gateKey'[q] = m
    BY <1>3 DEF KeyExpires
  <2>2. CASE m = k /\ hits[k] = 0
    BY <1>4, <2>2
  <2>3. CASE ~(m = k /\ hits[k] = 0)
    <3>1. hits[m] > 0
      BY <1>1, <1>2, <1>3, <2>1, <2>3 DEF LimitTypeOK
    <3>2. CASE m \in orphaned
      BY <3>2
    <3>3. CASE \E q \in Requests : gate[q] = "expire" /\ gateKey[q] = m
      BY <1>3, <1>4, <3>3
    <3> QED
      BY <1>1, <2>1, <3>1, <3>2, <3>3 DEF KeyExpires
  <2> QED
    BY <2>2, <2>3
<1> QED
  BY <1>8, <1>9, <1>10, <1>11, <1>12 DEF LimitInv

\* An INCR whose reply is lost counts a request that fails open.
LEMMA IncrLostInv ==
    ASSUME LimitInv, NEW r \in Requests, NEW k \in Keys, pc[r] = "start",
           IncrUnacknowledged(r, k),
           \A q \in Requests : pc'[q] = "start" => pc[q] = "start"
    PROVE  LimitInv'
<1>1. LimitTypeOK /\ CountInv /\ ExpireInv /\ WindowBound /\ KeyExpires
  BY DEF LimitInv
<1>2. /\ gate[r] = "outside" /\ gateKey' = [gateKey EXCEPT ![r] = k]
      /\ hits' = [hits EXCEPT ![k] = hits[k] + 1]
      /\ gate' = [gate EXCEPT ![r] = "passed"]
      /\ uncounted' = [uncounted EXCEPT ![k] = uncounted[k] \cup {r}]
      /\ orphaned' = IF hits[k] = 0 THEN orphaned \cup {k} ELSE orphaned
      /\ UNCHANGED <<expiring, admitted, refused>>
  BY DEF IncrUnacknowledged, Enter
<1>3. /\ gate'[r] = "passed" /\ \A q \in Requests \ {r} : gate'[q] = gate[q]
      /\ gateKey'[r] = k /\ \A q \in Requests \ {r} : gateKey'[q] = gateKey[q]
      /\ uncounted'[k] = uncounted[k] \cup {r}
      /\ \A m \in Keys \ {k} : uncounted'[m] = uncounted[m]
  BY <1>1, <1>2 DEF LimitTypeOK
<1>4. /\ Counted(k)' = Counted(k) \cup {r}
      /\ \A m \in Keys \ {k} : Counted(m)' = Counted(m)
  BY <1>2, <1>3 DEF Counted
<1>5. CountInv' /\ hits' \in [Keys -> 0 .. Cardinality(Requests)]
  BY <1>2, <1>3, <1>4, CountsOne
<1>6. LimitTypeOK'
  BY <1>1, <1>2, <1>5 DEF LimitTypeOK
<1>7. ExpireInv'
  BY <1>1, <1>3 DEF ExpireInv
<1>8. WindowBound'
  <2>1. SUFFICES ASSUME NEW m \in Keys, refused[m] # {}
                 PROVE  Cardinality(admitted[m] \cup uncounted'[m]) >= MaxRequests
    BY <1>1, <1>2 DEF WindowBound
  <2>2. /\ Cardinality(admitted[m] \cup uncounted[m]) >= MaxRequests
        /\ Cardinality(admitted[m] \cup uncounted[m]) \in Nat /\ MaxRequests \in Nat
    BY <1>1, <2>1, CountedFinite, RateLimitAssumption DEF WindowBound
  <2>3. /\ admitted[m] \cup uncounted'[m] \subseteq Requests
        /\ admitted[m] \cup uncounted[m] \subseteq admitted[m] \cup uncounted'[m]
    BY <1>1, <1>3 DEF LimitTypeOK
  <2>4. /\ IsFiniteSet(admitted[m] \cup uncounted'[m])
        /\ Cardinality(admitted[m] \cup uncounted'[m]) \in Nat
    BY <2>3, RateLimitAssumption, FS_Subset, FS_CardinalityType
  <2>5. Cardinality(admitted[m] \cup uncounted[m])
          <= Cardinality(admitted[m] \cup uncounted'[m])
    BY <2>3, <2>4, FS_Subset
  <2> QED
    BY <2>2, <2>4, <2>5
<1>9. KeyExpires'
  <2>1. SUFFICES ASSUME NEW m \in Keys, hits'[m] > 0, m \notin expiring, m \notin orphaned'
                 PROVE  \E q \in Requests : gate'[q] = "expire" /\ gateKey'[q] = m
    BY <1>2 DEF KeyExpires
  <2>2. hits[m] > 0 /\ m \notin orphaned
    BY <1>1, <1>2, <2>1 DEF LimitTypeOK
  <2>3. PICK q \in Requests : gate[q] = "expire" /\ gateKey[q] = m
    BY <1>1, <2>1, <2>2 DEF KeyExpires
  <2>4. q # r
    BY <1>2, <2>3
  <2> QED
    BY <1>3, <2>3, <2>4
<1> QED
  BY <1>5, <1>6, <1>7, <1>8, <1>9 DEF LimitInv

\* A request that was not counted disturbs no count.
LEMMA FailOpenInv ==
    ASSUME LimitInv, NEW r \in Requests, NEW k \in Keys, FailOpen(r, k),
           \A q \in Requests : pc'[q] = "start" => pc[q] = "start"
    PROVE  LimitInv'
<1>1. LimitTypeOK /\ CountInv /\ ExpireInv /\ WindowBound /\ KeyExpires
  BY DEF LimitInv
<1>2. /\ gate[r] = "outside" /\ gateKey' = [gateKey EXCEPT ![r] = k]
      /\ gate' = [gate EXCEPT ![r] = "passed"]
      /\ UNCHANGED <<hits, expiring, admitted, uncounted, refused, orphaned>>
  BY DEF FailOpen, Enter
<1>3. /\ gate'[r] = "passed" /\ \A q \in Requests \ {r} : gate'[q] = gate[q]
      /\ \A q \in Requests \ {r} : gateKey'[q] = gateKey[q]
  BY <1>1, <1>2 DEF LimitTypeOK
<1>4. LimitTypeOK'
  BY <1>1, <1>2 DEF LimitTypeOK
<1>5. CountInv' /\ ExpireInv'
  BY <1>1, <1>2, <1>3 DEF CountInv, Counted, ExpireInv
<1>6. WindowBound' /\ KeyExpires'
  BY <1>1, <1>2, <1>3 DEF WindowBound, KeyExpires
<1> QED
  BY <1>4, <1>5, <1>6 DEF LimitInv

\* EXPIRE changes no count.
LEMMA LimitedExpireInv ==
    ASSUME LimitInv, NEW r \in Requests, Expire(r), UNCHANGED pc
    PROVE  LimitInv'
<1>1. LimitTypeOK /\ CountInv /\ ExpireInv /\ WindowBound /\ KeyExpires
  BY DEF LimitInv
<1>2. /\ gate[r] = "expire" /\ gate' = [gate EXCEPT ![r] = "passed"]
      /\ \/ expiring' = expiring \cup {gateKey[r]} /\ UNCHANGED orphaned
         \/ orphaned' = orphaned \cup {gateKey[r]} /\ UNCHANGED expiring
      /\ UNCHANGED <<hits, gateKey, admitted, uncounted, refused>>
  BY DEF Expire
<1>3. /\ gate'[r] = "passed" /\ \A q \in Requests \ {r} : gate'[q] = gate[q]
      /\ gateKey[r] \in Keys
  BY <1>1, <1>2 DEF LimitTypeOK, ExpireInv
<1>4. LimitTypeOK'
  BY <1>1, <1>2, <1>3 DEF LimitTypeOK
<1>5. CountInv' /\ ExpireInv' /\ WindowBound'
  BY <1>1, <1>2, <1>3 DEF CountInv, Counted, ExpireInv, WindowBound
<1>6. KeyExpires'
  <2>1. SUFFICES ASSUME NEW m \in Keys, hits[m] > 0, m \notin expiring', m \notin orphaned'
                 PROVE  \E q \in Requests : gate'[q] = "expire" /\ gateKey[q] = m
    BY <1>2 DEF KeyExpires
  <2>2. m \notin expiring /\ m \notin orphaned /\ m # gateKey[r]
    BY <1>2, <2>1
  <2>3. PICK q \in Requests : gate[q] = "expire" /\ gateKey[q] = m
    BY <1>1, <2>1, <2>2 DEF KeyExpires
  <2> QED
    BY <1>3, <2>2, <2>3
<1> QED
  BY <1>4, <1>5, <1>6 DEF LimitInv

\* The end of a window empties its counter.
LEMMA WindowEndsInv ==
    ASSUME LimitInv, NEW k \in Keys, WindowEnds(k), UNCHANGED pc
    PROVE  LimitInv'
<1>1. LimitTypeOK /\ CountInv /\ ExpireInv /\ WindowBound /\ KeyExpires
  BY DEF LimitInv
<1>2. /\ hits' = [hits EXCEPT ![k] = 0] /\ expiring' = expiring \ {k}
      /\ admitted' = [admitted EXCEPT ![k] = {}]
      /\ uncounted' = [uncounted EXCEPT ![k] = {}]
      /\ refused' = [refused EXCEPT ![k] = {}]
      /\ UNCHANGED <<gate, gateKey, orphaned>>
  BY DEF WindowEnds
<1>3. /\ hits'[k] = 0 /\ Counted(k)' = {} /\ admitted'[k] = {} /\ refused'[k] = {}
      /\ \A m \in Keys \ {k} : /\ hits'[m] = hits[m] /\ Counted(m)' = Counted(m)
                               /\ admitted'[m] = admitted[m] /\ refused'[m] = refused[m]
                               /\ uncounted'[m] = uncounted[m]
  BY <1>1, <1>2 DEF LimitTypeOK, Counted
<1>4. Cardinality({}) = 0 /\ Cardinality(Requests) \in Nat /\ MaxRequests \in Nat
  BY RateLimitAssumption, FS_EmptySet, FS_CardinalityType
<1>5. LimitTypeOK'
  BY <1>1, <1>2, <1>4 DEF LimitTypeOK
<1>6. CountInv' /\ ExpireInv'
  BY <1>1, <1>2, <1>3, <1>4 DEF CountInv, ExpireInv
<1>7. WindowBound' /\ KeyExpires'
  BY <1>1, <1>2, <1>3, <1>4 DEF WindowBound, KeyExpires
<1> QED
  BY <1>5, <1>6, <1>7 DEF LimitInv

\* A crash between INCR and EXPIRE.
LEMMA LimitCrashInv ==
    ASSUME LimitInv, LimitCrash,
           gate' \in [Requests -> {"outside", "expire", "passed", "refused"}],
           \A r \in Requests : \/ gate'[r] = gate[r] /\ pc'[r] = pc[r]
                               \/ gate'[r] = "outside" /\ pc'[r] # "start"
    PROVE  LimitInv'
<1>1. LimitTypeOK /\ CountInv /\ ExpireInv /\ WindowBound /\ KeyExpires
  BY DEF LimitInv
<1>2. /\ orphaned' = orphaned \cup {gateKey[r] : r \in {q \in Requests : gate[q] = "expire"}}
      /\ UNCHANGED <<hits, expiring, gateKey, admitted, uncounted, refused>>
  BY DEF LimitCrash
<1>3. orphaned' \subseteq Keys
  BY <1>1, <1>2 DEF LimitTypeOK, ExpireInv
<1>4. LimitTypeOK'
  BY <1>1, <1>2, <1>3 DEF LimitTypeOK
<1>5. CountInv' /\ ExpireInv' /\ WindowBound'
  BY <1>1, <1>2 DEF CountInv, Counted, ExpireInv, WindowBound
<1>6. KeyExpires'
  BY <1>1, <1>2 DEF KeyExpires
<1> QED
  BY <1>4, <1>5, <1>6 DEF LimitInv

--------------------------------------------------------------------------------
(* The accounts                                                               *)

\* What Answer and Goto do to a request that is under way.
LEMMA AnswerStep ==
    ASSUME AccountTypeOK, NEW r \in Requests, NEW a \in Answers, Answer(r, a)
    PROVE  /\ pc' \in [Requests -> {"start", "create", "update", "done"}]
           /\ answer' \in [Requests -> Answers]
           /\ pc'[r] = "done" /\ answer'[r] = a
           /\ \A q \in Requests \ {r} : pc'[q] = pc[q] /\ answer'[q] = answer[q]
  BY DEF AccountTypeOK, Answer

\* Goto moves one request on and answers nobody.
LEMMA GotoStep ==
    ASSUME AccountTypeOK, NEW r \in Requests, NEW s \in {"create", "update"}, Goto(r, s)
    PROVE  /\ pc' \in [Requests -> {"start", "create", "update", "done"}]
           /\ answer' = answer
           /\ pc'[r] = s
           /\ \A q \in Requests \ {r} : pc'[q] = pc[q]
  BY DEF AccountTypeOK, Goto

\* A step that ends requests, none of them admitted to the administrators' route, and
\* changes nothing else.
LEMMA AccountIdle ==
    ASSUME AccountInv, UNCHANGED <<users, tokens, account, draft, patch, applied, before>>,
           pc' \in [Requests -> {"start", "create", "update", "done"}],
           answer' \in [Requests -> Answers],
           \A r \in Requests : \/ pc'[r] = pc[r] /\ answer'[r] = answer[r]
                               \/ pc'[r] = "done" /\ answer'[r] # "admitted"
    PROVE  AccountInv'
<1>1. AccountTypeOK' /\ InsertInv' /\ UniqueInv'
  BY DEF AccountInv, AccountTypeOK, InsertInv, UniqueInv
<1>2. ClaimInv' /\ AppliedInv'
  BY DEF AccountInv, AccountTypeOK, ClaimInv, AppliedInv
<1>3. DraftInv' /\ PatchLostOnlyInRace'
  BY DEF AccountInv, DraftInv, Raced, PatchLostOnlyInRace
<1> QED
  BY <1>1, <1>2, <1>3 DEF AccountInv

\* A request other than an update ends with an answer.
LEMMA AnswerInv ==
    ASSUME AccountInv, NEW r \in Requests, NEW a \in Answers \ {"admitted"}, Answer(r, a),
           UNCHANGED <<users, tokens, account, draft, patch, applied, before>>
    PROVE  AccountInv'
<1>1. /\ pc' \in [Requests -> {"start", "create", "update", "done"}]
      /\ answer' \in [Requests -> Answers]
      /\ pc'[r] = "done" /\ answer'[r] = a
      /\ \A q \in Requests \ {r} : pc'[q] = pc[q] /\ answer'[q] = answer[q]
  BY AnswerStep DEF AccountInv
<1> QED
  BY <1>1, AccountIdle

\* Register and GoogleRegister have built the user to insert.
LEMMA DraftsUser ==
    ASSUME AccountInv, NEW r \in Requests, pc[r] = "start", NEW d \in Row,
           draft' = [draft EXCEPT ![r] = d], Goto(r, "create"),
           UNCHANGED <<users, tokens, account, patch, applied, before>>
    PROVE  AccountInv'
<1>1. AccountTypeOK /\ InsertInv
  BY DEF AccountInv
<1>2. /\ pc' \in [Requests -> {"start", "create", "update", "done"}] /\ answer' = answer
      /\ pc'[r] = "create" /\ \A q \in Requests \ {r} : pc'[q] = pc[q]
      /\ draft'[r] = d /\ \A q \in Requests \ {r} : draft'[q] = draft[q]
      /\ draft' \in [Requests -> Row \cup {None}]
  BY <1>1, GotoStep DEF AccountTypeOK
<1>3. AccountTypeOK' /\ InsertInv' /\ UniqueInv'
  BY <1>1, <1>2 DEF AccountInv, AccountTypeOK, InsertInv, UniqueInv
<1>4. ClaimInv' /\ AppliedInv'
  BY <1>2 DEF AccountInv, AccountTypeOK, ClaimInv, AppliedInv
<1>5. DraftInv'
  BY <1>2 DEF AccountInv, DraftInv, Raced
<1>6. PatchLostOnlyInRace'
  BY DEF AccountInv, PatchLostOnlyInRace
<1> QED
  BY <1>3, <1>4, <1>5, <1>6 DEF AccountInv

\* Login and GoogleLogin: a token for a stored account.
LEMMA IssuesToken ==
    ASSUME AccountInv, NEW r \in Requests, NEW i \in Requests, users[i] # None,
           GenerateToken(i, users[i]), Answer(r, "ok"),
           UNCHANGED <<users, account, draft, patch, applied, before>>
    PROVE  AccountInv'
<1> DEFINE t == [id |-> i, email |-> users[i].email, role |-> users[i].role]
<1>1. AccountTypeOK
  BY DEF AccountInv
<1>2. /\ pc' \in [Requests -> {"start", "create", "update", "done"}]
      /\ answer' \in [Requests -> Answers]
      /\ pc'[r] = "done" /\ answer'[r] = "ok"
      /\ \A q \in Requests \ {r} : pc'[q] = pc[q] /\ answer'[q] = answer[q]
  BY <1>1, AnswerStep DEF Answers
<1>3. users[i] \in Row /\ tokens' = tokens \cup {t}
  BY <1>1 DEF AccountTypeOK, GenerateToken
<1>4. t \in Claims /\ t.id = i /\ t.email = users[i].email /\ t.role = users[i].role
  BY <1>3 DEF Row, Claims
<1> HIDE DEF t
<1>5. AccountTypeOK' /\ InsertInv' /\ UniqueInv'
  BY <1>1, <1>2, <1>3, <1>4 DEF AccountInv, AccountTypeOK, InsertInv, UniqueInv
<1>6. ClaimInv' /\ AppliedInv'
  BY <1>2, <1>3, <1>4 DEF AccountInv, AccountTypeOK, ClaimInv, AppliedInv
<1>7. DraftInv' /\ PatchLostOnlyInRace'
  BY <1>2 DEF AccountInv, DraftInv, Raced, PatchLostOnlyInRace
<1> QED
  BY <1>5, <1>6, <1>7 DEF AccountInv

\* The INSERT of a free address, with or without a token.
LEMMA InsertsUser ==
    ASSUME AccountInv, NEW r \in Requests, InsertUser(r),
           NEW a \in {"ok", "error"}, Answer(r, a),
           GenerateToken(r, draft[r]) \/ UNCHANGED tokens
    PROVE  AccountInv'
<1> DEFINE t == [id |-> r, email |-> draft[r].email, role |-> draft[r].role]
<1>1. /\ AccountTypeOK /\ InsertInv /\ UniqueInv /\ ClaimInv /\ AppliedInv
      /\ pc[r] = "create" /\ draft[r] \in Row /\ users[r] = None
  BY DEF AccountInv, InsertUser, InsertInv
<1>2. /\ pc' \in [Requests -> {"start", "create", "update", "done"}]
      /\ answer' \in [Requests -> Answers]
      /\ pc'[r] = "done" /\ answer'[r] = a
      /\ \A q \in Requests \ {r} : pc'[q] = pc[q] /\ answer'[q] = answer[q]
  BY <1>1, AnswerStep DEF Answers
<1>3. /\ users' = [users EXCEPT ![r] = draft[r]]
      /\ UNCHANGED <<account, draft, patch, applied, before>>
      /\ \A i \in Requests : users[i] # None => users[i].email # draft[r].email
  BY DEF InsertUser, EmailIsFree, GetByEmail
<1>4. /\ users' \in [Requests -> Row \cup {None}]
      /\ users'[r] = draft[r] /\ users'[r] # None
      /\ \A i \in Requests \ {r} : users'[i] = users[i]
  BY <1>1, <1>3, AccountsAssumption DEF AccountTypeOK
<1>5. /\ t \in Claims /\ t.id = r /\ t.email = draft[r].email /\ t.role = draft[r].role
      /\ tokens' = tokens \/ tokens' = tokens \cup {t}
  BY <1>1 DEF Row, Claims, GenerateToken
<1> HIDE DEF t
<1>6. AccountTypeOK' /\ InsertInv'
  BY <1>1, <1>2, <1>3, <1>4, <1>5 DEF AccountTypeOK, InsertInv
<1>7. UniqueInv'
  BY <1>1, <1>3, <1>4 DEF UniqueInv
<1>8. ClaimInv'
  <2>1. \A u \in tokens : u.id \in Requests /\ u.id # r
    BY <1>1 DEF AccountTypeOK, Claims, ClaimInv
  <2>2. \A q \in Requests : answer'[q] = "admitted" => account[q] \in Requests \ {r}
    BY <1>1, <1>2 DEF AccountTypeOK, ClaimInv
  <2> QED
    BY <1>1, <1>2, <1>3, <1>4, <1>5, <2>1, <2>2 DEF ClaimInv
<1>9. AppliedInv'
  BY <1>1, <1>2, <1>3, <1>4 DEF AccountTypeOK, AppliedInv
<1>10. DraftInv'
  <2>1. SUFFICES ASSUME NEW w \in Requests, pc'[w] = "update"
                 PROVE  users'[account[w]] # None
    BY <1>2, <1>3 DEF AccountInv, DraftInv, Raced
  <2> QED
    BY <1>1, <1>2, <1>4, <2>1 DEF AccountInv, AccountTypeOK, DraftInv
<1>11. PatchLostOnlyInRace'
  <2>1. \A i \in Requests : applied[i] # {} => users'[i] = users[i]
    BY <1>1, <1>4 DEF AppliedInv
  <2> QED
    BY <1>3, <2>1 DEF AccountInv, PatchLostOnlyInRace
<1> QED
  BY <1>6, <1>7, <1>8, <1>9, <1>10, <1>11 DEF AccountInv

\* RequireRole lets a request in, or not, on the role its token claims.
LEMMA ChecksRole ==
    ASSUME AccountInv, NEW r \in Requests, RequireRole(r)
    PROVE  AccountInv'
<1>1. AccountTypeOK /\ pc[r] = "start" /\ ClaimInv
  BY DEF AccountInv, RequireRole, InOpenRoute
<1>2. PICK t \in tokens :
        /\ account' = [account EXCEPT ![r] = t.id]
        /\ Answer(r, IF t.role = "admin" THEN "admitted" ELSE "forbidden")
  BY DEF RequireRole
<1>3. /\ t.id \in Requests /\ users[t.id] # None /\ users[t.id].role = t.role
      /\ UNCHANGED <<users, tokens, draft, patch, applied, before>>
  BY <1>1 DEF AccountTypeOK, Claims, ClaimInv, RequireRole
<1>4. /\ pc' \in [Requests -> {"start", "create", "update", "done"}]
      /\ answer' \in [Requests -> Answers]
      /\ pc'[r] = "done"
      /\ answer'[r] = IF t.role = "admin" THEN "admitted" ELSE "forbidden"
      /\ \A q \in Requests \ {r} : pc'[q] = pc[q] /\ answer'[q] = answer[q]
  BY <1>1, <1>2, AnswerStep DEF Answers
<1>5. /\ account' \in [Requests -> Requests] /\ account'[r] = t.id
      /\ \A q \in Requests \ {r} : account'[q] = account[q]
  BY <1>1, <1>2, <1>3 DEF AccountTypeOK
<1>6. AccountTypeOK' /\ InsertInv' /\ UniqueInv'
  BY <1>1, <1>3, <1>4, <1>5 DEF AccountInv, AccountTypeOK, InsertInv, UniqueInv
<1>7. ClaimInv' /\ AppliedInv'
  <2>1. \A q \in Requests : answer'[q] = "admitted" =>
          users[account'[q]] # None /\ users[account'[q]].role = "admin"
    BY <1>1, <1>3, <1>4, <1>5 DEF ClaimInv
  <2>2. ClaimInv'
    BY <1>1, <1>3, <2>1 DEF ClaimInv
  <2> QED
    BY <1>1, <1>3, <1>4, <2>2 DEF AccountInv, AccountTypeOK, AppliedInv
<1>8. DraftInv' /\ PatchLostOnlyInRace'
  BY <1>3, <1>4, <1>5 DEF AccountInv, DraftInv, Raced, PatchLostOnlyInRace
<1> QED
  BY <1>6, <1>7, <1>8 DEF AccountInv

\* A patched row has the fields of the patch, and the others as they were.
LEMMA PatchedRow ==
    ASSUME NEW row \in Row, NEW fields \in SUBSET Fields, NEW r \in Requests
    PROVE  /\ Patched(row, fields, r) \in Row
           /\ \A f \in fields : Patched(row, fields, r)[f] = r
           /\ \A f \in Fields \ fields : Patched(row, fields, r)[f] = row[f]
  BY DEF Row, Fields, Patched

\* UpdateProfile's read: its copy holds what the applied updates put there.
LEMMA ReadsProfile ==
    ASSUME AccountInv, NEW r \in Requests, UpdateProfile(r)
    PROVE  AccountInv'
<1>1. AccountTypeOK /\ pc[r] = "start" /\ AppliedInv /\ InsertInv
  BY DEF AccountInv, UpdateProfile, InOpenRoute
<1>2. PICK t \in tokens, fields \in (SUBSET Fields) \ {{}} :
        /\ users[t.id] # None
        /\ account' = [account EXCEPT ![r] = t.id]
        /\ draft' = [draft EXCEPT ![r] = Patched(users[t.id], fields, r)]
        /\ patch' = [patch EXCEPT ![r] = fields]
        /\ before' = [before EXCEPT ![r] = applied[t.id]]
  BY DEF UpdateProfile
<1>3. PICK i \in Requests : i = t.id
  BY <1>1 DEF AccountTypeOK, Claims
<1>4. PICK d : d = Patched(users[i], fields, r)
  OBVIOUS
<1>5. /\ users[i] \in Row /\ users[i] # None /\ d \in Row
      /\ \A f \in fields : d[f] = r
      /\ \A f \in Fields \ fields : d[f] = users[i][f]
  <2>1. users[i] \in Row /\ users[i] # None /\ fields \in SUBSET Fields
    BY <1>1, <1>2, <1>3 DEF AccountTypeOK
  <2>2. /\ Patched(users[i], fields, r) \in Row
        /\ \A f \in fields : Patched(users[i], fields, r)[f] = r
        /\ \A f \in Fields \ fields : Patched(users[i], fields, r)[f] = users[i][f]
    BY <2>1, PatchedRow, Zenon
  <2> QED
    BY <1>4, <2>1, <2>2
<1>6. /\ pc' \in [Requests -> {"start", "create", "update", "done"}] /\ answer' = answer
      /\ pc'[r] = "update" /\ \A q \in Requests \ {r} : pc'[q] = pc[q]
      /\ UNCHANGED <<users, tokens, applied>>
  BY <1>1, GotoStep DEF UpdateProfile
<1>7. /\ account' \in [Requests -> Requests] /\ draft' \in [Requests -> Row \cup {None}]
      /\ patch' \in [Requests -> SUBSET Fields] /\ before' \in [Requests -> SUBSET Requests]
      /\ account'[r] = i /\ draft'[r] = d /\ patch'[r] = fields /\ before'[r] = applied[i]
  BY <1>1, <1>2, <1>3, <1>4, <1>5 DEF AccountTypeOK
<1>8. \A q \in Requests \ {r} : /\ account'[q] = account[q] /\ draft'[q] = draft[q]
                                /\ patch'[q] = patch[q] /\ before'[q] = before[q]
  BY <1>1, <1>2 DEF AccountTypeOK
<1>9. \A j \in Requests : \A q \in applied[j] : q \in Requests \ {r}
  BY <1>1 DEF AccountTypeOK, AppliedInv
<1>10. \A j \in Requests : \A q \in applied[j] : \A f \in Fields :
          Raced(j, q, f) => Raced(j, q, f)'
  BY <1>6, <1>8, <1>9 DEF Raced
<1>11. AccountTypeOK' /\ InsertInv' /\ UniqueInv'
  BY <1>1, <1>6, <1>7, <1>8 DEF AccountInv, AccountTypeOK, InsertInv, UniqueInv
<1>12. ClaimInv' /\ AppliedInv'
  <2>1. answer'[r] # "admitted"
    BY <1>1, <1>6 DEF InsertInv
  <2>2. ClaimInv'
    BY <1>6, <1>8, <2>1 DEF AccountInv, ClaimInv
  <2> QED
    BY <1>1, <1>6, <1>9, <2>2 DEF AppliedInv
<1>13. PatchLostOnlyInRace'
  <2>1. SUFFICES ASSUME NEW j \in Requests, NEW q \in applied[j], NEW f \in patch[q]
                 PROVE  users[j][f] = q \/ Raced(j, q, f)'
    BY <1>6, <1>8, <1>9 DEF PatchLostOnlyInRace, Raced
  <2>2. f \in Fields /\ (users[j][f] = q \/ Raced(j, q, f))
    BY <1>1, <1>9 DEF AccountInv, AccountTypeOK, PatchLostOnlyInRace, Raced
  <2> QED
    BY <1>10, <2>2
<1>14. DraftInv'
  <2>1. ASSUME NEW w \in Requests, pc'[w] = "update", w # r
        PROVE  /\ users'[account'[w]] # None /\ draft'[w] \in Row
               /\ before'[w] \subseteq applied'[account'[w]]
               /\ \A f \in patch'[w] : draft'[w][f] = w
               /\ \A q \in before'[w] : \A f \in patch'[q] \ patch'[w] :
                    draft'[w][f] = q \/ Raced(account[w], q, f)'
    <3>1. PICK j \in Requests : j = account[w] /\ j = account'[w]
      BY <1>1, <1>8, <2>1 DEF AccountTypeOK
    <3>2. /\ pc[w] = "update" /\ users[j] # None /\ draft[w] \in Row
          /\ before[w] \subseteq applied[j]
          /\ \A f \in patch[w] : draft[w][f] = w
      BY <1>6, <2>1, <3>1 DEF AccountInv, DraftInv
    <3>3. ASSUME NEW q \in before[w], NEW f \in patch[q] \ patch[w]
          PROVE  draft[w][f] = q \/ Raced(j, q, f)'
      <4>1. draft[w][f] = q \/ Raced(j, q, f)
        BY <3>1, <3>2 DEF AccountInv, DraftInv, Raced
      <4>2. q \in applied[j] /\ f \in Fields
        BY <1>1, <1>9, <3>2 DEF AccountTypeOK
      <4> QED
        BY <1>10, <4>1, <4>2
    <3>4. \A q \in before[w] : q \in Requests \ {r}
      BY <1>9, <3>2
    <3> QED
      BY <1>6, <1>8, <2>1, <3>1, <3>2, <3>3, <3>4
  <2>2. ASSUME NEW q \in applied[i], NEW f \in patch'[q] \ fields
        PROVE  d[f] = q \/ Raced(i, q, f)'
    <3>1. f \in patch[q] /\ f \in Fields \ fields
      BY <1>1, <1>8, <1>9 DEF AccountTypeOK
    <3>2. users[i][f] = q \/ Raced(i, q, f)
      BY <3>1 DEF AccountInv, PatchLostOnlyInRace, Raced
    <3> QED
      BY <1>5, <1>10, <3>1, <3>2
  <2> QED
    BY <1>5, <1>6, <1>7, <1>8, <2>1, <2>2 DEF DraftInv, Raced
<1> QED
  BY <1>11, <1>12, <1>13, <1>14 DEF AccountInv

\* The UPDATE writes the names of the copy and nothing else.
LEMMA WrittenRow ==
    ASSUME AccountTypeOK, NEW i \in Requests, users[i] \in Row, NEW d \in Row,
           users' = [users EXCEPT ![i].first = d.first, ![i].last = d.last]
    PROVE  /\ users' \in [Requests -> Row \cup {None}] /\ users'[i] \in Row
           /\ users'[i].email = users[i].email /\ users'[i].role = users[i].role
           /\ \A f \in Fields : users'[i][f] = d[f]
           /\ \A j \in Requests \ {i} : users'[j] = users[j]
<1>1. users'[i] = [users[i] EXCEPT !.first = d.first, !.last = d.last]
  BY DEF AccountTypeOK
<1>2. users'[i] \in Row
  <2>1. PICK u \in Row : u = users[i]
    OBVIOUS
  <2>2. [u EXCEPT !.first = d.first, !.last = d.last] \in Row
    BY DEF Row
  <2> QED
    BY <1>1, <2>1, <2>2
<1>3. users'[i].email = users[i].email /\ users'[i].role = users[i].role
  BY <1>1 DEF Row
<1>4. \A f \in Fields : users'[i][f] = d[f]
  BY <1>1 DEF Row, Fields
<1>5. \A j \in Requests \ {i} : users'[j] = users[j]
  BY DEF AccountTypeOK
<1>6. users' \in [Requests -> Row \cup {None}]
  <2>1. users' = [j \in Requests |-> users'[j]]
    BY DEF AccountTypeOK
  <2> QED
    BY <1>2, <1>5, <2>1 DEF AccountTypeOK
<1> QED
  BY <1>2, <1>3, <1>4, <1>5, <1>6

\* UpdateProfile's write: a field it overwrites was raced for.
LEMMA WritesProfile ==
    ASSUME AccountInv, NEW w \in Requests, UpdateUser(w),
           NEW a \in {"ok", "error"}, Answer(w, a)
    PROVE  AccountInv'
<1>1. /\ AccountTypeOK /\ InsertInv /\ UniqueInv /\ ClaimInv /\ AppliedInv
      /\ pc[w] = "update"
  BY DEF AccountInv, UpdateUser
<1>2. PICK i \in Requests : i = account[w]
  BY <1>1 DEF AccountTypeOK
<1>3. /\ users[i] # None /\ users[i] \in Row /\ draft[w] \in Row
      /\ \A f \in patch[w] : draft[w][f] = w
      /\ \A r \in before[w] : \A f \in patch[r] \ patch[w] :
            draft[w][f] = r \/ Raced(i, r, f)
  BY <1>1, <1>2 DEF AccountInv, AccountTypeOK, DraftInv, Raced
<1>4. /\ users' = [users EXCEPT ![i].first = draft[w].first, ![i].last = draft[w].last]
      /\ applied' = [applied EXCEPT ![i] = applied[i] \cup {w}]
      /\ UNCHANGED <<tokens, account, draft, patch, before>>
  BY <1>2 DEF UpdateUser
<1>5. /\ users' \in [Requests -> Row \cup {None}] /\ users'[i] \in Row
      /\ users'[i].email = users[i].email /\ users'[i].role = users[i].role
      /\ \A f \in Fields : users'[i][f] = draft[w][f]
      /\ \A j \in Requests \ {i} : users'[j] = users[j]
  BY <1>1, <1>3, <1>4, WrittenRow
<1>6. /\ pc' \in [Requests -> {"start", "create", "update", "done"}]
      /\ answer' \in [Requests -> Answers]
      /\ pc'[w] = "done" /\ answer'[w] = a
      /\ \A q \in Requests \ {w} : pc'[q] = pc[q] /\ answer'[q] = answer[q]
  BY <1>1, AnswerStep DEF Answers
<1>7. /\ applied' \in [Requests -> SUBSET Requests]
      /\ applied'[i] = applied[i] \cup {w}
      /\ \A j \in Requests \ {i} : applied'[j] = applied[j]
  BY <1>1, <1>4 DEF AccountTypeOK
<1>8. \A j \in Requests : users[j] # None =>
          users'[j] # None /\ users'[j].email = users[j].email /\ users'[j].role = users[j].role
  BY <1>5, AccountsAssumption
<1>9. \A j \in Requests : users'[j] # None => users[j] # None
  BY <1>3, <1>5
<1>10. \A j, r \in Requests : \A f \in Fields : Raced(j, r, f) => Raced(j, r, f)'
  BY <1>4, <1>7 DEF Raced
<1>11. AccountTypeOK' /\ InsertInv' /\ UniqueInv'
  <2>1. AccountTypeOK'
    BY <1>1, <1>4, <1>5, <1>6, <1>7 DEF AccountTypeOK
  <2>2. InsertInv'
    BY <1>1, <1>4, <1>6, <1>9 DEF InsertInv
  <2>3. UniqueInv'
    BY <1>1, <1>8, <1>9 DEF UniqueInv
  <2> QED
    BY <2>1, <2>2, <2>3
<1>12. ClaimInv'
  <2>1. /\ \A t \in tokens : t.id \in Requests
        /\ \A q \in Requests : account[q] \in Requests
    BY <1>1 DEF AccountTypeOK, Claims
  <2>2. ASSUME NEW t \in tokens
        PROVE  /\ users'[t.id] # None
               /\ users'[t.id].email = t.email /\ users'[t.id].role = t.role
    BY <1>1, <1>8, <2>1 DEF ClaimInv
  <2>3. ASSUME NEW q \in Requests, answer'[q] = "admitted"
        PROVE  users'[account[q]] # None /\ users'[account[q]].role = "admin"
    <3>1. answer[q] = "admitted"
      BY <1>6, <2>3
    <3> QED
      BY <1>1, <1>8, <2>1, <3>1 DEF ClaimInv
  <2> QED
    BY <1>4, <2>2, <2>3 DEF ClaimInv
<1>13. AppliedInv'
  BY <1>1, <1>3, <1>6, <1>7, <1>8 DEF AccountTypeOK, AppliedInv
<1>14. DraftInv'
  <2>1. SUFFICES ASSUME NEW v \in Requests, pc'[v] = "update"
                 PROVE  /\ users'[account[v]] # None /\ draft[v] \in Row
                        /\ before[v] \subseteq applied'[account[v]]
                        /\ \A f \in patch[v] : draft[v][f] = v
                        /\ \A r \in before[v] : \A f \in patch[r] \ patch[v] :
                             draft[v][f] = r \/ Raced(account[v], r, f)'
    BY <1>4 DEF DraftInv
  <2>2. PICK j \in Requests : j = account[v] /\ j = account'[v]
    BY <1>1, <1>4 DEF AccountTypeOK
  <2>3. pc[v] = "update"
    BY <1>6, <2>1
  <2>4. /\ users[j] # None /\ draft[v] \in Row /\ before[v] \subseteq applied[j]
        /\ \A f \in patch[v] : draft[v][f] = v
        /\ \A r \in before[v] : \A f \in patch[r] \ patch[v] :
              draft[v][f] = r \/ Raced(j, r, f)
    <3>1. j = account[v]
      BY <2>2
    <3> QED
      BY <2>3, <3>1 DEF AccountInv, DraftInv, Raced
  <2>5. before[v] \subseteq applied'[j] /\ before[v] \subseteq Requests
    BY <1>1, <1>7, <2>4 DEF AccountTypeOK
  <2>6. \A r \in before[v] : \A f \in patch[r] \ patch[v] :
          draft[v][f] = r \/ Raced(j, r, f)'
    <3>1. \A r \in before[v] : patch[r] \subseteq Fields
      BY <1>1, <2>5 DEF AccountTypeOK
    <3> QED
      BY <1>10, <2>4, <2>5, <3>1
  <2> QED
    BY <1>8, <2>2, <2>4, <2>5, <2>6 DEF Raced
<1>15. PatchLostOnlyInRace'
  <2>1. SUFFICES ASSUME NEW j \in Requests, NEW r \in applied'[j], NEW f \in patch[r]
                 PROVE  users'[j][f] = r \/ Raced(j, r, f)'
    BY <1>4 DEF PatchLostOnlyInRace, Raced
  <2>2. r \in Requests /\ f \in Fields
    BY <1>1, <1>7 DEF AccountTypeOK
  <2>3. r \in applied[j] => users[j][f] = r \/ Raced(j, r, f)
    BY DEF AccountInv, PatchLostOnlyInRace, Raced
  <2>4. CASE j # i
    BY <1>5, <1>7, <1>10, <2>2, <2>3, <2>4
  <2>5. CASE j = i /\ r = w
    BY <1>3, <1>5, <2>2, <2>5
  <2>6. CASE j = i /\ r # w /\ (f \in patch[w] \/ r \notin before[w])
    BY <1>4, <1>7, <2>6 DEF Raced
  <2>7. CASE j = i /\ r # w /\ f \notin patch[w] /\ r \in before[w]
    <3>1. draft[w][f] = r \/ Raced(i, r, f)
      BY <1>3, <2>7
    <3>2. users'[i][f] = r \/ Raced(i, r, f)'
      BY <1>5, <1>10, <2>2, <3>1
    <3> QED
      BY <2>7, <3>2
  <2> QED
    BY <2>4, <2>5, <2>6, <2>7
<1> QED
  BY <1>11, <1>12, <1>13, <1>14, <1>15 DEF AccountInv

--------------------------------------------------------------------------------
(* The invariant                                                              *)

\* No request has been counted, and there is no account.
LEMMA InitInv == Init => IndInv
<1> SUFFICES ASSUME Init PROVE IndInv
  OBVIOUS
<1>1. Cardinality({}) = 0 /\ Cardinality(Requests) \in Nat /\ MaxRequests \in Nat
  BY RateLimitAssumption, FS_EmptySet, FS_CardinalityType
<1>2. LimitTypeOK /\ ExpireInv
  BY <1>1 DEF Init, LimitInit, LimitTypeOK, ExpireInv
<1>3. CountInv /\ WindowBound /\ KeyExpires
  <2>1. \A k \in Keys : /\ hits[k] = 0 /\ admitted[k] = {} /\ refused[k] = {}
                        /\ Counted(k) = {}
    BY DEF Init, LimitInit, Counted
  <2>2. CountInv
    BY <1>1, <2>1 DEF CountInv
  <2>3. WindowBound
    BY <1>1, <2>1 DEF WindowBound
  <2>4. KeyExpires
    BY <2>1 DEF KeyExpires
  <2> QED
    BY <2>2, <2>3, <2>4
<1>4. AccountTypeOK
  BY DEF Init, AccountTypeOK, Answers
<1>5. InsertInv /\ UniqueInv /\ ClaimInv /\ AppliedInv /\ DraftInv
  BY DEF Init, InsertInv, UniqueInv, ClaimInv, AppliedInv, DraftInv
<1>6. PatchLostOnlyInRace
  BY DEF Init, PatchLostOnlyInRace
<1> QED
  BY <1>2, <1>3, <1>4, <1>5, <1>6 DEF IndInv, LimitInv, AccountInv

\* A handler's step leaves the limiter alone and takes its request forward.
LEMMA HandlerStepLimit ==
    ASSUME IndInv, NEW r \in Requests, UNCHANGED limitVars, NEW s \in {"create", "update", "done"},
           pc' = [pc EXCEPT ![r] = s]
    PROVE  LimitInv'
<1>1. \A q \in Requests : pc'[q] = "start" => pc[q] = "start"
  BY DEF IndInv, AccountInv, AccountTypeOK
<1> QED
  BY <1>1, LimitIdle DEF IndInv

\* A step in the limiter leaves the accounts alone.
LEMMA LimitedInv ==
    ASSUME IndInv, NEW r \in Requests, Limited(r)
    PROVE  IndInv'
<1>1. LimitInv /\ AccountInv /\ AccountTypeOK /\ pc[r] = "start"
  BY DEF IndInv, AccountInv, Limited
<1>2. AccountInv'
  <2>1. CASE Answer(r, "too_many_requests")
    BY <1>1, <2>1, AnswerInv DEF Limited, Answers
  <2>2. CASE UNCHANGED <<pc, answer>>
    <3>1. /\ pc' \in [Requests -> {"start", "create", "update", "done"}]
          /\ answer' \in [Requests -> Answers]
      BY <1>1, <2>2 DEF AccountTypeOK
    <3> QED
      BY <1>1, <2>2, <3>1, AccountIdle DEF Limited
  <2> QED
    BY <2>1, <2>2 DEF Limited
<1>3. \A q \in Requests : pc'[q] = "start" => pc[q] = "start"
  BY <1>1 DEF Limited, Answer, AccountTypeOK
<1>4. PICK k \in Keys : Incr(r, k) \/ FailOpen(r, k) \/ IncrUnacknowledged(r, k)
  BY DEF Limited, Limit
<1>5. LimitInv'
  BY <1>1, <1>3, <1>4, IncrInv, FailOpenInv, IncrLostInv
<1> QED
  BY <1>2, <1>5 DEF IndInv

\* The steps that only answer.
LEMMA RefusalInv ==
    ASSUME IndInv, NEW r \in Requests,
           \/ BadRequest(r) \/ RegisterExists(r) \/ CreateFails(r) \/ LoginFails(r)
           \/ GoogleFails(r) \/ Unauthorized(r) \/ UpdateProfileFails(r) \/ UpdateFails(r)
    PROVE  IndInv'
<1>1. /\ UNCHANGED limitVars
      /\ UNCHANGED <<users, tokens, account, draft, patch, applied, before>>
      /\ \E a \in Answers \ {"admitted"} : Answer(r, a)
  BY DEF BadRequest, RegisterExists, CreateFails, LoginFails, GoogleFails, Unauthorized,
     UpdateProfileFails, UpdateFails, InRoute, InOpenRoute, Answers
<1>2. pc' = [pc EXCEPT ![r] = "done"]
  BY <1>1 DEF Answer
<1>3. LimitInv'
  BY <1>1, <1>2, HandlerStepLimit
<1>4. AccountInv'
  BY <1>1, AnswerInv DEF IndInv
<1> QED
  BY <1>3, <1>4 DEF IndInv

\* The lookups of Register and GoogleLogin decide, they do not write.
LEMMA RegisterInv ==
    ASSUME IndInv, NEW r \in Requests, Register(r) \/ GoogleRegister(r)
    PROVE  IndInv'
<1>1. /\ UNCHANGED limitVars /\ pc[r] = "start"
      /\ UNCHANGED <<users, tokens, account, patch, applied, before>>
  BY DEF Register, GoogleRegister, InRoute, InOpenRoute
<1>2. CASE Answer(r, "error") /\ UNCHANGED draft
  <2>1. pc' = [pc EXCEPT ![r] = "done"]
    BY <1>2 DEF Answer
  <2>2. LimitInv'
    BY <1>1, <2>1, HandlerStepLimit
  <2>3. AccountInv'
    BY <1>1, <1>2, AnswerInv DEF IndInv, Answers
  <2> QED
    BY <2>2, <2>3 DEF IndInv
<1>3. ASSUME NEW d \in Row, draft' = [draft EXCEPT ![r] = d], Goto(r, "create")
      PROVE  IndInv'
  <2>1. pc' = [pc EXCEPT ![r] = "create"]
    BY <1>3 DEF Goto
  <2>2. LimitInv'
    BY <1>1, <2>1, HandlerStepLimit
  <2>3. AccountInv'
    BY <1>1, <1>3, DraftsUser DEF IndInv
  <2> QED
    BY <2>2, <2>3 DEF IndInv
<1>4. CASE Register(r)
  <2>1. PICK e \in Emails, p \in Passwords, role \in RegisterRoles :
          \/ Answer(r, "error") /\ UNCHANGED draft
          \/ /\ draft' = [draft EXCEPT ![r] =
                   [email |-> e, password |-> p, role |-> DefaultRole(role),
                    first |-> r, last |-> r]]
             /\ Goto(r, "create")
    BY <1>4 DEF Register
  <2>2. DefaultRole(role) \in Roles
    BY DEF DefaultRole, Roles
  <2>3. [email |-> e, password |-> p, role |-> DefaultRole(role), first |-> r, last |-> r] \in Row
    BY <2>2 DEF Row
  <2> QED
    BY <1>2, <1>3, <2>1, <2>3
<1>5. CASE GoogleRegister(r)
  <2>1. PICK e \in Emails :
          /\ draft' = [draft EXCEPT ![r] =
                [email |-> e, password |-> RandomPassword, role |-> "customer",
                 first |-> r, last |-> r]]
          /\ Goto(r, "create")
    BY <1>5 DEF GoogleRegister
  <2>2. [email |-> e, password |-> RandomPassword, role |-> "customer",
         first |-> r, last |-> r] \in Row
    BY DEF Row, Roles
  <2> QED
    BY <1>3, <2>1, <2>2
<1> QED
  BY <1>4, <1>5

\* INSERT INTO users, acknowledged or not.
LEMMA CreateInv ==
    ASSUME IndInv, NEW r \in Requests, Create(r) \/ CreateUnacknowledged(r)
    PROVE  IndInv'
<1>1. /\ InsertUser(r) /\ UNCHANGED limitVars
      /\ GenerateToken(r, draft[r]) \/ UNCHANGED tokens
      /\ \E a \in {"ok", "error"} : Answer(r, a)
  BY DEF Create, CreateUnacknowledged, InsertUser
<1>2. pc' = [pc EXCEPT ![r] = "done"]
  BY <1>1 DEF Answer
<1>3. LimitInv'
  BY <1>1, <1>2, HandlerStepLimit
<1>4. AccountInv'
  BY <1>1, InsertsUser DEF IndInv
<1> QED
  BY <1>3, <1>4 DEF IndInv

\* A token is issued for the row that was read.
LEMMA SignInInv ==
    ASSUME IndInv, NEW r \in Requests, Login(r) \/ GoogleLogin(r)
    PROVE  IndInv'
<1>1. /\ UNCHANGED limitVars /\ UNCHANGED <<users, account, draft, patch, applied, before>>
      /\ Answer(r, "ok")
      /\ \E i \in Requests : users[i] # None /\ GenerateToken(i, users[i])
  BY DEF Login, GoogleLogin, InRoute, InOpenRoute, GetByEmail
<1>2. pc' = [pc EXCEPT ![r] = "done"]
  BY <1>1 DEF Answer
<1>3. LimitInv'
  BY <1>1, <1>2, HandlerStepLimit
<1>4. AccountInv'
  BY <1>1, IssuesToken DEF IndInv
<1> QED
  BY <1>3, <1>4 DEF IndInv

\* RequireRole, and the two statements of UpdateProfile.
LEMMA ProfileInv ==
    ASSUME IndInv, NEW r \in Requests,
           RequireRole(r) \/ UpdateProfile(r) \/ Update(r) \/ UpdateUnacknowledged(r)
    PROVE  IndInv'
<1>1. UNCHANGED limitVars
  BY DEF RequireRole, UpdateProfile, Update, UpdateUnacknowledged, UpdateUser, InOpenRoute
<1>2. \E s \in {"create", "update", "done"} : pc' = [pc EXCEPT ![r] = s]
  BY DEF RequireRole, UpdateProfile, Update, UpdateUnacknowledged, Answer, Goto
<1>3. LimitInv'
  BY <1>1, <1>2, HandlerStepLimit
<1>4. AccountInv'
  BY ChecksRole, ReadsProfile, WritesProfile DEF IndInv, Update, UpdateUnacknowledged
<1> QED
  BY <1>3, <1>4 DEF IndInv

\* A crash ends requests and keeps the tables and the counters.
LEMMA CrashInv ==
    ASSUME IndInv, Crash
    PROVE  IndInv'
<1>1. LimitInv /\ AccountInv /\ AccountTypeOK /\ LimitTypeOK
  BY DEF IndInv, AccountInv, LimitInv
<1>2. PICK D : D = {r \in Requests : \/ pc[r] \in {"create", "update"}
                                     \/ pc[r] = "start" /\ gate[r] # "outside"}
  OBVIOUS
<1>3. /\ LimitCrash
      /\ gate' = [r \in Requests |-> IF r \in D THEN "outside" ELSE gate[r]]
      /\ pc' = [r \in Requests |-> IF r \in D THEN "done" ELSE pc[r]]
      /\ answer' = [r \in Requests |-> IF r \in D THEN "died" ELSE answer[r]]
      /\ UNCHANGED <<users, tokens, account, draft, patch, applied, before>>
  BY <1>2 DEF Crash
<1>4. /\ gate' \in [Requests -> {"outside", "expire", "passed", "refused"}]
      /\ pc' \in [Requests -> {"start", "create", "update", "done"}]
      /\ answer' \in [Requests -> Answers]
  BY <1>1, <1>3 DEF AccountTypeOK, LimitTypeOK, Answers
<1>5. LimitInv'
  BY <1>1, <1>3, <1>4, LimitCrashInv
<1>6. AccountInv'
  BY <1>1, <1>3, <1>4, AccountIdle
<1> QED
  BY <1>5, <1>6 DEF IndInv

\* Every step keeps the invariant.
LEMMA NextInv == IndInv /\ [Next]_vars => IndInv'
<1> SUFFICES ASSUME IndInv, [Next]_vars PROVE IndInv'
  OBVIOUS
<1>1. ASSUME LimitInv', UNCHANGED accountVars PROVE IndInv'
  <2>1. /\ UNCHANGED <<users, tokens, account, draft, patch, applied, before>>
        /\ UNCHANGED <<pc, answer>> /\ AccountInv
    BY <1>1 DEF accountVars, IndInv
  <2>2. /\ pc' \in [Requests -> {"start", "create", "update", "done"}]
        /\ answer' \in [Requests -> Answers]
    BY <2>1 DEF AccountInv, AccountTypeOK
  <2> QED
    BY <1>1, <2>1, <2>2, AccountIdle DEF IndInv
<1>2. ASSUME NEW r \in Requests, RequestStep(r) PROVE IndInv'
  <2>1. CASE LimitedExpire(r)
    BY <1>1, <2>1, LimitedExpireInv DEF LimitedExpire, accountVars, IndInv
  <2> QED
    BY <1>2, <2>1, LimitedInv, RefusalInv, RegisterInv, CreateInv, SignInInv, ProfileInv
       DEF RequestStep
<1>3. ASSUME NEW k \in Keys, WindowEnds(k), UNCHANGED accountVars PROVE IndInv'
  BY <1>1, <1>3, WindowEndsInv DEF accountVars, IndInv
<1>4. CASE UNCHANGED vars
  BY <1>1, <1>4, LimitIdle DEF vars, accountVars, IndInv
<1> QED
  BY <1>2, <1>3, <1>4, CrashInv DEF Next

\* The invariant holds throughout.
LEMMA Inductive == Spec => []IndInv
<1> QED
  BY InitInv, NextInv, PTL DEF Spec

--------------------------------------------------------------------------------
(* Theorems                                                                   *)

\* The variables keep their types; in particular a counter counts no request twice.
THEOREM TypeCorrect == Spec => []TypeOK
<1>1. ASSUME IndInv PROVE TypeOK
  BY <1>1 DEF IndInv, LimitInv, AccountInv, AccountTypeOK, TypeOK
<1> QED
  BY Inductive, <1>1, PTL

\* Register, GoogleLogin and the UNIQUE constraint: no address has two accounts.
THEOREM OneAccount == Spec => []OneAccountPerEmail
<1>1. ASSUME IndInv PROVE OneAccountPerEmail
  <2>1. SUFFICES ASSUME NEW e \in Emails PROVE Cardinality(GetByEmail(e)) <= 1
    BY DEF OneAccountPerEmail
  <2>2. CASE GetByEmail(e) = {}
    BY <2>2, FS_EmptySet
  <2>3. CASE GetByEmail(e) # {}
    <3>1. PICK i : i \in GetByEmail(e)
      BY <2>3
    <3>2. GetByEmail(e) = {i}
      BY <1>1, <3>1 DEF IndInv, AccountInv, UniqueInv, GetByEmail
    <3> QED
      BY <3>2, FS_Singleton
  <2> QED
    BY <2>2, <2>3
<1> QED
  BY Inductive, <1>1, PTL

\* GenerateToken, AuthMiddleware and RequireRole: what a token claims stays true of a
\* stored account, and whoever is admitted to the administrators' route is one.
THEOREM ClaimsTrue == Spec => []ClaimsHold
<1>1. ASSUME IndInv PROVE ClaimsHold
  BY <1>1 DEF IndInv, AccountInv, ClaimInv, ClaimsHold
<1> QED
  BY Inductive, <1>1, PTL

\* UpdateMe, a read and a write in separate statements: an applied update loses a field
\* only to another update of the field, or to one that overlapped it.
THEOREM PatchesKept == Spec => []PatchLostOnlyInRace
<1>1. ASSUME IndInv PROVE PatchLostOnlyInRace
  BY <1>1 DEF IndInv, AccountInv
<1> QED
  BY Inductive, <1>1, PTL

\* RateLimit: no window lets more than maxRequests counted requests through, and none
\* refuses a request before that many were counted.
THEOREM WindowsBounded == Spec => []WindowBound
<1>1. ASSUME IndInv PROVE WindowBound
  BY <1>1 DEF IndInv, LimitInv
<1> QED
  BY Inductive, <1>1, PTL

\* RateLimit: a counter that will not expire is one whose EXPIRE is on its way or lost.
THEOREM KeysExpire == Spec => []KeyExpires
<1>1. ASSUME IndInv PROVE KeyExpires
  BY <1>1 DEF IndInv, LimitInv
<1> QED
  BY Inductive, <1>1, PTL
================================================================================
