---------------------------- MODULE StorefrontProofs ---------------------------
(******************************************************************************)
(* Proofs about Storefront, for any number of requests and users, any limits  *)
(* and any subset of the faults.                                              *)
(******************************************************************************)
EXTENDS Storefront, FiniteSetTheorems, TLAPS

\* A reader about to fill the cache holds a product, which only an Update that has
\* overtaken it since can have replaced.
FillInv ==
    \A r \in Requests :
        pc[r] = "fill" => /\ got[r] \in Product
                          /\ got[r] # row => row.by \in overtook[r]

CouponLabels == {"lookup", "check", "again", "record", "place"}

\* A request about a coupon has a user.
UserInv == \A r \in Requests : pc[r] \in CouponLabels => user[r] \in Users

\* What RecordUse has inserted is finite, and counted.
UsesInv == IsFiniteSet(uses) /\ UsesCounted

IndInv ==
    /\ TypeOK
    /\ FillInv
    /\ UserInv
    /\ UsesInv
    /\ StaleOnlyInRace

--------------------------------------------------------------------------------
(* Each part of the invariant, where the steps of one component keep it       *)

\* The variables of one component determine its part of the invariant.
CatInv == CatTypeOK /\ FillInv /\ StaleOnlyInRace
CoupInv == CoupTypeOK /\ UserInv /\ UsesInv

\* The cache is empty and no use is recorded.
LEMMA InitInv == Init => IndInv
<1> SUFFICES ASSUME Init PROVE IndInv
  OBVIOUS
<1> USE DEF Init, FrontInit, CatInit, CoupInit
<1>1. FrontTypeOK
  BY DEF FrontTypeOK, Labels, Outcomes
<1>2. CatTypeOK
  <2>1. row \in Product
    BY DEF Product
  <2>2. overtook \in [Requests -> SUBSET Requests] /\ lost \in SUBSET Requests
    OBVIOUS
  <2>3. got \in [Requests -> Product \cup {None}] /\ cache \in Entry \cup {None}
    OBVIOUS
  <2> QED
    BY <2>1, <2>2, <2>3 DEF CatTypeOK
<1>3. CoupTypeOK
  <2>1. coupon \in Coupon
    <3>1. PICK limit \in Limits, active \in BOOLEAN :
             coupon = [limit |-> limit, used |-> 0, active |-> active, expired |-> FALSE]
      OBVIOUS
    <3> QED
      BY <3>1 DEF Coupon
  <2>2. uses \in SUBSET Users /\ ordered \in SUBSET Requests
    OBVIOUS
  <2> QED
    BY <2>1, <2>2 DEF CoupTypeOK
<1>4. FillInv /\ UserInv
  BY DEF FillInv, UserInv, CouponLabels
<1>5. UsesInv
  BY FS_EmptySet DEF UsesInv, UsesCounted
<1>6. StaleOnlyInRace
  BY DEF StaleOnlyInRace, Stale
<1> QED
  BY <1>1, <1>2, <1>3, <1>4, <1>5, <1>6 DEF IndInv, TypeOK

\* A step of request r moves no other request.
LEMMA OwnStep ==
    ASSUME FrontTypeOK, NEW r \in Requests, Begin(r) \/ CatalogueStep(r) \/ CouponStep(r)
    PROVE  /\ FrontTypeOK'
           /\ \A q \in Requests \ {r} : pc'[q] = pc[q] /\ user'[q] = user[q]
<1> USE DEF FrontTypeOK
<1>1. ASSUME NEW l \in Labels, GoTo(r, l)
      PROVE  FrontTypeOK' /\ \A q \in Requests \ {r} : pc'[q] = pc[q] /\ user'[q] = user[q]
  BY <1>1 DEF GoTo
<1>2. ASSUME NEW a \in Outcomes, Answer(r, a)
      PROVE  FrontTypeOK' /\ \A q \in Requests \ {r} : pc'[q] = pc[q] /\ user'[q] = user[q]
  BY <1>2 DEF Answer, Labels
<1>3. CASE Begin(r)
  BY <1>1, <1>3 DEF Begin, Labels
<1>4. CASE CatalogueStep(r)
  BY <1>1, <1>2, <1>4 DEF CatalogueStep, CacheHit, CacheMiss, SelectProduct,
     SelectNothing, FillCache, UpdateProduct, UpdateUnacknowledged, UpdateFails,
     EvictEntry, Labels, Outcomes
<1>5. CASE CouponStep(r)
  BY <1>1, <1>2, <1>5 DEF CouponStep, LookupValid, LookupRefuses, CheckUse, FetchCoupon,
     RecordUse, RecordFails, OrderWithCoupon, OrderRefused, Labels, Outcomes
<1> QED
  BY <1>3, <1>4, <1>5

--------------------------------------------------------------------------------
(* The catalogue                                                              *)

\* The steps that change neither row, entry nor what a reader holds.
LEMMA CatIdle ==
    ASSUME TypeOK, CatInv, UNCHANGED catVars,
           \A q \in Requests : /\ pc'[q] = "fill" => pc[q] = "fill"
                               /\ pc[q] = "evict" => pc'[q] = "evict"
    PROVE  CatInv'
<1>1. CatTypeOK'
  BY DEF CatInv, CatTypeOK, catVars
<1>2. FillInv'
  BY DEF CatInv, FillInv, catVars
<1>3. StaleOnlyInRace'
  BY DEF CatInv, StaleOnlyInRace, Stale, CatTypeOK, Product, catVars
<1> QED
  BY <1>1, <1>2, <1>3 DEF CatInv

\* A row that is written overtakes the readers about to fill the cache.
LEMMA WriteOvertakes ==
    ASSUME TypeOK, CatInv, NEW r \in Requests, WriteProduct(r), pc[r] = "update",
           got' = got, \A q \in Requests : pc'[q] = "fill" => pc[q] = "fill"
    PROVE  row' \in Product /\ row'.by = r /\ overtook' \in [Requests -> SUBSET Requests]
           /\ FillInv'
<1>1. row' \in Product /\ row'.by = r
  BY DEF WriteProduct, Product
<1>2. overtook' \in [Requests -> SUBSET Requests]
  BY DEF WriteProduct, TypeOK, CatTypeOK
<1>3. FillInv'
  BY <1>1 DEF WriteProduct, FillInv, CatInv
<1> QED
  BY <1>1, <1>2, <1>3

\* A step of the catalogue keeps its part of the invariant.
LEMMA CatStepInv ==
    ASSUME TypeOK, CatInv, NEW r \in Requests, CatalogueStep(r)
    PROVE  CatInv'
<1>0. pc \in [Requests -> Labels] /\ None \notin Requests
  BY StorefrontAssumption DEF TypeOK, FrontTypeOK
<1>1. ASSUME CacheHit(r) \/ CacheMiss(r) \/ SelectNothing(r) \/ UpdateFails(r)
      PROVE  CatInv'
  <2>1. /\ UNCHANGED catVars
        /\ \A q \in Requests : /\ pc'[q] = "fill" => pc[q] = "fill"
                               /\ pc[q] = "evict" => pc'[q] = "evict"
    BY <1>0, <1>1 DEF CacheHit, CacheMiss, SelectNothing, UpdateFails, Answer, GoTo
  <2> QED
    BY <2>1, CatIdle
<1>2. CASE SelectProduct(r)
  <2>1. CatTypeOK'
    <3>1. row \in Product /\ got \in [Requests -> Product \cup {None}]
      BY DEF CatInv, CatTypeOK
    <3>2. got' \in [Requests -> Product \cup {None}]
      BY <1>2, <3>1 DEF SelectProduct
    <3> QED
      BY <1>2, <3>2 DEF SelectProduct, CatInv, CatTypeOK
  <2>2. FillInv'
    BY <1>0, <1>2 DEF SelectProduct, GoTo, CatInv, FillInv, CatTypeOK
  <2>3. StaleOnlyInRace'
    BY <1>0, <1>2 DEF SelectProduct, GoTo, CatInv, StaleOnlyInRace, Stale, CatTypeOK,
       Product
  <2> QED
    BY <2>1, <2>2, <2>3 DEF CatInv
<1>3. CASE FillCache(r)
  <2>1. /\ UNCHANGED <<row, got, overtook, lost>>
        /\ pc[r] = "fill"
        /\ pc' = [pc EXCEPT ![r] = "done"]
        /\ cache' = cache \/ cache' = [product |-> got[r], filler |-> r, expires |-> TRUE]
    BY <1>3 DEF FillCache, StoreEntry, Answer
  <2>2. got[r] \in Product /\ (got[r] # row => row.by \in overtook[r])
    BY <2>1 DEF CatInv, FillInv
  <2>3. CatTypeOK'
    <3>1. [product |-> got[r], filler |-> r, expires |-> TRUE] \in Entry
      BY <2>2 DEF Entry
    <3>2. cache' \in Entry \cup {None}
      BY <2>1, <3>1 DEF CatInv, CatTypeOK
    <3> QED
      BY <2>1, <3>2 DEF CatInv, CatTypeOK
  <2>4. FillInv'
    BY <1>0, <2>1 DEF CatInv, FillInv
  <2>5. CASE cache' = cache
    <3>1. StaleOnlyInRace'
      BY <1>0, <2>1, <2>5 DEF CatInv, StaleOnlyInRace, Stale, CatTypeOK, Product
    <3> QED
      BY <2>3, <2>4, <3>1 DEF CatInv
  <2>6. CASE cache' = [product |-> got[r], filler |-> r, expires |-> TRUE]
    <3>1. StaleOnlyInRace'
      BY <2>1, <2>2, <2>6 DEF StaleOnlyInRace, Stale
    <3> QED
      BY <2>3, <2>4, <3>1 DEF CatInv
  <2> QED
    BY <2>1, <2>5, <2>6
<1>4. CASE UpdateProduct(r) \/ UpdateUnacknowledged(r)
  <2>1. /\ pc[r] = "update"
        /\ WriteProduct(r)
        /\ UNCHANGED <<cache, got>>
        /\ \/ pc' = [pc EXCEPT ![r] = "evict"] /\ lost' = lost
           \/ pc' = [pc EXCEPT ![r] = "done"] /\ lost' = lost \cup {r}
    BY <1>4 DEF UpdateProduct, UpdateUnacknowledged, GoTo, Answer
  <2>2. \A q \in Requests : pc'[q] = "fill" => pc[q] = "fill"
    BY <1>0, <2>1
  <2>3. row' \in Product /\ row'.by = r /\ overtook' \in [Requests -> SUBSET Requests]
        /\ FillInv'
    BY <2>1, <2>2, WriteOvertakes
  <2>4. CatTypeOK'
    BY <2>1, <2>3 DEF CatInv, CatTypeOK
  <2>5. StaleOnlyInRace'
    BY <1>0, <2>1, <2>3 DEF StaleOnlyInRace
  <2> QED
    BY <2>3, <2>4, <2>5 DEF CatInv
<1>5. CASE EvictEntry(r)
  <2>1. /\ UNCHANGED <<row, got, overtook>>
        /\ pc[r] = "evict"
        /\ pc' = [pc EXCEPT ![r] = "done"]
        /\ \/ cache' = None /\ lost' = lost
           \/ cache' = cache /\ lost' = lost \cup {r}
    BY <1>5 DEF EvictEntry, DeleteEntry, Answer
  <2>2. CatTypeOK'
    BY <2>1 DEF CatInv, CatTypeOK
  <2>3. FillInv'
    BY <1>0, <2>1 DEF CatInv, FillInv
  <2>4. StaleOnlyInRace'
    BY <1>0, <2>1 DEF CatInv, StaleOnlyInRace, Stale, CatTypeOK, Product
  <2> QED
    BY <2>2, <2>3, <2>4 DEF CatInv
<1> QED
  BY <1>1, <1>2, <1>3, <1>4, <1>5 DEF CatalogueStep

--------------------------------------------------------------------------------
(* The coupons                                                                *)

\* The steps that record no use.
LEMMA CoupIdle ==
    ASSUME TypeOK, CoupInv, uses' = uses, ordered' \in SUBSET Requests,
           coupon' \in Coupon, coupon'.used = coupon.used,
           \A q \in Requests : pc'[q] \in CouponLabels => user'[q] \in Users
    PROVE  CoupInv'
<1>1. CoupTypeOK' /\ UserInv'
  BY DEF CoupInv, CoupTypeOK, UserInv
<1>2. UsesInv'
  BY DEF CoupInv, UsesInv, UsesCounted
<1> QED
  BY <1>1, <1>2 DEF CoupInv

\* A step of the coupons keeps their part of the invariant.
LEMMA CoupStepInv ==
    ASSUME TypeOK, CoupInv, NEW r \in Requests, CouponStep(r)
    PROVE  CoupInv'
<1>0. /\ pc \in [Requests -> Labels] /\ user \in [Requests -> Users \cup {None}]
      /\ CoupTypeOK /\ coupon \in Coupon /\ coupon.used \in Nat
      /\ ordered \in SUBSET Requests
  BY DEF TypeOK, FrontTypeOK, CoupTypeOK, Coupon
<1>1. ASSUME ~RecordUse(r)
      PROVE  CoupInv'
  <2>1. /\ UNCHANGED <<coupon, uses>> /\ ordered' \in SUBSET Requests
        /\ user' = user
        /\ pc[r] \in CouponLabels /\ \E l \in Labels : pc' = [pc EXCEPT ![r] = l]
    BY <1>0, <1>1 DEF CouponStep, LookupValid, LookupRefuses, CheckUse, FetchCoupon,
       RecordFails, OrderWithCoupon, OrderRefused, GoTo, Answer, CouponLabels, Labels,
       coupVars
  <2>2. \A q \in Requests : pc'[q] \in CouponLabels => user'[q] \in Users
    BY <1>0, <2>1 DEF CoupInv, UserInv
  <2> QED
    BY <1>0, <2>1, <2>2, CoupIdle
<1>2. CASE RecordUse(r)
  <2>1. /\ pc[r] = "record" /\ user[r] \notin uses
        /\ pc' = [pc EXCEPT ![r] = "done"] /\ user' = user /\ ordered' = ordered
        /\ uses' = uses \cup {user[r]}
        /\ coupon' = [coupon EXCEPT !.used = @ + 1]
    BY <1>2 DEF RecordUse, InsertUse, Answer
  <2>2. user[r] \in Users
    BY <2>1 DEF CoupInv, UserInv, CouponLabels
  <2>3. coupon' \in Coupon /\ coupon'.used = coupon.used + 1
    BY <1>0, <2>1 DEF Coupon
  <2>4. CoupTypeOK'
    BY <1>0, <2>1, <2>2, <2>3 DEF CoupTypeOK
  <2>5. UserInv'
    BY <1>0, <2>1 DEF CoupInv, UserInv, CouponLabels
  <2>6. UsesInv'
    BY <1>0, <2>1, <2>3, FS_AddElement DEF CoupInv, UsesInv, UsesCounted
  <2> QED
    BY <2>4, <2>5, <2>6 DEF CoupInv
<1> QED
  BY <1>1, <1>2

--------------------------------------------------------------------------------
(* The composition                                                            *)

\* Every step keeps the invariant.
LEMMA NextInv == IndInv /\ [Next]_vars => IndInv'
<1> SUFFICES ASSUME IndInv, [Next]_vars PROVE IndInv'
  OBVIOUS
<1>0. TypeOK /\ FrontTypeOK /\ CatInv /\ CoupInv /\ pc \in [Requests -> Labels]
      /\ coupon \in Coupon /\ ordered \in SUBSET Requests
  BY DEF IndInv, TypeOK, CatInv, CoupInv, FrontTypeOK, CoupTypeOK
<1>1. SUFFICES FrontTypeOK' /\ CatInv' /\ CoupInv'
  BY DEF IndInv, TypeOK, CatInv, CoupInv
<1>2. ASSUME NEW r \in Requests, Begin(r), UNCHANGED <<catVars, coupVars>>
      PROVE  FrontTypeOK' /\ CatInv' /\ CoupInv'
  <2>1. FrontTypeOK'
    BY <1>0, <1>2, OwnStep
  <2>2. CatInv'
    <3>1. \A q \in Requests : /\ pc'[q] = "fill" => pc[q] = "fill"
                              /\ pc[q] = "evict" => pc'[q] = "evict"
      BY <1>0, <1>2 DEF Begin, GoTo
    <3> QED
      BY <1>0, <1>2, <3>1, CatIdle
  <2>3. CoupInv'
    <3>1. \A q \in Requests : pc'[q] \in CouponLabels => user'[q] \in Users
      BY <1>0, <1>2 DEF Begin, GoTo, CoupInv, UserInv, CouponLabels, FrontTypeOK
    <3> QED
      BY <1>0, <1>2, <3>1, CoupIdle DEF coupVars
  <2> QED
    BY <2>1, <2>2, <2>3
<1>3. ASSUME NEW r \in Requests, CatalogueStep(r), UNCHANGED coupVars
      PROVE  FrontTypeOK' /\ CatInv' /\ CoupInv'
  <2>1. user' = user /\ pc'[r] \notin CouponLabels
    BY <1>0, <1>3 DEF CatalogueStep, CacheHit, CacheMiss, SelectProduct, SelectNothing,
       FillCache, UpdateProduct, UpdateUnacknowledged, UpdateFails, EvictEntry, GoTo,
       Answer, CouponLabels
  <2>2. \A q \in Requests : pc'[q] \in CouponLabels => user'[q] \in Users
    BY <1>0, <1>3, <2>1, OwnStep DEF CoupInv, UserInv
  <2> QED
    BY <1>0, <1>3, <2>2, OwnStep, CatStepInv, CoupIdle DEF coupVars
<1>4. ASSUME NEW r \in Requests, CouponStep(r), UNCHANGED catVars
      PROVE  FrontTypeOK' /\ CatInv' /\ CoupInv'
  <2>1. pc[r] \in CouponLabels /\ pc'[r] # "fill"
    BY <1>0, <1>4 DEF CouponStep, LookupValid, LookupRefuses, CheckUse, FetchCoupon,
       RecordUse, RecordFails, OrderWithCoupon, OrderRefused, GoTo, Answer, CouponLabels
  <2>2. \A q \in Requests : /\ pc'[q] = "fill" => pc[q] = "fill"
                            /\ pc[q] = "evict" => pc'[q] = "evict"
    BY <1>0, <1>4, <2>1, OwnStep DEF CouponLabels
  <2> QED
    BY <1>0, <1>4, <2>2, OwnStep, CoupStepInv, CatIdle
<1>5. ASSUME ExpireEntry, UNCHANGED <<frontVars, coupVars>>
      PROVE  FrontTypeOK' /\ CatInv' /\ CoupInv'
  <2>1. FrontTypeOK' /\ CatTypeOK'
    BY <1>0, <1>5 DEF ExpireEntry, FrontTypeOK, CatInv, CatTypeOK, frontVars
  <2>2. FillInv' /\ StaleOnlyInRace'
    BY <1>0, <1>5 DEF ExpireEntry, frontVars, CatInv, FillInv, StaleOnlyInRace, Stale
  <2>3. CoupInv'
    BY <1>0, <1>5, CoupIdle DEF frontVars, coupVars, CoupInv, UserInv
  <2> QED
    BY <2>1, <2>2, <2>3 DEF CatInv
<1>6. ASSUME ExpireCoupon, UNCHANGED <<frontVars, catVars>>
      PROVE  FrontTypeOK' /\ CatInv' /\ CoupInv'
  <2>1. FrontTypeOK' /\ CatInv'
    BY <1>0, <1>6, CatIdle DEF FrontTypeOK, frontVars
  <2>2. coupon' \in Coupon /\ coupon'.used = coupon.used
    BY <1>0, <1>6 DEF ExpireCoupon, Coupon
  <2>3. CoupInv'
    BY <1>0, <1>6, <2>2, CoupIdle DEF ExpireCoupon, frontVars, CoupInv, UserInv
  <2> QED
    BY <2>1, <2>3
<1>7. ASSUME FrontCrash, CatCrash, UNCHANGED coupVars
      PROVE  FrontTypeOK' /\ CatInv' /\ CoupInv'
  <2>1. /\ user' = user
        /\ \A q \in Requests : \/ pc'[q] = pc[q] /\ pc[q] # "evict"
                               \/ pc'[q] = "crashed"
    BY <1>0, <1>7 DEF FrontCrash, InFlight
  <2>2. FrontTypeOK'
    BY <1>0, <1>7 DEF FrontCrash, FrontTypeOK, Labels
  <2>3. CatTypeOK' /\ FillInv'
    BY <1>0, <1>7, <2>1 DEF CatCrash, CatInv, CatTypeOK, FillInv
  <2>4. StaleOnlyInRace'
    BY <1>0, <1>7 DEF CatCrash, CatInv, StaleOnlyInRace, Stale, CatTypeOK, Product
  <2>5. CoupInv'
    <3>1. \A q \in Requests : pc'[q] \in CouponLabels => user'[q] \in Users
      BY <1>0, <2>1 DEF CoupInv, UserInv, CouponLabels
    <3> QED
      BY <1>0, <1>7, <3>1, CoupIdle DEF coupVars
  <2> QED
    BY <2>2, <2>3, <2>4, <2>5 DEF CatInv
<1>8. CASE UNCHANGED vars
  <2>1. UNCHANGED frontVars /\ UNCHANGED catVars /\ UNCHANGED coupVars
    BY <1>8 DEF vars
  <2>2. FrontTypeOK' /\ CatInv'
    BY <1>0, <2>1, CatIdle DEF FrontTypeOK, frontVars
  <2>3. CoupInv'
    BY <1>0, <2>1, CoupIdle DEF frontVars, coupVars, CoupInv, UserInv
  <2> QED
    BY <2>2, <2>3
<1> QED
  BY <1>2, <1>3, <1>4, <1>5, <1>6, <1>7, <1>8 DEF Next

\* The invariant holds throughout.
LEMMA Inductive == Spec => []IndInv
<1> QED
  BY InitInv, NextInv, PTL DEF Spec

--------------------------------------------------------------------------------
(* Theorems                                                                   *)

\* The state of catalogue and coupons keeps its type: whatever requests race or fail,
\* the cache holds a product and used_count is a number.
THEOREM TypeCorrect == Spec => []TypeOK
<1> QED
  BY Inductive, PTL DEF IndInv

\* GetByID and Update of CachedProductRepository: an old product is in the cache only
\* while its Update is about to delete it, after a lost DEL, or when a reader stored it
\* after having been overtaken.
THEOREM StaleExplained == Spec => []StaleOnlyInRace
<1> QED
  BY Inductive, PTL DEF IndInv

\* RecordUse: used_count is the number of rows in coupon_uses.
THEOREM Counted == Spec => []UsesCounted
<1>1. IndInv => UsesCounted
  BY DEF IndInv, UsesInv
<1> QED
  BY Inductive, <1>1, PTL
================================================================================
