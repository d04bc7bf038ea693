-------------------------------- MODULE Catalogue ------------------------------
(******************************************************************************)
(* CachedProductRepository: one product, its row in Postgres and its entry in *)
(* Redis, read through by GetByID and deleted by Update, each in several      *)
(* statements:                                                                *)
(*                                                                            *)
(*   GetByID   get -> done (hit)            Update   update -> evict -> done  *)
(*               \-> select -> fill -> done                                   *)
(*                                                                            *)
(* Entries of different products do not interact, so one product is enough.   *)
(******************************************************************************)
EXTENDS ShopRequests

VARIABLES
    row,        \* the product: the Update that wrote it, and whether it is active
    cache,      \* its entry: the product, who stored it, whether it has an expiry
    got,        \* the product a reader selected
    overtook,   \* history: Updates applied between that SELECT and the SET
    lost        \* history: Updates applied whose DEL was not

catVars == <<row, cache, got, overtook, lost>>

Product == [by : Requests \cup {None}, active : BOOLEAN]
Entry == [product : Product, filler : Requests, expires : BOOLEAN]

CatTypeOK ==
    /\ row \in Product
    /\ cache \in Entry \cup {None}
    /\ got \in [Requests -> Product \cup {None}]
    /\ overtook \in [Requests -> SUBSET Requests]
    /\ lost \in SUBSET Requests

CatInit ==
    /\ row = [by |-> None, active |-> TRUE]
    /\ cache = None
    /\ got = [r \in Requests |-> None]
    /\ overtook = [r \in Requests |-> {}]
    /\ lost = {}

--------------------------------------------------------------------------------
(* GetByID                                                                    *)

CacheHit(r) ==
    /\ pc[r] = "get"
    /\ cache # None
    /\ Answer(r, "found")
    /\ UNCHANGED catVars

\* No entry, or no answer from Redis.
CacheMiss(r) ==
    /\ pc[r] = "get"
    /\ cache = None \/ "redis" \in Faults
    /\ GoTo(r, "select")
    /\ UNCHANGED catVars

\* SELECT ... AND is_active = TRUE
SelectProduct(r) ==
    /\ pc[r] = "select"
    /\ row.active
    /\ got' = [got EXCEPT ![r] = row]
    /\ GoTo(r, "fill")
    /\ UNCHANGED <<row, cache, overtook, lost>>

\* Mutant of SelectNothing: the error is not returned, and nothing is cached.
SelectNothingFills(r) ==
    /\ pc[r] = "select"
    /\ ~row.active
    /\ GoTo(r, "fill")
    /\ UNCHANGED catVars

SelectNothing(r) ==
    /\ pc[r] = "select"
    /\ \/ ~row.active /\ Answer(r, "not_found")
       \/ "db" \in Faults /\ Answer(r, "error")
    /\ UNCHANGED catVars

\* Mutant of StoreEntry: SET without an expiry.
StoreForever(r) ==
    cache' = [product |-> got[r], filler |-> r, expires |-> FALSE]

\* SET with the ttl.
StoreEntry(r) ==
    cache' = [product |-> got[r], filler |-> r, expires |-> TRUE]

\* The error of the SET is dropped.
FillCache(r) ==
    /\ pc[r] = "fill"
    /\ \/ StoreEntry(r)
       \/ "redis" \in Faults /\ cache' = cache
    /\ Answer(r, "found")
    /\ UNCHANGED <<row, got, overtook, lost>>

--------------------------------------------------------------------------------
(* Update                                                                     *)

WriteProduct(r) ==
    /\ \E active \in BOOLEAN : row' = [by |-> r, active |-> active]
    /\ overtook' = [q \in Requests |->
                      IF pc[q] = "fill" THEN overtook[q] \cup {r} ELSE overtook[q]]

UpdateProduct(r) ==
    /\ pc[r] = "update"
    /\ WriteProduct(r)
    /\ GoTo(r, "evict")
    /\ UNCHANGED <<cache, got, lost>>

\* Applied, its acknowledgement lost: Update returns the error, with no DEL.
UpdateUnacknowledged(r) ==
    /\ pc[r] = "update"
    /\ "db" \in Faults
    /\ WriteProduct(r)
    /\ lost' = lost \cup {r}
    /\ Answer(r, "error")
    /\ UNCHANGED <<cache, got>>

UpdateFails(r) ==
    /\ pc[r] = "update"
    /\ "db" \in Faults
    /\ Answer(r, "error")
    /\ UNCHANGED catVars

\* Mutant of DeleteEntry: Update forgets the cache.
DeleteNothing == cache' = cache

DeleteEntry == cache' = None

\* DEL; its error is dropped.
EvictEntry(r) ==
    /\ pc[r] = "evict"
    /\ \/ DeleteEntry /\ lost' = lost
       \/ "redis" \in Faults /\ cache' = cache /\ lost' = lost \cup {r}
    /\ Answer(r, "updated")
    /\ UNCHANGED <<row, got, overtook>>

\* Redis drops the entry when its ttl is over.
ExpireEntry ==
    /\ cache # None
    /\ cache.expires
    /\ cache' = None
    /\ UNCHANGED <<row, got, overtook, lost>>

CatalogueStep(r) ==
    \/ CacheHit(r)
    \/ CacheMiss(r)
    \/ SelectProduct(r)
    \/ SelectNothing(r)
    \/ FillCache(r)
    \/ UpdateProduct(r)
    \/ UpdateUnacknowledged(r)
    \/ UpdateFails(r)
    \/ EvictEntry(r)

\* A crash drops the DEL of an Update it cuts short.
CatCrash ==
    /\ lost' = lost \cup {r \in Requests : pc[r] = "evict"}
    /\ UNCHANGED <<row, cache, got, overtook>>

--------------------------------------------------------------------------------
(* Properties                                                                 *)

Stale == cache # None /\ cache.product # row

\* The cache shows an old product only while the Update that replaced it is about
\* to delete the entry, if that DEL was lost (failed, skipped after a lost
\* acknowledgement, cut off by a crash), or if the reader that stored the entry had
\* selected the product before that Update and stored it after the DEL.
StaleOnlyInRace ==
    Stale => \/ row.by # None /\ pc[row.by] = "evict"
             \/ row.by \in lost
             \/ row.by \in overtook[cache.filler]
================================================================================
