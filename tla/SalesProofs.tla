------------------------------- MODULE SalesProofs -----------------------------
(******************************************************************************)
(* Proofs about what carts hold and what is sold from them (Cart, Checkout),  *)
(* for any number of users, products, edits and checkouts, any width of Go's  *)
(* int and any faults.  They build on the inductive invariant of              *)
(* CheckoutProofs.                                                            *)
(******************************************************************************)
EXTENDS CheckoutProofs, FiniteSetTheorems, WellFoundedInduction

--------------------------------------------------------------------------------
(* Sums                                                                       *)

\* Every nonempty set of subsets of a finite set has a minimal member: what an
\* induction over finite sets comes down to.
LEMMA MinimalSubset ==
    ASSUME NEW S, IsFiniteSet(S), NEW T, T \subseteq SUBSET S, T # {}
    PROVE  \E s \in T : \A t \in T : t \subseteq s => t = s
<1>1. IsWellFoundedOn(StrictSubsetOrdering(S), SUBSET S)
  BY FS_StrictSubsetOrderingWellFounded, FS_FiniteSubsetsOfFinite
<1>2. \E s \in T : \A t \in T : ~ (<<t, s>> \in StrictSubsetOrdering(S))
  BY <1>1, WFMin
<1> QED
  BY <1>2 DEF StrictSubsetOrdering

Pick(s) == CHOOSE x \in s : TRUE

\* g adds up f over each set in D, in the order in which Pick takes the elements.
AddsUp(g, f, D) ==
    g = [s \in D |-> IF s = {} THEN 0 ELSE f[Pick(s)] + g[s \ {Pick(s)}]]

\* The recursion of the library's fold.
LEMMA SumUnfolds ==
    ASSUME NEW f
    PROVE  SumFunction(f) = (CHOOSE g : AddsUp(g, f, SUBSET (DOMAIN f)))[DOMAIN f]
  BY DEF SumFunction, SumFunctionOnSet, FoldFunctionOnSet, MapThenFoldSet, AddsUp, Pick

\* A set contains what Pick takes from it.
LEMMA PickIn == ASSUME NEW s, s # {} PROVE Pick(s) \in s
  BY DEF Pick

\* The recursion has a solution: a largest set of subsets on which it has one
\* leaves none out.
LEMMA SumExists ==
    ASSUME NEW S, IsFiniteSet(S), NEW f
    PROVE  \E g : AddsUp(g, f, SUBSET S)
<1> DEFINE Closed(D) == \A s \in D : s = {} \/ s \ {Pick(s)} \in D
           Solved == {D \in SUBSET (SUBSET S) : Closed(D) /\ \E g : AddsUp(g, f, D)}
           Missing == {(SUBSET S) \ D : D \in Solved}
<1>1. {} \in Solved
  <2>1. AddsUp([s \in {} |-> 0], f, {})
    BY DEF AddsUp
  <2> QED
    BY <2>1
<1>2. PICK m \in Missing : \A n \in Missing : n \subseteq m => n = m
  <2>1. IsFiniteSet(SUBSET S)
    BY FS_SUBSET
  <2>2. Missing \subseteq SUBSET (SUBSET S)
    OBVIOUS
  <2>3. Missing # {}
    <3> HIDE DEF Solved
    <3> QED
      BY <1>1, Zenon
  <2> HIDE DEF Missing
  <2> QED
    BY <2>1, <2>2, <2>3, MinimalSubset
<1>3. PICK D \in Solved : m = (SUBSET S) \ D
  BY <1>2
<1>4. PICK g : AddsUp(g, f, D)
  BY <1>3
<1>5. Closed(D) /\ D \subseteq SUBSET S
  BY <1>3
<1>6. ASSUME m # {} PROVE FALSE
  <2>1. PICK s \in m : \A t \in m : t \subseteq s => t = s
    <3>1. m \subseteq SUBSET S
      BY <1>3
    <3> QED
      BY <1>6, <3>1, MinimalSubset
  <2>2. s \in SUBSET S /\ s \notin D
    BY <1>3, <2>1
  <2>3. s = {} \/ s \ {Pick(s)} \in D
    <3> SUFFICES ASSUME s # {} PROVE s \ {Pick(s)} \in D
      OBVIOUS
    <3>1. Pick(s) \in s
      BY PickIn
    <3>2. s \ {Pick(s)} \in SUBSET S /\ s \ {Pick(s)} # s /\ s \ {Pick(s)} \subseteq s
      BY <2>2, <3>1
    <3>3. s \ {Pick(s)} \notin m
      BY <2>1, <3>2
    <3> QED
      BY <1>3, <3>2, <3>3
  <2> DEFINE E == D \cup {s}
             h == [t \in E |-> IF t = {} THEN 0 ELSE f[Pick(t)] + g[t \ {Pick(t)}]]
  <2>4. Closed(E)
    BY <1>5, <2>3
  <2>5. \A t \in D : h[t] = g[t]
    BY <1>4 DEF AddsUp
  <2>6. \A t \in E : t # {} => h[t \ {Pick(t)}] = g[t \ {Pick(t)}]
    BY <1>5, <2>3, <2>5
  <2>7. h = [t \in E |-> IF t = {} THEN 0 ELSE f[Pick(t)] + h[t \ {Pick(t)}]]
    <3> DEFINE k == [t \in E |-> IF t = {} THEN 0 ELSE f[Pick(t)] + h[t \ {Pick(t)}]]
    <3>1. \A t \in E : h[t] = k[t]
      BY <2>6
    <3>2. DOMAIN h = E /\ DOMAIN k = E
      OBVIOUS
    <3> QED
      BY <3>1
  <2>8. AddsUp(h, f, E)
    BY <2>7 DEF AddsUp
  <2>9. E \in Solved
    BY <1>5, <2>2, <2>4, <2>8
  <2>10. (SUBSET S) \ E \in Missing
    BY <2>9
  <2>11. (SUBSET S) \ E \subseteq m /\ (SUBSET S) \ E # m
    BY <1>3, <2>1, <2>2
  <2> QED
    BY <1>2, <2>10, <2>11
<1>7. D = SUBSET S
  BY <1>3, <1>5, <1>6
<1> QED
  BY <1>4, <1>7

\* The sum of f is the value of a solution of the recursion.
LEMMA SumSolves ==
    ASSUME NEW S, IsFiniteSet(S), NEW f \in [S -> Int]
    PROVE  \E g : AddsUp(g, f, SUBSET S) /\ SumFunction(f) = g[S]
<1> DEFINE g == CHOOSE g : AddsUp(g, f, SUBSET S)
<1>1. AddsUp(g, f, SUBSET S)
  BY SumExists
<1>2. SumFunction(f) = g[S]
  BY SumUnfolds
<1> QED
  BY <1>1, <1>2

\* The recursion starts at 0.
LEMMA AddsUpEmpty ==
    ASSUME NEW S, NEW f, NEW g, AddsUp(g, f, SUBSET S) PROVE g[{}] = 0
  BY DEF AddsUp

\* A set with elements gives up the one that Pick takes.
LEMMA AddsUpStep ==
    ASSUME NEW S, NEW f, NEW g, AddsUp(g, f, SUBSET S), NEW s \in SUBSET S, s # {}
    PROVE  g[s] = f[Pick(s)] + g[s \ {Pick(s)}]
  BY DEF AddsUp

\* Partial sums are integers.
LEMMA AddsUpType ==
    ASSUME NEW S, IsFiniteSet(S), NEW f \in [S -> Int], NEW g,
           AddsUp(g, f, SUBSET S)
    PROVE  \A s \in SUBSET S : g[s] \in Int
<1> DEFINE T == {s \in SUBSET S : g[s] \notin Int}
<1> SUFFICES ASSUME T # {} PROVE FALSE
  OBVIOUS
<1>0. PICK s \in T : \A t \in T : t \subseteq s => t = s
  <2>1. T \subseteq SUBSET S
    OBVIOUS
  <2> HIDE DEF T
  <2> QED
    BY <2>1, MinimalSubset
<1>1. s \in SUBSET S /\ g[s] \notin Int
  BY <1>0
<1>2. s # {}
  <2>1. g[{}] = 0
    BY AddsUpEmpty
  <2>2. 0 \in Int
    OBVIOUS
  <2> HIDE DEF T
  <2> QED
    BY <1>1, <2>1, <2>2, Zenon
<1>3. Pick(s) \in s /\ Pick(s) \in S
  BY <1>1, <1>2, PickIn
<1>4. g[s \ {Pick(s)}] \in Int
  BY <1>0, <1>1, <1>3
<1>5. f[Pick(s)] \in Int
  BY <1>3
<1>6. g[s] = f[Pick(s)] + g[s \ {Pick(s)}]
  <2> HIDE DEF T
  <2> QED
    BY <1>1, <1>2, AddsUpStep
<1> QED
  BY <1>1, <1>4, <1>5, <1>6

\* Any element may be taken first.
LEMMA AddsUpAt ==
    ASSUME NEW S, IsFiniteSet(S), NEW f \in [S -> Int], NEW g,
           AddsUp(g, f, SUBSET S), NEW r \in SUBSET S, NEW z \in r
    PROVE  g[r] = f[z] + g[r \ {z}]
<1> DEFINE T == {s \in SUBSET S : \E x \in s : g[s] # f[x] + g[s \ {x}]}
<1> SUFFICES ASSUME T # {} PROVE FALSE
  OBVIOUS
<1>1. PICK s \in T : \A t \in T : t \subseteq s => t = s
  <2>1. T \subseteq SUBSET S
    OBVIOUS
  <2> HIDE DEF T
  <2> QED
    BY <2>1, MinimalSubset
<1>2. PICK x \in s : g[s] # f[x] + g[s \ {x}]
  BY <1>1
<1> DEFINE c == Pick(s)
           both == s \ {x, c}
<1>3. s \in SUBSET S /\ c \in s
  BY <1>1, <1>2, PickIn
<1>4. g[s] = f[c] + g[s \ {c}]
  BY <1>2, <1>3, AddsUpStep
<1> HIDE DEF c
<1>5. c # x
  BY <1>2, <1>4
<1>6. s \ {c} \notin T /\ s \ {x} \notin T
  <2>1. s \ {c} \subseteq s /\ s \ {c} # s /\ s \ {x} \subseteq s /\ s \ {x} # s
    BY <1>2, <1>3
  <2> HIDE DEF T
  <2> QED
    BY <1>1, <2>1
<1>7. g[s \ {c}] = f[x] + g[both]
  <2>1. x \in s \ {c} /\ s \ {c} \in SUBSET S /\ (s \ {c}) \ {x} = both
    BY <1>2, <1>3, <1>5
  <2> QED
    BY <1>6, <2>1
<1>8. g[s \ {x}] = f[c] + g[both]
  <2>1. c \in s \ {x} /\ s \ {x} \in SUBSET S /\ (s \ {x}) \ {c} = both
    BY <1>2, <1>3, <1>5
  <2> QED
    BY <1>6, <2>1
<1>9. f[x] \in Int /\ f[c] \in Int /\ g[both] \in Int
  <2>1. both \in SUBSET S /\ x \in S /\ c \in S
    BY <1>2, <1>3
  <2> QED
    BY <2>1, AddsUpType
<1> HIDE DEF both
<1> QED
  BY <1>2, <1>4, <1>7, <1>8, <1>9

\* Terms that are no smaller give no smaller partial sums.
LEMMA AddsUpMonotone ==
    ASSUME NEW S, IsFiniteSet(S), NEW f \in [S -> Int], NEW h \in [S -> Int],
           NEW g, AddsUp(g, f, SUBSET S), NEW k, AddsUp(k, h, SUBSET S),
           NEW s \in SUBSET S, \A x \in s : f[x] <= h[x]
    PROVE  g[s] <= k[s]
<1> DEFINE T == {t \in SUBSET s : ~(g[t] <= k[t])}
<1> SUFFICES ASSUME T # {} PROVE FALSE
  OBVIOUS
<1>1. PICK t \in T : \A u \in T : u \subseteq t => u = t
  <2>1. T \subseteq SUBSET S
    OBVIOUS
  <2> HIDE DEF T
  <2> QED
    BY <2>1, MinimalSubset
<1>2. t \in SUBSET S /\ t \subseteq s /\ ~(g[t] <= k[t])
  BY <1>1
<1>3. t # {}
  <2>1. g[{}] = 0 /\ k[{}] = 0
    BY AddsUpEmpty
  <2>2. ASSUME t = {} PROVE ~(0 <= 0)
    BY <1>2, <2>1, <2>2, Zenon
  <2> QED
    BY <2>2
<1>4. Pick(t) \in t /\ Pick(t) \in S /\ Pick(t) \in s
  BY <1>2, <1>3, PickIn
<1> DEFINE rest == t \ {Pick(t)}
<1>5. g[t] = f[Pick(t)] + g[rest] /\ k[t] = h[Pick(t)] + k[rest]
  BY <1>2, <1>3, AddsUpStep
<1>6. rest \in SUBSET s /\ rest \in SUBSET S /\ rest \subseteq t /\ rest # t
  BY <1>2, <1>4
<1> HIDE DEF rest
<1>7. g[rest] <= k[rest]
  BY <1>1, <1>6
<1>8. g[rest] \in Int /\ k[rest] \in Int
  BY <1>6, AddsUpType
<1>9. f[Pick(t)] \in Int /\ h[Pick(t)] \in Int /\ f[Pick(t)] <= h[Pick(t)]
  BY <1>4
<1> QED
  BY <1>2, <1>5, <1>7, <1>8, <1>9

\* A sum of integers is an integer.
LEMMA SumType ==
    ASSUME NEW S, IsFiniteSet(S), NEW f \in [S -> Int]
    PROVE  SumFunction(f) \in Int
<1>1. PICK g : AddsUp(g, f, SUBSET S) /\ SumFunction(f) = g[S]
  BY SumSolves
<1> QED
  BY <1>1, AddsUpType

\* A sum grows with its terms.
LEMMA SumMonotone ==
    ASSUME NEW S, IsFiniteSet(S), NEW f \in [S -> Int], NEW h \in [S -> Int],
           \A x \in S : f[x] <= h[x]
    PROVE  SumFunction(f) <= SumFunction(h)
<1>1. PICK g : AddsUp(g, f, SUBSET S) /\ SumFunction(f) = g[S]
  BY SumSolves
<1>2. PICK k : AddsUp(k, h, SUBSET S) /\ SumFunction(h) = k[S]
  BY SumSolves
<1>3. g[S] <= k[S]
  BY <1>1, <1>2, AddsUpMonotone
<1> QED
  BY <1>1, <1>2, <1>3

\* Changing one term changes the sum by the difference.
LEMMA SumChange ==
    ASSUME NEW S, IsFiniteSet(S), NEW f \in [S -> Int], NEW x \in S, NEW v \in Int
    PROVE  SumFunction([f EXCEPT ![x] = v]) = SumFunction(f) - f[x] + v
<1> DEFINE h == [f EXCEPT ![x] = v]
           rest == S \ {x}
<1>0. h \in [S -> Int] /\ h[x] = v /\ f[x] \in Int /\ \A y \in rest : h[y] = f[y]
  OBVIOUS
<1> HIDE DEF h
<1>1. PICK g : AddsUp(g, f, SUBSET S) /\ SumFunction(f) = g[S]
  BY SumSolves
<1>2. PICK k : AddsUp(k, h, SUBSET S) /\ SumFunction(h) = k[S]
  BY <1>0, SumSolves
<1>3. g[S] = f[x] + g[rest] /\ k[S] = v + k[rest]
  <2>1. g[S] = f[x] + g[rest]
    BY <1>1, AddsUpAt
  <2>2. k[S] = h[x] + k[rest]
    <3>1. h \in [S -> Int] /\ S \in SUBSET S
      BY <1>0
    <3>2. \A e \in [S -> Int] : AddsUp(k, e, SUBSET S) => k[S] = e[x] + k[rest]
      BY <3>1, AddsUpAt
    <3> QED
      BY <1>2, <3>1, <3>2
  <2> QED
    BY <1>0, <2>1, <2>2
<1>4. \A y \in rest : f[y] \in Int /\ f[y] <= h[y] /\ h[y] <= f[y]
  BY <1>0
<1>5. g[rest] <= k[rest] /\ k[rest] <= g[rest]
  BY <1>0, <1>1, <1>2, <1>4, AddsUpMonotone
<1>6. g[rest] \in Int /\ k[rest] \in Int
  BY <1>0, <1>1, <1>2, AddsUpType
<1> QED
  BY <1>0, <1>1, <1>2, <1>3, <1>5, <1>6 DEF h

\* A sum of nothing but zeros.
LEMMA SumZero ==
    ASSUME NEW S, IsFiniteSet(S), NEW f \in [S -> Int], \A x \in S : f[x] = 0
    PROVE  SumFunction(f) = 0
<1>1. PICK g : AddsUp(g, f, SUBSET S) /\ SumFunction(f) = g[S]
  BY SumSolves
<1> DEFINE T == {t \in SUBSET S : g[t] # 0}
<1>2. ASSUME T # {} PROVE FALSE
  <2>1. PICK t \in T : \A u \in T : u \subseteq t => u = t
    <3>1. T \subseteq SUBSET S
      OBVIOUS
    <3> HIDE DEF T
    <3> QED
      BY <1>2, <3>1, MinimalSubset
  <2>2. t \in SUBSET S /\ g[t] # 0
    BY <2>1
  <2>3. t # {}
    BY <1>1, <2>2, AddsUpEmpty
  <2>4. Pick(t) \in t /\ Pick(t) \in S
    BY <2>2, <2>3, PickIn
  <2>5. g[t] = f[Pick(t)] + g[t \ {Pick(t)}]
    BY <1>1, <2>2, <2>3, AddsUpStep
  <2>6. g[t \ {Pick(t)}] = 0
    BY <2>1, <2>4
  <2> QED
    BY <2>2, <2>4, <2>5, <2>6
<1>3. g[S] = 0
  BY <1>2
<1> QED
  BY <1>1, <1>3

\* A sum with one term that is not zero.
LEMMA SumSingle ==
    ASSUME NEW S, IsFiniteSet(S), NEW f \in [S -> Int], NEW x \in S,
           \A y \in S \ {x} : f[y] = 0
    PROVE  SumFunction(f) = f[x]
<1> DEFINE h == [f EXCEPT ![x] = 0]
<1>1. h \in [S -> Int] /\ \A y \in S : h[y] = 0
  OBVIOUS
<1>2. SumFunction(h) = SumFunction(f) - f[x] + 0
  <2>1. 0 \in Int
    OBVIOUS
  <2> QED
    BY <2>1, SumChange, Zenon
<1>3. SumFunction(h) = 0
  <2> HIDE DEF h
  <2> QED
    BY <1>1, SumZero
<1>4. SumFunction(f) \in Int /\ f[x] \in Int
  BY SumType
<1>5. \A a, b \in Int : 0 = a - b + 0 => a = b
  OBVIOUS
<1> HIDE DEF h
<1> QED
  BY <1>2, <1>3, <1>4, <1>5, Zenon

--------------------------------------------------------------------------------
(* Carts                                                                      *)

\* The values of Go's int.
GoInt == -(MaxInt + 1) .. MaxInt

\* The remainder of a number below the divisor, and of one below its double.
LEMMA ModSmall ==
    ASSUME NEW n \in Nat \ {0}, NEW x \in Nat, x < n
    PROVE  x % n = x
  OBVIOUS

\* The remainder of a number below twice the divisor.
LEMMA ModOnce ==
    ASSUME NEW n \in Nat \ {0}, NEW x \in Nat, n <= x, x < 2 * n
    PROVE  x % n = x - n
  OBVIOUS

\* Adding a positive int wraps downwards or not at all.
LEMMA AddIntBound ==
    ASSUME NEW a \in GoInt, NEW b \in 1 .. MaxInt
    PROVE  /\ AddInt(a, b) \in GoInt
           /\ AddInt(a, b) <= a + b
           /\ a + b <= MaxInt => AddInt(a, b) = a + b
<1> DEFINE n == 2 * (MaxInt + 1)
           x == a + b + MaxInt + 1
<1>1. MaxInt \in Nat \ {0} /\ n \in Nat \ {0} /\ x \in Nat /\ x < 2 * n /\ a + b \in Int
  BY CartAssumption DEF GoInt
<1>2. AddInt(a, b) = (x % n) - (MaxInt + 1)
  BY DEF AddInt
<1>3. CASE a + b <= MaxInt
  <2>1. x < n
    BY <1>1, <1>3
  <2>2. x % n = x
    BY <1>1, <2>1, ModSmall
  <2> QED
    BY <1>1, <1>2, <1>3, <2>2 DEF GoInt
<1>4. CASE a + b > MaxInt
  <2>1. n <= x
    BY <1>1, <1>4
  <2>2. x % n = x - n
    BY <1>1, <2>1, ModOnce
  <2> QED
    BY <1>1, <1>2, <1>4, <2>2 DEF GoInt
<1> QED
  BY <1>1, <1>3, <1>4

--------------------------------------------------------------------------------
(* What every cart and every document about to be saved satisfies             *)

\* The lines of a user who asked for a[p] units of each product p so far: one
\* line per product, of no more units than were asked for, and of at least one
\* unless so many were asked for that Go's int may have wrapped.
Sound(ls, a) ==
    /\ IsFiniteSet(ls)
    /\ \A l \in ls :
          /\ l.quantity \in GoInt
          /\ l.quantity <= a[l.product]
          /\ a[l.product] <= MaxInt => l.quantity >= 1
          /\ \A m \in ls : m.product = l.product => m = l

\* Nobody asked for less than nothing.
AskedInv == \A u \in Users, p \in Products : added[u][p] >= 0

\* A document is between its GET and its SET while carts and added move on.
CartInv ==
    /\ CartTypeOK
    /\ AskedInv
    /\ \A u \in Users : Sound(carts[u], added[u])
    /\ \A e \in Edits : editPc[e] = "save" => Sound(document[e], added[editor[e]])

\* A cart that is missing, cleared or expired is sound.
LEMMA SoundEmpty == ASSUME NEW a PROVE Sound({}, a)
  BY FS_EmptySet DEF Sound

\* Further AddItem requests leave a document read earlier sound.
LEMMA SoundGrows ==
    ASSUME NEW ls \in SUBSET Line, NEW a \in [Products -> Int],
           NEW b \in [Products -> Int], Sound(ls, a),
           \A p \in Products : a[p] <= b[p]
    PROVE  Sound(ls, b)
<1> SUFFICES ASSUME NEW l \in ls
             PROVE  /\ l.quantity \in GoInt
                    /\ l.quantity <= b[l.product]
                    /\ b[l.product] <= MaxInt => l.quantity >= 1
                    /\ \A m \in ls : m.product = l.product => m = l
  BY DEF Sound
<1>1. l.product \in Products /\ l.quantity \in Int
  BY DEF Line
<1>2. a[l.product] \in Int /\ b[l.product] \in Int /\ a[l.product] <= b[l.product]
  BY <1>1
<1>3. MaxInt \in Int
  BY CartAssumption
<1> QED
  BY <1>1, <1>2, <1>3 DEF Sound

\* The filter loop of RemoveItem drops lines and changes none.
LEMMA SoundWithout ==
    ASSUME NEW ls, NEW a, NEW p, Sound(ls, a)
    PROVE  Sound(Without(ls, p), a)
<1>1. IsFiniteSet(Without(ls, p))
  <2>1. Without(ls, p) \subseteq ls
    BY DEF Without
  <2> QED
    BY <2>1, FS_Subset DEF Sound
<1> QED
  BY <1>1 DEF Sound, Without

\* The merge loop of AddItem finds the one line of the product, or there is none.
LEMMA SoundMerge ==
    ASSUME NEW ls \in SUBSET Line, NEW a \in [Products -> Int],
           NEW p \in Products, NEW q \in 1 .. MaxInt, a[p] >= 0, Sound(ls, a)
    PROVE  Sound(Merge(ls, p, q), [a EXCEPT ![p] = @ + q])
<1> DEFINE b == [a EXCEPT ![p] = @ + q]
           old == CHOOSE l \in ls : l.product = p
<1>1. MaxInt \in Int /\ q \in Int /\ a[p] \in Int /\ b[p] = a[p] + q
  BY CartAssumption
<1>2. \A r \in Products : r # p => b[r] = a[r]
  OBVIOUS
<1>3. ASSUME NEW n \in Line, n.product = p, n.quantity \in GoInt,
             n.quantity <= b[p], b[p] <= MaxInt => n.quantity >= 1,
             NEW rest \in SUBSET ls, \A l \in rest : l.product # p
      PROVE  Sound(rest \cup {n}, b)
  <2> SUFFICES ASSUME NEW l \in rest \cup {n}
               PROVE  /\ l.quantity \in GoInt
                      /\ l.quantity <= b[l.product]
                      /\ b[l.product] <= MaxInt => l.quantity >= 1
                      /\ \A m \in rest \cup {n} : m.product = l.product => m = l
    <3>1. IsFiniteSet(rest)
      BY <1>3, FS_Subset DEF Sound
    <3>2. IsFiniteSet(rest \cup {n})
      BY <3>1, FS_AddElement
    <3> QED
      BY <3>2 DEF Sound
  <2> HIDE DEF b
  <2>1. CASE l = n
    BY <1>3, <2>1
  <2>2. CASE l \in rest
    <3>1. l.product \in Products /\ l.product # p /\ l \in ls
      BY <1>3, <2>2 DEF Line
    <3>2. b[l.product] = a[l.product]
      BY <1>2, <3>1
    <3>3. /\ l.quantity \in GoInt
          /\ l.quantity <= b[l.product]
          /\ b[l.product] <= MaxInt => l.quantity >= 1
      BY <3>1, <3>2 DEF Sound
    <3>4. ASSUME NEW m \in rest \cup {n}, m.product = l.product
          PROVE  m = l
      <4>1. m \in ls
        BY <1>3, <3>1, <3>4
      <4> QED
        BY <3>1, <3>4, <4>1 DEF Sound
    <3> QED
      BY <3>3, <3>4
  <2> QED
    BY <2>1, <2>2
<1>4. CASE \E l \in ls : l.product = p
  <2> DEFINE n == [product |-> p, quantity |-> AddInt(old.quantity, q)]
  <2>1. old \in ls /\ old.product = p
    BY <1>4
  <2>2. old.quantity \in GoInt /\ old.quantity <= a[p]
        /\ (a[p] <= MaxInt => old.quantity >= 1)
    BY <2>1 DEF Sound
  <2>3. old.quantity \in Int
    BY <2>1 DEF Line
  <2>4. /\ AddInt(old.quantity, q) \in GoInt
        /\ AddInt(old.quantity, q) <= old.quantity + q
        /\ old.quantity + q <= MaxInt => AddInt(old.quantity, q) = old.quantity + q
    BY <2>2, AddIntBound
  <2>5. AddInt(old.quantity, q) \in Int
    BY <1>1, <2>4 DEF GoInt
  <2> HIDE DEF b, old
  <2>6. AddInt(old.quantity, q) <= b[p]
    BY <1>1, <2>2, <2>3, <2>4, <2>5
  <2>7. b[p] <= MaxInt => AddInt(old.quantity, q) >= 1
    BY <1>1, <2>2, <2>3, <2>4, <2>5
  <2>8. n \in Line /\ n.product = p /\ n.quantity = AddInt(old.quantity, q)
    BY <2>5 DEF Line
  <2>9. \A l \in ls \ {old} : l.product # p
    BY <2>1 DEF Sound
  <2>10. Sound((ls \ {old}) \cup {n}, b)
    <3> HIDE DEF n
    <3> QED
      BY <1>3, <2>4, <2>6, <2>7, <2>8, <2>9
  <2> QED
    BY <1>4, <2>10 DEF Merge, old, b
<1>5. CASE ~ \E l \in ls : l.product = p
  <2> DEFINE n == [product |-> p, quantity |-> q]
  <2>1. n \in Line /\ n.product = p /\ n.quantity = q
    BY <1>1 DEF Line
  <2>2. q \in GoInt /\ q <= b[p] /\ q >= 1
    BY <1>1, CartAssumption DEF GoInt
  <2>3. Sound(ls \cup {n}, b)
    <3> HIDE DEF n, b
    <3> QED
      BY <1>3, <1>5, <2>1, <2>2
  <2> QED
    BY <1>5, <2>3 DEF Merge
<1> QED
  BY <1>4, <1>5

--------------------------------------------------------------------------------
(* Every step keeps the carts sound                                           *)

\* GetByUserID returns the stored cart or an empty one.
LEMMA SoundRead ==
    ASSUME CartInv, NEW u \in Users, NEW ls \in GetByUserID(u)
    PROVE  Sound(ls, added[u])
<1>1. ls = carts[u] \/ ls = {}
  BY DEF GetByUserID
<1> QED
  BY <1>1, SoundEmpty DEF CartInv

\* StoreCart replaces one user's cart, if there is a Redis.
LEMMA SoundStore ==
    ASSUME CartInv, NEW u \in Users, NEW ls, Sound(ls, added[u]), StoreCart(u, ls)
    PROVE  \A v \in Users : Sound(carts'[v], added[v])
  BY DEF CartInv, CartTypeOK, StoreCart

\* What a user asked for never shrinks.
LEMMA AddItemGrows ==
    ASSUME CartInv, NEW e \in Edits, NEW p \in Products, NEW q \in AddQuantities,
           AddItem(e, p, q), NEW v \in Users, NEW r \in Products
    PROVE  added[v][r] <= added'[v][r]
<1> DEFINE u == editor[e]
           n == RequestedQuantity(q)
<1>1. u \in Users /\ added \in [Users -> [Products -> Int]]
  BY DEF CartInv, CartTypeOK
<1>2. n \in Int /\ n >= 1
  BY CartAssumption DEF RequestedQuantity
<1>3. added' = [added EXCEPT ![u][p] = @ + n]
  BY DEF AddItem
<1> HIDE DEF n
<1>4. added[v][r] \in Int
  BY <1>1
<1>5. added'[v][r] = added[v][r] \/ added'[v][r] = added[v][r] + n
  BY <1>1, <1>3
<1> QED
  BY <1>2, <1>4, <1>5

\* AddItem: the request is added to what the user asked for as its document is
\* made, so that the documents and carts of before stay below the total.
LEMMA AddItemSound ==
    ASSUME CartInv, NEW e \in Edits, NEW p \in Products, NEW q \in AddQuantities,
           AddItem(e, p, q), CartTypeOK'
    PROVE  CartInv'
<1> DEFINE u == editor[e]
           n == RequestedQuantity(q)
<1>1. u \in Users /\ added[u] \in [Products -> Int] /\ added[u][p] >= 0
  BY DEF CartInv, CartTypeOK, AskedInv
<1>2. n \in 1 .. MaxInt
  BY CartAssumption DEF RequestedQuantity
<1>3. PICK ls \in GetByUserID(u) : document' = [document EXCEPT ![e] = Merge(ls, p, n)]
  BY DEF AddItem
<1>4. /\ editPc' = [editPc EXCEPT ![e] = "save"]
      /\ carts' = carts
      /\ editor' = editor
      /\ added' = [added EXCEPT ![u][p] = @ + n]
  BY DEF AddItem
<1> HIDE DEF n
<1>5. added'[u] = [added[u] EXCEPT ![p] = @ + n]
  BY <1>1, <1>4 DEF CartInv, CartTypeOK
<1>6. \A v \in Users : v # u => added'[v] = added[v]
  BY <1>1, <1>4 DEF CartInv, CartTypeOK
<1>7. \A v \in Users, r \in Products : added[v][r] <= added'[v][r]
  BY AddItemGrows
<1>8. \A v \in Users : added[v] \in [Products -> Int] /\ added'[v] \in [Products -> Int]
  BY DEF CartInv, CartTypeOK
<1>9. AskedInv'
  <2> SUFFICES ASSUME NEW v \in Users, NEW r \in Products
               PROVE  added'[v][r] >= 0
    BY DEF AskedInv
  <2>1. added[v][r] \in Int /\ added'[v][r] \in Int /\ added[v][r] >= 0
    BY <1>8 DEF CartInv, AskedInv
  <2> QED
    BY <1>7, <2>1
<1>10. ASSUME NEW v \in Users PROVE Sound(carts'[v], added'[v])
  <2>1. carts[v] \in SUBSET Line /\ Sound(carts[v], added[v])
    BY DEF CartInv, CartTypeOK
  <2> QED
    BY <1>4, <1>7, <1>8, <2>1, SoundGrows
<1>11. ASSUME NEW f \in Edits, editPc'[f] = "save"
       PROVE  Sound(document'[f], added'[editor'[f]])
  <2>1. CASE f = e
    <3>1. ls \in SUBSET Line /\ Sound(ls, added[u])
      BY <1>1, <1>3, SoundRead, GetByUserIDType DEF CartInv
    <3>2. Sound(Merge(ls, p, n), [added[u] EXCEPT ![p] = @ + n])
      BY <1>1, <1>2, <3>1, SoundMerge
    <3>3. document'[f] = Merge(ls, p, n)
      BY <1>3, <2>1 DEF CartInv, CartTypeOK
    <3> QED
      BY <1>4, <1>5, <2>1, <3>2, <3>3
  <2>2. CASE f # e
    <3>1. document'[f] = document[f] /\ editPc'[f] = editPc[f]
      BY <1>3, <1>4, <2>2 DEF CartInv, CartTypeOK
    <3>2. editor[f] \in Users /\ document[f] \in SUBSET Line
          /\ Sound(document[f], added[editor[f]])
      BY <1>11, <3>1 DEF CartInv, CartTypeOK
    <3> QED
      BY <1>4, <1>7, <1>8, <3>1, <3>2, SoundGrows
  <2> QED
    BY <2>1, <2>2
<1> QED
  BY <1>9, <1>10, <1>11 DEF CartInv

\* A step that asks for nothing and changes no document in hand.
LEMMA OtherStepSound ==
    ASSUME CartInv, CartTypeOK', added' = added, editor' = editor,
           \A u \in Users : Sound(carts'[u], added[u]),
           \A e \in Edits : editPc'[e] = "save" => Sound(document'[e], added[editor[e]])
    PROVE  CartInv'
  BY DEF CartInv, AskedInv

\* The steps of the cart requests keep carts and documents sound.
LEMMA CartNextSound == ASSUME CartInv, CartNext PROVE CartInv'
<1>0. CartTypeOK'
  BY CartNextType DEF CartInv
<1>1. ASSUME NEW e \in Edits, NEW p \in Products, NEW q \in AddQuantities,
             AddItem(e, p, q)
      PROVE  CartInv'
  BY <1>0, <1>1, AddItemSound
<1>2. ASSUME NEW e \in Edits, NEW p \in Products, AddItemNoProduct(e, p)
      PROVE  CartInv'
  <2>1. \A f \in Edits : editPc'[f] = "save" => editPc[f] = "save"
    BY <1>2 DEF AddItemNoProduct, CartInv, CartTypeOK
  <2> QED
    BY <1>0, <1>2, <2>1, OtherStepSound DEF AddItemNoProduct, CartInv
<1>3. ASSUME NEW e \in Edits, NEW p \in Products, RemoveItem(e, p)
      PROVE  CartInv'
  <2>1. PICK ls \in GetByUserID(editor[e]) :
          document' = [document EXCEPT ![e] = Without(ls, p)]
    BY <1>3 DEF RemoveItem
  <2>2. editor[e] \in Users
    BY DEF CartInv, CartTypeOK
  <2>3. Sound(Without(ls, p), added[editor[e]])
    BY <2>2, SoundRead, SoundWithout
  <2>4. ASSUME NEW f \in Edits, editPc'[f] = "save"
        PROVE  Sound(document'[f], added[editor[f]])
    <3>1. CASE f = e
      BY <2>1, <2>3, <3>1 DEF CartInv, CartTypeOK
    <3>2. CASE f # e
      BY <1>3, <2>1, <2>4, <3>2 DEF RemoveItem, CartInv, CartTypeOK
    <3> QED
      BY <3>1, <3>2
  <2> QED
    BY <1>0, <1>3, <2>4, OtherStepSound DEF RemoveItem, CartInv
<1>4. ASSUME NEW e \in Edits, SaveCart(e)
      PROVE  CartInv'
  <2>1. editor[e] \in Users /\ Sound(document[e], added[editor[e]])
    BY <1>4 DEF SaveCart, CartInv, CartTypeOK
  <2>2. \A v \in Users : Sound(carts'[v], added[v])
    BY <1>4, <2>1, SoundStore DEF SaveCart
  <2>3. \A f \in Edits : editPc'[f] = "save" => editPc[f] = "save"
    BY <1>4 DEF SaveCart, CartInv, CartTypeOK
  <2> QED
    BY <1>0, <1>4, <2>2, <2>3, OtherStepSound DEF SaveCart, CartInv
<1>5. ASSUME NEW e \in Edits, SaveCartFails(e)
      PROVE  CartInv'
  <2>1. \A f \in Edits : editPc'[f] = "save" => editPc[f] = "save"
    BY <1>5 DEF SaveCartFails, CartInv, CartTypeOK
  <2> QED
    BY <1>0, <1>5, <2>1, OtherStepSound DEF SaveCartFails, CartInv
<1>6. ASSUME NEW u \in Users, CartExpires(u)
      PROVE  CartInv'
  <2>1. \A v \in Users : carts'[v] = carts[v] \/ carts'[v] = {}
    BY <1>6 DEF CartExpires, CartInv, CartTypeOK
  <2>2. \A v \in Users : Sound(carts'[v], added[v])
    BY <2>1, SoundEmpty DEF CartInv
  <2> QED
    BY <1>0, <1>6, <2>2, OtherStepSound DEF CartExpires, CartInv
<1> QED
  BY <1>1, <1>2, <1>3, <1>4, <1>5, <1>6 DEF CartNext

\* So does a step that leaves them alone.
LEMMA CartUntouched == ASSUME CartInv, UNCHANGED cartVars PROVE CartInv'
  BY DEF CartInv, CartTypeOK, AskedInv, cartVars

\* Of the other steps, only clearing a cart and a crash touch them.
LEMMA CartStep == ASSUME TypeOK, TypeOK', CartInv, [Next]_vars PROVE CartInv'
<1>0. CartTypeOK'
  BY DEF TypeOK
<1>1. CASE CartNext
  BY <1>1, CartNextSound
<1>2. ASSUME NEW r \in Checkouts, ClearCart(r)
      PROVE  CartInv'
  <2>1. buyer[r] \in Users
    BY DEF TypeOK
  <2>2. \A v \in Users : Sound(carts'[v], added[v])
    <3>1. CASE StoreCart(buyer[r], {})
      BY <2>1, <3>1, SoundEmpty, SoundStore
    <3>2. CASE carts' = carts
      BY <3>2 DEF CartInv
    <3> QED
      BY <1>2, <3>1, <3>2 DEF ClearCart
  <2> QED
    BY <1>0, <1>2, <2>2, OtherStepSound DEF ClearCart, CartInv
<1>3. CASE Crash
  <2>1. \A f \in Edits : editPc'[f] = "save" => editPc[f] = "save"
    BY <1>3 DEF Crash, CartCrash
  <2> QED
    BY <1>0, <1>3, <2>1, OtherStepSound DEF Crash, CartInv
<1>4. CASE UNCHANGED cartVars
  BY <1>4, CartUntouched
<1>5. ASSUME NEW r \in Checkouts, CheckoutStep(r)
      PROVE  UNCHANGED cartVars \/ ClearCart(r)
  BY <1>5 DEF CheckoutStep, ReadCart, ReadCartEmpty, ProbeStock, ProbeInsufficient,
       ProbeFails, Reserve, ReserveUnacknowledged, ReserveFails, ReserveNoRows,
       Diagnose, Persist, PersistUnacknowledged, PersistFails
<1> QED
  BY <1>1, <1>2, <1>3, <1>4, <1>5 DEF Next, vars

\* Every cart starts empty.
LEMMA CartInitially == ASSUME Init PROVE CartInv
<1>1. CartTypeOK
  BY DEF Init, CartInit, CartTypeOK, EditStates
<1> QED
  BY <1>1, SoundEmpty DEF Init, CartInit, CartInv, AskedInv

--------------------------------------------------------------------------------
(* What has been sold                                                         *)

\* The units each checkout took, given the deductions of one product.
TakenFrom(entries) ==
    [r \in Checkouts |->
        IF \E k \in 1 .. Len(entries) : entries[k].by = r
        THEN entries[CHOOSE k \in 1 .. Len(entries) : entries[k].by = r].line.quantity
        ELSE 0]

\* The lines of a checkout are a cart its user had, and it takes stock for
\* nothing else.
HeldInv ==
    /\ \A r \in Checkouts :
          todo[r] \subseteq lines[r] /\ Sound(lines[r], added[buyer[r]])
    /\ \A p \in Products : \A k \in 1 .. Len(ledger[p]) :
          ledger[p][k].line \in lines[ledger[p][k].by]

\* What the row of a product lost is what the checkouts took.
StockInv ==
    \A p \in Products :
        inventory[p] # None =>
            SumFunction(TakenFrom(ledger[p])) = stocked[p] - inventory[p].quantity

\* No step of the system shrinks what a user asked for.
LEMMA AddedGrows ==
    ASSUME CartInv, [Next]_vars, NEW u \in Users, NEW p \in Products
    PROVE  added[u][p] <= added'[u][p]
<1>1. ASSUME NEW e \in Edits, NEW x \in Products, NEW q \in AddQuantities,
             AddItem(e, x, q)
      PROVE  added[u][p] <= added'[u][p]
  BY <1>1, AddItemGrows
<1>2. CASE added' = added
  <2>1. added[u][p] \in Int
    BY DEF CartInv, CartTypeOK
  <2> QED
    BY <1>2, <2>1
<1>3. CartNext => \/ added' = added
                  \/ \E e \in Edits, x \in Products, q \in AddQuantities : AddItem(e, x, q)
  BY DEF CartNext, AddItemNoProduct, RemoveItem, SaveCart, SaveCartFails, CartExpires
<1>4. ASSUME NEW r \in Checkouts, CheckoutStep(r) PROVE added' = added
  BY <1>4 DEF CheckoutStep, ReadCart, ReadCartEmpty, ProbeStock, ProbeInsufficient,
       ProbeFails, Reserve, ReserveUnacknowledged, ReserveFails, ReserveNoRows,
       Diagnose, Persist, PersistUnacknowledged, PersistFails, ClearCart, cartVars
<1>5. Crash => added' = added
  BY DEF Crash
<1> QED
  BY <1>1, <1>2, <1>3, <1>4, <1>5 DEF Next, vars, cartVars

\* A checkout's lines are those it read when it left "idle".
LEMMA LinesFixed ==
    ASSUME IndInv, [Next]_vars, NEW r \in Checkouts
    PROVE  \/ ReadCart(r)
           \/ lines'[r] = lines[r] /\ todo'[r] \subseteq todo[r]
<1>1. CASE UNCHANGED Local(r)
  BY <1>1 DEF Local
<1>2. CASE Dies(r)
  BY <1>2 DEF Dies
<1>3. CASE CheckoutStep(r)
  BY <1>3 DEF CheckoutStep, ReadCartEmpty, ProbeStock, ProbeInsufficient, ProbeFails,
       Reserve, ReserveUnacknowledged, ReserveFails, ReserveNoRows, Diagnose, Persist,
       PersistUnacknowledged, PersistFails, ClearCart, Advance, IndInv, TypeOK
<1> QED
  BY <1>1, <1>2, <1>3, LocalSteps

\* A checkout has one user.
LEMMA BuyerFixed == ASSUME [Next]_vars PROVE buyer' = buyer
  BY DEF Next, CheckoutStep, ReadCart, ReadCartEmpty, ProbeStock, ProbeInsufficient,
       ProbeFails, Reserve, ReserveUnacknowledged, ReserveFails, ReserveNoRows,
       Diagnose, Persist, PersistUnacknowledged, PersistFails, ClearCart, Crash,
       coVars, vars

\* A checkout goes on holding the cart it read, although the stored one changes.
LEMMA HeldStep ==
    ASSUME IndInv, TypeOK', CartInv, HeldInv, [Next]_vars
    PROVE  HeldInv'
<1>1. ASSUME NEW u \in Users, NEW ls \in SUBSET Line, Sound(ls, added[u])
      PROVE  Sound(ls, added'[u])
  <2>1. added[u] \in [Products -> Int] /\ added'[u] \in [Products -> Int]
    BY DEF CartInv, CartTypeOK, TypeOK
  <2> QED
    BY <1>1, <2>1, AddedGrows, SoundGrows
<1>2. ASSUME NEW r \in Checkouts
      PROVE  todo'[r] \subseteq lines'[r] /\ Sound(lines'[r], added'[buyer'[r]])
  <2>1. buyer'[r] = buyer[r] /\ buyer[r] \in Users
    BY BuyerFixed DEF IndInv, TypeOK
  <2>2. CASE ReadCart(r)
    <3>1. PICK c \in GetByUserID(buyer[r]) : /\ lines' = [lines EXCEPT ![r] = c]
                                            /\ todo' = [todo EXCEPT ![r] = c]
      BY <2>2 DEF ReadCart
    <3>2. lines'[r] = c /\ todo'[r] = c
      BY <3>1 DEF IndInv, TypeOK
    <3>3. c \in SUBSET Line /\ Sound(c, added[buyer[r]])
      BY <2>1, SoundRead, GetByUserIDType DEF CartInv
    <3> QED
      BY <1>1, <2>1, <3>2, <3>3
  <2>3. CASE lines'[r] = lines[r] /\ todo'[r] \subseteq todo[r]
    <3>1. lines[r] \in SUBSET Line
      BY DEF IndInv, TypeOK
    <3> QED
      BY <1>1, <2>1, <2>3, <3>1 DEF HeldInv
  <2> QED
    BY <2>2, <2>3, LinesFixed
<1>3. ASSUME NEW p \in Products, NEW k \in 1 .. Len(ledger'[p])
      PROVE  ledger'[p][k].line \in lines'[ledger'[p][k].by]
  <2>1. CASE k \in 1 .. Len(ledger[p])
    <3>1. PICK d : d = ledger[p][k]
      OBVIOUS
    <3>2. ledger'[p][k] = d
      BY <2>1, <3>1, LedgerGrows
    <3>3. d \in Deduction
      BY <2>1, <3>1 DEF IndInv, TypeOK
    <3>4. d.by \in Checkouts /\ d.line \in lines[d.by] /\ pc[d.by] # "idle"
      BY <2>1, <3>1, <3>3 DEF HeldInv, IndInv, LedgerInv, Deduction
    <3>5. lines'[d.by] = lines[d.by]
      BY <3>4, LinesFixed DEF ReadCart
    <3> QED
      BY <3>2, <3>4, <3>5
  <2>2. CASE k \notin 1 .. Len(ledger[p])
    <3>1. PICK r \in Checkouts : /\ Reserve(r) \/ ReserveUnacknowledged(r)
                                /\ Deducts(r)
                                /\ ledger'[p][k] = DeductionOf(r)
      BY <2>2, LedgerGrows
    <3>2. probe[r].line \in todo[r]
      BY <3>1 DEF Deducts, IndInv, LoopInv
    <3>3. lines' = lines
      BY <3>1 DEF Reserve, ReserveUnacknowledged
    <3>4. probe[r].line \in lines'[r]
      BY <3>2, <3>3 DEF HeldInv
    <3> QED
      BY <3>1, <3>4 DEF DeductionOf
  <2> QED
    BY <2>1, <2>2
<1> QED
  BY <1>2, <1>3 DEF HeldInv

\* A checkout deducts from a product once, as a cart has one line for it.
SingleInv ==
    \A p \in Products : \A j, k \in 1 .. Len(ledger[p]) :
        ledger[p][j].by = ledger[p][k].by => j = k

\* Two deductions of one checkout are for lines of its cart, hence for the same
\* line, which it takes once.
LEMMA DeductsOnce == IndInv /\ HeldInv => SingleInv
<1> SUFFICES ASSUME IndInv, HeldInv, NEW p \in Products,
                    NEW j \in 1 .. Len(ledger[p]), NEW k \in 1 .. Len(ledger[p]),
                    ledger[p][j].by = ledger[p][k].by
             PROVE  j = k
  BY DEF SingleInv
<1>1. PICK d, e : d = ledger[p][j] /\ e = ledger[p][k]
  OBVIOUS
<1>2. d \in Deduction /\ e \in Deduction
  BY <1>1 DEF IndInv, TypeOK
<1>3. d.by \in Checkouts /\ d.line \in lines[d.by] /\ e.line \in lines[d.by]
  BY <1>1, <1>2 DEF HeldInv, Deduction
<1>4. d.line.product = p /\ e.line.product = p
  BY <1>1 DEF IndInv, LedgerInv
<1>5. d.line = e.line
  BY <1>3, <1>4 DEF HeldInv, Sound
<1> QED
  BY <1>1, <1>5 DEF IndInv, TakesOnce

\* Units taken are integers.
LEMMA TakenType ==
    ASSUME NEW entries \in Seq(Deduction)
    PROVE  TakenFrom(entries) \in [Checkouts -> Int]
<1> SUFFICES ASSUME NEW r \in Checkouts, NEW k \in 1 .. Len(entries)
             PROVE  entries[k].line.quantity \in Int
  BY DEF TakenFrom
<1>1. entries[k] \in Deduction
  OBVIOUS
<1> QED
  BY <1>1 DEF Deduction, Line

\* What a checkout took is in its one deduction.
LEMMA TakenBy ==
    ASSUME NEW entries, NEW r \in Checkouts, NEW k \in 1 .. Len(entries),
           entries[k].by = r, \A j \in 1 .. Len(entries) : entries[j].by = r => j = k
    PROVE  TakenFrom(entries)[r] = entries[k].line.quantity
<1>1. (CHOOSE j \in 1 .. Len(entries) : entries[j].by = r) = k
  OBVIOUS
<1> QED
  BY <1>1 DEF TakenFrom

\* A checkout with no deduction took nothing.
LEMMA TakenNone ==
    ASSUME NEW entries, NEW r \in Checkouts,
           \A j \in 1 .. Len(entries) : entries[j].by # r
    PROVE  TakenFrom(entries)[r] = 0
  BY DEF TakenFrom

\* A further deduction adds its own units and changes nobody else's.
LEMMA TakenAppend ==
    ASSUME NEW old \in Seq(Deduction), NEW d \in Deduction, NEW new,
           new = Append(old, d),
           \A j, k \in 1 .. Len(new) : new[j].by = new[k].by => j = k
    PROVE  /\ TakenFrom(old)[d.by] = 0
           /\ TakenFrom(new) = [TakenFrom(old) EXCEPT ![d.by] = d.line.quantity]
<1> DEFINE n == Len(old)
<1>1. /\ n \in Nat
      /\ new \in Seq(Deduction)
      /\ Len(new) = n + 1
      /\ new[n + 1] = d
      /\ \A k \in 1 .. n : new[k] = old[k]
  OBVIOUS
<1>2. d.by \in Checkouts
  BY DEF Deduction
<1> HIDE DEF n
<1>3. \A k \in 1 .. n : k \in 1 .. Len(new) /\ k # n + 1
  BY <1>1
<1>4. n + 1 \in 1 .. Len(new)
  BY <1>1
<1>5. \A k \in 1 .. n : old[k].by # d.by
  BY <1>1, <1>3, <1>4
<1>6. TakenFrom(old)[d.by] = 0
  BY <1>2, <1>5, TakenNone DEF n
<1>7. TakenFrom(new)[d.by] = d.line.quantity
  <2>1. PICK k \in 1 .. Len(new) : k = n + 1 /\ new[k] = d
    BY <1>1, <1>4
  <2>2. \A j \in 1 .. Len(new) : new[j].by = d.by => j = k
    BY <2>1
  <2>3. TakenFrom(new)[d.by] = new[k].line.quantity
    BY <1>2, <2>1, <2>2, TakenBy
  <2> QED
    BY <2>1, <2>3
<1>8. ASSUME NEW r \in Checkouts, r # d.by PROVE TakenFrom(new)[r] = TakenFrom(old)[r]
  <2>1. CASE \E k \in 1 .. n : old[k].by = r
    <3>1. PICK k \in 1 .. n : old[k].by = r
      BY <2>1
    <3>2. k \in 1 .. Len(new) /\ new[k] = old[k] /\ new[k].by = r
      BY <1>1, <1>3, <3>1
    <3>3. \A j \in 1 .. Len(new) : new[j].by = r => j = k
      BY <3>2
    <3>4. \A j \in 1 .. n : old[j].by = r => j = k
      BY <1>1, <1>3, <3>3
    <3>5. TakenFrom(new)[r] = new[k].line.quantity
      BY <3>2, <3>3, TakenBy
    <3>6. TakenFrom(old)[r] = old[k].line.quantity
      BY <3>1, <3>4, TakenBy DEF n
    <3> QED
      BY <3>2, <3>5, <3>6
  <2>2. CASE \A k \in 1 .. n : old[k].by # r
    <3>1. \A k \in 1 .. Len(new) : k \in 1 .. n \/ k = n + 1
      BY <1>1
    <3>2. \A k \in 1 .. Len(new) : new[k].by # r
      BY <1>1, <1>8, <2>2, <3>1
    <3>3. TakenFrom(new)[r] = 0
      BY <3>2, TakenNone
    <3>4. TakenFrom(old)[r] = 0
      BY <2>2, TakenNone DEF n
    <3> QED
      BY <3>3, <3>4
  <2> QED
    BY <2>1, <2>2
<1>9. /\ TakenFrom(new) \in [Checkouts -> Int]
      /\ TakenFrom(old) \in [Checkouts -> Int]
  BY <1>1, TakenType
<1> QED
  BY <1>2, <1>6, <1>7, <1>8, <1>9

\* A deduction takes from the row what it adds to the units taken.
LEMMA StockStep ==
    ASSUME IndInv, SingleInv', StockInv, [Next]_vars
    PROVE  StockInv'
<1> SUFFICES ASSUME NEW p \in Products, inventory'[p] # None
             PROVE  SumFunction(TakenFrom(ledger'[p])) = stocked'[p] - inventory'[p].quantity
  BY DEF StockInv
<1>1. CASE StockUnchanged
  BY <1>1 DEF StockUnchanged, StockInv
<1>2. ASSUME NEW x \in Products, Stocks(x)
      PROVE  SumFunction(TakenFrom(ledger'[p])) = stocked'[p] - inventory'[p].quantity
  <2>1. PICK q \in Nat : /\ inventory' = [inventory EXCEPT ![x] = NewRow(q)]
                         /\ stocked' = [stocked EXCEPT ![x] = q]
    BY <1>2 DEF Stocks
  <2>2. CASE p = x
    <3>1. ledger'[p] = <<>>
      BY <1>2, <2>2 DEF Stocks, IndInv, RowInv
    <3>2. stocked'[p] = q /\ inventory'[p].quantity = q
      BY <2>1, <2>2 DEF IndInv, TypeOK, InvTypeOK, NewRow
    <3>3. <<>> \in Seq(Deduction) /\ \A k \in 1 .. Len(<<>>) : FALSE
      OBVIOUS
    <3>4. TakenFrom(<<>>) \in [Checkouts -> Int]
      BY <3>3, TakenType
    <3>5. \A r \in Checkouts : TakenFrom(<<>>)[r] = 0
      BY <3>3, TakenNone
    <3>6. SumFunction(TakenFrom(<<>>)) = 0
      BY <3>4, <3>5, SumZero, CheckoutAssumption
    <3> QED
      BY <3>1, <3>2, <3>6
  <2>3. CASE p # x
    <3>1. /\ inventory'[p] = inventory[p]
          /\ stocked'[p] = stocked[p]
          /\ ledger' = ledger
      BY <1>2, <2>1, <2>3 DEF Stocks, IndInv, TypeOK, InvTypeOK
    <3> QED
      BY <3>1 DEF StockInv
  <2> QED
    BY <2>2, <2>3
<1>3. ASSUME NEW r \in Checkouts, Deducts(r)
      PROVE  SumFunction(TakenFrom(ledger'[p])) = stocked'[p] - inventory'[p].quantity
  <2>1. CASE p # probe[r].line.product
    <3>1. ledger'[p] = ledger[p] /\ inventory'[p] = inventory[p] /\ stocked' = stocked
      BY <1>3, <2>1, DeductFacts DEF Deducts, IndInv
    <3> QED
      BY <3>1 DEF StockInv
  <2>2. CASE p = probe[r].line.product
    <3>1. PICK d \in Deduction : d = DeductionOf(r)
      BY <1>3, <2>2, DeductFacts DEF Deducts, IndInv
    <3>2. d.by = r /\ d.line = probe[r].line /\ d.line.quantity \in Int
      BY <3>1 DEF DeductionOf, Deduction, Line
    <3>3. /\ inventory' = [inventory EXCEPT ![p] =
                Written(inventory[p], inventory[p].quantity - d.line.quantity)]
          /\ ledger' = [ledger EXCEPT ![p] = Append(ledger[p], d)]
          /\ stocked' = stocked
      BY <1>3, <2>2, <3>1, <3>2, DeductFacts DEF Deducts, IndInv
    <3>4. ledger[p] \in Seq(Deduction) /\ ledger'[p] = Append(ledger[p], d)
      BY <3>3 DEF IndInv, TypeOK
    <3>5. inventory[p] \in Row /\ inventory[p] # None
      BY <1>3, <2>2, ProbeType, InventoryAssumption DEF Deducts, IndInv
    <3>6. inventory'[p].quantity = inventory[p].quantity - d.line.quantity
      BY <3>3 DEF Written, IndInv, TypeOK, InvTypeOK
    <3>7. \A j, k \in 1 .. Len(ledger'[p]) : ledger'[p][j].by = ledger'[p][k].by => j = k
      BY DEF SingleInv
    <3>8. /\ TakenFrom(ledger[p])[d.by] = 0
          /\ TakenFrom(ledger'[p]) = [TakenFrom(ledger[p]) EXCEPT ![d.by] = d.line.quantity]
      BY <3>4, <3>7, TakenAppend
    <3>9. TakenFrom(ledger[p]) \in [Checkouts -> Int]
      BY <3>4, TakenType
    <3>10. SumFunction(TakenFrom(ledger'[p]))
             = SumFunction(TakenFrom(ledger[p])) - TakenFrom(ledger[p])[d.by] + d.line.quantity
      <4>1. d.by \in Checkouts /\ IsFiniteSet(Checkouts)
        BY CheckoutAssumption DEF Deduction
      <4>2. PICK t \in [Checkouts -> Int] : t = TakenFrom(ledger[p])
        BY <3>9
      <4>3. SumFunction([t EXCEPT ![d.by] = d.line.quantity])
              = SumFunction(t) - t[d.by] + d.line.quantity
        BY <3>2, <4>1, SumChange
      <4> QED
        BY <3>8, <4>2, <4>3
    <3>11. SumFunction(TakenFrom(ledger[p])) = stocked[p] - inventory[p].quantity
      BY <3>5 DEF StockInv
    <3>12. stocked[p] \in Int /\ inventory[p].quantity \in Int
      BY <3>5 DEF Row, IndInv, TypeOK, InvTypeOK
    <3> QED
      BY <3>2, <3>3, <3>6, <3>8, <3>10, <3>11, <3>12
  <2> QED
    BY <2>1, <2>2
<1> QED
  BY <1>1, <1>2, <1>3, StockSteps

\* The inductive invariant.
SalesInv == IndInv /\ CartInv /\ HeldInv /\ StockInv

\* Nothing is sold at the start.
LEMMA SalesInitially == ASSUME Init PROVE SalesInv
<1>1. IndInv /\ CartInv
  BY InitInd, CartInitially
<1>2. \A p \in Products : ledger[p] = <<>> /\ Len(ledger[p]) = 0
  BY DEF Init, CoInit
<1>3. HeldInv
  BY <1>2, SoundEmpty DEF Init, CoInit, HeldInv
<1>4. StockInv
  <2>1. ASSUME NEW p \in Products, inventory[p] # None
        PROVE  stocked[p] = SeedStock /\ inventory[p].quantity = SeedStock
    BY <2>1 DEF Init, InvInit, NewRow
  <2>2. <<>> \in Seq(Deduction) /\ \A k \in 1 .. Len(<<>>) : FALSE
    OBVIOUS
  <2>3. TakenFrom(<<>>) \in [Checkouts -> Int]
    BY <2>2, TakenType
  <2>4. \A r \in Checkouts : TakenFrom(<<>>)[r] = 0
    BY <2>2, TakenNone
  <2>5. SumFunction(TakenFrom(<<>>)) = 0
    BY <2>3, <2>4, SumZero, CheckoutAssumption
  <2>6. SeedStock - SeedStock = 0
    BY InventoryAssumption
  <2> QED
    BY <1>2, <2>1, <2>5, <2>6 DEF StockInv
<1> QED
  BY <1>1, <1>3, <1>4 DEF SalesInv

\* The inductive invariant holds throughout.
THEOREM SalesInductive == Spec => []SalesInv
<1>1. Init => SalesInv
  BY SalesInitially
<1>2. SalesInv /\ [Next]_vars => IndInv' /\ CartInv' /\ HeldInv'
  <2> SUFFICES ASSUME SalesInv, [Next]_vars PROVE IndInv' /\ CartInv' /\ HeldInv'
    OBVIOUS
  <2>1. IndInv'
    BY NextInd DEF SalesInv
  <2>2. TypeOK /\ TypeOK'
    BY <2>1 DEF SalesInv, IndInv
  <2> QED
    BY <2>1, <2>2, CartStep, HeldStep DEF SalesInv
<1>3. SalesInv /\ [Next]_vars /\ SingleInv' => StockInv'
  BY StockStep DEF SalesInv
<1>4. SalesInv <=> IndInv /\ CartInv /\ HeldInv /\ StockInv
  BY DEF SalesInv
<1> QED
  BY <1>1, <1>2, <1>3, <1>4, DeductsOnce, PTL DEF Spec

--------------------------------------------------------------------------------
(* Theorems                                                                   *)

\* Overlapping AddItem and RemoveItem requests lose units but never make any up:
\* a cart, or a document about to be SET, holds no more of a product than its
\* user asked for.  It holds however far Go's int wraps.
THEOREM CartsNeverInflate == Spec => []CartNeverInflates
<1>1. SalesInv => CartNeverInflates
  BY DEF SalesInv, CartInv, Sound, CartNeverInflates
<1> QED
  BY <1>1, SalesInductive, PTL

\* Every cart has one line per product, of at least one unit: the merge loop of
\* AddItem finds the line in every document a racing edit can have read.  When
\* more is asked for than Go's int holds, AddItem's sum may wrap to a negative
\* quantity.
THEOREM CartsWellFormed == Spec => []CartWellFormed
<1>1. SalesInv => CartWellFormed
  <2> SUFFICES ASSUME SalesInv, NEW u \in Users, NEW l \in carts[u]
               PROVE  /\ AsksFit(u, l.product) => l.quantity >= 1
                      /\ \A m \in carts[u] : m.product = l.product => m = l
    BY DEF CartWellFormed
  <2>1. l.product \in Products
    BY DEF SalesInv, CartInv, CartTypeOK, Line
  <2> QED
    BY <2>1 DEF AsksFit, SalesInv, CartInv, Sound
<1> QED
  BY <1>1, SalesInductive, PTL

\* Lines with one line per product hold the units of at most one of them.
LEMMA UnitsOfCart ==
    ASSUME NEW ls \in SUBSET Line, IsFiniteSet(ls), NEW p,
           \A l, m \in ls : m.product = l.product => m = l
    PROVE  /\ UnitsOf(p, ls) \in Int
           /\ \/ UnitsOf(p, ls) = 0
              \/ \E l \in ls : l.product = p /\ UnitsOf(p, ls) = l.quantity
<1> DEFINE f == [l \in ls |-> IF l.product = p THEN l.quantity ELSE 0]
<1>1. f \in [ls -> Int]
  BY DEF Line
<1>2. UnitsOf(p, ls) = SumFunction(f)
  BY DEF UnitsOf
<1>3. ASSUME NEW l \in ls, l.product = p PROVE SumFunction(f) = l.quantity
  <2>1. f[l] = l.quantity /\ \A m \in ls \ {l} : f[m] = 0
    BY <1>3
  <2> HIDE DEF f
  <2> QED
    BY <1>1, <2>1, SumSingle
<1>4. ASSUME \A l \in ls : l.product # p PROVE SumFunction(f) = 0
  <2>1. \A m \in ls : f[m] = 0
    BY <1>4
  <2> HIDE DEF f
  <2> QED
    BY <1>1, <2>1, SumZero
<1>5. SumFunction(f) \in Int
  BY <1>1, SumType
<1> HIDE DEF f
<1> QED
  BY <1>2, <1>3, <1>4, <1>5

\* No overselling, for any number of concurrent checkouts, whatever fails: the
\* orders stored for a product, unreserved lines left out, never add up to more
\* than its row has lost.  When more is asked for than Go's int holds, a line may
\* wrap to a negative quantity, and the UPDATE that takes it adds stock.
THEOREM NothingOversold == Spec => []NoOversell
<1>1. SalesInv /\ SingleInv => NoOversell
  <2> SUFFICES ASSUME SalesInv, SingleInv, NEW p \in Products,
                      inventory[p] # None, \A u \in Users : AsksFit(u, p)
               PROVE  UnitsSold(p) <= stocked[p] - inventory[p].quantity
    BY DEF NoOversell
  <2> DEFINE f == [r \in Checkouts |->
                     IF orders[r] = None
                     THEN 0 ELSE UnitsOf(p, orders[r].lines \ skipped[r])]
             t == TakenFrom(ledger[p])
  <2>1. t \in [Checkouts -> Int] /\ IsFiniteSet(Checkouts)
    BY TakenType, CheckoutAssumption DEF SalesInv, IndInv, TypeOK
  <2>2. ASSUME NEW k \in 1 .. Len(ledger[p])
        PROVE  t[ledger[p][k].by] = ledger[p][k].line.quantity
    <3>1. ledger[p][k] \in Deduction
      BY DEF SalesInv, IndInv, TypeOK
    <3> QED
      BY <3>1, TakenBy DEF SingleInv, Deduction
  <2>3. ASSUME NEW r \in Checkouts PROVE t[r] >= 0
    <3>1. CASE \E k \in 1 .. Len(ledger[p]) : ledger[p][k].by = r
      <4>1. PICK k \in 1 .. Len(ledger[p]) : ledger[p][k].by = r
        BY <3>1
      <4>2. PICK l \in lines[r] : l = ledger[p][k].line
        BY <4>1 DEF SalesInv, HeldInv
      <4>3. l.product = p /\ l.quantity \in Int
        BY <4>2 DEF SalesInv, IndInv, LedgerInv, TypeOK, Line
      <4>4. added[buyer[r]][p] <= MaxInt
        BY DEF AsksFit, SalesInv, IndInv, TypeOK
      <4>5. l.quantity >= 1
        BY <4>3, <4>4 DEF SalesInv, HeldInv, Sound
      <4> QED
        BY <2>2, <4>1, <4>2, <4>3, <4>5
    <3>2. CASE \A k \in 1 .. Len(ledger[p]) : ledger[p][k].by # r
      BY <3>2, TakenNone
    <3> QED
      BY <3>1, <3>2
  <2>4. ASSUME NEW r \in Checkouts PROVE f[r] \in Int /\ f[r] <= t[r]
    <3>0. t[r] \in Int
      BY <2>1
    <3>1. CASE orders[r] = None
      BY <2>3, <3>0, <3>1
    <3>2. CASE orders[r] # None
      <4> DEFINE ls == orders[r].lines \ skipped[r]
      <4>1. orders[r].lines = lines[r]
        BY <3>2 DEF SalesInv, IndInv, StoredInv
      <4>2. lines[r] \in SUBSET Line /\ Sound(lines[r], added[buyer[r]])
        BY DEF SalesInv, IndInv, TypeOK, HeldInv
      <4>3. ls \in SUBSET Line /\ ls \subseteq lines[r]
        BY <4>1, <4>2
      <4>4. IsFiniteSet(ls)
        BY <4>2, <4>3, FS_Subset DEF Sound
      <4>5. \A l, m \in ls : m.product = l.product => m = l
        BY <4>2, <4>3 DEF Sound
      <4>6. f[r] = UnitsOf(p, ls)
        BY <3>2
      <4> HIDE DEF f, t
      <4>7. ASSUME NEW l \in ls, l.product = p PROVE t[r] = l.quantity
        <5>1. TookFor(r, l)
          BY <3>2 DEF SalesInv, IndInv, OrderBacked
        <5>2. PICK k \in 1 .. Len(ledger[p]) :
                ledger[p][k].by = r /\ ledger[p][k].line = l
          BY <4>7, <5>1 DEF TookFor
        <5> QED
          BY <2>2, <5>2
      <4>8. /\ UnitsOf(p, ls) \in Int
            /\ \/ UnitsOf(p, ls) = 0
               \/ \E l \in ls : l.product = p /\ UnitsOf(p, ls) = l.quantity
        <5> HIDE DEF ls
        <5> QED
          BY <4>3, <4>4, <4>5, UnitsOfCart
      <4> HIDE DEF ls
      <4> QED
        BY <2>3, <3>0, <4>6, <4>7, <4>8
    <3> QED
      BY <3>1, <3>2
  <2>5. SumFunction(f) <= SumFunction(t)
    <3>1. f \in [Checkouts -> Int]
      BY <2>4
    <3> HIDE DEF f, t
    <3> QED
      BY <2>1, <2>4, <3>1, SumMonotone
  <2>6. SumFunction(t) = stocked[p] - inventory[p].quantity
    BY DEF SalesInv, StockInv
  <2> QED
    BY <2>5, <2>6 DEF UnitsSold
<1> QED
  BY <1>1, SalesInductive, DeductsOnce, PTL DEF SalesInv
================================================================================
