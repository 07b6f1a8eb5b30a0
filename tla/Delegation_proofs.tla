-------------------------- MODULE Delegation_proofs --------------------------
(***************************************************************************)
(* Safety of delegation, for any threads, limits, callers and restarts.    *)
(*                                                                         *)
(* The two maps of the service and the row's parent tell the same story:   *)
(* a thread is parked behind, and can be cancelled through, exactly its    *)
(* children that are alive.  Everything published follows from that.       *)
(*                                                                         *)
(* Depth is a recursive definition.  That it has exactly one solution, and *)
(* one within the limit, is not proved by induction over the rows but      *)
(* carried by the invariant: a new row is always below one that is there.  *)
(***************************************************************************)
EXTENDS Delegation, FiniteSetTheorems, FunctionTheorems, SequenceTheorems, TLAPS

----------------------------------------------------------------------------
(* Sequences and sets.                                                     *)

NoRepeats(s) == \A i, j \in DOMAIN s : s[i] = s[j] => i = j

\* A thread has no more children in its list than the list is long.
LEMMA ListBound ==
  ASSUME NEW S, NEW s \in Seq(S)
  PROVE  IsFiniteSet(ToSet(s)) /\ Cardinality(ToSet(s)) <= Len(s)
<1>1. Len(s) \in Nat /\ DOMAIN s = 1..Len(s)
  OBVIOUS
<1>2. s \in Surjection(1..Len(s), ToSet(s))
  <2>1. s \in [1..Len(s) -> ToSet(s)]
    BY <1>1 DEF ToSet
  <2>2. \A x \in ToSet(s) : \E i \in 1..Len(s) : s[i] = x
    BY <1>1 DEF ToSet
  <2> QED BY <2>1, <2>2 DEF Surjection
<1>3. ExistsSurjection(1..Len(s), ToSet(s))
  BY <1>2 DEF ExistsSurjection
<1>4. IsFiniteSet(ToSet(s))
  BY <1>1, <1>3, FS_NatSurjection
<1>5. Cardinality(ToSet(s)) <= Len(s)
  BY <1>1, <1>3, FS_SurjCardinalityBound
<1> QED BY <1>4, <1>5

\* Some list of a finite set has each of its members once.
LEMMA ListOfSet ==
  ASSUME NEW S, IsFiniteSet(S)
  PROVE  /\ SetToSeq(S) \in Seq(S)
         /\ Len(SetToSeq(S)) = Cardinality(S)
         /\ ToSet(SetToSeq(S)) = S
         /\ NoRepeats(SetToSeq(S))
<1> DEFINE n == Cardinality(S)
           s == SetToSeq(S)
<1>1. n \in Nat /\ \E f : f \in Bijection(1..n, S)
  BY FS_CardinalityType DEF ExistsBijection
<1>2. \E f \in [1..n -> S] : IsInjective(f)
  BY <1>1 DEF Bijection, Injection, IsInjective
<1>3. s \in [1..n -> S] /\ IsInjective(s)
  BY <1>2 DEF SetToSeq
<1> HIDE DEF s
<1>4. s \in Seq(S) /\ Len(s) = n /\ DOMAIN s = 1..n
  BY <1>1, <1>3
<1>5. NoRepeats(s)
  BY <1>3 DEF IsInjective, NoRepeats
<1>6. s \in Injection(1..n, S)
  BY <1>3 DEF IsInjective, Injection
<1>7. IsFiniteSet(1..n) /\ Cardinality(1..n) = n
  BY <1>1, FS_Interval
<1>8. s \in Surjection(1..n, S)
  BY <1>6, <1>7, FS_Injection
<1>9. ToSet(s) = S
  BY <1>3, <1>4, <1>8 DEF Surjection, ToSet
<1> QED BY <1>4, <1>5, <1>9 DEF s

\* A list with another one behind it.
LEMMA ListsJoined ==
  ASSUME NEW S, NEW s \in Seq(S), NEW r \in Seq(S)
  PROVE  /\ s \o r \in Seq(S)
         /\ Len(s \o r) = Len(s) + Len(r)
         /\ ToSet(s \o r) = ToSet(s) \cup ToSet(r)
         /\ NoRepeats(s) /\ NoRepeats(r) /\ ToSet(s) \cap ToSet(r) = {} => NoRepeats(s \o r)
<1> DEFINE w == s \o r
<1>1. /\ w \in Seq(S) /\ Len(w) = Len(s) + Len(r)
      /\ \A i \in 1..(Len(s) + Len(r)) : w[i] = IF i <= Len(s) THEN s[i] ELSE r[i - Len(s)]
  BY ConcatProperties
<1>2. /\ Len(s) \in Nat /\ Len(r) \in Nat
      /\ DOMAIN s = 1..Len(s) /\ DOMAIN r = 1..Len(r)
  OBVIOUS
<1> HIDE DEF w
<1>3. DOMAIN w = 1..(Len(s) + Len(r))
  BY <1>1
<1>4. ASSUME NEW i \in DOMAIN s PROVE i \in DOMAIN w /\ w[i] = s[i]
  BY <1>1, <1>2, <1>3
<1>5. ASSUME NEW i \in DOMAIN r PROVE i + Len(s) \in DOMAIN w /\ w[i + Len(s)] = r[i]
  BY <1>1, <1>2, <1>3
<1>6. ASSUME NEW i \in DOMAIN w
      PROVE  \/ i \in DOMAIN s
             \/ i - Len(s) \in DOMAIN r
  BY <1>2, <1>3
<1>7. ToSet(w) = ToSet(s) \cup ToSet(r)
  <2>1. ASSUME NEW x \in ToSet(w) PROVE x \in ToSet(s) \cup ToSet(r)
    <3>1. PICK i \in DOMAIN w : w[i] = x
      BY DEF ToSet
    <3>2. CASE i \in DOMAIN s
      BY <1>4, <3>1, <3>2 DEF ToSet
    <3>3. CASE i - Len(s) \in DOMAIN r
      <4>1. (i - Len(s)) + Len(s) = i
        BY <1>2, <1>3
      <4>2. r[i - Len(s)] = x
        BY <1>5, <3>1, <3>3, <4>1
      <4> QED BY <3>3, <4>2 DEF ToSet
    <3> QED BY <1>6, <3>2, <3>3
  <2>2. ASSUME NEW x \in ToSet(s) PROVE x \in ToSet(w)
    BY <1>4 DEF ToSet
  <2>3. ASSUME NEW x \in ToSet(r) PROVE x \in ToSet(w)
    BY <1>5 DEF ToSet
  <2> QED BY <2>1, <2>2, <2>3
<1>8. ASSUME NoRepeats(s), NoRepeats(r), ToSet(s) \cap ToSet(r) = {} PROVE NoRepeats(w)
  <2>1. ASSUME NEW i \in DOMAIN w, NEW j \in DOMAIN w, w[i] = w[j] PROVE i = j
    <3>1. ASSUME NEW k \in DOMAIN w
          PROVE  \/ k \in 1..Len(s) /\ w[k] = s[k] /\ w[k] \in ToSet(s)
                 \/ k - Len(s) \in 1..Len(r) /\ w[k] = r[k - Len(s)] /\ w[k] \in ToSet(r)
      BY <1>1, <1>2, <1>3 DEF ToSet
    <3>2. CASE i \in 1..Len(s) /\ j \in 1..Len(s)
      BY <1>2, <1>4, <1>8, <2>1, <3>2 DEF NoRepeats
    <3>3. CASE i - Len(s) \in 1..Len(r) /\ j - Len(s) \in 1..Len(r)
      <4>1. r[i - Len(s)] = r[j - Len(s)]
        <5>1. i \notin 1..Len(s) /\ j \notin 1..Len(s)
          BY <1>2, <1>3, <3>3
        <5> QED BY <2>1, <3>1, <5>1
      <4>2. i - Len(s) = j - Len(s)
        BY <1>2, <1>8, <3>3, <4>1 DEF NoRepeats
      <4> QED BY <1>2, <1>3, <4>2
    <3>4. i \in 1..Len(s) <=> j \in 1..Len(s)
      BY <1>2, <1>3, <1>8, <2>1, <3>1
    <3> QED BY <1>2, <1>3, <3>1, <3>2, <3>3, <3>4
  <2> QED BY <2>1 DEF NoRepeats
<1> QED BY <1>1, <1>7, <1>8 DEF w

\* The list without one of its members, which it has once.
LEMMA ListWithout ==
  ASSUME NEW S, NEW s \in Seq(S), NoRepeats(s), NEW e \in ToSet(s)
  PROVE  /\ RemoveFirst(s, e) \in Seq(S)
         /\ ToSet(RemoveFirst(s, e)) = ToSet(s) \ {e}
         /\ NoRepeats(RemoveFirst(s, e))
         /\ Len(RemoveFirst(s, e)) = Len(s) - 1
<1>1. Len(s) \in Nat /\ DOMAIN s = 1..Len(s)
  OBVIOUS
<1>2. PICK k \in 1..Len(s) : s[k] = e
  BY <1>1 DEF ToSet
<1>3. {i \in 1..Len(s) : s[i] = e} = {k}
  BY <1>1, <1>2 DEF NoRepeats
<1>4. Min({k}) = k
  BY <1>2 DEF Min
<1>5. SelectInSeq(s, LAMBDA v : v = e) = k
  BY <1>3, <1>4 DEF SelectInSeq
<1> DEFINE a == SubSeq(s, 1, k - 1)
           b == SubSeq(s, k + 1, Len(s))
           w == RemoveFirst(s, e)
<1>6. w = a \o b
  BY <1>2, <1>5 DEF RemoveFirst, RemoveAt
<1>7. /\ a \in Seq(S) /\ Len(a) = k - 1
      /\ \A i \in 1..(k - 1) : a[i] = s[i]
  BY <1>1, <1>2
<1>8. /\ b \in Seq(S) /\ Len(b) = Len(s) - k
      /\ \A i \in 1..(Len(s) - k) : b[i] = s[i + k]
  BY <1>1, <1>2
<1> HIDE DEF a, b, w
<1>9. DOMAIN a = 1..(k - 1) /\ DOMAIN b = 1..(Len(s) - k)
  BY <1>7, <1>8
<1>10. NoRepeats(a) /\ NoRepeats(b)
  <2>1. ASSUME NEW i \in DOMAIN b, NEW j \in DOMAIN b, b[i] = b[j] PROVE i = j
    <3>1. s[i + k] = s[j + k] /\ i + k \in 1..Len(s) /\ j + k \in 1..Len(s)
      BY <1>1, <1>2, <1>8, <1>9, <2>1
    <3>2. i + k = j + k
      BY <1>1, <3>1 DEF NoRepeats
    <3> QED BY <1>1, <1>2, <1>9, <3>2
  <2>2. ASSUME NEW i \in DOMAIN a, NEW j \in DOMAIN a, a[i] = a[j] PROVE i = j
    BY <1>1, <1>2, <1>7, <1>9, <2>2 DEF NoRepeats
  <2> QED BY <2>1, <2>2 DEF NoRepeats
<1>11. ToSet(a) \cap ToSet(b) = {}
  <2>1. ASSUME NEW i \in DOMAIN a, NEW j \in DOMAIN b, a[i] = b[j] PROVE FALSE
    <3>1. s[i] = s[j + k] /\ i \in 1..Len(s) /\ j + k \in 1..Len(s) /\ i # j + k
      BY <1>1, <1>2, <1>7, <1>8, <1>9, <2>1
    <3> QED BY <1>1, <3>1 DEF NoRepeats
  <2> QED BY <2>1 DEF ToSet
<1>12. ToSet(a) \cup ToSet(b) = ToSet(s) \ {e}
  <2>1. ASSUME NEW i \in 1..Len(s), i # k PROVE s[i] \in ToSet(a) \cup ToSet(b) /\ s[i] # e
    <3>1. s[i] # e
      BY <1>1, <1>2, <2>1 DEF NoRepeats
    <3>2. CASE i < k
      <4>1. i \in DOMAIN a /\ a[i] = s[i]
        BY <1>1, <1>2, <1>7, <1>9, <3>2
      <4> QED BY <3>1, <4>1 DEF ToSet
    <3>3. CASE i > k
      <4>1. i - k \in DOMAIN b /\ b[i - k] = s[i]
        BY <1>1, <1>2, <1>8, <1>9, <3>3
      <4> QED BY <3>1, <4>1 DEF ToSet
    <3> QED BY <1>1, <1>2, <2>1, <3>2, <3>3
  <2>2. ASSUME NEW i \in DOMAIN a PROVE a[i] \in ToSet(s) \ {e}
    <3>1. i \in 1..Len(s) /\ i # k /\ a[i] = s[i]
      BY <1>1, <1>2, <1>7, <1>9
    <3> QED BY <1>1, <2>1, <3>1 DEF ToSet
  <2>3. ASSUME NEW i \in DOMAIN b PROVE b[i] \in ToSet(s) \ {e}
    <3>1. i + k \in 1..Len(s) /\ i + k # k /\ b[i] = s[i + k]
      BY <1>1, <1>2, <1>8, <1>9
    <3> QED BY <1>1, <2>1, <3>1 DEF ToSet
  <2>4. ASSUME NEW x \in ToSet(s) \ {e} PROVE x \in ToSet(a) \cup ToSet(b)
    <3>1. PICK i \in 1..Len(s) : s[i] = x
      BY <1>1 DEF ToSet
    <3> QED BY <1>2, <2>1, <3>1
  <2>5. ASSUME NEW x \in ToSet(a) PROVE x \in ToSet(s) \ {e}
    BY <2>2 DEF ToSet
  <2>6. ASSUME NEW x \in ToSet(b) PROVE x \in ToSet(s) \ {e}
    BY <2>3 DEF ToSet
  <2> QED BY <2>4, <2>5, <2>6
<1>13. /\ w \in Seq(S) /\ Len(w) = Len(a) + Len(b)
       /\ ToSet(w) = ToSet(s) \ {e} /\ NoRepeats(w)
  <2>1. w = a \o b /\ a \in Seq(S) /\ b \in Seq(S)
    BY <1>6, <1>7, <1>8
  <2>2. NoRepeats(a) /\ NoRepeats(b) /\ ToSet(a) \cap ToSet(b) = {}
    BY <1>10, <1>11
  <2> QED BY <1>12, <2>1, <2>2, ListsJoined
<1>14. Len(w) = Len(s) - 1
  BY <1>1, <1>2, <1>7, <1>8, <1>13
<1> QED BY <1>13, <1>14 DEF w

\* A set that is large enough has a subset of any smaller size.
LEMMA SubsetOfSize ==
  ASSUME NEW U, IsFiniteSet(U), NEW n \in 1..Cardinality(U)
  PROVE  \E S \in SUBSET U : Cardinality(S) = n
<1> DEFINE m == Cardinality(U)
<1>1. m \in Nat /\ \E f : f \in Bijection(1..m, U)
  BY FS_CardinalityType DEF ExistsBijection
<1>2. PICK f : f \in [1..m -> U] /\ \A i, j \in 1..m : f[i] = f[j] => i = j
  BY <1>1 DEF Bijection, Injection, IsInjective
<1> DEFINE S == {f[i] : i \in 1..n}
           g == [i \in 1..n |-> f[i]]
<1>3. n \in Nat /\ 1..n \subseteq 1..m
  BY <1>1
<1>4. g \in Bijection(1..n, S)
  BY <1>2, <1>3 DEF Bijection, Injection, Surjection, IsInjective
<1>5. ExistsBijection(1..n, S)
  BY <1>4 DEF ExistsBijection
<1> HIDE DEF g
<1>6. S \in SUBSET U
  BY <1>2, <1>3
<1> HIDE DEF S
<1>7. Cardinality(S) = n
  BY <1>3, <1>5, FS_CountingElements
<1> QED BY <1>6, <1>7

\* The new rows of a delegation are as many as it asks for.
LEMMA FreshRows ==
  ASSUME NEW n \in 1..Cardinality(Unborn)
  PROVE  /\ Fresh(n) \in SUBSET Unborn
         /\ Fresh(n) # {} /\ IsFiniteSet(Fresh(n))
         /\ Cardinality(Fresh(n)) = n
<1>1. IsFiniteSet(Unborn)
  BY DelegationAssumption, FS_Subset DEF Unborn
<1>2. Fresh(n) \in SUBSET Unborn /\ Cardinality(Fresh(n)) = n
  BY <1>1, SubsetOfSize DEF Fresh
<1>3. n # 0
  BY <1>1, FS_CardinalityType
<1> QED BY <1>1, <1>2, <1>3, FS_EmptySet, FS_Subset

----------------------------------------------------------------------------
(* The inductive invariant.                                                *)

Live == {"provision", "watch", "verify"}

\* A row that is there has a parent that is there; what is not has none.
Lineage ==
  \A t \in Threads :
    IF t = Root \/ t \in Unborn THEN parent[t] = None
                                ELSE parent[t] \in Threads /\ Exists(parent[t])

\* Rows par make d the depth of every thread.
IsDepth(par, d) == d = [t \in Threads |-> IF par[t] = None THEN 0 ELSE 1 + d[par[t]]]

DepthGood ==
  /\ Depth \in [Threads -> 0..MaxDepth]
  /\ IsDepth(parent, Depth)
  /\ \A e : IsDepth(parent, e) => e = Depth

\* The two maps of the service hold the living children of each thread.
MapsAgree ==
  \A p \in Threads :
    /\ waiting[p] = {c \in Children : parent[c] = p /\ pc[c] \in Live}
    /\ ToSet(active[p]) = waiting[p]
    /\ NoRepeats(active[p])
    /\ Len(active[p]) <= MaxConcurrent

\* A child: its row, its watch and its cancellation at each place.
ChildGood(c) ==
  /\ mode[c] # None <=> pc[c] \in Live
  /\ pc[c] \in {"unborn", "provision", "watch"} => status[c] = None
  /\ pc[c] = "verify" => watch[c] \in Outcomes /\ status[c] = watch[c]
  /\ pc[c] = "done" => status[c] \in Outcomes
  /\ pc[c] = "watch" <=> status[c] = None /\ watch[c] # "none"
  /\ pc[c] = "provision" => watch[c] = "none"
  /\ cancelled[c] => pc[c] \in Live /\ ~Armed(c)

\* A living child of a batch has a batch that waits for it.
BatchesGood ==
  /\ batches \subseteq Batches
  /\ \A c \in Children : mode[c] = "batch" =>
       \E b \in batches : c \in b.members /\ b.of = parent[c]

\* Whoever is shown as parked is owed a release, whoever is not is not parked.
Published ==
  \A p \in Threads :
    /\ shown[p] = "WAITING_FOR_CHILD" => waiting[p] # {} \/ Owed(p)
    /\ shown[p] = "ACTIVE" => waiting[p] = {}

\* Nobody has been told of a child that has not settled, or what its row denies.
CallsGood ==
  \A k \in Callers : \A a \in call[k].got :
    pc[a[1]] = "done" /\ status[a[1]] = a[2]

IInv ==
  /\ DelegationTypeOK /\ Lineage /\ DepthGood /\ MapsAgree
  /\ \A c \in Children : ChildGood(c)
  /\ BatchesGood /\ Published /\ CallsGood /\ BannerIsLive

----------------------------------------------------------------------------
(* The depth of a row.                                                     *)

LEMMA DepthNow ==
  ASSUME NEW d, IsDepth(parent, d), \A e : IsDepth(parent, e) => e = d
  PROVE  Depth = d
BY DEF Depth, IsDepth

LEMMA DepthNext ==
  ASSUME NEW d, IsDepth(parent', d), \A e : IsDepth(parent', e) => e = d
  PROVE  Depth' = d
BY DEF Depth, IsDepth

LEMMA DepthStays == ASSUME DepthGood, parent' = parent PROVE DepthGood'
<1>1. Depth' = Depth
  BY DepthNext DEF DepthGood
<1> QED BY <1>1 DEF DepthGood

\* New rows under one row are one deeper than it, and move nobody else.
LEMMA DepthGrows ==
  ASSUME DepthGood, Lineage, NEW p \in Threads, Exists(p), Depth[p] + 1 <= MaxDepth,
         NEW S \in SUBSET Unborn,
         parent' = [t \in Threads |-> IF t \in S THEN p ELSE parent[t]]
  PROVE  DepthGood'
<1> DEFINE D == Depth
           d == [t \in Threads |-> IF t \in S THEN 1 + D[p] ELSE D[t]]
<1>1. /\ p \notin S /\ p # None
      /\ \A t \in Threads : t \in S => parent[t] = None
      /\ \A t \in Threads : parent[t] \in S => FALSE
      /\ \A t \in Threads : parent[t] # None => parent[t] \in Threads
  BY DelegationAssumption DEF Exists, Lineage, Unborn, Threads
<1>2. /\ D \in [Threads -> 0..MaxDepth]
      /\ D = [t \in Threads |-> IF parent[t] = None THEN 0 ELSE 1 + D[parent[t]]]
      /\ MaxDepth \in Nat
  BY DelegationAssumption DEF DepthGood, IsDepth
<1>3. D[p] \in 0..MaxDepth /\ 1 + D[p] \in 0..MaxDepth
  BY <1>2
<1> HIDE DEF D
<1>4. d \in [Threads -> 0..MaxDepth]
  BY <1>2, <1>3
<1>5. IsDepth(parent', d)
  <2> SUFFICES ASSUME NEW t \in Threads
               PROVE  d[t] = IF parent'[t] = None THEN 0 ELSE 1 + d[parent'[t]]
    BY DEF IsDepth
  <2>1. CASE t \in S
    BY <1>1, <2>1
  <2>2. CASE t \notin S
    <3>1. parent'[t] = parent[t] /\ d[t] = D[t]
      BY <2>2
    <3>2. D[t] = IF parent[t] = None THEN 0 ELSE 1 + D[parent[t]]
      BY <1>2
    <3>3. parent[t] # None => d[parent[t]] = D[parent[t]]
      BY <1>1
    <3> QED BY <3>1, <3>2, <3>3
  <2> QED BY <2>1, <2>2
<1>6. ASSUME NEW e, IsDepth(parent', e) PROVE e = d
  <2> DEFINE f == [t \in Threads |-> IF t \in S THEN 0 ELSE e[t]]
  <2>1. /\ e = [t \in Threads |-> IF parent'[t] = None THEN 0 ELSE 1 + e[parent'[t]]]
        /\ \A t \in Threads : e[t] = IF parent'[t] = None THEN 0 ELSE 1 + e[parent'[t]]
    BY <1>6 DEF IsDepth
  <2>2. IsDepth(parent, f)
    <3> SUFFICES ASSUME NEW t \in Threads
                 PROVE  f[t] = IF parent[t] = None THEN 0 ELSE 1 + f[parent[t]]
      BY DEF IsDepth
    <3>1. CASE t \in S
      BY <1>1, <3>1
    <3>2. CASE t \notin S
      <4>1. parent'[t] = parent[t] /\ f[t] = e[t]
        BY <3>2
      <4>2. parent[t] # None => f[parent[t]] = e[parent[t]]
        BY <1>1
      <4> QED BY <2>1, <4>1, <4>2
    <3> QED BY <3>1, <3>2
  <2>3. f = D
    BY <2>2 DEF DepthGood, D
  <2>4. \A t \in Threads : t \notin S => e[t] = D[t]
    BY <2>3
  <2>5. \A t \in S : t \in Threads /\ e[t] = 1 + e[p]
    BY <1>1, <2>1 DEF Unborn, Threads
  <2>6. \A t \in Threads : e[t] = d[t]
    BY <1>1, <2>4, <2>5
  <2> HIDE DEF d, f
  <2>7. e = [t \in Threads |-> e[t]]
    BY <2>1
  <2> QED BY <1>4, <2>6, <2>7
<1> HIDE DEF d
<1>7. Depth' = d
  BY <1>5, <1>6, DepthNext
<1> QED BY <1>4, <1>5, <1>6, <1>7 DEF DepthGood

LEMMA InitGood == Init => IInv
<1> SUFFICES ASSUME Init PROVE IInv
  OBVIOUS
<1> DEFINE zero == [t \in Threads |-> 0]
<1>1. parent = [t \in Threads |-> None] /\ Unborn = Children /\ Root \in Threads
  BY DEF Init, Unborn, Threads
<1>2. IsDepth(parent, zero) /\ \A e : IsDepth(parent, e) => e = zero
  BY <1>1 DEF IsDepth
<1>3. DepthGood
  <2>1. Depth = zero
    BY <1>2, DepthNow
  <2>2. zero \in [Threads -> 0..MaxDepth]
    BY DelegationAssumption
  <2> HIDE DEF zero
  <2> QED BY <1>2, <2>1, <2>2 DEF DepthGood
<1>4. Lineage
  BY <1>1, DelegationAssumption DEF Lineage, Exists, Threads
<1>5. DelegationTypeOK
  BY DelegationAssumption
     DEF Init, DelegationTypeOK, Steps, Modes, ParentStates, Boards, EmptyBoard, Calls, Idle,
         Batches
<1>6. MapsAgree
  <2>1. ASSUME NEW p \in Threads
        PROVE  /\ waiting[p] = {} /\ active[p] = <<>>
               /\ {c \in Children : parent[c] = p /\ pc[c] \in Live} = {}
    BY DEF Init, Live
  <2>2. ToSet(<<>>) = {} /\ NoRepeats(<<>>) /\ Len(<<>>) <= MaxConcurrent
    BY DelegationAssumption DEF ToSet, NoRepeats
  <2> QED BY <2>1, <2>2 DEF MapsAgree
<1>7. ASSUME NEW c \in Children PROVE ChildGood(c)
  BY DEF Init, ChildGood, Live
<1>8. BatchesGood /\ CallsGood
  BY DelegationAssumption DEF Init, BatchesGood, CallsGood, Batches, Idle
<1>9. Published /\ BannerIsLive
  BY DEF Init, Published, BannerIsLive, EmptyBoard, RunningUnder
<1> QED BY <1>3, <1>4, <1>5, <1>6, <1>7, <1>8, <1>9 DEF IInv

----------------------------------------------------------------------------
(* Delegating.                                                             *)

LEMMA LaunchTypes ==
  ASSUME IInv, NEW p \in Threads, NEW S \in SUBSET Unborn, IsFiniteSet(S),
         NEW how \in Modes, Launch(p, S, how), batches' \subseteq Batches
  PROVE  DelegationTypeOK'
<1>1. S \subseteq Children
  BY DEF Unborn
<1>2. SetToSeq(S) \in Seq(Children)
  BY <1>1, ListOfSet
<1>3. active[p] \o SetToSeq(S) \in Seq(Children)
  BY <1>2, ListsJoined DEF IInv, DelegationTypeOK
<1>4. active' \in [Threads -> Seq(Children)]
  BY <1>3 DEF IInv, DelegationTypeOK, Launch
<1>5. board' \in Boards
  BY <1>1 DEF IInv, DelegationTypeOK, Launch, Parked, Boards, ParentStates
<1>6. /\ parent' \in [Threads -> Threads \cup {None}]
      /\ waiting' \in [Threads -> SUBSET Children]
      /\ pc' \in [Children -> Steps]
      /\ mode' \in [Children -> Modes \cup {None}]
      /\ shown' \in [Threads -> ParentStates]
  BY <1>1 DEF IInv, DelegationTypeOK, Launch, Steps, ParentStates
<1> QED BY <1>4, <1>5, <1>6 DEF IInv, DelegationTypeOK, Launch

\* New children under a thread that is there, within the limits, and a batch for
\* those that come as one.
LEMMA LaunchGood ==
  ASSUME IInv, NEW p \in Threads, Exists(p), NEW S \in SUBSET Unborn,
         IsFiniteSet(S), S # {}, NEW how \in Modes, Launch(p, S, how),
         Len(active[p]) + Cardinality(S) <= MaxConcurrent,
         Depth[p] + 1 <= MaxDepth,
         \/ how = "task" /\ batches' = batches
         \/ how = "batch" /\ batches' = batches \cup {[of |-> p, members |-> S]}
  PROVE  IInv'
<1>1. S \subseteq Children /\ p \notin S /\ p # None /\ p \in Threads
  BY DelegationAssumption DEF Unborn, Exists
<1>2. /\ parent' = [t \in Threads |-> IF t \in S THEN p ELSE parent[t]]
      /\ pc' = [c \in Children |-> IF c \in S THEN "provision" ELSE pc[c]]
      /\ mode' = [c \in Children |-> IF c \in S THEN how ELSE mode[c]]
      /\ waiting' = [waiting EXCEPT ![p] = @ \cup S]
      /\ active' = [active EXCEPT ![p] = @ \o SetToSeq(S)]
      /\ shown' = [shown EXCEPT ![p] = "WAITING_FOR_CHILD"]
      /\ board' = [board EXCEPT !.state[p] = "WAITING_FOR_CHILD", !.pending[p] = @ \cup S]
      /\ UNCHANGED <<status, watch, cancelled, call, restarts>>
  BY DEF Launch, Parked
<1>3. DelegationTypeOK /\ Lineage /\ DepthGood /\ MapsAgree
  BY DEF IInv
<1>4. ASSUME NEW c \in S
      PROVE  /\ c \in Children /\ pc[c] = "unborn" /\ parent[c] = None
             /\ status[c] = None /\ watch[c] = "none" /\ ~cancelled[c] /\ mode[c] = None
  <2>1. c \in Children /\ pc[c] = "unborn" /\ ChildGood(c) /\ c \in Threads
    BY DEF Unborn, IInv, Threads
  <2> QED BY <1>3, <2>1 DEF ChildGood, Live, Lineage, Unborn, DelegationTypeOK, Outcomes
<1>5. batches' \subseteq Batches
  BY <1>1 DEF IInv, DelegationTypeOK, Batches
<1>6. DelegationTypeOK'
  BY <1>5, LaunchTypes
<1>7. Lineage'
  <2>1. Unborn' = Unborn \ S
    BY <1>2 DEF Unborn
  <2>2. ASSUME NEW t \in Threads
        PROVE  IF t = Root \/ t \in Unborn' THEN parent'[t] = None
               ELSE parent'[t] \in Threads /\ parent'[t] \notin Unborn'
    BY <1>1, <1>2, <1>3, <2>1, DelegationAssumption DEF Lineage, Exists, Threads
  <2> QED BY <2>2 DEF Lineage, Exists
<1>8. DepthGood'
  BY <1>2, <1>3, DepthGrows
<1>9. ASSUME NEW c \in Children PROVE ChildGood(c)'
  <2>1. CASE c \in S
    BY <1>2, <1>4, <2>1, DelegationAssumption DEF ChildGood, Live, Modes, Armed
  <2>2. CASE c \notin S
    BY <1>2, <2>2 DEF IInv, ChildGood, Armed
  <2> QED BY <2>1, <2>2
<1>10. MapsAgree'
  <2> DEFINE L == active[p]
             N == SetToSeq(S)
  <2>1. /\ N \in Seq(Children) /\ Len(N) = Cardinality(S) /\ ToSet(N) = S /\ NoRepeats(N)
    BY <1>1, ListOfSet
  <2>2. L \in Seq(Children) /\ ToSet(L) = waiting[p] /\ NoRepeats(L)
    BY <1>3 DEF MapsAgree, DelegationTypeOK
  <2>3. waiting[p] \cap S = {}
    BY <1>1, <1>3, <1>4, DelegationAssumption DEF MapsAgree
  <2>4. /\ ToSet(L \o N) = waiting[p] \cup S /\ NoRepeats(L \o N)
        /\ Len(L \o N) = Len(L) + Cardinality(S)
    BY <2>1, <2>2, <2>3, ListsJoined
  <2>5. active'[p] = L \o N /\ waiting'[p] = waiting[p] \cup S
    BY <1>2, <1>3 DEF DelegationTypeOK
  <2> HIDE DEF L, N
  <2>6. ASSUME NEW q \in Threads
        PROVE  waiting'[q] = {c \in Children : parent'[c] = q /\ pc'[c] \in Live}
    <3>1. waiting[q] = {c \in Children : parent[c] = q /\ pc[c] \in Live}
      BY <1>3 DEF MapsAgree
    <3>2. waiting'[q] = IF q = p THEN waiting[q] \cup S ELSE waiting[q]
      BY <1>2, <1>3, <2>5 DEF DelegationTypeOK
    <3>3. ASSUME NEW c \in Children
          PROVE  parent'[c] = q /\ pc'[c] \in Live <=>
                   IF c \in S THEN q = p ELSE parent[c] = q /\ pc[c] \in Live
      BY <1>2 DEF Threads, Live
    <3>4. \A c \in S : ~(parent[c] = q /\ pc[c] \in Live)
      BY <1>4 DEF Live
    <3> QED BY <1>1, <3>1, <3>2, <3>3, <3>4
  <2>7. ASSUME NEW q \in Threads
        PROVE  /\ ToSet(active'[q]) = waiting'[q] /\ NoRepeats(active'[q])
               /\ Len(active'[q]) <= MaxConcurrent
    <3>1. CASE q = p
      BY <2>4, <2>5, <3>1 DEF L
    <3>2. CASE q # p
      BY <1>2, <1>3, <3>2 DEF MapsAgree, DelegationTypeOK
    <3> QED BY <3>1, <3>2
  <2> QED BY <2>6, <2>7 DEF MapsAgree
<1>11. BatchesGood'
  <2>1. ASSUME NEW c \in Children, mode'[c] = "batch"
        PROVE  \E b \in batches' : c \in b.members /\ b.of = parent'[c]
    <3>1. CASE c \in S
      <4> DEFINE b == [of |-> p, members |-> S]
      <4>1. how = "batch" /\ parent'[c] = p
        BY <1>2, <2>1, <3>1 DEF Threads
      <4>2. b \in batches' /\ c \in b.members /\ b.of = p
        BY <3>1, <4>1
      <4> QED BY <4>1, <4>2
    <3>2. CASE c \notin S
      BY <1>2, <2>1, <3>2 DEF IInv, BatchesGood, Threads
    <3> QED BY <3>1, <3>2
  <2> QED BY <1>5, <2>1 DEF BatchesGood
<1>12. Published'
  <2>1. ASSUME NEW q \in Threads
        PROVE  /\ shown'[q] = "WAITING_FOR_CHILD" => waiting'[q] # {} \/ Owed(q)'
               /\ shown'[q] = "ACTIVE" => waiting'[q] = {}
    <3>1. CASE q = p
      BY <1>2, <1>3, <3>1 DEF DelegationTypeOK
    <3>2. CASE q # p
      BY <1>2, <1>3, <3>2 DEF DelegationTypeOK, IInv, Published, Owed
    <3> QED BY <3>1, <3>2
  <2> QED BY <2>1 DEF Published
<1>13. CallsGood'
  BY <1>2, <1>4 DEF IInv, CallsGood, DelegationTypeOK, Calls
<1>14. BannerIsLive'
  <2>1. ASSUME NEW q \in Threads, restarts = 0
        PROVE  /\ board'.pending[q] \subseteq RunningUnder(q)'
               /\ board'.state[q] = "WAITING_FOR_CHILD" => board'.pending[q] # {}
    <3>1. RunningUnder(q) = waiting[q] /\ RunningUnder(q)' = waiting'[q]
      BY <1>3, <1>10 DEF MapsAgree, RunningUnder
    <3>2. /\ board.pending[q] \subseteq waiting[q]
          /\ board.state[q] = "WAITING_FOR_CHILD" => board.pending[q] # {}
      BY <2>1, <3>1 DEF IInv, BannerIsLive
    <3>3. /\ waiting'[q] = IF q = p THEN waiting[q] \cup S ELSE waiting[q]
          /\ board'.pending[q] = IF q = p THEN board.pending[q] \cup S ELSE board.pending[q]
          /\ q # p => board'.state[q] = board.state[q]
      BY <1>2, <1>3 DEF DelegationTypeOK, Boards
    <3> QED BY <3>1, <3>2, <3>3
  <2> QED BY <1>2, <2>1 DEF BannerIsLive
<1> QED BY <1>6, <1>7, <1>8, <1>9, <1>10, <1>11, <1>12, <1>13, <1>14 DEF IInv

LEMMA DelegateTaskGood == ASSUME IInv, NEW p \in Threads, DelegateTask(p) PROVE IInv'
<1>1. active[p] = <<>>
  <2>1. ToSet(active[p]) = {} /\ active[p] \in Seq(Children)
    BY DEF DelegateTask, IInv, MapsAgree, DelegationTypeOK
  <2>2. Len(active[p]) \in Nat /\ \A i \in 1..Len(active[p]) : active[p][i] \in ToSet(active[p])
    BY <2>1 DEF ToSet
  <2>3. Len(active[p]) = 0
    <3>1. Len(active[p]) # 0 => 1 \in 1..Len(active[p])
      BY <2>2
    <3> QED BY <2>1, <2>2, <3>1
  <2> QED BY <2>1, <2>3, EmptySeq
<1>2. 1 \in 1..Cardinality(Unborn)
  <2>1. IsFiniteSet(Unborn)
    BY DelegationAssumption, FS_Subset DEF Unborn
  <2>2. Cardinality(Unborn) \in Nat /\ Cardinality(Unborn) # 0
    BY <2>1, FS_CardinalityType, FS_EmptySet DEF DelegateTask
  <2> QED BY <2>2
<1>3. /\ Fresh(1) \in SUBSET Unborn /\ Fresh(1) # {} /\ IsFiniteSet(Fresh(1))
      /\ Cardinality(Fresh(1)) = 1
  BY <1>2, FreshRows
<1>4. Len(active[p]) + Cardinality(Fresh(1)) <= MaxConcurrent
  BY <1>1, <1>3, DelegationAssumption
<1>5. /\ Exists(p) /\ Depth[p] + 1 <= MaxDepth /\ batches' = batches
      /\ Launch(p, Fresh(1), "task") /\ "task" \in Modes
  BY DEF DelegateTask, Modes
<1> QED BY <1>3, <1>4, <1>5, LaunchGood

LEMMA DelegateParallelGood == ASSUME IInv, NEW p \in Threads, DelegateParallel(p) PROVE IInv'
<1>1. PICK n \in 1..Cardinality(Unborn) :
        /\ Exists(p) /\ Len(active[p]) + n <= MaxConcurrent /\ Depth[p] + 1 <= MaxDepth
        /\ \E written \in {n - 1, n} \ {0} :
             /\ Launch(p, Fresh(written), "batch")
             /\ batches' = batches \cup {[of |-> p, members |-> Fresh(written)]}
  BY DEF DelegateParallel
<1>7. PICK m \in {n - 1, n} \ {0} :
        /\ Launch(p, Fresh(m), "batch")
        /\ batches' = batches \cup {[of |-> p, members |-> Fresh(m)]}
  BY <1>1
<1>2. Cardinality(Unborn) \in Nat
  BY DelegationAssumption, FS_Subset, FS_CardinalityType DEF Unborn
<1>3. m \in 1..Cardinality(Unborn) /\ m <= n
  BY <1>1, <1>2
<1>4. /\ Fresh(m) \in SUBSET Unborn /\ Fresh(m) # {} /\ IsFiniteSet(Fresh(m))
      /\ Cardinality(Fresh(m)) = m
  BY <1>3, FreshRows
<1>5. Len(active[p]) \in Nat
  BY DEF IInv, DelegationTypeOK
<1>6. Len(active[p]) + Cardinality(Fresh(m)) <= MaxConcurrent /\ "batch" \in Modes
  BY <1>1, <1>3, <1>4, <1>5, DelegationAssumption DEF Modes
<1> QED BY <1>1, <1>4, <1>6, <1>7, LaunchGood

----------------------------------------------------------------------------
(* The child's life, and the cancellations.                                *)

\* Steps that move a child on without ending it, or only answer somebody.
LEMMA LiveStep ==
  ASSUME IInv, DelegationTypeOK',
         UNCHANGED <<parent, waiting, active, mode, batches, shown, board, restarts>>,
         \A c \in Children : pc'[c] \in Live <=> pc[c] \in Live,
         \A c \in Children : pc'[c] = "unborn" <=> pc[c] = "unborn",
         \A c \in Children : ChildGood(c)',
         CallsGood'
  PROVE  IInv'
<1>1. Unborn' = Unborn
  BY DEF Unborn
<1>2. Lineage'
  BY <1>1 DEF IInv, Lineage, Exists
<1>3. DepthGood'
  BY DepthStays DEF IInv
<1>4. MapsAgree'
  <2>1. ASSUME NEW p \in Threads
        PROVE  {c \in Children : parent'[c] = p /\ pc'[c] \in Live}
                 = {c \in Children : parent[c] = p /\ pc[c] \in Live}
    OBVIOUS
  <2> QED BY <2>1 DEF IInv, MapsAgree
<1>5. BatchesGood' /\ Published' /\ BannerIsLive'
  BY DEF IInv, BatchesGood, Published, Owed, BannerIsLive, RunningUnder
<1> QED BY <1>2, <1>3, <1>4, <1>5 DEF IInv

LEMMA StartChildGood == ASSUME IInv, NEW c \in Children, StartChild(c) PROVE IInv'
<1>1. DelegationTypeOK /\ CallsGood /\ \A x \in Children : ChildGood(x)
  BY DEF IInv
<1>2. /\ pc[c] = "provision" /\ pc' = [pc EXCEPT ![c] = "watch"]
      /\ \/ ~cancelled[c] /\ watch' = [watch EXCEPT ![c] = "quiet"]
         \/ watch' = [watch EXCEPT ![c] = "FAILED"]
      /\ UNCHANGED <<parent, status, waiting, active, mode, cancelled, batches, call,
                    shown, board, restarts>>
  BY DEF StartChild
<1>3. DelegationTypeOK'
  BY <1>1, <1>2 DEF DelegationTypeOK, Steps, Outcomes
<1>4. ASSUME NEW x \in Children PROVE ChildGood(x)'
  <2>1. CASE x = c
    BY <1>1, <1>2, <2>1 DEF DelegationTypeOK, ChildGood, Live, Armed
  <2>2. CASE x # c
    BY <1>1, <1>2, <2>2 DEF DelegationTypeOK, ChildGood, Armed
  <2> QED BY <2>1, <2>2
<1>5. CallsGood'
  BY <1>1, <1>2 DEF CallsGood, DelegationTypeOK, Calls
<1>6. ASSUME NEW x \in Children
      PROVE  (pc'[x] \in Live <=> pc[x] \in Live) /\ (pc'[x] = "unborn" <=> pc[x] = "unborn")
  BY <1>1, <1>2 DEF DelegationTypeOK, Live
<1> QED BY <1>2, <1>3, <1>4, <1>5, <1>6, LiveStep

LEMMA SeesGood ==
  ASSUME IInv, NEW c \in Children, NEW From \in SUBSET {"quiet", "said"},
         NEW what \in {"said"} \cup Outcomes, Sees(c, From, what)
  PROVE  IInv'
<1>1. DelegationTypeOK /\ CallsGood /\ \A x \in Children : ChildGood(x)
  BY DEF IInv
<1>2. /\ watch[c] \in {"quiet", "said"} /\ watch' = [watch EXCEPT ![c] = what]
      /\ UNCHANGED <<parent, status, waiting, active, pc, mode, cancelled, batches, call,
                    shown, board, restarts>>
  BY DEF Sees
<1>3. DelegationTypeOK'
  BY <1>1, <1>2 DEF DelegationTypeOK
<1>4. ASSUME NEW x \in Children PROVE ChildGood(x)'
  <2>1. CASE x = c
    <3>1. pc[c] \in Steps /\ watch'[c] = what /\ what # "none"
      BY <1>1, <1>2 DEF DelegationTypeOK, Outcomes
    <3> QED BY <1>1, <1>2, <2>1, <3>1, DelegationAssumption
            DEF ChildGood, Live, Armed, Outcomes, Steps
  <2>2. CASE x # c
    BY <1>1, <1>2, <2>2 DEF DelegationTypeOK, ChildGood, Armed
  <2> QED BY <2>1, <2>2
<1>5. CallsGood'
  BY <1>1, <1>2 DEF CallsGood
<1> QED BY <1>2, <1>3, <1>4, <1>5, LiveStep

LEMMA RecordedGood == ASSUME IInv, NEW c \in Children, Recorded(c) PROVE IInv'
<1>1. DelegationTypeOK /\ CallsGood /\ \A x \in Children : ChildGood(x)
  BY DEF IInv
<1>2. /\ pc[c] = "watch" /\ watch[c] \in Outcomes
      /\ status' = [status EXCEPT ![c] = watch[c]] /\ pc' = [pc EXCEPT ![c] = "verify"]
      /\ UNCHANGED <<parent, waiting, active, mode, watch, cancelled, batches, call,
                    shown, board, restarts>>
  BY DEF Recorded
<1>3. DelegationTypeOK'
  BY <1>1, <1>2 DEF DelegationTypeOK, Steps
<1>4. ASSUME NEW x \in Children PROVE ChildGood(x)'
  <2>1. CASE x = c
    BY <1>1, <1>2, <2>1, DelegationAssumption
       DEF DelegationTypeOK, ChildGood, Live, Armed, Outcomes
  <2>2. CASE x # c
    BY <1>1, <1>2, <2>2 DEF DelegationTypeOK, ChildGood, Armed
  <2> QED BY <2>1, <2>2
<1>5. CallsGood'
  BY <1>1, <1>2 DEF CallsGood, DelegationTypeOK, Calls
<1>6. ASSUME NEW x \in Children
      PROVE  (pc'[x] \in Live <=> pc[x] \in Live) /\ (pc'[x] = "unborn" <=> pc[x] = "unborn")
  BY <1>1, <1>2 DEF DelegationTypeOK, Live
<1> QED BY <1>2, <1>3, <1>4, <1>5, <1>6, LiveStep

LEMMA AskGood ==
  ASSUME IInv, NEW k \in Callers, NEW t \in Threads,
         NEW S \in SUBSET Running, Ask(k, t, S)
  PROVE  IInv'
<1>1. DelegationTypeOK /\ CallsGood /\ MapsAgree /\ \A x \in Children : ChildGood(x)
  BY DEF IInv
<1>2. /\ call' = [call EXCEPT ![k].on = S]
      /\ cancelled' = [c \in Children |-> cancelled[c] \/ c \in S]
      /\ watch' = [c \in Children |->
                     IF c \in S /\ ~cancelled[c] /\ Armed(c) THEN "FAILED" ELSE watch[c]]
      /\ UNCHANGED <<parent, status, waiting, active, pc, mode, batches, shown, board,
                    restarts>>
  BY DEF Ask, Abort
<1>3. ASSUME NEW c \in S PROVE c \in Children /\ pc[c] \in Live
  <2>1. PICK p \in Threads : c \in ToSet(active[p])
    BY DEF Running, RunningUnder
  <2> QED BY <1>1, <2>1 DEF MapsAgree
<1>4. DelegationTypeOK'
  <2>1. call' \in [Callers -> Calls]
    BY <1>1, <1>2, <1>3 DEF DelegationTypeOK, Calls
  <2>2. cancelled' \in [Children -> BOOLEAN]
    <3>1. \A c \in Children : (cancelled[c] \/ c \in S) \in BOOLEAN
      OBVIOUS
    <3> QED BY <1>2, <3>1
  <2>3. watch' \in [Children -> {"none", "quiet", "said"} \cup Outcomes]
    BY <1>1, <1>2 DEF DelegationTypeOK, Outcomes
  <2> QED BY <1>1, <1>2, <2>1, <2>2, <2>3 DEF DelegationTypeOK
<1>5. ASSUME NEW x \in Children PROVE ChildGood(x)'
  <2>1. ChildGood(x) /\ pc[x] \in Steps
    BY <1>1 DEF DelegationTypeOK
  <2>2. /\ cancelled'[x] <=> cancelled[x] \/ x \in S
        /\ watch'[x] = IF x \in S /\ ~cancelled[x] /\ Armed(x) THEN "FAILED" ELSE watch[x]
    BY <1>2
  <2>3. CASE x \in S /\ ~cancelled[x] /\ Armed(x)
    <3>1. watch'[x] = "FAILED" /\ watch[x] \in {"quiet", "said"} /\ pc[x] \in Live
      BY <1>3, <2>2, <2>3 DEF Armed
    <3> QED BY <1>2, <2>1, <3>1 DEF ChildGood, Live, Armed, Outcomes, Steps
  <2>4. CASE ~(x \in S /\ ~cancelled[x] /\ Armed(x))
    BY <1>2, <1>3, <2>1, <2>2, <2>4 DEF ChildGood, Armed
  <2> QED BY <2>3, <2>4
<1>6. CallsGood'
  <2>1. ASSUME NEW j \in Callers PROVE call'[j].got = call[j].got
    BY <1>1, <1>2 DEF DelegationTypeOK, Calls
  <2> QED BY <1>1, <1>2, <2>1 DEF CallsGood
<1> QED BY <1>2, <1>4, <1>5, <1>6, LiveStep

LEMMA TargetIsRunning ==
  ASSUME IInv, NEW t \in Threads
  PROVE  Target(t) \in SUBSET Running /\ RunningUnder(t) \in SUBSET Running
<1>1. active[t] \in Seq(Children)
  BY DEF IInv, DelegationTypeOK
<1>2. active[t] # <<>> => Head(active[t]) \in ToSet(active[t])
  BY <1>1 DEF ToSet
<1> QED BY <1>2 DEF Target, Running, RunningUnder

LEMMA AnsweredGood == ASSUME IInv, NEW k \in Callers, Answered(k) PROVE IInv'
<1>1. /\ call' = [call EXCEPT ![k] = Idle]
      /\ UNCHANGED <<parent, status, waiting, active, pc, mode, watch, cancelled, batches,
                    shown, board, restarts>>
  BY DEF Answered
<1>2. DelegationTypeOK'
  BY <1>1 DEF IInv, DelegationTypeOK, Idle, Calls
<1>3. CallsGood'
  BY <1>1 DEF IInv, CallsGood, DelegationTypeOK, Idle
<1>4. \A c \in Children : ChildGood(c)'
  BY <1>1 DEF IInv, ChildGood, Armed
<1> QED BY <1>1, <1>2, <1>3, <1>4, LiveStep

----------------------------------------------------------------------------
(* Ends: a child, a batch, the Core.                                       *)

\* What a batch leaves when it is gone, none of its members being alive.
LEMMA BatchSettlesGood == ASSUME IInv, NEW b \in batches, BatchSettles(b) PROVE IInv'
<1> DEFINE p == b.of
<1>1. DelegationTypeOK /\ MapsAgree /\ Published /\ BatchesGood /\ \A x \in Children : ChildGood(x)
  BY DEF IInv
<1>2. b \in Batches /\ p \in Threads
  BY <1>1 DEF BatchesGood, Batches
<1>3. /\ \A c \in b.members : pc[c] = "done"
      /\ batches' = batches \ {b}
      /\ shown' = [shown EXCEPT ![p] = IF waiting[p] = {} THEN "ACTIVE" ELSE @]
      /\ board' = [board EXCEPT !.state[p] = "ACTIVE", !.pending[p] = {}]
      /\ UNCHANGED <<parent, status, waiting, active, pc, mode, watch, cancelled, call, restarts>>
  <2>1. BatchCompleted(Freed(board, p), p) = BatchCompleted(board, p)
    BY <1>1, <1>2 DEF DelegationTypeOK, Boards, BatchCompleted, Freed
  <2> QED BY <2>1 DEF BatchSettles, BatchCompleted, Freed
<1> HIDE DEF p
<1>4. DelegationTypeOK'
  <2>1. board' \in Boards
    BY <1>1, <1>2, <1>3 DEF DelegationTypeOK, Boards, ParentStates
  <2>2. shown' \in [Threads -> ParentStates]
    BY <1>1, <1>2, <1>3 DEF DelegationTypeOK, ParentStates
  <2> QED BY <1>1, <1>3, <2>1, <2>2 DEF DelegationTypeOK
<1>5. Lineage' /\ DepthGood' /\ MapsAgree' /\ CallsGood' /\ \A x \in Children : ChildGood(x)'
  <2>1. DepthGood'
    BY <1>3, DepthStays DEF IInv
  <2> QED BY <1>3, <2>1 DEF IInv, Lineage, Exists, Unborn, MapsAgree, CallsGood, ChildGood, Armed
<1>6. BatchesGood'
  <2>1. ASSUME NEW c \in Children, mode'[c] = "batch"
        PROVE  \E o \in batches' : c \in o.members /\ o.of = parent'[c]
    <3>1. PICK o \in batches : c \in o.members /\ o.of = parent[c]
      BY <1>1, <1>3, <2>1 DEF BatchesGood
    <3>2. pc[c] \in Live
      BY <1>1, <1>3, <2>1, DelegationAssumption DEF ChildGood
    <3>3. o # b
      BY <1>3, <3>1, <3>2 DEF Live
    <3> QED BY <1>3, <3>1, <3>3
  <2> QED BY <1>1, <1>3, <2>1 DEF BatchesGood
<1>7. Published'
  <2>1. ASSUME NEW q \in Threads
        PROVE  /\ shown'[q] = "WAITING_FOR_CHILD" => waiting'[q] # {} \/ Owed(q)'
               /\ shown'[q] = "ACTIVE" => waiting'[q] = {}
    <3>1. CASE q = p
      BY <1>1, <1>2, <1>3, <3>1 DEF DelegationTypeOK, Published
    <3>2. CASE q # p
      <4>1. shown'[q] = shown[q] /\ waiting'[q] = waiting[q]
        BY <1>1, <1>3, <3>2 DEF DelegationTypeOK
      <4>2. Owed(q) => Owed(q)'
        BY <1>3, <3>2 DEF Owed, p
      <4> QED BY <1>1, <4>1, <4>2 DEF Published
    <3> QED BY <3>1, <3>2
  <2> QED BY <2>1 DEF Published
<1>8. BannerIsLive'
  <2>1. ASSUME NEW q \in Threads, restarts = 0
        PROVE  /\ board'.pending[q] \subseteq RunningUnder(q)'
               /\ board'.state[q] = "WAITING_FOR_CHILD" => board'.pending[q] # {}
    <3>1. /\ board.pending[q] \subseteq RunningUnder(q)
          /\ board.state[q] = "WAITING_FOR_CHILD" => board.pending[q] # {}
      BY <2>1 DEF IInv, BannerIsLive
    <3>2. /\ board'.pending[q] = IF q = p THEN {} ELSE board.pending[q]
          /\ board'.state[q] = IF q = p THEN "ACTIVE" ELSE board.state[q]
      BY <1>1, <1>3 DEF DelegationTypeOK, Boards
    <3> QED BY <1>3, <3>1, <3>2 DEF RunningUnder
  <2> QED BY <1>3, <2>1 DEF BannerIsLive
<1> QED BY <1>4, <1>5, <1>6, <1>7, <1>8 DEF IInv

LEMMA ShedGood == ASSUME IInv, NEW c \in Children, Shed(c) PROVE IInv'
<1> DEFINE p == parent[c]
           left == waiting[p] \ {c}
           frees == mode[c] = "task" /\ left = {}
<1>1. DelegationTypeOK /\ MapsAgree /\ Published /\ BatchesGood /\ CallsGood /\ Lineage
      /\ \A x \in Children : ChildGood(x)
  BY DEF IInv
<1>2. /\ pc[c] = "verify"
      /\ waiting' = [waiting EXCEPT ![p] = left]
      /\ shown' = [shown EXCEPT ![p] = IF frees THEN "ACTIVE" ELSE @]
      /\ board' = Completed(IF frees THEN Freed(board, p) ELSE board, p, c)
      /\ active' = [active EXCEPT ![p] = RemoveFirst(@, c)]
      /\ call' = [k \in Callers |->
                    IF c \in call[k].on THEN [call[k] EXCEPT !.got = @ \cup {<<c, watch[c]>>}]
                                        ELSE call[k]]
      /\ pc' = [pc EXCEPT ![c] = "done"]
      /\ mode' = [mode EXCEPT ![c] = None]
      /\ watch' = [watch EXCEPT ![c] = "none"]
      /\ cancelled' = [cancelled EXCEPT ![c] = FALSE]
      /\ UNCHANGED <<parent, status, batches, restarts>>
  BY DEF Shed, Settle
<1>3. /\ p \in Threads /\ c \in waiting[p]
      /\ watch[c] \in Outcomes /\ status[c] = watch[c] /\ mode[c] # None
  <2>1. c \in Threads /\ c # Root /\ c \notin Unborn
    BY <1>2, DelegationAssumption DEF Threads, Unborn
  <2>2. p \in Threads
    BY <1>1, <2>1 DEF Lineage
  <2> QED BY <1>1, <1>2, <2>2 DEF MapsAgree, ChildGood, Live
<1> HIDE DEF p, frees
<1>4. /\ RemoveFirst(active[p], c) \in Seq(Children)
      /\ ToSet(RemoveFirst(active[p], c)) = left
      /\ NoRepeats(RemoveFirst(active[p], c))
      /\ Len(RemoveFirst(active[p], c)) <= MaxConcurrent
  <2>1. active[p] \in Seq(Children) /\ NoRepeats(active[p]) /\ ToSet(active[p]) = waiting[p]
        /\ Len(active[p]) <= MaxConcurrent
    BY <1>1, <1>3 DEF MapsAgree, DelegationTypeOK
  <2>2. Len(active[p]) - 1 <= MaxConcurrent
    BY <2>1, DelegationAssumption
  <2> QED BY <1>3, <2>1, <2>2, ListWithout
<1>5. /\ board'.pending \in [Threads -> SUBSET Children]
      /\ board'.state \in [Threads -> ParentStates]
      /\ board' \in Boards
      /\ \A q \in Threads : board'.pending[q] \subseteq board.pending[q] \ (IF q = p THEN {c} ELSE {})
      /\ \A q \in Threads : board'.state[q] = "WAITING_FOR_CHILD" =>
            /\ board.state[q] = "WAITING_FOR_CHILD"
            /\ IF q = p THEN board'.pending[q] # {} ELSE board'.pending[q] = board.pending[q]
  <2> DEFINE B == IF frees THEN Freed(board, p) ELSE board
             gone == B.pending[p] \ {c}
  <2>1. /\ B \in Boards
        /\ \A q \in Threads : q # p => B.pending[q] = board.pending[q] /\ B.state[q] = board.state[q]
        /\ B.pending[p] \subseteq board.pending[p]
        /\ B.state[p] \in {"ACTIVE", board.state[p]}
    BY <1>1, <1>3 DEF DelegationTypeOK, Boards, Freed, ParentStates
  <2>2. board' = [B EXCEPT !.pending[p] = gone, !.state[p] = IF gone = {} THEN "ACTIVE" ELSE @]
    BY <1>2 DEF Completed
  <2> HIDE DEF B
  <2>3. /\ board' \in Boards
        /\ \A q \in Threads : board'.pending[q] = IF q = p THEN gone ELSE B.pending[q]
        /\ \A q \in Threads : board'.state[q] = IF q = p /\ gone = {} THEN "ACTIVE" ELSE B.state[q]
    BY <1>3, <2>1, <2>2 DEF Boards, ParentStates
  <2>4. board'.pending \in [Threads -> SUBSET Children] /\ board'.state \in [Threads -> ParentStates]
    BY <2>3 DEF Boards
  <2> HIDE DEF gone
  <2>5. gone = B.pending[p] \ {c}
    BY DEF gone
  <2> QED BY <1>3, <2>1, <2>3, <2>4, <2>5
<1>6. DelegationTypeOK'
  <2>1. active' \in [Threads -> Seq(Children)]
    BY <1>1, <1>2, <1>4 DEF DelegationTypeOK
  <2>2. call' \in [Callers -> Calls]
    <3>1. ASSUME NEW k \in Callers
          PROVE  (IF c \in call[k].on THEN [call[k] EXCEPT !.got = @ \cup {<<c, watch[c]>>}]
                                      ELSE call[k]) \in Calls
      <4>1. call[k] \in Calls /\ <<c, watch[c]>> \in Children \X Outcomes
        BY <1>1, <1>3 DEF DelegationTypeOK
      <4> QED BY <4>1 DEF Calls
    <3> QED BY <1>2, <3>1
  <2>3. /\ waiting' \in [Threads -> SUBSET Children] /\ pc' \in [Children -> Steps]
        /\ shown' \in [Threads -> ParentStates]
        /\ mode' \in [Children -> Modes \cup {None}] /\ cancelled' \in [Children -> BOOLEAN]
        /\ watch' \in [Children -> {"none", "quiet", "said"} \cup Outcomes]
    BY <1>1, <1>2, <1>3 DEF DelegationTypeOK, Steps, ParentStates
  <2> QED BY <1>1, <1>2, <1>5, <2>1, <2>2, <2>3 DEF DelegationTypeOK
<1>7. Lineage' /\ DepthGood'
  <2>1. Unborn' = Unborn
    BY <1>1, <1>2 DEF Unborn, DelegationTypeOK
  <2>2. DepthGood'
    BY <1>2, DepthStays DEF IInv
  <2> QED BY <1>1, <1>2, <2>1, <2>2 DEF Lineage, Exists
<1>8. MapsAgree'
  <2>1. ASSUME NEW q \in Threads
        PROVE  waiting'[q] = {x \in Children : parent'[x] = q /\ pc'[x] \in Live}
    <3>1. waiting[q] = {x \in Children : parent[x] = q /\ pc[x] \in Live}
      BY <1>1 DEF MapsAgree
    <3>2. waiting'[q] = IF q = p THEN waiting[q] \ {c} ELSE waiting[q]
      BY <1>1, <1>2 DEF DelegationTypeOK
    <3>3. \A x \in Children : pc'[x] \in Live <=> x # c /\ pc[x] \in Live
      BY <1>1, <1>2 DEF DelegationTypeOK, Live
    <3>4. q # p => c \notin waiting[q]
      BY <3>1 DEF p
    <3> QED BY <1>2, <3>1, <3>2, <3>3, <3>4
  <2>2. ASSUME NEW q \in Threads
        PROVE  /\ ToSet(active'[q]) = waiting'[q] /\ NoRepeats(active'[q])
               /\ Len(active'[q]) <= MaxConcurrent
    <3>1. CASE q = p
      BY <1>1, <1>2, <1>4, <3>1 DEF DelegationTypeOK
    <3>2. CASE q # p
      BY <1>1, <1>2, <3>2 DEF MapsAgree, DelegationTypeOK
    <3> QED BY <3>1, <3>2
  <2> QED BY <2>1, <2>2 DEF MapsAgree
<1>9. ASSUME NEW x \in Children PROVE ChildGood(x)'
  <2>1. CASE x = c
    BY <1>1, <1>2, <1>3, <2>1, DelegationAssumption DEF DelegationTypeOK, ChildGood, Live, Outcomes
  <2>2. CASE x # c
    BY <1>1, <1>2, <2>2 DEF DelegationTypeOK, ChildGood, Armed
  <2> QED BY <2>1, <2>2
<1>10. BatchesGood'
  <2>1. ASSUME NEW x \in Children, mode'[x] = "batch" PROVE mode[x] = "batch"
    BY <1>1, <1>2, <2>1, DelegationAssumption DEF DelegationTypeOK
  <2> QED BY <1>1, <1>2, <2>1 DEF BatchesGood
<1>11. Published'
  <2>1. Owed(p) \/ mode[c] = "task"
    BY <1>1, <1>3 DEF BatchesGood, DelegationTypeOK, Modes, Owed, p
  <2>2. ASSUME NEW q \in Threads
        PROVE  /\ shown'[q] = "WAITING_FOR_CHILD" => waiting'[q] # {} \/ Owed(q)'
               /\ shown'[q] = "ACTIVE" => waiting'[q] = {}
    <3>1. Owed(q)' <=> Owed(q)
      BY <1>2 DEF Owed
    <3>2. CASE q = p
      <4>1. waiting'[p] = left /\ shown'[p] = IF frees THEN "ACTIVE" ELSE shown[p]
        BY <1>1, <1>2, <1>3 DEF DelegationTypeOK
      <4>2. shown[p] # "ACTIVE"
        BY <1>1, <1>3 DEF Published
      <4> QED BY <2>1, <3>1, <3>2, <4>1, <4>2 DEF frees
    <3>3. CASE q # p
      BY <1>1, <1>2, <3>1, <3>3 DEF DelegationTypeOK, Published
    <3> QED BY <3>2, <3>3
  <2> QED BY <2>2 DEF Published
<1>12. CallsGood'
  <2>1. ASSUME NEW k \in Callers, NEW a \in call'[k].got
        PROVE  pc'[a[1]] = "done" /\ status'[a[1]] = a[2]
    <3>1. a \in call[k].got \/ a = <<c, watch[c]>>
      BY <1>1, <1>2, <2>1 DEF DelegationTypeOK, Calls
    <3>2. CASE a \in call[k].got
      <4>1. a[1] \in Children /\ pc[a[1]] = "done" /\ status[a[1]] = a[2]
        BY <1>1, <3>2 DEF CallsGood, DelegationTypeOK, Calls
      <4> QED BY <1>1, <1>2, <4>1 DEF DelegationTypeOK
    <3>3. CASE a = <<c, watch[c]>>
      BY <1>1, <1>2, <1>3, <3>3 DEF DelegationTypeOK
    <3> QED BY <3>1, <3>2, <3>3
  <2> QED BY <2>1 DEF CallsGood
<1>13. BannerIsLive'
  <2>1. ASSUME NEW q \in Threads, restarts = 0
        PROVE  /\ board'.pending[q] \subseteq RunningUnder(q)'
               /\ board'.state[q] = "WAITING_FOR_CHILD" => board'.pending[q] # {}
    <3>1. RunningUnder(q) = waiting[q] /\ RunningUnder(q)' = waiting'[q]
      BY <1>1, <1>8 DEF MapsAgree, RunningUnder
    <3>2. /\ board.pending[q] \subseteq waiting[q]
          /\ board.state[q] = "WAITING_FOR_CHILD" => board.pending[q] # {}
      BY <2>1, <3>1 DEF IInv, BannerIsLive
    <3>3. waiting'[q] = IF q = p THEN waiting[q] \ {c} ELSE waiting[q]
      BY <1>1, <1>2 DEF DelegationTypeOK
    <3> QED BY <1>5, <3>1, <3>2, <3>3
  <2> QED BY <1>2, <2>1 DEF BannerIsLive
<1> QED BY <1>6, <1>7, <1>8, <1>9, <1>10, <1>11, <1>12, <1>13 DEF IInv

LEMMA RestartGood == ASSUME IInv, Restart PROVE IInv'
<1>1. DelegationTypeOK /\ Lineage /\ \A x \in Children : ChildGood(x)
  BY DEF IInv
<1>2. /\ restarts < MaxRestarts /\ restarts' = restarts + 1 /\ status' = Recovered
      /\ waiting' = [t \in Threads |-> {}] /\ active' = [t \in Threads |-> <<>>]
      /\ pc' = [c \in Children |-> IF pc[c] = "unborn" THEN "unborn" ELSE "done"]
      /\ mode' = [c \in Children |-> None] /\ watch' = [c \in Children |-> "none"]
      /\ cancelled' = [c \in Children |-> FALSE]
      /\ batches' = {} /\ call' = [k \in Callers |-> Idle]
      /\ shown' = [t \in Threads |-> "ACTIVE"] /\ UNCHANGED <<parent, board>>
  BY DEF Restart
<1>3. ASSUME NEW c \in Children
      PROVE  status'[c] = IF pc[c] # "unborn" /\ status[c] = None THEN "FAILED" ELSE status[c]
  BY <1>2 DEF Recovered
<1>4. DelegationTypeOK'
  <2>1. restarts' \in 0..MaxRestarts
    BY <1>1, <1>2, DelegationAssumption DEF DelegationTypeOK
  <2>2. status' \in [Children -> Outcomes \cup {None}]
    BY <1>1, <1>2 DEF DelegationTypeOK, Recovered, Outcomes
  <2>3. active' \in [Threads -> Seq(Children)] /\ call' \in [Callers -> Calls]
    BY <1>2 DEF Idle, Calls
  <2> QED BY <1>1, <1>2, <2>1, <2>2, <2>3
          DEF DelegationTypeOK, Steps, ParentStates, Batches
<1>5. Lineage' /\ DepthGood'
  <2>1. Unborn' = Unborn
    BY <1>2 DEF Unborn
  <2>2. DepthGood'
    BY <1>2, DepthStays DEF IInv
  <2> QED BY <1>1, <1>2, <2>1, <2>2 DEF Lineage, Exists
<1>6. MapsAgree'
  <2>1. ASSUME NEW p \in Threads
        PROVE  /\ waiting'[p] = {} /\ active'[p] = <<>>
               /\ {c \in Children : parent'[c] = p /\ pc'[c] \in Live} = {}
    BY <1>2 DEF Live
  <2>2. ToSet(<<>>) = {} /\ NoRepeats(<<>>) /\ Len(<<>>) <= MaxConcurrent
    BY DelegationAssumption DEF ToSet, NoRepeats
  <2> QED BY <2>1, <2>2 DEF MapsAgree
<1>7. ASSUME NEW c \in Children PROVE ChildGood(c)'
  <2>1. /\ pc'[c] = (IF pc[c] = "unborn" THEN "unborn" ELSE "done") /\ mode'[c] = None
        /\ watch'[c] = "none" /\ ~cancelled'[c]
    BY <1>2
  <2> QED BY <1>1, <1>3, <2>1, DelegationAssumption
          DEF ChildGood, Live, DelegationTypeOK, Outcomes
<1>8. BatchesGood' /\ Published' /\ CallsGood'
  BY <1>2, DelegationAssumption DEF BatchesGood, Published, CallsGood, Idle, Batches
<1>9. BannerIsLive'
  BY <1>1, <1>2 DEF BannerIsLive, DelegationTypeOK
<1> QED BY <1>4, <1>5, <1>6, <1>7, <1>8, <1>9 DEF IInv

----------------------------------------------------------------------------

LEMMA NextGood == ASSUME IInv, [Next]_vars PROVE IInv'
<1>1. ASSUME NEW p \in Threads, DelegateTask(p) \/ DelegateParallel(p) PROVE IInv'
  BY <1>1, DelegateTaskGood, DelegateParallelGood
<1>2. ASSUME NEW c \in Children,
             ChildStep(c) \/ AgentSpeaks(c) \/ AgentGoesIdle(c) \/ AgentErrors(c)
      PROVE  IInv'
  <2>1. CASE StartChild(c) \/ Recorded(c) \/ Shed(c)
    BY <2>1, StartChildGood, RecordedGood, ShedGood
  <2>2. CASE Timeout(c) \/ AgentErrors(c)
    BY <2>2, SeesGood DEF Timeout, AgentErrors, Outcomes
  <2>3. CASE AgentSpeaks(c) \/ AgentGoesIdle(c)
    BY <2>3, SeesGood DEF AgentSpeaks, AgentGoesIdle, Outcomes
  <2> QED BY <1>2, <2>1, <2>2, <2>3 DEF ChildStep
<1>3. ASSUME NEW b \in batches, BatchSettles(b) PROVE IInv'
  BY <1>3, BatchSettlesGood
<1>4. ASSUME NEW k \in Callers, NEW t \in Threads,
             CancelDelegation(k, t) \/ CancelAllDelegations(k, t)
      PROVE  IInv'
  BY <1>4, AskGood, TargetIsRunning DEF CancelDelegation, CancelAllDelegations
<1>5. ASSUME NEW k \in Callers, Answered(k) PROVE IInv'
  BY <1>5, AnsweredGood
<1>6. CASE Restart
  BY <1>6, RestartGood
<1>7. CASE UNCHANGED vars
  <2>1. DelegationTypeOK' /\ CallsGood' /\ \A c \in Children : ChildGood(c)'
    BY <1>7 DEF vars, IInv, DelegationTypeOK, CallsGood, ChildGood, Armed
  <2> QED BY <1>7, <2>1, LiveStep DEF vars
<1> QED BY <1>1, <1>2, <1>3, <1>4, <1>5, <1>6, <1>7 DEF Next

LEMMA Invariance == Spec => []IInv
<1>1. Init => IInv
  BY InitGood
<1>2. IInv /\ [Next]_vars => IInv'
  BY NextGood
<1> QED BY <1>1, <1>2, PTL DEF Spec

\* Types.
THEOREM DelegationTyped == Spec => []DelegationTypeOK
<1>1. IInv => DelegationTypeOK
  BY DEF IInv
<1> QED BY <1>1, Invariance, PTL

\* AgentDelegationService.ts: whatever mix of tasks and batches is asked for, no
\* thread is parked behind more than MAX_CONCURRENT_DELEGATIONS children, and no
\* child is deeper than MAX_DELEGATION_DEPTH.
THEOREM LimitsHold == Spec => []WithinLimits
<1>1. IInv => WithinLimits
  <2> SUFFICES ASSUME IInv PROVE WithinLimits
    OBVIOUS
  <2>1. ASSUME NEW t \in Threads PROVE Cardinality(waiting[t]) <= MaxConcurrent
    <3>1. active[t] \in Seq(Children) /\ ToSet(active[t]) = waiting[t]
          /\ Len(active[t]) <= MaxConcurrent
      BY DEF IInv, DelegationTypeOK, MapsAgree
    <3>2. IsFiniteSet(waiting[t]) /\ Cardinality(waiting[t]) <= Len(active[t])
      BY <3>1, ListBound
    <3>3. Cardinality(waiting[t]) \in Nat /\ Len(active[t]) \in Nat
      BY <3>1, <3>2, FS_CardinalityType
    <3> QED BY <3>1, <3>2, <3>3, DelegationAssumption
  <2>2. ASSUME NEW t \in Threads PROVE Depth[t] <= MaxDepth
    <3>1. Depth \in [Threads -> 0..MaxDepth]
      BY DEF IInv, DepthGood
    <3> QED BY <3>1
  <2> QED BY <2>1, <2>2 DEF WithinLimits
<1> QED BY <1>1, Invariance, PTL

\* A parked thread is parked behind exactly the children that have yet to shed it,
\* can cancel each of them, and is published as parked only while one of them or a
\* batch still has to release it.
THEOREM ParkedThreadsAreOwed == Spec => []ParkedIsOwed
<1>1. IInv => ParkedIsOwed
  BY DEF IInv, MapsAgree, Published, ParkedIsOwed, RunningUnder, Live
<1> QED BY <1>1, Invariance, PTL

\* The banner of a dashboard that has heard every event names only children that
\* still run, and stands only while it names one.
THEOREM BannersAreLive == Spec => []BannerIsLive
<1>1. IInv => BannerIsLive
  BY DEF IInv
<1> QED BY <1>1, Invariance, PTL
=============================================================================
