-------------------------- MODULE LibrariesProofs --------------------------
(***************************************************************************)
(* Proofs about the trees and lists of tad (NTree, SList), for any nodes,  *)
(* elements and keys, and that the libraries keep their types.             *)
(***************************************************************************)
EXTENDS MCLibraries, HeapPoolProofs, HeapLookerProofs, FiniteSetTheorems, SequenceTheorems,
        WellFoundedInduction, TLAPS

----------------------------------------------------------------------------
(* Least numbers: an argument by induction is made about a least           *)
(* counterexample.                                                         *)
LEMMA NatMin ==
    ASSUME NEW S \in SUBSET Nat, S # {}
    PROVE  Min(S) \in S /\ \A y \in S : Min(S) <= y
<1> DEFINE R == {ss \in Nat \X Nat : ss[1] < ss[2]}
<1>1. IsWellFoundedOn(R, Nat)
  BY NatLessThanWellFounded DEF OpToRel
<1>2. \A x, y \in Nat : y < x => <<y, x>> \in R
  OBVIOUS
<1> HIDE DEF R
<1>3. PICK x \in S : \A y \in S : ~ (<<y, x>> \in R)
  <2>1. S \subseteq Nat /\ S # {}
    OBVIOUS
  <2> QED
    BY <1>1, <2>1, WFMin
<1>4. \A y \in S : x <= y
  <2> SUFFICES ASSUME NEW y \in S, y < x PROVE FALSE
    OBVIOUS
  <2>1. x \in Nat /\ y \in Nat
    OBVIOUS
  <2> QED
    BY <1>2, <1>3, <2>1
<1> QED
  BY <1>3, <1>4 DEF Min

----------------------------------------------------------------------------
(* Walks.  D is the set of nodes, p one of their pointers.                 *)
Pointers(D, null) == [D -> D \cup {null}]

(* The turns of a walk exist: w is what Walk defines.                      *)
Turns(w, D, first, p, null) ==
    /\ w[0] = IF first = null THEN <<>> ELSE <<first>>
    /\ \A k \in 1 .. Cardinality(D) : w[k] = Farther(w[k - 1], k, p, null)

LEMMA WalkTurns ==
    ASSUME NEW D, IsFiniteSet(D), NEW null, NEW first, NEW p \in Pointers(D, null)
    PROVE  \E w : Turns(w, D, first, p, null) /\ Walk(first, p, null) = w[Cardinality(D)]
<1> DEFINE N == Cardinality(D)
<1>0. N \in Nat /\ DOMAIN p = D
  BY FS_CardinalityType DEF Pointers
<1> DEFINE start == IF first = null THEN <<>> ELSE <<first>>
           Good(v, n) == v = [k \in 0 .. n |-> IF k = 0 THEN start ELSE Farther(v[k - 1], k, p, null)]
           Bad == {n \in Nat : ~ \E v : Good(v, n)}
<1>1. Bad = {}
  <2> SUFFICES ASSUME Bad # {} PROVE FALSE
    OBVIOUS
  <2>1. PICK m \in Bad : \A n \in Bad : m <= n
    BY NatMin
  <2>2. m # 0
    <3> DEFINE v == [k \in 0 .. 0 |-> start]
    <3>1. Good(v, 0)
      <4>1. \A k \in 0 .. 0 : k = 0
        OBVIOUS
      <4> QED
        BY <4>1, Zenon
    <3> QED
      BY <2>1, <3>1
  <2>3. m \in Nat /\ m - 1 \in Nat /\ m - 1 < m
    BY <2>2
  <2>4. PICK v : Good(v, m - 1)
    <3> HIDE DEF Good
    <3>1. m - 1 \notin Bad
      <4> HIDE DEF Bad
      <4> QED
        BY <2>1, <2>3
    <3> QED
      BY <3>1, <2>3
  <2> HIDE DEF start
  <2> DEFINE u == [k \in 0 .. m |-> IF k = m THEN Farther(v[m - 1], m, p, null) ELSE v[k]]
  <2>5. \A k \in 0 .. m : u[k] = IF k = 0 THEN start ELSE Farther(u[k - 1], k, p, null)
    <3> SUFFICES ASSUME NEW k \in 0 .. m
                 PROVE  u[k] = IF k = 0 THEN start ELSE Farther(u[k - 1], k, p, null)
      OBVIOUS
    <3>1. CASE k = m
      <4>1. u[k] = Farther(v[m - 1], m, p, null) /\ u[k - 1] = v[m - 1] /\ k # 0
        BY <3>1, <2>2, <2>3
      <4> QED
        BY <4>1, <3>1, Zenon
    <3>2. CASE k # m
      <4>1. k \in 0 .. m - 1 /\ u[k] = v[k]
        BY <3>2, <2>3
      <4>2. v[k] = IF k = 0 THEN start ELSE Farther(v[k - 1], k, p, null)
        BY <4>1, <2>4, Zenon
      <4>3. k # 0 => u[k - 1] = v[k - 1]
        BY <4>1, <2>3
      <4> QED
        BY <4>1, <4>2, <4>3, Zenon
    <3> QED
      BY <3>1, <3>2
  <2>6. Good(u, m)
    <3>1. u = [k \in 0 .. m |-> u[k]]
      BY Zenon
    <3> HIDE DEF u
    <3>2. [k \in 0 .. m |-> u[k]] = [k \in 0 .. m |-> IF k = 0 THEN start ELSE Farther(u[k - 1], k, p, null)]
      BY <2>5, Zenon
    <3> QED
      BY <3>1, <3>2, Zenon
  <2> QED
    BY <2>1, <2>6
<1>2. PICK v : Good(v, N)
  BY <1>0, <1>1
<1> DEFINE w[i \in 0 .. Cardinality(DOMAIN p)] ==
              IF i = 0 THEN IF first = null THEN <<>> ELSE <<first>>
              ELSE Farther(w[i - 1], i, p, null)
<1>3. w = [i \in 0 .. N |-> IF i = 0 THEN start ELSE Farther(w[i - 1], i, p, null)]
  BY <1>2, <1>0, Zenon DEF w
<1>4. Walk(first, p, null) = w[N]
  BY <1>0 DEF Walk
<1> HIDE DEF w, N
<1>5. w[0] = start
  BY <1>0, <1>3
<1>6. \A k \in 1 .. N : w[k] = Farther(w[k - 1], k, p, null)
  <2> SUFFICES ASSUME NEW k \in 1 .. N PROVE w[k] = Farther(w[k - 1], k, p, null)
    OBVIOUS
  <2>1. k \in 0 .. N /\ k # 0
    BY <1>0
  <2> HIDE DEF start
  <2> QED
    BY <2>1, <1>3, Zenon
<1> QED
  BY <1>4, <1>5, <1>6 DEF Turns, N

(* How far a walk has come after k turns: it has no more than k + 1 nodes, *)
(* each is pointed to by the one before it, and the last of fewer nodes    *)
(* points to null.                                                         *)
Linked(s, D, first, p, null) ==
    /\ s \in Seq(D)
    /\ s = <<>> <=> first = null
    /\ s # <<>> => s[1] = first
    /\ \A k \in 1 .. Len(s) - 1 : s[k + 1] = p[s[k]]

LEMMA WalkLinked ==
    ASSUME NEW D, IsFiniteSet(D), NEW null, null \notin D,
           NEW first \in D \cup {null}, NEW p \in Pointers(D, null)
    PROVE  LET s == Walk(first, p, null)
           IN  /\ Linked(s, D, first, p, null)
               /\ Len(s) <= Cardinality(D) + 1
               /\ Len(s) <= Cardinality(D) /\ s # <<>> => p[s[Len(s)]] = null
<1> DEFINE N == Cardinality(D)
<1>0. N \in Nat
  BY FS_CardinalityType
<1>1. PICK w : Turns(w, D, first, p, null) /\ Walk(first, p, null) = w[N]
  BY WalkTurns
<1> DEFINE Reached(s, k) == /\ Linked(s, D, first, p, null)
                            /\ Len(s) <= k + 1
                            /\ Len(s) <= k /\ s # <<>> => p[s[Len(s)]] = null
           Bad == {k \in 0 .. N : ~ Reached(w[k], k)}
<1>2. Reached(w[0], 0)
  <2>1. CASE first = null
    <3>1. w[0] = <<>>
      BY <2>1, <1>1 DEF Turns
    <3> QED
      BY <3>1, <2>1 DEF Linked
  <2>2. CASE first # null
    <3>1. w[0] = <<first>> /\ first \in D
      BY <2>2, <1>1 DEF Turns
    <3> QED
      BY <3>1, <2>2 DEF Linked
  <2> QED
    BY <2>1, <2>2
<1>3. ASSUME NEW k \in 1 .. N, Reached(w[k - 1], k - 1)
      PROVE  Reached(w[k], k)
  <2>0. k \in Nat /\ k >= 1
    BY <1>0
  <2> DEFINE s == w[k - 1]
  <2>1. w[k] = Farther(s, k, p, null)
    BY <1>1 DEF Turns
  <2>2. /\ s \in Seq(D) /\ Len(s) \in Nat /\ Len(s) <= k
        /\ s = <<>> <=> first = null
        /\ s # <<>> => s[1] = first
        /\ \A j \in 1 .. Len(s) - 1 : s[j + 1] = p[s[j]]
        /\ Len(s) <= k - 1 /\ s # <<>> => p[s[Len(s)]] = null
    BY <1>3, <2>0 DEF Linked
  <2> HIDE DEF s
  <2>3. CASE Len(s) < k
    <3>1. w[k] = s
      BY <2>1, <2>3 DEF Farther
    <3>2. s # <<>> => p[s[Len(s)]] = null
      BY <2>2, <2>3, <2>0
    <3> QED
      BY <3>1, <3>2, <2>2, <2>0 DEF Linked
  <2>4. CASE Len(s) = k /\ p[Last(s)] = null
    <3>1. w[k] = s
      BY <2>1, <2>4 DEF Farther
    <3>2. p[s[Len(s)]] = null
      BY <2>4 DEF Last
    <3> QED
      BY <3>1, <3>2, <2>2, <2>0 DEF Linked
  <2>5. CASE Len(s) = k /\ p[Last(s)] # null
    <3> DEFINE t == p[s[k]]
    <3>1. w[k] = Append(s, t)
      BY <2>1, <2>5, <2>0 DEF Farther, Last
    <3>2. s[k] \in D
      BY <2>2, <2>5, <2>0
    <3>3. t \in D
      BY <3>2, <2>5 DEF Last, Pointers
    <3>4. s # <<>> /\ first # null
      BY <2>2, <2>5, <2>0
    <3> HIDE DEF t
    <3>5. /\ w[k] \in Seq(D) /\ Len(w[k]) = k + 1
          /\ \A j \in 1 .. k : w[k][j] = s[j]
          /\ w[k][k + 1] = t
      BY <3>1, <3>3, <2>2, <2>5
    <3>6. \A j \in 1 .. k : w[k][j + 1] = p[w[k][j]]
      <4> TAKE j \in 1 .. k
      <4>1. CASE j = k
        BY <4>1, <3>5, <2>0 DEF t
      <4>2. CASE j # k
        BY <4>2, <3>5, <2>0, <2>2, <2>5
      <4> QED
        BY <4>1, <4>2
    <3> QED
      BY <3>4, <3>5, <3>6, <2>0, <2>2 DEF Linked
  <2> QED
    BY <2>2, <2>3, <2>4, <2>5, <2>0
<1> HIDE DEF Reached, N
<1>4. Bad = {}
  <2> SUFFICES ASSUME Bad # {} PROVE FALSE
    OBVIOUS
  <2>0. Bad \in SUBSET Nat
    OBVIOUS
  <2>1. PICK m \in Bad : \A n \in Bad : m <= n
    BY <2>0, NatMin
  <2>2. m # 0 /\ m \in 0 .. N
    BY <2>1, <1>2
  <2>3. m \in 1 .. N /\ m - 1 \in 0 .. N /\ m - 1 < m
    BY <2>2, <1>0
  <2>4. Reached(w[m - 1], m - 1)
    BY <2>1, <2>3, <1>0
  <2> QED
    BY <2>1, <2>3, <2>4, <1>3
<1>5. Reached(w[N], N)
  BY <1>0, <1>4
<1> QED
  BY <1>1, <1>5 DEF Reached, N
----------------------------------------------------------------------------
(* Paths: the walks that end, s being the nodes one meets.                *)
Path(s, D, first, p, null) ==
    /\ Linked(s, D, first, p, null)
    /\ IsInjective(s)
    /\ s # <<>> => p[s[Len(s)]] = null

LEMMA InjectiveLen ==
    ASSUME NEW D, IsFiniteSet(D), NEW s \in Seq(D), IsInjective(s)
    PROVE  Len(s) <= Cardinality(D)
<1>1. Len(s) \in Nat /\ s \in [1 .. Len(s) -> D]
  BY LenProperties
<1>2. s \in Injection(1 .. Len(s), D)
  BY <1>1 DEF Injection, IsInjective
<1>3. Cardinality(1 .. Len(s)) <= Cardinality(D)
  BY <1>2, FS_Injection
<1>4. Cardinality(1 .. Len(s)) = Len(s)
  <2>1. /\ 1 \in Int /\ Len(s) \in Int
        /\ 1 > Len(s) => Len(s) = 0
        /\ Len(s) - 1 + 1 = Len(s)
    BY <1>1
  <2> QED
    BY <2>1, FS_Interval
<1> QED
  BY <1>3, <1>4

(* A path is all that the walk of its pointer visits.                     *)
LEMMA PathIsWalk ==
    ASSUME NEW D, IsFiniteSet(D), NEW null, null \notin D,
           NEW first \in D \cup {null}, NEW p \in Pointers(D, null),
           NEW s, Path(s, D, first, p, null)
    PROVE  Walk(first, p, null) = s
<1> DEFINE t == Walk(first, p, null)
<1>1. /\ Linked(t, D, first, p, null)
      /\ Len(t) <= Cardinality(D) => (t # <<>> => p[t[Len(t)]] = null)
  BY WalkLinked
<1> HIDE DEF t
<1>2. /\ s \in Seq(D) /\ Len(s) \in Nat
      /\ s = <<>> <=> first = null
      /\ s # <<>> => s[1] = first
      /\ \A k \in 1 .. Len(s) - 1 : s[k + 1] = p[s[k]]
      /\ s # <<>> => p[s[Len(s)]] = null
  BY DEF Path, Linked
<1>3. /\ t \in Seq(D) /\ Len(t) \in Nat
      /\ t = <<>> <=> first = null
      /\ t # <<>> => t[1] = first
      /\ \A k \in 1 .. Len(t) - 1 : t[k + 1] = p[t[k]]
  BY <1>1 DEF Linked
<1>4. Len(s) <= Cardinality(D) /\ Cardinality(D) \in Nat
  BY InjectiveLen, FS_CardinalityType, <1>2 DEF Path
<1>5. CASE first = null
  BY <1>5, <1>2, <1>3 DEF t
<1>6. CASE first # null
  <2>1. s # <<>> /\ t # <<>> /\ Len(s) >= 1 /\ Len(t) >= 1
    BY <1>6, <1>2, <1>3
  <2> DEFINE Bad == {k \in Nat : k \in 1 .. Len(s) /\ k <= Len(t) /\ s[k] # t[k]}
  <2>2. Bad = {}
    <3> SUFFICES ASSUME Bad # {} PROVE FALSE
      OBVIOUS
    <3>1. PICK m \in Bad : \A n \in Bad : m <= n
      BY NatMin
    <3>2. m # 1
      BY <3>1, <2>1, <1>2, <1>3
    <3>3. m - 1 \in 1 .. Len(s) - 1 /\ m - 1 \in 1 .. Len(t) - 1 /\ m - 1 \in Nat /\ m - 1 < m
      BY <3>1, <3>2, <1>2, <1>3
    <3>4. s[m - 1] = t[m - 1]
      BY <3>1, <3>3, <1>2, <1>3
    <3>5. s[(m - 1) + 1] = t[(m - 1) + 1]
      BY <3>3, <3>4, <1>2, <1>3
    <3> QED
      BY <3>1, <3>3, <3>5
  <2>3. \A k \in 1 .. Len(s) : k <= Len(t) => s[k] = t[k]
    BY <2>2, <1>2
  <2>4. ~ (Len(t) < Len(s))
    <3> SUFFICES ASSUME Len(t) < Len(s) PROVE FALSE
      OBVIOUS
    <3>1. Len(t) \in 1 .. Len(s) - 1
      BY <1>2, <1>3, <2>1
    <3>2. s[Len(t) + 1] = p[s[Len(t)]] /\ s[Len(t)] = t[Len(t)] /\ s[Len(t) + 1] \in D
      BY <3>1, <1>2, <2>3
    <3>3. p[t[Len(t)]] = null
      BY <1>1, <1>3, <1>4, <2>1
    <3> QED
      BY <3>2, <3>3
  <2>5. ~ (Len(s) < Len(t))
    <3> SUFFICES ASSUME Len(s) < Len(t) PROVE FALSE
      OBVIOUS
    <3>1. Len(s) \in 1 .. Len(t) - 1 /\ Len(s) \in 1 .. Len(s)
      BY <1>2, <1>3, <2>1
    <3>2. t[Len(s) + 1] = p[t[Len(s)]] /\ s[Len(s)] = t[Len(s)] /\ t[Len(s) + 1] \in D
      BY <3>1, <1>3, <2>3
    <3> QED
      BY <3>2, <1>2, <2>1
  <2>6. Len(s) = Len(t)
    BY <2>4, <2>5, <1>2, <1>3
  <2> QED
    BY <2>3, <2>6, <1>2, <1>3, SeqEqual DEF t
<1> QED
  BY <1>5, <1>6

(* A path only depends on the pointers of its nodes.                      *)
LEMMA PathFrame ==
    ASSUME NEW D, NEW null, NEW first, NEW p, NEW p2,
           NEW s, Path(s, D, first, p, null),
           \A n \in ToSet(s) : p2[n] = p[n]
    PROVE  Path(s, D, first, p2, null)
<1>1. s \in Seq(D) /\ Len(s) \in Nat /\ DOMAIN s = 1 .. Len(s)
  BY DEF Path, Linked
<1>2. \A k \in 1 .. Len(s) : p2[s[k]] = p[s[k]]
  BY <1>1 DEF ToSet
<1>3. /\ Linked(s, D, first, p, null) /\ IsInjective(s)
      /\ s # <<>> => p[s[Len(s)]] = null
  BY DEF Path
<1>4. Linked(s, D, first, p2, null)
  BY ONLY <1>1, <1>2, <1>3 DEF Linked
<1>5. s # <<>> => p2[s[Len(s)]] = null
  BY ONLY <1>1, <1>2, <1>3
<1> QED
  BY <1>3, <1>4, <1>5 DEF Path

(* What InsertAt and RemoveAt do to the positions.                         *)
Inserted(t, D, s, i, c) ==
    /\ t \in Seq(D) /\ Len(t) = Len(s) + 1 /\ DOMAIN t = 1 .. Len(s) + 1
    /\ \A k \in 1 .. Len(s) + 1 :
          t[k] = IF k < i THEN s[k] ELSE IF k = i THEN c ELSE s[k - 1]
    /\ t[i] = c
Removed(t, D, s, i) ==
    /\ t \in Seq(D) /\ Len(t) = Len(s) - 1 /\ DOMAIN t = 1 .. Len(s) - 1
    /\ \A k \in 1 .. Len(s) - 1 : t[k] = IF k < i THEN s[k] ELSE s[k + 1]

LEMMA InsertAtShape ==
    ASSUME NEW D, NEW s \in Seq(D), NEW c \in D, NEW i \in 1 .. Len(s) + 1,
           NEW t, t = InsertAt(s, i, c)
    PROVE  Inserted(t, D, s, i, c)
<1>0. Len(s) \in Nat /\ i \in Nat /\ i >= 1 /\ i <= Len(s) + 1
  OBVIOUS
<1> DEFINE u == SubSeq(s, 1, i - 1)
           v == SubSeq(s, i, Len(s))
<1>1. /\ u \in Seq(D) /\ Len(u) = i - 1
      /\ \A k \in 1 .. i - 1 : u[k] = s[k]
  BY <1>0
<1>2. /\ v \in Seq(D) /\ Len(v) = Len(s) + 1 - i
      /\ \A k \in 1 .. Len(s) + 1 - i : v[k] = s[i + k - 1]
  BY <1>0
<1>3. t = u \o <<c>> \o v
  BY DEF InsertAt
<1> HIDE DEF u, v
<1> DEFINE uc == u \o <<c>>
<1>4. /\ uc \in Seq(D) /\ Len(uc) = i
      /\ \A k \in 1 .. i : uc[k] = IF k < i THEN s[k] ELSE c
  BY <1>0, <1>1
<1>8. t = uc \o v
  BY <1>3
<1> HIDE DEF uc
<1>5. /\ t \in Seq(D) /\ Len(t) = Len(s) + 1
      /\ \A k \in 1 .. Len(s) + 1 : t[k] = IF k <= i THEN uc[k] ELSE v[k - i]
  BY ONLY <1>0, <1>2, <1>4, <1>8
<1>6. \A k \in 1 .. Len(s) + 1 :
         t[k] = IF k < i THEN s[k] ELSE IF k = i THEN c ELSE s[k - 1]
  <2> TAKE k \in 1 .. Len(s) + 1
  <2>1. CASE k <= i
    BY <2>1, <1>0, <1>4, <1>5
  <2>2. CASE k > i
    <3>1. k - i \in 1 .. Len(s) + 1 - i /\ i + (k - i) - 1 = k - 1
      BY <2>2, <1>0
    <3>2. t[k] = v[k - i] /\ v[k - i] = s[i + (k - i) - 1]
      BY <3>1, <2>2, <1>0, <1>2, <1>5
    <3> QED
      BY <3>1, <3>2, <2>2, <1>0
  <2> QED
    BY <2>1, <2>2, <1>0
<1>7. t[i] = c
  BY <1>0, <1>6
<1> QED
  BY <1>0, <1>5, <1>6, <1>7 DEF Inserted

LEMMA RemoveAtShape ==
    ASSUME NEW D, NEW s \in Seq(D), NEW i \in 1 .. Len(s),
           NEW t, t = RemoveAt(s, i)
    PROVE  Removed(t, D, s, i)
<1>0. Len(s) \in Nat /\ i \in Nat /\ i >= 1 /\ i <= Len(s)
  OBVIOUS
<1> DEFINE u == SubSeq(s, 1, i - 1)
           v == SubSeq(s, i + 1, Len(s))
<1>1. /\ u \in Seq(D) /\ Len(u) = i - 1
      /\ \A k \in 1 .. i - 1 : u[k] = s[k]
  BY <1>0
<1>2. /\ v \in Seq(D) /\ Len(v) = Len(s) - i
      /\ \A k \in 1 .. Len(s) - i : v[k] = s[i + k]
  BY <1>0
<1>3. t = u \o v
  BY DEF RemoveAt
<1> HIDE DEF u, v
<1>5. /\ t \in Seq(D) /\ Len(t) = Len(s) - 1
      /\ \A k \in 1 .. Len(s) - 1 : t[k] = IF k < i THEN u[k] ELSE v[k - (i - 1)]
  BY <1>0, <1>1, <1>2, <1>3
<1>6. \A k \in 1 .. Len(s) - 1 : t[k] = IF k < i THEN s[k] ELSE s[k + 1]
  <2> TAKE k \in 1 .. Len(s) - 1
  <2>1. CASE k < i
    BY <2>1, <1>0, <1>1, <1>5
  <2>2. CASE k >= i
    <3>1. k - (i - 1) \in 1 .. Len(s) - i /\ i + (k - (i - 1)) = k + 1
      BY <2>2, <1>0
    <3>2. t[k] = v[k - (i - 1)] /\ v[k - (i - 1)] = s[i + (k - (i - 1))]
      BY <3>1, <2>2, <1>0, <1>2, <1>5
    <3> QED
      BY <3>1, <3>2, <2>2, <1>0
  <2> QED
    BY <2>1, <2>2, <1>0
<1> QED
  BY <1>0, <1>5, <1>6 DEF Removed

(* A node is linked in front of the i-th one.                              *)
LEMMA PathInsert ==
    ASSUME NEW D, NEW null, null \notin D, NEW first \in D \cup {null},
           NEW p, NEW p2, NEW s, Path(s, D, first, p, null),
           NEW c \in D, c \notin ToSet(s), NEW i \in 1 .. Len(s) + 1,
           p2[c] = IF i = 1 THEN first ELSE p[s[i - 1]],
           i # 1 => p2[s[i - 1]] = c,
           \A k \in 1 .. Len(s) : k # i - 1 => p2[s[k]] = p[s[k]]
    PROVE  /\ Path(InsertAt(s, i, c), D, IF i = 1 THEN c ELSE first, p2, null)
           /\ ToSet(InsertAt(s, i, c)) = ToSet(s) \cup {c}
<1>1. /\ s \in Seq(D) /\ Len(s) \in Nat /\ DOMAIN s = 1 .. Len(s)
      /\ s = <<>> <=> first = null
      /\ s # <<>> => s[1] = first
      /\ \A k \in 1 .. Len(s) - 1 : s[k + 1] = p[s[k]]
      /\ s # <<>> => p[s[Len(s)]] = null
      /\ \A a, b \in 1 .. Len(s) : s[a] = s[b] => a = b
  BY DEF Path, Linked, IsInjective
<1>0. Len(s) \in Nat /\ i \in Nat
  BY <1>1
<1>t. PICK t : t = InsertAt(s, i, c)
  OBVIOUS
<1>2. /\ t \in Seq(D) /\ Len(t) = Len(s) + 1 /\ DOMAIN t = 1 .. Len(s) + 1
      /\ \A k \in 1 .. Len(s) + 1 :
            t[k] = IF k < i THEN s[k] ELSE IF k = i THEN c ELSE s[k - 1]
      /\ t[i] = c
  <2>1. s \in Seq(D) /\ c \in D /\ i \in 1 .. Len(s) + 1
    BY <1>1
  <2>2. Inserted(t, D, s, i, c)
    BY ONLY <2>1, <1>t, InsertAtShape, Zenon
  <2> QED
    BY <2>2 DEF Inserted
<1>3. \A k \in 1 .. Len(s) : s[k] # c
  BY <1>1 DEF ToSet
<1>4. IsInjective(t)
  BY <1>1, <1>2, <1>3 DEF IsInjective
<1>5. t # <<>> /\ t[1] = IF i = 1 THEN c ELSE first
  BY <1>1, <1>2
<1>6. \A k \in 1 .. Len(t) - 1 : t[k + 1] = p2[t[k]]
  <2> TAKE k \in 1 .. Len(t) - 1
  <2>0. k \in 1 .. Len(s) /\ k \in Nat /\ i \in Nat
    BY <1>1, <1>2
  <2>1. CASE k < i - 1
    <3>1. t[k] = s[k] /\ t[k + 1] = s[k + 1] /\ k \in 1 .. Len(s) - 1
      BY <2>0, <2>1, <1>1, <1>2
    <3>2. p2[s[k]] = p[s[k]]
      BY <2>0, <2>1
    <3> QED
      BY <3>1, <3>2, <1>1
  <2>2. CASE k = i - 1
    <3>1. t[k] = s[i - 1] /\ t[k + 1] = c /\ i # 1
      BY <2>0, <2>2, <1>1, <1>2
    <3> QED
      BY <3>1
  <2>3. CASE k = i
    <3>1. t[k] = c /\ t[k + 1] = s[i]
      BY <2>0, <2>3, <1>1, <1>2
    <3>2. CASE i = 1
      <4>1. s[i] = first
        BY <3>2, <2>0, <1>1
      <4> QED
        BY <3>1, <3>2, <4>1
    <3>3. CASE i # 1
      <4>1. i - 1 \in 1 .. Len(s) - 1 /\ (i - 1) + 1 = i
        BY <3>3, <2>0, <2>3
      <4>2. s[i] = p[s[i - 1]]
        BY <4>1, <1>1
      <4> QED
        BY <3>1, <3>3, <4>2
    <3> QED
      BY <3>2, <3>3
  <2>4. CASE k > i
    <3>1. t[k] = s[k - 1] /\ t[k + 1] = s[k] /\ k - 1 \in 1 .. Len(s) - 1 /\ (k - 1) + 1 = k
      BY <2>0, <2>4, <1>1, <1>2
    <3>2. p2[s[k - 1]] = p[s[k - 1]]
      BY <2>0, <2>4, <3>1, <1>1
    <3>3. s[k] = p[s[k - 1]]
      BY <3>1, <1>1
    <3> QED
      BY <3>1, <3>2, <3>3
  <2> QED
    BY <2>0, <2>1, <2>2, <2>3, <2>4
<1>7. p2[t[Len(t)]] = null
  <2>1. CASE i = Len(s) + 1
    <3>1. t[Len(t)] = c
      BY <2>1, <1>2, Zenon
    <3>2. CASE i = 1
      BY <3>1, <3>2, <2>1, <1>1
    <3>3. CASE i # 1
      <4>1. i - 1 = Len(s)
        BY ONLY <2>1, <1>0
      <4>2. Len(s) # 0
        BY ONLY <3>3, <2>1, <1>0
      <4>3. s # <<>>
        BY <4>2
      <4> QED
        BY <3>1, <3>3, <4>1, <4>3, <1>1
    <3> QED
      BY <3>2, <3>3
  <2>2. CASE i # Len(s) + 1
    <3>1. Len(s) \in 1 .. Len(s) /\ Len(s) # i - 1 /\ s # <<>>
      BY <2>2, <1>1
    <3>2. t[Len(t)] = s[Len(s)]
      BY <2>2, <1>1, <1>2
    <3> QED
      BY <3>1, <3>2, <1>1
  <2> QED
    BY <2>1, <2>2
<1>8. Path(t, D, IF i = 1 THEN c ELSE first, p2, null)
  <2>1. (IF i = 1 THEN c ELSE first) # null
    BY <1>1
  <2> QED
    BY <2>1, <1>2, <1>4, <1>5, <1>6, <1>7 DEF Path, Linked
<1>9. ToSet(t) = ToSet(s) \cup {c}
  <2>1. \A k \in 1 .. Len(s) + 1 : t[k] \in ToSet(s) \cup {c}
    <3> TAKE k \in 1 .. Len(s) + 1
    <3>1. CASE k < i
      <4>1. k \in 1 .. Len(s) /\ t[k] = s[k]
        BY <3>1, <1>1, <1>2
      <4> QED
        BY <4>1, <1>1 DEF ToSet
    <3>2. CASE k = i
      BY <3>2, <1>2
    <3>3. CASE k > i
      <4>1. k - 1 \in 1 .. Len(s) /\ t[k] = s[k - 1]
        BY <3>3, <1>1, <1>2
      <4> QED
        BY <4>1, <1>1 DEF ToSet
    <3> QED
      BY <3>1, <3>2, <3>3, <1>1
  <2>2. c \in ToSet(t)
    <3>1. t[i] = c /\ i \in DOMAIN t
      BY <1>1, <1>2
    <3> QED
      BY <3>1 DEF ToSet
  <2>3. \A k \in 1 .. Len(s) : s[k] \in ToSet(t)
    <3> TAKE k \in 1 .. Len(s)
    <3>1. CASE k < i
      <4>1. k \in DOMAIN t /\ t[k] = s[k]
        BY <3>1, <1>1, <1>2
      <4> QED
        BY <4>1 DEF ToSet
    <3>2. CASE k >= i
      <4>1. k + 1 \in DOMAIN t /\ t[k + 1] = s[k]
        BY <3>2, <1>1, <1>2
      <4> QED
        BY <4>1 DEF ToSet
    <3> QED
      BY <3>1, <3>2, <1>1
  <2>4. ToSet(t) \subseteq ToSet(s) \cup {c}
    BY <2>1, <1>2 DEF ToSet
  <2>5. ToSet(s) \subseteq ToSet(t)
    BY <2>3, <1>1 DEF ToSet
  <2> QED
    BY <2>2, <2>4, <2>5
<1> QED
  BY <1>8, <1>9, <1>t

(* The i-th node is unlinked.                                              *)
LEMMA PathRemove ==
    ASSUME NEW D, NEW null, null \notin D, NEW first \in D \cup {null},
           NEW p, NEW p2, NEW s, Path(s, D, first, p, null),
           NEW i \in 1 .. Len(s),
           i # 1 => p2[s[i - 1]] = p[s[i]],
           \A k \in 1 .. Len(s) : k # i - 1 => p2[s[k]] = p[s[k]]
    PROVE  /\ Path(RemoveAt(s, i), D, IF i = 1 THEN p[s[1]] ELSE first, p2, null)
           /\ ToSet(RemoveAt(s, i)) = ToSet(s) \ {s[i]}
<1>1. /\ s \in Seq(D) /\ Len(s) \in Nat /\ DOMAIN s = 1 .. Len(s)
      /\ s = <<>> <=> first = null
      /\ s # <<>> => s[1] = first
      /\ \A k \in 1 .. Len(s) - 1 : s[k + 1] = p[s[k]]
      /\ s # <<>> => p[s[Len(s)]] = null
      /\ \A a, b \in 1 .. Len(s) : s[a] = s[b] => a = b
  BY DEF Path, Linked, IsInjective
<1>t. PICK t : t = RemoveAt(s, i)
  OBVIOUS
<1>2. /\ t \in Seq(D) /\ Len(t) = Len(s) - 1 /\ DOMAIN t = 1 .. Len(s) - 1
      /\ \A k \in 1 .. Len(s) - 1 : t[k] = IF k < i THEN s[k] ELSE s[k + 1]
  <2>1. s \in Seq(D) /\ i \in 1 .. Len(s)
    BY <1>1
  <2>2. Removed(t, D, s, i)
    BY ONLY <2>1, <1>t, RemoveAtShape, Zenon
  <2> QED
    BY <2>2 DEF Removed
<1>3. IsInjective(t)
  BY <1>1, <1>2 DEF IsInjective
<1>4. s # <<>> /\ first # null /\ p[s[Len(s)]] = null /\ s[1] = first
  BY <1>1
<1> DEFINE first2 == IF i = 1 THEN p[s[1]] ELSE first
<1>5. t = <<>> <=> first2 = null
  <2>1. CASE Len(s) = 1
    <3>1. t = <<>> /\ i = 1
      BY <2>1, <1>2
    <3> QED
      BY <3>1, <2>1, <1>4
  <2>2. CASE Len(s) # 1
    <3>1. t # <<>> /\ 1 \in 1 .. Len(s) - 1
      BY <2>2, <1>1, <1>2
    <3>2. p[s[1]] = s[1 + 1] /\ s[2] \in D
      BY <3>1, <1>1
    <3> QED
      BY <3>1, <3>2, <1>4
  <2> QED
    BY <2>1, <2>2
<1>6. t # <<>> => t[1] = first2
  <2> SUFFICES ASSUME t # <<>> PROVE t[1] = first2
    OBVIOUS
  <2>1. 1 \in 1 .. Len(s) - 1
    BY <1>1, <1>2
  <2>2. t[1] = IF 1 < i THEN s[1] ELSE s[1 + 1]
    BY <2>1, <1>2
  <2>3. s[1 + 1] = p[s[1]]
    BY <2>1, <1>1
  <2>4. 1 < i <=> i # 1
    BY <1>1
  <2> QED
    BY <2>2, <2>3, <2>4, <1>4
<1>7. \A k \in 1 .. Len(t) - 1 : t[k + 1] = p2[t[k]]
  <2> TAKE k \in 1 .. Len(t) - 1
  <2>0. k \in 1 .. Len(s) - 2 /\ k \in Nat /\ i \in Nat
    BY <1>1, <1>2
  <2>1. CASE k < i - 1
    <3>1. t[k] = s[k] /\ t[k + 1] = s[k + 1] /\ k \in 1 .. Len(s) - 1 /\ k # i - 1
      BY <2>0, <2>1, <1>1, <1>2
    <3>2. p2[s[k]] = p[s[k]]
      BY <3>1, <1>1
    <3> QED
      BY <3>1, <3>2, <1>1
  <2>2. CASE k = i - 1
    <3>1. t[k] = s[i - 1] /\ t[k + 1] = s[i + 1] /\ i # 1 /\ i \in 1 .. Len(s) - 1
      BY <2>0, <2>2, <1>1, <1>2
    <3> QED
      BY <3>1, <1>1
  <2>3. CASE k >= i
    <3>1. /\ t[k] = s[k + 1] /\ t[k + 1] = s[(k + 1) + 1] /\ k + 1 \in 1 .. Len(s) - 1
          /\ k + 1 # i - 1 /\ k + 1 \in 1 .. Len(s)
      BY <2>0, <2>3, <1>1, <1>2
    <3>2. p2[s[k + 1]] = p[s[k + 1]]
      BY <3>1
    <3> QED
      BY <3>1, <3>2, <1>1
  <2> QED
    BY <2>0, <2>1, <2>2, <2>3
<1>8. t # <<>> => p2[t[Len(t)]] = null
  <2> SUFFICES ASSUME t # <<>> PROVE p2[t[Len(t)]] = null
    OBVIOUS
  <2>0. Len(t) \in Nat /\ Len(t) >= 1 /\ Len(s) >= 2 /\ i \in Nat
    BY <1>1, <1>2
  <2>1. CASE i = Len(s)
    <3>1. t[Len(t)] = s[i - 1] /\ i # 1
      BY <2>0, <2>1, <1>1, <1>2
    <3> QED
      BY <3>1, <2>1, <1>4
  <2>2. CASE i # Len(s)
    <3>0. i < Len(s)
      BY <2>0, <2>2
    <3>1. t[Len(t)] = s[Len(s)]
      <4>1. Len(t) \in 1 .. Len(s) - 1 /\ ~ (Len(t) < i) /\ Len(t) + 1 = Len(s)
        BY <2>0, <3>0, <1>2
      <4> QED
        BY <4>1, <1>2
    <3>2. Len(s) \in 1 .. Len(s) /\ Len(s) # i - 1
      BY <2>0, <3>0
    <3> QED
      BY <3>1, <3>2, <1>4
  <2> QED
    BY <2>1, <2>2
<1>9. Path(t, D, first2, p2, null)
  <2> HIDE DEF first2
  <2> QED
    BY <1>2, <1>3, <1>5, <1>6, <1>7, <1>8 DEF Path, Linked
<1>10. ToSet(t) = ToSet(s) \ {s[i]}
  <2>1. \A k \in 1 .. Len(s) - 1 : t[k] \in ToSet(s) \ {s[i]}
    <3> TAKE k \in 1 .. Len(s) - 1
    <3>1. CASE k < i
      <4>1. k \in 1 .. Len(s) /\ t[k] = s[k] /\ k # i
        BY <3>1, <1>1, <1>2
      <4> QED
        BY <4>1, <1>1 DEF ToSet
    <3>2. CASE k >= i
      <4>1. k + 1 \in 1 .. Len(s) /\ t[k] = s[k + 1] /\ k + 1 # i
        BY <3>2, <1>1, <1>2
      <4> QED
        BY <4>1, <1>1 DEF ToSet
    <3> QED
      BY <3>1, <3>2, <1>1
  <2>2. \A k \in 1 .. Len(s) : k # i => s[k] \in ToSet(t)
    <3> TAKE k \in 1 .. Len(s)
    <3>1. CASE k < i
      <4>1. k \in DOMAIN t /\ t[k] = s[k]
        BY <3>1, <1>1, <1>2
      <4> QED
        BY <4>1 DEF ToSet
    <3>2. CASE k > i
      <4>1. k - 1 \in DOMAIN t /\ t[k - 1] = s[k]
        BY <3>2, <1>1, <1>2
      <4> QED
        BY <4>1 DEF ToSet
    <3> QED
      BY <3>1, <3>2, <1>1
  <2>3. ToSet(t) \subseteq ToSet(s) \ {s[i]}
    BY <2>1, <1>2 DEF ToSet
  <2>4. ToSet(s) \ {s[i]} \subseteq ToSet(t)
    BY <2>2, <1>1 DEF ToSet
  <2> QED
    BY <2>3, <2>4
<1> QED
  BY <1>9, <1>10, <1>t

(* Where a loop stops.                                                     *)
LEMMA StopAtShape ==
    ASSUME NEW D, NEW s \in Seq(D), NEW ends, NEW i, i = StopAt(s, ends)
    PROVE  /\ i \in 1 .. Len(s) + 1
           /\ \A k \in 1 .. Len(s) : k < i => s[k] \notin ends
           /\ i <= Len(s) => s[i] \in ends
<1> DEFINE at == {j \in 1 .. Len(s) : s[j] \in ends}
<1>0. Len(s) \in Nat
  OBVIOUS
<1>1. CASE at = {}
  BY <1>0, <1>1 DEF StopAt
<1>2. CASE at # {}
  <2>1. at \in SUBSET Nat
    OBVIOUS
  <2>2. Min(at) \in at /\ \A y \in at : Min(at) <= y
    BY <2>1, <1>2, NatMin
  <2>3. i = Min(at)
    BY <1>2 DEF StopAt
  <2>4. i \in at /\ \A y \in at : i <= y
    BY <2>2, <2>3
  <2>5. \A k \in 1 .. Len(s) : k < i => k \notin at
    BY <2>4, <1>0
  <2> QED
    BY <2>4, <2>5, <1>0
<1> QED
  BY <1>1, <1>2

----------------------------------------------------------------------------
(* The singly linked list: a path of the members, in order.               *)
SlSorted(s) == \A m, n \in 1 .. Len(s) : m < n => EltKey[s[m]] <= EltKey[s[n]]

SlInv ==
    /\ sl_root \in Elts \cup {Nil}
    /\ sl_next \in Pointers(Elts, Nil)
    /\ sl_in \in SUBSET Elts
    /\ Path(Visited, Elts, sl_root, sl_next, Nil)
    /\ ToSet(Visited) = sl_in
    /\ SlSorted(Visited)

(* What the two macros do to the walk.                                     *)
SlInserts(link, i) ==
    /\ link \in Elts \ sl_in /\ i \in 1 .. Len(Visited) + 1
    /\ Visited' = InsertAt(Visited, i, link)
    /\ sl_in' = sl_in \cup {link}
    /\ \A k \in 1 .. Len(Visited) : k < i => EltKey[Visited[k]] < EltKey[link]
    /\ i <= Len(Visited) => EltKey[Visited[i]] >= EltKey[link]
SlRemoves(i) ==
    /\ i \in 1 .. Len(Visited)
    /\ Visited' = RemoveAt(Visited, i)
    /\ sl_in' = sl_in \ {Visited[i]}

LEMMA SlVisited ==
    ASSUME SlInv
    PROVE  /\ Visited \in Seq(Elts) /\ Len(Visited) \in Nat /\ DOMAIN Visited = 1 .. Len(Visited)
           /\ \A k \in 1 .. Len(Visited) : Visited[k] \in Elts /\ Visited[k] \in sl_in
           /\ \A e \in sl_in : \E k \in 1 .. Len(Visited) : Visited[k] = e
           /\ \A a, b \in 1 .. Len(Visited) : Visited[a] = Visited[b] => a = b
           /\ SlSorted(Visited)
           /\ Visited = <<>> <=> sl_root = Nil
           /\ Visited # <<>> => Visited[1] = sl_root
<1>1. Visited \in Seq(Elts)
  BY DEF SlInv, Path, Linked
<1>2. Len(Visited) \in Nat /\ DOMAIN Visited = 1 .. Len(Visited)
  BY <1>1
<1>3. \A k \in 1 .. Len(Visited) : Visited[k] \in Elts
  BY <1>1
<1>4. \A k \in 1 .. Len(Visited) : Visited[k] \in sl_in
  BY <1>2 DEF SlInv, ToSet
<1>5. \A e \in sl_in : \E k \in 1 .. Len(Visited) : Visited[k] = e
  BY <1>2 DEF SlInv, ToSet
<1>6. \A a, b \in 1 .. Len(Visited) : Visited[a] = Visited[b] => a = b
  BY <1>2 DEF SlInv, Path, IsInjective
<1>7. /\ SlSorted(Visited)
      /\ Visited = <<>> <=> sl_root = Nil
      /\ Visited # <<>> => Visited[1] = sl_root
  BY DEF SlInv, Path, Linked
<1> QED
  BY <1>1, <1>2, <1>3, <1>4, <1>5, <1>6, <1>7

LEMMA SlPwalk ==
    ASSUME SlInv, NEW ends, NEW i, i = StopAt(Visited, ends)
    PROVE  /\ i \in 1 .. Len(Visited) + 1
           /\ \A k \in 1 .. Len(Visited) : k < i => Visited[k] \notin ends
           /\ i <= Len(Visited) => Visited[i] \in ends
           /\ i = 1 => Pwalk(ends) = Nil
           /\ i # 1 => Pwalk(ends) = Visited[i - 1] /\ Pwalk(ends) \in Elts
<1>1. Visited \in Seq(Elts) /\ Len(Visited) \in Nat
  BY SlVisited
<1>2. /\ i \in 1 .. Len(Visited) + 1
      /\ \A k \in 1 .. Len(Visited) : k < i => Visited[k] \notin ends
      /\ i <= Len(Visited) => Visited[i] \in ends
  BY <1>1, StopAtShape
<1>3. i = 1 => Pwalk(ends) = Nil
  BY DEF Pwalk
<1>4. i # 1 => Pwalk(ends) = Visited[i - 1]
  BY DEF Pwalk
<1>5. i # 1 => i - 1 \in 1 .. Len(Visited)
  BY <1>1, <1>2
<1> QED
  BY <1>1, <1>2, <1>3, <1>4, <1>5

LEMMA SlInsertStep ==
    ASSUME SlInv, NEW link \in Elts, slist_insert_elt(link)
    PROVE  /\ SlInv'
           /\ \E i \in 1 .. Len(Visited) + 1 : SlInserts(link, i)
<1> USE EltsAssumption
<1>t. PICK i : i = StopAt(Visited, After(link))
  OBVIOUS
<1>0. /\ link \notin sl_in /\ sl_in' = sl_in \cup {link}
      /\ sl_root \in Elts \cup {Nil} /\ sl_next \in [Elts -> Elts \cup {Nil}] /\ sl_in \in SUBSET Elts
  BY DEF slist_insert_elt, SlInv, Pointers
<1>1. /\ Visited \in Seq(Elts) /\ Len(Visited) \in Nat
      /\ \A k \in 1 .. Len(Visited) : Visited[k] \in Elts /\ Visited[k] \in sl_in
      /\ \A a, b \in 1 .. Len(Visited) : Visited[a] = Visited[b] => a = b
      /\ SlSorted(Visited)
  BY SlVisited
<1>2. /\ i \in 1 .. Len(Visited) + 1
      /\ \A k \in 1 .. Len(Visited) : k < i => Visited[k] \notin After(link)
      /\ i <= Len(Visited) => Visited[i] \in After(link)
      /\ i = 1 => Pwalk(After(link)) = Nil
      /\ i # 1 => Pwalk(After(link)) = Visited[i - 1] /\ Pwalk(After(link)) \in Elts
  BY <1>t, SlPwalk
<1>3. /\ sl_next' \in [Elts -> Elts \cup {Nil}]
      /\ sl_root' = IF i = 1 THEN link ELSE sl_root
      /\ sl_next'[link] = IF i = 1 THEN sl_root ELSE sl_next[Visited[i - 1]]
      /\ i # 1 => sl_next'[Visited[i - 1]] = link
      /\ \A k \in 1 .. Len(Visited) : k # i - 1 => sl_next'[Visited[k]] = sl_next[Visited[k]]
  <2>0. \A k \in 1 .. Len(Visited) : Visited[k] # link
    BY <1>0, <1>1
  <2>1. CASE i = 1
    <3>1. sl_next' = [sl_next EXCEPT ![link] = sl_root] /\ sl_root' = link
      BY <1>2, <2>1 DEF slist_insert_elt
    <3> QED
      BY <3>1, <2>0, <2>1, <1>0, <1>1
  <2>2. CASE i # 1
    <3> DEFINE pw == Visited[i - 1]
    <3>0. i - 1 \in 1 .. Len(Visited) /\ pw \in Elts /\ pw # link
      BY <2>0, <2>2, <1>1, <1>2
    <3>1. /\ sl_next' = [[sl_next EXCEPT ![link] = sl_next[pw]] EXCEPT ![pw] = link]
          /\ sl_root' = sl_root
      BY <1>2, <2>2, <3>0 DEF slist_insert_elt
    <3>2. \A k \in 1 .. Len(Visited) : k # i - 1 => Visited[k] # pw
      BY <1>1, <3>0
    <3> HIDE DEF pw
    <3>3. /\ sl_next' \in [Elts -> Elts \cup {Nil}]
          /\ sl_next'[link] = sl_next[pw] /\ sl_next'[pw] = link
          /\ \A e \in Elts : e # pw /\ e # link => sl_next'[e] = sl_next[e]
      BY <3>0, <3>1, <1>0
    <3>4. \A k \in 1 .. Len(Visited) : k # i - 1 => sl_next'[Visited[k]] = sl_next[Visited[k]]
      BY <3>2, <3>3, <2>0, <1>1
    <3> QED
      BY <3>1, <3>3, <3>4, <2>2 DEF pw
  <2> QED
    BY <2>1, <2>2
<1>4. /\ Path(InsertAt(Visited, i, link), Elts, IF i = 1 THEN link ELSE sl_root, sl_next', Nil)
      /\ ToSet(InsertAt(Visited, i, link)) = ToSet(Visited) \cup {link}
  <2>1. link \notin ToSet(Visited)
    BY <1>0 DEF SlInv
  <2>2. Path(Visited, Elts, sl_root, sl_next, Nil)
    BY DEF SlInv
  <2>3. Nil \notin Elts /\ i \in 1 .. Len(Visited) + 1
    BY <1>2
  <2> QED
    BY ONLY <2>1, <2>2, <2>3, <1>0, <1>3, PathInsert
<1>5. sl_root' \in Elts \cup {Nil} /\ sl_next' \in Pointers(Elts, Nil)
  BY <1>0, <1>3 DEF Pointers
<1>6. Visited' = InsertAt(Visited, i, link)
  <2>1. Path(InsertAt(Visited, i, link), Elts, sl_root', sl_next', Nil)
    BY <1>3, <1>4
  <2> HIDE DEF Visited
  <2>2. Walk(sl_root', sl_next', Nil) = InsertAt(Visited, i, link)
    BY <1>5, <2>1, PathIsWalk, Zenon
  <2> QED
    BY <2>2 DEF Visited
<1>7. /\ \A k \in 1 .. Len(Visited) : k < i => EltKey[Visited[k]] < EltKey[link]
      /\ i <= Len(Visited) => EltKey[Visited[i]] >= EltKey[link]
  BY <1>1, <1>2 DEF After
<1>8. SlSorted(Visited')
  <2>0. Inserted(Visited', Elts, Visited, i, link)
    BY ONLY <1>1, <1>2, <1>6, InsertAtShape, Zenon
  <2> PICK t : t = Visited'
    OBVIOUS
  <2>1. /\ Len(t) = Len(Visited) + 1
        /\ \A k \in 1 .. Len(Visited) + 1 :
              t[k] = IF k < i THEN Visited[k] ELSE IF k = i THEN link ELSE Visited[k - 1]
    BY <2>0 DEF Inserted
  <2>2. \A k \in 1 .. Len(Visited) : i <= k => EltKey[Visited[k]] >= EltKey[link]
    <3> TAKE k \in 1 .. Len(Visited)
    <3> HAVE i <= k
    <3>1. i \in 1 .. Len(Visited)
      BY <1>1, <1>2
    <3>2. EltKey[Visited[i]] <= EltKey[Visited[k]]
      BY <3>1, <1>1 DEF SlSorted
    <3>3. EltKey[Visited[i]] \in Int /\ EltKey[Visited[k]] \in Int /\ EltKey[link] \in Int
      BY <3>1, <1>1
    <3>4. EltKey[Visited[i]] >= EltKey[link]
      BY <3>1, <1>7
    <3> QED
      BY <3>2, <3>3, <3>4
  <2>3. \A k \in 1 .. Len(Visited) : EltKey[Visited[k]] \in Int
    BY <1>1
  <2>4. EltKey[link] \in Int
    OBVIOUS
  <2>5. \A m, n \in 1 .. Len(t) : m < n => EltKey[t[m]] <= EltKey[t[n]]
    <3> SUFFICES ASSUME NEW m \in 1 .. Len(t), NEW n \in 1 .. Len(t), m < n
                 PROVE  EltKey[t[m]] <= EltKey[t[n]]
      OBVIOUS
    <3>0. m \in Nat /\ n \in Nat /\ i \in Nat /\ m >= 1 /\ n <= Len(Visited) + 1 /\ m <= Len(Visited)
      BY <2>1, <1>1, <1>2
    <3>1. CASE n < i
      <4>1. t[m] = Visited[m] /\ t[n] = Visited[n] /\ n \in 1 .. Len(Visited) /\ m \in 1 .. Len(Visited)
        BY <3>0, <3>1, <2>1, <1>2, <1>1
      <4> QED
        BY <4>1, <1>1 DEF SlSorted
    <3>2. CASE n = i
      <4>1. t[m] = Visited[m] /\ t[n] = link /\ m \in 1 .. Len(Visited) /\ m < i
        BY <3>0, <3>2, <2>1, <1>2, <1>1
      <4> QED
        BY <4>1, <1>7, <2>3, <2>4
    <3>3. CASE n > i
      <4>1. t[n] = Visited[n - 1] /\ n - 1 \in 1 .. Len(Visited) /\ i <= n - 1
        BY <3>0, <3>3, <2>1, <1>2, <1>1
      <4>2. CASE m < i
        <5>1. t[m] = Visited[m] /\ m \in 1 .. Len(Visited) /\ m < n - 1
          BY <4>1, <4>2, <3>0, <2>1, <1>1
        <5> QED
          BY <4>1, <5>1, <1>1 DEF SlSorted
      <4>3. CASE m = i
        <5>1. t[m] = link
          BY <4>3, <3>0, <2>1, <1>2
        <5> QED
          BY <4>1, <5>1, <2>2, <2>3, <2>4
      <4>4. CASE m > i
        <5>0. m \in 1 .. Len(Visited) + 1 /\ ~ (m < i) /\ m # i
          BY <4>4, <3>0, <1>1
        <5>1. t[m] = Visited[m - 1]
          BY <5>0, <2>1
        <5>2. m - 1 \in 1 .. Len(Visited) /\ m - 1 < n - 1
          BY <4>4, <3>0, <1>1, <1>2
        <5> QED
          BY <4>1, <5>1, <5>2, <1>1 DEF SlSorted
      <4> QED
        BY <4>2, <4>3, <4>4, <3>0
    <3> QED
      BY <3>1, <3>2, <3>3, <3>0
  <2> QED
    BY <2>5 DEF SlSorted
<1>9. Path(Visited', Elts, sl_root', sl_next', Nil) /\ ToSet(Visited') = sl_in'
  <2>1. ToSet(Visited) = sl_in
    BY DEF SlInv
  <2> QED
    BY <2>1, <1>0, <1>3, <1>4, <1>6
<1>10. SlInv'
  BY <1>0, <1>5, <1>8, <1>9 DEF SlInv
<1>11. SlInserts(link, i)
  BY <1>0, <1>2, <1>6, <1>7 DEF SlInserts
<1> QED
  BY <1>2, <1>10, <1>11

LEMMA SlRemoveStep ==
    ASSUME SlInv, NEW node \in Elts, slist_remove_elt(node)
    PROVE  /\ SlInv'
           /\ (Visited' = Visited /\ sl_in' = sl_in) \/ \E i \in 1 .. Len(Visited) : SlRemoves(i)
<1> USE EltsAssumption
<1>1. CASE node \notin sl_in
  <2>1. sl_in' = sl_in /\ sl_root' = sl_root /\ sl_next' = sl_next
    BY <1>1 DEF slist_remove_elt, SlInv
  <2>2. Visited' = Visited
    BY <2>1 DEF Visited
  <2>3. SlInv'
    <3> HIDE DEF Visited
    <3> QED
      BY <2>1, <2>2 DEF SlInv
  <2> QED
    BY <2>1, <2>2, <2>3
<1>2. CASE node \in sl_in
  <2>t. PICK i : i = StopAt(Visited, {node})
    OBVIOUS
  <2>0. /\ sl_in' = sl_in \ {node}
        /\ sl_root \in Elts \cup {Nil} /\ sl_next \in [Elts -> Elts \cup {Nil}] /\ sl_in \in SUBSET Elts
    BY DEF slist_remove_elt, SlInv, Pointers
  <2>1. /\ Visited \in Seq(Elts) /\ Len(Visited) \in Nat
        /\ \A k \in 1 .. Len(Visited) : Visited[k] \in Elts /\ Visited[k] \in sl_in
        /\ \A e \in sl_in : \E k \in 1 .. Len(Visited) : Visited[k] = e
        /\ \A a, b \in 1 .. Len(Visited) : Visited[a] = Visited[b] => a = b
        /\ SlSorted(Visited)
        /\ Visited # <<>> => Visited[1] = sl_root
    BY SlVisited
  <2>2. /\ i \in 1 .. Len(Visited) + 1
        /\ \A k \in 1 .. Len(Visited) : k < i => Visited[k] \notin {node}
        /\ i <= Len(Visited) => Visited[i] \in {node}
        /\ i = 1 => Pwalk({node}) = Nil
        /\ i # 1 => Pwalk({node}) = Visited[i - 1] /\ Pwalk({node}) \in Elts
    BY <2>t, SlPwalk
  <2>3. i \in 1 .. Len(Visited) /\ Visited[i] = node
    <3>1. PICK k \in 1 .. Len(Visited) : Visited[k] = node
      BY <1>2, <2>1
    <3>2. ~ (k < i)
      BY <3>1, <2>2
    <3> QED
      BY <3>2, <2>1, <2>2
  <2>4. /\ sl_next' \in [Elts -> Elts \cup {Nil}]
        /\ sl_root' = IF i = 1 THEN sl_next[Visited[1]] ELSE sl_root
        /\ i # 1 => sl_next'[Visited[i - 1]] = sl_next[Visited[i]]
        /\ \A k \in 1 .. Len(Visited) : k # i - 1 => sl_next'[Visited[k]] = sl_next[Visited[k]]
    <3>1. CASE i = 1
      <4>1. sl_next' = sl_next /\ sl_root' = sl_next[sl_root]
        BY <1>2, <2>2, <3>1 DEF slist_remove_elt
      <4>2. Visited[1] = sl_root
        BY <2>1, <2>3, <3>1
      <4> QED
        BY <3>1, <4>1, <4>2, <2>0
    <3>2. CASE i # 1
      <4> DEFINE pw == Visited[i - 1]
      <4>0. i - 1 \in 1 .. Len(Visited) /\ pw \in Elts /\ node \in Elts
        BY <3>2, <2>1, <2>3
      <4>1. /\ sl_next' = [sl_next EXCEPT ![pw] = sl_next[node]]
            /\ sl_root' = sl_root
        BY <1>2, <2>2, <3>2, <4>0 DEF slist_remove_elt
      <4>2. \A k \in 1 .. Len(Visited) : k # i - 1 => Visited[k] # pw
        BY <2>1, <4>0
      <4> HIDE DEF pw
      <4>3. /\ sl_next' \in [Elts -> Elts \cup {Nil}]
            /\ sl_next'[pw] = sl_next[node]
            /\ \A e \in Elts : e # pw => sl_next'[e] = sl_next[e]
        BY <4>0, <4>1, <2>0
      <4>4. \A k \in 1 .. Len(Visited) : k # i - 1 => sl_next'[Visited[k]] = sl_next[Visited[k]]
        BY <4>2, <4>3, <2>1
      <4> QED
        BY <3>2, <4>1, <4>3, <4>4, <2>3 DEF pw
    <3> QED
      BY <3>1, <3>2
  <2>5. /\ Path(RemoveAt(Visited, i), Elts, IF i = 1 THEN sl_next[Visited[1]] ELSE sl_root, sl_next', Nil)
        /\ ToSet(RemoveAt(Visited, i)) = ToSet(Visited) \ {Visited[i]}
    <3>1. Path(Visited, Elts, sl_root, sl_next, Nil) /\ Nil \notin Elts
      BY DEF SlInv
    <3> QED
      BY ONLY <3>1, <2>0, <2>3, <2>4, PathRemove
  <2>6. sl_root' \in Elts \cup {Nil} /\ sl_next' \in Pointers(Elts, Nil)
    BY <2>0, <2>1, <2>3, <2>4 DEF Pointers
  <2>7. Visited' = RemoveAt(Visited, i)
    <3>1. Path(RemoveAt(Visited, i), Elts, sl_root', sl_next', Nil)
      BY <2>4, <2>5
    <3> HIDE DEF Visited
    <3>2. Walk(sl_root', sl_next', Nil) = RemoveAt(Visited, i)
      BY <2>6, <3>1, PathIsWalk, Zenon
    <3> QED
      BY <3>2 DEF Visited
  <2>8. SlSorted(Visited')
    <3>0. Removed(Visited', Elts, Visited, i)
      BY ONLY <2>1, <2>3, <2>7, RemoveAtShape, Zenon
    <3> PICK t : t = Visited'
      OBVIOUS
    <3>1. /\ Len(t) = Len(Visited) - 1
          /\ \A k \in 1 .. Len(Visited) - 1 : t[k] = IF k < i THEN Visited[k] ELSE Visited[k + 1]
      BY <3>0 DEF Removed
    <3>2. \A m, n \in 1 .. Len(t) : m < n => EltKey[t[m]] <= EltKey[t[n]]
      <4> SUFFICES ASSUME NEW m \in 1 .. Len(t), NEW n \in 1 .. Len(t), m < n
                   PROVE  EltKey[t[m]] <= EltKey[t[n]]
        OBVIOUS
      <4> DEFINE um == IF m < i THEN m ELSE m + 1
                 un == IF n < i THEN n ELSE n + 1
      <4>1. um \in 1 .. Len(Visited) /\ un \in 1 .. Len(Visited) /\ um < un
        BY <3>1, <2>1, <2>3
      <4>2. t[m] = Visited[um] /\ t[n] = Visited[un]
        BY <3>1, <2>1, <2>3
      <4> HIDE DEF um, un
      <4> QED
        BY <4>1, <4>2, <2>1 DEF SlSorted
    <3> QED
      BY <3>2 DEF SlSorted
  <2>9. Path(Visited', Elts, sl_root', sl_next', Nil) /\ ToSet(Visited') = sl_in'
    <3>1. ToSet(Visited) = sl_in
      BY DEF SlInv
    <3> QED
      BY <3>1, <2>0, <2>3, <2>4, <2>5, <2>7
  <2>10. SlInv'
    BY <2>0, <2>6, <2>8, <2>9 DEF SlInv
  <2>11. SlRemoves(i)
    BY <2>0, <2>3, <2>7 DEF SlRemoves
  <2> QED
    BY <2>3, <2>10, <2>11
<1> QED
  BY <1>1, <1>2

LEMMA SlInitInv == SlInit => SlInv
<1> SUFFICES ASSUME SlInit PROVE SlInv
  OBVIOUS
<1>1. sl_root = Nil /\ sl_next \in Pointers(Elts, Nil) /\ sl_in = {}
  BY DEF SlInit, Pointers
<1>2. Path(<<>>, Elts, sl_root, sl_next, Nil)
  BY <1>1 DEF Path, Linked, IsInjective
<1>3. Visited = <<>>
  BY <1>1, <1>2, EltsAssumption, PathIsWalk DEF Visited
<1>4. ToSet(<<>>) = {}
  BY DEF ToSet
<1>5. SlSorted(<<>>)
  BY DEF SlSorted
<1> QED
  BY <1>1, <1>2, <1>3, <1>4, <1>5 DEF SlInv

LEMMA SlStep ==
    ASSUME SlInv, SlNext
    PROVE  /\ SlInv'
           /\ \/ Visited' = Visited /\ sl_in' = sl_in
              \/ \E link \in Elts, i \in 1 .. Len(Visited) + 1 : SlInserts(link, i)
              \/ \E i \in 1 .. Len(Visited) : SlRemoves(i)
<1>1. PICK e \in Elts : slist_insert_elt(e) \/ slist_remove_elt(e)
  BY DEF SlNext
<1> HIDE DEF Visited
<1>2. CASE slist_insert_elt(e)
  BY <1>2, SlInsertStep
<1>3. CASE slist_remove_elt(e)
  BY <1>3, SlRemoveStep
<1> QED
  BY <1>1, <1>2, <1>3

(* slist_insert_elt and slist_remove_elt keep the list a path of exactly  *)
(* the members, in the order of the comparator, for any elements and keys: *)
(* it is a path that the walk of slist_foreach visits.                    *)
THEOREM SlInvariant == SlSpec => []SlInv
<1>1. SlInit => SlInv
  BY SlInitInv
<1>2. SlInv /\ [SlNext]_sl_vars => SlInv'
  <2> SUFFICES ASSUME SlInv, [SlNext]_sl_vars PROVE SlInv'
    OBVIOUS
  <2>1. CASE SlNext
    BY <2>1, SlStep
  <2>2. CASE UNCHANGED sl_vars
    BY <2>2 DEF sl_vars, SlInv, Visited
  <2> QED
    BY <2>1, <2>2
<1> QED
  BY <1>1, <1>2, PTL DEF SlSpec

(* s_list.h: after any calls slist_foreach meets every inserted element    *)
(* once and in order and no removed one, whatever stale next pointers the  *)
(* removed elements keep.                                                  *)
THEOREM SlListsThem == SlSpec => []SlListsMembers
<1>1. SlInv => SlListsMembers
  <2> SUFFICES ASSUME SlInv PROVE SlListsMembers
    OBVIOUS
  <2>1. /\ Visited \in Seq(Elts) /\ Len(Visited) \in Nat /\ DOMAIN Visited = 1 .. Len(Visited)
        /\ \A k \in 1 .. Len(Visited) : Visited[k] \in Elts /\ Visited[k] \in sl_in
        /\ \A e \in sl_in : \E k \in 1 .. Len(Visited) : Visited[k] = e
        /\ \A a, b \in 1 .. Len(Visited) : Visited[a] = Visited[b] => a = b
        /\ SlSorted(Visited)
    BY SlVisited
  <2> PICK v : v = Visited
    OBVIOUS
  <2>2. v \in [1 .. Len(v) -> sl_in]
    BY <2>1
  <2>3. v \in Bijection(1 .. Len(v), sl_in)
    BY <2>1, <2>2 DEF Bijection, Injection, Surjection, IsInjective
  <2>4. IsFiniteSet(1 .. Len(v)) /\ Cardinality(1 .. Len(v)) = Len(v)
    <3>1. /\ 1 \in Int /\ Len(v) \in Int
          /\ 1 > Len(v) => Len(v) = 0
          /\ Len(v) - 1 + 1 = Len(v)
      BY <2>1
    <3> QED
      BY <3>1, FS_Interval
  <2>5. Cardinality(sl_in) = Len(Visited)
    BY <2>3, <2>4, FS_Bijection DEF ExistsBijection
  <2>6. {Visited[n] : n \in DOMAIN Visited} = sl_in
    BY <2>1
  <2>7. ASSUME NEW a \in sl_in, NEW b \in sl_in, Precedes(a, b)
        PROVE  EltKey[a] <= EltKey[b]
    BY <2>1, <2>7 DEF Precedes, SlSorted
  <2> QED
    BY <2>5, <2>6, <2>7 DEF SlListsMembers
<1> QED
  BY <1>1, SlInvariant, PTL

(* s_list.h: a call moves no element, and puts a new one in front of those *)
(* that compare equal to it.                                               *)
THEOREM SlOthersStayThere == SlSpec => SlOthersStay
<1> DEFINE Stay == \A a, b \in sl_in' :
              /\ a \in sl_in /\ b \in sl_in => (Precedes(a, b) => Precedes(a, b)')
              /\ a \notin sl_in /\ b \in sl_in /\ EltKey[a] = EltKey[b] => Precedes(a, b)'
<1>1. ASSUME SlInv, SlInv', [SlNext]_sl_vars PROVE Stay
  <2>1. /\ Visited \in Seq(Elts) /\ Len(Visited) \in Nat /\ DOMAIN Visited = 1 .. Len(Visited)
        /\ \A k \in 1 .. Len(Visited) : Visited[k] \in Elts /\ Visited[k] \in sl_in
        /\ \A e \in sl_in : \E k \in 1 .. Len(Visited) : Visited[k] = e
        /\ \A a, b \in 1 .. Len(Visited) : Visited[a] = Visited[b] => a = b
        /\ SlSorted(Visited)
    BY <1>1, SlVisited
  <2> PICK v : v = Visited'
    OBVIOUS
  <2>2. CASE v = Visited /\ sl_in' = sl_in
    BY <2>2 DEF Precedes
  <2>3. ASSUME NEW link \in Elts, NEW i \in 1 .. Len(Visited) + 1, SlInserts(link, i)
        PROVE  Stay
    <3>0. Inserted(v, Elts, Visited, i, link)
      <4>1. v = InsertAt(Visited, i, link)
        BY <2>3 DEF SlInserts
      <4> QED
        BY ONLY <4>1, <2>1, InsertAtShape, Zenon
    <3>1. /\ Len(v) = Len(Visited) + 1 /\ DOMAIN v = 1 .. Len(Visited) + 1
          /\ \A k \in 1 .. Len(Visited) + 1 :
                v[k] = IF k < i THEN Visited[k] ELSE IF k = i THEN link ELSE Visited[k - 1]
          /\ v[i] = link
      BY <3>0 DEF Inserted
    <3>2. /\ sl_in' = sl_in \cup {link} /\ link \notin sl_in
          /\ \A k \in 1 .. Len(Visited) : k < i => EltKey[Visited[k]] < EltKey[link]
      BY <2>3 DEF SlInserts
    <3> DEFINE up(k) == IF k < i THEN k ELSE k + 1
    <3>3. \A k \in 1 .. Len(Visited) : up(k) \in DOMAIN v /\ v[up(k)] = Visited[k]
      <4> TAKE k \in 1 .. Len(Visited)
      <4>1. CASE k < i
        <5>1. k \in 1 .. Len(Visited) + 1
          BY <2>1
        <5> QED
          BY <4>1, <5>1, <3>1
      <4>2. CASE ~ (k < i)
        <5>1. k + 1 \in 1 .. Len(Visited) + 1 /\ ~ (k + 1 < i) /\ k + 1 # i /\ k + 1 - 1 = k
          BY <4>2, <2>1
        <5> QED
          BY <4>2, <5>1, <3>1
      <4> QED
        BY <4>1, <4>2
    <3>4. \A m, n \in 1 .. Len(Visited) : m < n => up(m) < up(n)
      BY <2>1
    <3>5. ASSUME NEW a \in sl_in, NEW b \in sl_in, Precedes(a, b)
          PROVE  Precedes(a, b)'
      <4>1. PICK m, n \in 1 .. Len(Visited) : m < n /\ Visited[m] = a /\ Visited[n] = b
        BY <3>5, <2>1 DEF Precedes
      <4>2. up(m) \in DOMAIN v /\ up(n) \in DOMAIN v /\ up(m) < up(n) /\ v[up(m)] = a /\ v[up(n)] = b
        BY <4>1, <3>3, <3>4
      <4> HIDE DEF up
      <4> QED
        BY <4>2 DEF Precedes
    <3>6. ASSUME NEW b \in sl_in, EltKey[link] = EltKey[b]
          PROVE  Precedes(link, b)'
      <4>1. PICK n \in 1 .. Len(Visited) : Visited[n] = b
        BY <2>1
      <4>2. ~ (n < i)
        <5> SUFFICES ASSUME n < i PROVE FALSE
          OBVIOUS
        <5>1. EltKey[b] < EltKey[link] /\ EltKey[b] \in Int
          BY <3>2, <4>1, <2>1, EltsAssumption
        <5> QED
          BY <5>1, <3>6
      <4>3. i \in DOMAIN v /\ i < up(n) /\ up(n) \in DOMAIN v /\ v[i] = link /\ v[up(n)] = b
        BY <4>1, <4>2, <3>1, <3>3, <2>1
      <4> HIDE DEF up
      <4> QED
        BY <4>3 DEF Precedes
    <3>7. \A a \in sl_in' : a \notin sl_in => a = link
      BY <3>2
    <3> QED
      BY <3>5, <3>6, <3>7
  <2>4. ASSUME NEW i \in 1 .. Len(Visited), SlRemoves(i)
        PROVE  Stay
    <3>0. Removed(v, Elts, Visited, i)
      <4>1. v = RemoveAt(Visited, i)
        BY <2>4 DEF SlRemoves
      <4> QED
        BY ONLY <4>1, <2>1, RemoveAtShape, Zenon
    <3>1. /\ Len(v) = Len(Visited) - 1 /\ DOMAIN v = 1 .. Len(Visited) - 1
          /\ \A k \in 1 .. Len(Visited) - 1 : v[k] = IF k < i THEN Visited[k] ELSE Visited[k + 1]
      BY <3>0 DEF Removed
    <3>2. sl_in' = sl_in \ {Visited[i]}
      BY <2>4 DEF SlRemoves
    <3> DEFINE down(k) == IF k < i THEN k ELSE k - 1
    <3>3. \A k \in 1 .. Len(Visited) : k # i => down(k) \in DOMAIN v /\ v[down(k)] = Visited[k]
      <4> TAKE k \in 1 .. Len(Visited)
      <4> HAVE k # i
      <4>1. CASE k < i
        <5>1. k \in 1 .. Len(Visited) - 1
          BY <4>1, <2>1
        <5> QED
          BY <4>1, <5>1, <3>1
      <4>2. CASE ~ (k < i)
        <5>1. k - 1 \in 1 .. Len(Visited) - 1 /\ ~ (k - 1 < i) /\ k - 1 + 1 = k
          BY <4>2, <2>1
        <5> QED
          BY <4>2, <5>1, <3>1
      <4> QED
        BY <4>1, <4>2
    <3>4. \A m, n \in 1 .. Len(Visited) : m < n /\ m # i /\ n # i => down(m) < down(n)
      BY <2>1
    <3>5. ASSUME NEW a \in sl_in', NEW b \in sl_in', Precedes(a, b)
          PROVE  Precedes(a, b)'
      <4>1. PICK m, n \in 1 .. Len(Visited) : m < n /\ Visited[m] = a /\ Visited[n] = b
        BY <3>5, <2>1 DEF Precedes
      <4>2. m # i /\ n # i
        BY <4>1, <3>2
      <4>3. /\ down(m) \in DOMAIN v /\ down(n) \in DOMAIN v /\ down(m) < down(n)
            /\ v[down(m)] = a /\ v[down(n)] = b
        BY <4>1, <4>2, <3>3, <3>4
      <4> HIDE DEF down
      <4> QED
        BY <4>3 DEF Precedes
    <3> QED
      BY <3>5, <3>2
  <2>5. CASE SlNext
    BY <1>1, <2>2, <2>3, <2>4, <2>5, SlStep
  <2>6. CASE UNCHANGED sl_vars
    <3>1. v = Visited /\ sl_in' = sl_in
      BY <2>6 DEF sl_vars, Visited
    <3> QED
      BY <2>2, <3>1
  <2> QED
    BY <1>1, <2>5, <2>6
<1>2. SlInv /\ SlInv' /\ [SlNext]_sl_vars => [Stay]_sl_vars
  BY <1>1
<1>3. SlSpec => [][Stay]_sl_vars
  <2> HIDE DEF Stay
  <2> QED
    BY <1>2, SlInvariant, PTL DEF SlSpec
<1> QED
  BY <1>3 DEF SlOthersStay

----------------------------------------------------------------------------
(* Trees.  Along a walk on which a rank rises no node comes twice.         *)
LEMMA RankInjective ==
    ASSUME NEW D, NEW s \in Seq(D), NEW rank \in [D -> Nat],
           \A k \in 1 .. Len(s) - 1 : rank[s[k]] < rank[s[k + 1]]
    PROVE  IsInjective(s)
<1>0. Len(s) \in Nat /\ DOMAIN s = 1 .. Len(s) /\ \A k \in 1 .. Len(s) : rank[s[k]] \in Nat
  OBVIOUS
<1>1. \A a, b \in 1 .. Len(s) : a < b => rank[s[a]] < rank[s[b]]
  <2> SUFFICES ASSUME NEW a \in 1 .. Len(s) PROVE \A b \in 1 .. Len(s) : a < b => rank[s[a]] < rank[s[b]]
    OBVIOUS
  <2> DEFINE Bad == {b \in Nat : b \in 1 .. Len(s) /\ a < b /\ ~ (rank[s[a]] < rank[s[b]])}
  <2>1. Bad = {}
    <3> SUFFICES ASSUME Bad # {} PROVE FALSE
      OBVIOUS
    <3>1. PICK m \in Bad : \A n \in Bad : m <= n
      BY NatMin
    <3>2. m - 1 \in 1 .. Len(s) - 1 /\ m - 1 \in Nat /\ m - 1 < m /\ m - 1 + 1 = m /\ m - 1 \in 1 .. Len(s)
      BY <3>1, <1>0
    <3>3. rank[s[m - 1]] < rank[s[m]]
      BY <3>2
    <3>4. a = m - 1 \/ rank[s[a]] < rank[s[m - 1]]
      BY <3>1, <3>2, <1>0
    <3>5. rank[s[a]] < rank[s[m]]
      BY <3>1, <3>2, <3>3, <3>4, <1>0
    <3> QED
      BY <3>1, <3>5
  <2>2. \A b \in 1 .. Len(s) : b \in Nat /\ b \notin Bad
    BY <2>1, <1>0
  <2> QED
    BY <2>2
<1>2. ASSUME NEW a \in 1 .. Len(s), NEW b \in 1 .. Len(s), s[a] = s[b]
      PROVE  a = b
  <2>1. ~ (a < b) /\ ~ (b < a)
    BY <1>0, <1>1, <1>2
  <2> QED
    BY <2>1
<1> QED
  BY <1>0, <1>2 DEF IsInjective

Ranked(p, rank) ==
    /\ rank \in [Nodes -> Nat]
    /\ \A n \in Nodes : p[n] # Null => rank[n] < rank[p[n]]

(* The nodes above f: what MayLink looks for the new child in.             *)
Above(p, f) == {f} \cup ToSet(Walk(p[f], p, Null))

LEMMA AboveClosed ==
    ASSUME NEW p \in Pointers(Nodes, Null), NEW rank, Ranked(p, rank), NEW f \in Nodes,
           NEW a \in Above(p, f), p[a] # Null
    PROVE  a \in Nodes /\ p[a] \in Above(p, f)
<1> USE NodesAssumption
<1>0. PICK s : s = Walk(p[f], p, Null)
  OBVIOUS
<1>1. p[f] \in Nodes \cup {Null} /\ p \in [Nodes -> Nodes \cup {Null}]
  BY DEF Pointers
<1>2. /\ Linked(s, Nodes, p[f], p, Null)
      /\ Len(s) <= Cardinality(Nodes) /\ s # <<>> => p[s[Len(s)]] = Null
  BY <1>0, <1>1, WalkLinked
<1>3. /\ s \in Seq(Nodes) /\ Len(s) \in Nat /\ DOMAIN s = 1 .. Len(s)
      /\ s = <<>> <=> p[f] = Null
      /\ s # <<>> => s[1] = p[f]
      /\ \A k \in 1 .. Len(s) - 1 : s[k + 1] = p[s[k]]
  BY <1>2 DEF Linked
<1>4. Len(s) <= Cardinality(Nodes)
  <2>1. \A k \in 1 .. Len(s) - 1 : rank[s[k]] < rank[s[k + 1]]
    <3> TAKE k \in 1 .. Len(s) - 1
    <3>1. s[k] \in Nodes /\ s[k + 1] \in Nodes /\ s[k + 1] = p[s[k]]
      BY <1>3
    <3> QED
      BY <3>1 DEF Ranked
  <2> QED
    BY <2>1, <1>3, RankInjective, InjectiveLen DEF Ranked
<1>5. Above(p, f) = {f} \cup {s[k] : k \in 1 .. Len(s)}
  BY <1>0, <1>3 DEF Above, ToSet
<1>6. CASE a = f
  <2>1. s # <<>> /\ s[1] = p[f] /\ 1 \in 1 .. Len(s)
    BY <1>3, <1>6
  <2> QED
    BY <2>1, <1>5, <1>6
<1>7. CASE a # f
  <2>1. PICK k \in 1 .. Len(s) : a = s[k]
    BY <1>5, <1>7
  <2>2. s # <<>>
    BY <2>1, <1>3
  <2>3. k # Len(s)
    BY <2>1, <2>2, <1>2, <1>4
  <2>4. k \in 1 .. Len(s) - 1 /\ k + 1 \in 1 .. Len(s)
    <3>1. Len(s) \in Nat /\ k \in 1 .. Len(s)
      BY <1>3
    <3> QED
      BY ONLY <3>1, <2>3
  <2>5. s[k + 1] = p[a] /\ a \in Nodes
    BY <2>1, <2>4, <1>3
  <2> QED
    BY <2>4, <2>5, <1>5
<1> QED
  BY <1>6, <1>7

(* Linked under a node that is not below it, a node makes no circle.       *)
LEMMA LinkRanked ==
    ASSUME NEW p \in Pointers(Nodes, Null), NEW r, Ranked(p, r), NEW f \in Nodes,
           NEW c \in Nodes, c \notin Above(p, f)
    PROVE  \E q : Ranked([p EXCEPT ![c] = f], q)
<1> PICK A : A = Above(p, f)
  OBVIOUS
<1>0. p \in [Nodes -> Nodes \cup {Null}] /\ r \in [Nodes -> Nat] /\ f \in A
  BY DEF Pointers, Ranked, Above
<1>1. \A n \in Nodes : n \in A /\ p[n] # Null => p[n] \in A
  BY AboveClosed
<1>2. \A n \in Nodes : p[n] # Null => r[n] < r[p[n]]
  BY DEF Ranked
<1> DEFINE q == [n \in Nodes |-> IF n \in A THEN r[n] + r[c] + 1 ELSE r[n]]
<1>3. q \in [Nodes -> Nat]
  BY <1>0
<1>4. ASSUME NEW n \in Nodes, [p EXCEPT ![c] = f][n] # Null
      PROVE  q[n] < q[[p EXCEPT ![c] = f][n]]
  <2>1. CASE n = c
    <3>1. [p EXCEPT ![c] = f][n] = f /\ r[f] \in Nat /\ r[c] \in Nat
      BY <2>1, <1>0
    <3> QED
      BY <3>1, <2>1, <1>0
  <2>2. CASE n # c
    <3>1. [p EXCEPT ![c] = f][n] = p[n] /\ p[n] \in Nodes
      BY <2>2, <1>0, <1>4
    <3>2. r[n] < r[p[n]] /\ r[n] \in Nat /\ r[p[n]] \in Nat /\ r[c] \in Nat
      BY <3>1, <1>0, <1>2, <1>4
    <3>3. CASE n \in A
      <4>1. p[n] \in A
        BY <3>1, <3>3, <1>1, <1>4
      <4> QED
        BY <4>1, <3>1, <3>2, <3>3
    <3>4. CASE n \notin A
      BY <3>1, <3>2, <3>4
    <3> QED
      BY <3>3, <3>4
  <2> QED
    BY <2>1, <2>2
<1> HIDE DEF q
<1> QED
  BY <1>3, <1>4 DEF Ranked

----------------------------------------------------------------------------
(* A node that has an owner climbs to it, no node is under itself, and     *)
(* until a list is tainted the children of every node are a path of the   *)
(* nodes put under it.                                                     *)
KidsOf(f, s) ==
    /\ Path(s, Nodes, child[f], next, Null)
    /\ ToSet(s) = {n \in Nodes : owner[n] = f}

NtInv ==
    /\ NtTypeOK
    /\ \A n \in Nodes : owner[n] # Null => parent[n] = owner[n]
    /\ \E rank : Ranked(owner, rank)
    /\ ~ tainted => \A f \in Nodes : KidsOf(f, ntree_foreach_child(f))

LEMMA PtrPointers == Pointers(Nodes, Null) = [Nodes -> Ptr]
BY DEF Pointers, Ptr

LEMMA NtTypes ==
    ASSUME NtTypeOK
    PROVE  /\ next \in Pointers(Nodes, Null) /\ child \in Pointers(Nodes, Null)
           /\ parent \in Pointers(Nodes, Null) /\ owner \in Pointers(Nodes, Null)
           /\ \A f \in Nodes : child[f] \in Nodes \cup {Null} /\ owner[f] \in Nodes \cup {Null}
BY PtrPointers DEF NtTypeOK, Ptr

LEMMA KidsShape ==
    ASSUME NEW f \in Nodes, NEW s, KidsOf(f, s)
    PROVE  /\ s \in Seq(Nodes) /\ Len(s) \in Nat /\ DOMAIN s = 1 .. Len(s)
           /\ \A k \in 1 .. Len(s) : s[k] \in Nodes /\ owner[s[k]] = f
           /\ \A n \in Nodes : owner[n] = f => \E k \in 1 .. Len(s) : s[k] = n
           /\ \A a, b \in 1 .. Len(s) : s[a] = s[b] => a = b
           /\ s = <<>> <=> child[f] = Null
           /\ s # <<>> => s[1] = child[f]
<1>1. s \in Seq(Nodes) /\ Len(s) \in Nat /\ DOMAIN s = 1 .. Len(s)
  BY DEF KidsOf, Path, Linked
<1>2. \A k \in 1 .. Len(s) : s[k] \in {n \in Nodes : owner[n] = f}
  BY <1>1 DEF KidsOf, ToSet
<1>3. \A n \in Nodes : owner[n] = f => \E k \in 1 .. Len(s) : s[k] = n
  BY <1>1 DEF KidsOf, ToSet
<1>4. \A a, b \in 1 .. Len(s) : s[a] = s[b] => a = b
  BY <1>1 DEF KidsOf, Path, IsInjective
<1>5. (s = <<>> <=> child[f] = Null) /\ (s # <<>> => s[1] = child[f])
  BY DEF KidsOf, Path, Linked
<1> QED
  BY <1>1, <1>2, <1>3, <1>4, <1>5

(* A path is what the walk of next visits after a step, too.              *)
LEMMA KidsVisitedNext ==
    ASSUME NtTypeOK', NEW f \in Nodes, NEW s, KidsOf(f, s)'
    PROVE  ntree_foreach_child(f)' = s
<1>1. next' \in Pointers(Nodes, Null) /\ child'[f] \in Nodes \cup {Null}
  BY PtrPointers DEF NtTypeOK, Ptr
<1>2. Path(s, Nodes, child'[f], next', Null) /\ IsFiniteSet(Nodes) /\ Null \notin Nodes
  BY NodesAssumption DEF KidsOf
<1>3. Walk(child'[f], next', Null) = s
  BY ONLY <1>1, <1>2, PathIsWalk
<1> QED
  BY <1>3 DEF ntree_foreach_child

(* What a macro does to the children of all nodes: it leaves them, links c *)
(* under f in front of the i-th, or unlinks the i-th of f.                 *)
Same == \A g \in Nodes : ntree_foreach_child(g)' = ntree_foreach_child(g)
LinksChild(f, c, i) ==
    /\ ~ tainted /\ i \in 1 .. Len(ntree_foreach_child(f)) + 1
    /\ owner[c] = Null /\ c # f
    /\ \A g \in Nodes : ntree_foreach_child(g)' =
          IF g = f THEN InsertAt(ntree_foreach_child(f), i, c) ELSE ntree_foreach_child(g)
UnlinksChild(f, i) ==
    /\ ~ tainted /\ i \in 1 .. Len(ntree_foreach_child(f))
    /\ \A g \in Nodes : ntree_foreach_child(g)' =
          IF g = f THEN RemoveAt(ntree_foreach_child(f), i) ELSE ntree_foreach_child(g)

(* The pointers and owners of a link.                                      *)
LEMMA LinkForest ==
    ASSUME NtInv, NEW f \in Nodes, NEW c \in Nodes, MayLink(f, c),
           parent' = [parent EXCEPT ![c] = f], owner' = [owner EXCEPT ![c] = f]
    PROVE  /\ parent' \in [Nodes -> Ptr] /\ owner' \in [Nodes -> Ptr]
           /\ \A n \in Nodes : owner'[n] # Null => parent'[n] = owner'[n]
           /\ \E rank : Ranked(owner', rank)
           /\ owner[c] = Null /\ c # f
<1>1. parent \in [Nodes -> Ptr] /\ owner \in [Nodes -> Ptr] /\ f \in Ptr
  BY DEF NtInv, NtTypeOK, Ptr
<1>2. \A n \in Nodes : owner[n] # Null => parent[n] = owner[n]
  BY DEF NtInv
<1>3. PICK r : Ranked(owner, r)
  BY DEF NtInv
<1>4. owner[c] = Null /\ c # f /\ c \notin Above(owner, f)
  BY DEF MayLink, Above
<1>5. owner \in Pointers(Nodes, Null)
  BY <1>1, PtrPointers
<1>6. \E rank : Ranked([owner EXCEPT ![c] = f], rank)
  BY <1>3, <1>4, <1>5, LinkRanked, Zenon
<1>7. \E rank : Ranked(owner', rank)
  BY <1>6
<1> QED
  BY <1>1, <1>2, <1>4, <1>7

(* A link in front of the i-th child of f.                                 *)
LEMMA LinkKeeps ==
    ASSUME NtInv, ~ tainted, NEW f \in Nodes, NEW c \in Nodes, MayLink(f, c),
           NEW s, s = ntree_foreach_child(f), NEW i \in 1 .. Len(s) + 1,
           parent' = [parent EXCEPT ![c] = f], owner' = [owner EXCEPT ![c] = f],
           tainted' = tainted,
           next' \in [Nodes -> Ptr],
           child' = IF i = 1 THEN [child EXCEPT ![f] = c] ELSE child,
           next'[c] = IF i = 1 THEN child[f] ELSE next[s[i - 1]],
           i # 1 => next'[s[i - 1]] = c,
           \A n \in Nodes : n # c /\ (i # 1 => n # s[i - 1]) => next'[n] = next[n]
    PROVE  NtInv' /\ LinksChild(f, c, i)
<1>0. /\ parent' \in [Nodes -> Ptr] /\ owner' \in [Nodes -> Ptr]
      /\ \A n \in Nodes : owner'[n] # Null => parent'[n] = owner'[n]
      /\ \E rank : Ranked(owner', rank)
      /\ owner[c] = Null /\ c # f
  BY LinkForest, Zenon
<1>1. \A g \in Nodes : KidsOf(g, ntree_foreach_child(g))
  BY DEF NtInv
<1>2. /\ next \in [Nodes -> Ptr] /\ child \in [Nodes -> Ptr] /\ owner \in [Nodes -> Ptr]
      /\ f \in Ptr /\ c \in Ptr /\ tainted \in BOOLEAN
  BY DEF NtInv, NtTypeOK, Ptr
<1>3. NtTypeOK'
  BY <1>0, <1>2 DEF NtTypeOK
<1>4. /\ s \in Seq(Nodes) /\ Len(s) \in Nat /\ DOMAIN s = 1 .. Len(s)
      /\ \A k \in 1 .. Len(s) : s[k] \in Nodes /\ owner[s[k]] = f
      /\ \A a, b \in 1 .. Len(s) : s[a] = s[b] => a = b
  BY <1>1, KidsShape
<1>5. KidsOf(f, InsertAt(s, i, c))'
  <2>1. \A k \in 1 .. Len(s) : s[k] # c
    BY <1>0, <1>4, NodesAssumption
  <2>2. c \notin ToSet(s)
    BY <2>1, <1>4 DEF ToSet
  <2>3. \A k \in 1 .. Len(s) : k # i - 1 => next'[s[k]] = next[s[k]]
    <3> SUFFICES ASSUME NEW k \in 1 .. Len(s), k # i - 1 PROVE next'[s[k]] = next[s[k]]
      OBVIOUS
    <3>1. i # 1 => i - 1 \in 1 .. Len(s)
      BY <1>4
    <3>2. i # 1 => s[k] # s[i - 1]
      BY <3>1, <1>4
    <3> QED
      BY <3>2, <2>1, <1>4
  <2>4. Path(s, Nodes, child[f], next, Null) /\ ToSet(s) = {n \in Nodes : owner[n] = f}
    BY <1>1 DEF KidsOf
  <2>5. child[f] \in Nodes \cup {Null} /\ Null \notin Nodes
    BY <1>2, NodesAssumption DEF Ptr
  <2>6. /\ Path(InsertAt(s, i, c), Nodes, IF i = 1 THEN c ELSE child[f], next', Null)
        /\ ToSet(InsertAt(s, i, c)) = ToSet(s) \cup {c}
    <3>1. /\ c \in Nodes /\ i \in 1 .. Len(s) + 1
          /\ next'[c] = IF i = 1 THEN child[f] ELSE next[s[i - 1]]
          /\ i # 1 => next'[s[i - 1]] = c
      OBVIOUS
    <3> QED
      BY ONLY <3>1, <2>2, <2>3, <2>4, <2>5, PathInsert
  <2>7. child'[f] = IF i = 1 THEN c ELSE child[f]
    BY <1>2
  <2>8. {n \in Nodes : owner'[n] = f} = {n \in Nodes : owner[n] = f} \cup {c}
    BY <1>2
  <2> QED
    BY <2>4, <2>6, <2>7, <2>8 DEF KidsOf
<1>6. ASSUME NEW g \in Nodes, g # f
      PROVE  KidsOf(g, ntree_foreach_child(g))' /\ ntree_foreach_child(g)' = ntree_foreach_child(g)
  <2>0. PICK t : t = ntree_foreach_child(g)
    OBVIOUS
  <2>1. KidsOf(g, t)
    BY <1>1, <2>0
  <2>2. /\ t \in Seq(Nodes) /\ DOMAIN t = 1 .. Len(t)
        /\ \A k \in 1 .. Len(t) : t[k] \in Nodes /\ owner[t[k]] = g
    BY <2>1, KidsShape
  <2>3. \A n \in ToSet(t) : next'[n] = next[n]
    <3>1. ASSUME NEW k \in 1 .. Len(t) PROVE next'[t[k]] = next[t[k]]
      <4>1. t[k] \in Nodes /\ t[k] # c
        BY <2>2, <1>0, NodesAssumption
      <4>2. i # 1 => i - 1 \in 1 .. Len(s)
        BY <1>4
      <4>3. i # 1 => t[k] # s[i - 1]
        BY <4>2, <2>2, <1>4, <1>6
      <4> QED
        BY <4>1, <4>3
    <3> QED
      BY <3>1, <2>2 DEF ToSet
  <2>4. Path(t, Nodes, child[g], next', Null)
    BY <2>1, <2>3, PathFrame DEF KidsOf
  <2>5. child'[g] = child[g]
    BY <1>2, <1>6
  <2>6. {n \in Nodes : owner'[n] = g} = {n \in Nodes : owner[n] = g}
    BY <1>0, <1>2, <1>6, NodesAssumption
  <2>7. KidsOf(g, t)'
    BY <2>1, <2>4, <2>5, <2>6 DEF KidsOf
  <2>8. ntree_foreach_child(g)' = t
    BY <2>7, <1>3, KidsVisitedNext
  <2> HIDE DEF KidsOf
  <2> QED
    BY <2>0, <2>7, <2>8
<1>7. ntree_foreach_child(f)' = InsertAt(s, i, c)
  BY <1>3, <1>5, KidsVisitedNext
<1>8. \A g \in Nodes : KidsOf(g, ntree_foreach_child(g))'
  BY <1>5, <1>6, <1>7
<1>9. NtInv'
  BY <1>0, <1>3, <1>8 DEF NtInv
<1>10. LinksChild(f, c, i)
  BY <1>0, <1>6, <1>7 DEF LinksChild
<1> QED
  BY <1>9, <1>10

(* The i-th child of f is unlinked.                                        *)
LEMMA UnlinkKeeps ==
    ASSUME NtInv, ~ tainted, NEW f \in Nodes,
           NEW s, s = ntree_foreach_child(f), NEW i \in 1 .. Len(s),
           UnlinkAt(f, i), owner' = [owner EXCEPT ![s[i]] = Null],
           UNCHANGED <<parent, tainted>>
    PROVE  NtInv' /\ UnlinksChild(f, i)
<1>1. \A g \in Nodes : KidsOf(g, ntree_foreach_child(g))
  BY DEF NtInv
<1>2. /\ next \in [Nodes -> Ptr] /\ child \in [Nodes -> Ptr] /\ owner \in [Nodes -> Ptr]
      /\ parent' = parent /\ parent \in [Nodes -> Ptr]
      /\ tainted \in BOOLEAN /\ tainted' = tainted
  BY DEF NtInv, NtTypeOK
<1>4. /\ s \in Seq(Nodes) /\ Len(s) \in Nat /\ DOMAIN s = 1 .. Len(s)
      /\ \A k \in 1 .. Len(s) : s[k] \in Nodes /\ owner[s[k]] = f
      /\ \A a, b \in 1 .. Len(s) : s[a] = s[b] => a = b
      /\ s # <<>> => s[1] = child[f]
  BY <1>1, KidsShape
<1>5. /\ s[i] \in Nodes /\ owner[s[i]] = f /\ f # Null
      /\ i # 1 => i - 1 \in 1 .. Len(s) /\ s[i - 1] \in Nodes
  BY <1>4, NodesAssumption
<1>6. /\ next' \in [Nodes -> Ptr]
      /\ child' = IF i = 1 THEN [child EXCEPT ![f] = next[s[i]]] ELSE child
      /\ i # 1 => next'[s[i - 1]] = next[s[i]]
      /\ \A n \in Nodes : (i # 1 => n # s[i - 1]) => next'[n] = next[n]
  <2>1. CASE i = 1
    <3>1. child' = [child EXCEPT ![f] = next[s[i]]] /\ next' = next
      BY <2>1 DEF UnlinkAt
    <3> QED
      BY <3>1, <2>1, <1>2
  <2>2. CASE i # 1
    <3>1. next' = [next EXCEPT ![s[i - 1]] = next[s[i]]] /\ child' = child
      BY <2>2 DEF UnlinkAt
    <3>2. next[s[i]] \in Ptr
      BY <1>2, <1>5
    <3> QED
      BY <3>1, <3>2, <2>2, <1>2, <1>5
  <2> QED
    BY <2>1, <2>2
<1>7. NtTypeOK' /\ \A n \in Nodes : owner'[n] # Null => owner'[n] = owner[n] /\ n # s[i]
  <2>1. next[s[i]] \in Ptr /\ Null \in Ptr
    BY <1>2, <1>5 DEF Ptr
  <2>2. child' \in [Nodes -> Ptr]
    BY <2>1, <1>2, <1>6
  <2>3. owner' \in [Nodes -> Ptr]
    BY <2>1, <1>2, <1>5
  <2>4. \A n \in Nodes : owner'[n] # Null => owner'[n] = owner[n] /\ n # s[i]
    BY <1>2, <1>5
  <2>5. NtTypeOK'
    BY <2>2, <2>3, <1>2, <1>6 DEF NtTypeOK
  <2> QED
    BY <2>4, <2>5
<1>8. KidsOf(f, RemoveAt(s, i))'
  <2>3. \A k \in 1 .. Len(s) : k # i - 1 => next'[s[k]] = next[s[k]]
    <3> SUFFICES ASSUME NEW k \in 1 .. Len(s), k # i - 1 PROVE next'[s[k]] = next[s[k]]
      OBVIOUS
    <3>2. i # 1 => s[k] # s[i - 1]
      BY <1>4, <1>5
    <3> QED
      BY <3>2, <1>4, <1>6
  <2>4. Path(s, Nodes, child[f], next, Null) /\ ToSet(s) = {n \in Nodes : owner[n] = f}
    BY <1>1 DEF KidsOf
  <2>5. child[f] \in Nodes \cup {Null} /\ Null \notin Nodes
    BY <1>2, NodesAssumption DEF Ptr
  <2>6. /\ Path(RemoveAt(s, i), Nodes, IF i = 1 THEN next[s[1]] ELSE child[f], next', Null)
        /\ ToSet(RemoveAt(s, i)) = ToSet(s) \ {s[i]}
    <3>1. i \in 1 .. Len(s) /\ (i # 1 => next'[s[i - 1]] = next[s[i]])
      BY <1>6
    <3> QED
      BY ONLY <3>1, <2>3, <2>4, <2>5, PathRemove
  <2>7. child'[f] = IF i = 1 THEN next[s[1]] ELSE child[f]
    BY <1>2, <1>6
  <2>8. {n \in Nodes : owner'[n] = f} = {n \in Nodes : owner[n] = f} \ {s[i]}
    BY <1>2, <1>5
  <2> QED
    BY <2>4, <2>6, <2>7, <2>8 DEF KidsOf
<1>9. ASSUME NEW g \in Nodes, g # f
      PROVE  KidsOf(g, ntree_foreach_child(g))' /\ ntree_foreach_child(g)' = ntree_foreach_child(g)
  <2>0. PICK t : t = ntree_foreach_child(g)
    OBVIOUS
  <2>1. KidsOf(g, t)
    BY <1>1, <2>0
  <2>2. /\ t \in Seq(Nodes) /\ DOMAIN t = 1 .. Len(t)
        /\ \A k \in 1 .. Len(t) : t[k] \in Nodes /\ owner[t[k]] = g
    BY <2>1, KidsShape
  <2>3. \A n \in ToSet(t) : next'[n] = next[n]
    <3>1. ASSUME NEW k \in 1 .. Len(t) PROVE next'[t[k]] = next[t[k]]
      <4>1. t[k] \in Nodes /\ owner[t[k]] = g
        BY <2>2
      <4>3. i # 1 => t[k] # s[i - 1]
        BY <4>1, <1>4, <1>5, <1>9
      <4> QED
        BY <4>1, <4>3, <1>6
    <3> QED
      BY <3>1, <2>2 DEF ToSet
  <2>4. Path(t, Nodes, child[g], next', Null)
    BY <2>1, <2>3, PathFrame DEF KidsOf
  <2>5. child'[g] = child[g]
    BY <1>2, <1>6, <1>9
  <2>6. {n \in Nodes : owner'[n] = g} = {n \in Nodes : owner[n] = g}
    BY <1>2, <1>5, <1>9, NodesAssumption
  <2>7. KidsOf(g, t)'
    BY <2>1, <2>4, <2>5, <2>6 DEF KidsOf
  <2>8. ntree_foreach_child(g)' = t
    BY <2>7, <1>7, KidsVisitedNext
  <2> HIDE DEF KidsOf
  <2> QED
    BY <2>0, <2>7, <2>8
<1>10. ntree_foreach_child(f)' = RemoveAt(s, i)
  BY <1>7, <1>8, KidsVisitedNext
<1>11. \A g \in Nodes : KidsOf(g, ntree_foreach_child(g))'
  BY <1>8, <1>9, <1>10
<1>12. \A n \in Nodes : owner'[n] # Null => parent'[n] = owner'[n]
  BY <1>2, <1>7 DEF NtInv
<1>13. \E rank : Ranked(owner', rank)
  <2>1. PICK r : Ranked(owner, r)
    BY DEF NtInv
  <2>2. Ranked(owner', r)
    BY <2>1, <1>7 DEF Ranked
  <2> QED
    BY <2>2
<1>14. NtInv'
  BY <1>7, <1>11, <1>12, <1>13 DEF NtInv
<1>15. UnlinksChild(f, i)
  BY <1>9, <1>10 DEF UnlinksChild
<1> QED
  BY <1>14, <1>15

(* What linking in front of the i-th child does to next and child.         *)
LEMMA LinkAtPointers ==
    ASSUME NtInv, ~ tainted, NEW f \in Nodes, NEW c \in Nodes, owner[c] = Null,
           NEW s, s = ntree_foreach_child(f), NEW i \in 1 .. Len(s) + 1,
           LinkAt(f, i, c)
    PROVE  /\ next' \in [Nodes -> Ptr]
           /\ child' = IF i = 1 THEN [child EXCEPT ![f] = c] ELSE child
           /\ next'[c] = IF i = 1 THEN child[f] ELSE next[s[i - 1]]
           /\ i # 1 => next'[s[i - 1]] = c
           /\ \A n \in Nodes : n # c /\ (i # 1 => n # s[i - 1]) => next'[n] = next[n]
<1>1. next \in [Nodes -> Ptr] /\ child \in [Nodes -> Ptr] /\ c \in Ptr /\ child[f] \in Ptr
  BY DEF NtInv, NtTypeOK, Ptr
<1>2. /\ Len(s) \in Nat
      /\ \A k \in 1 .. Len(s) : s[k] \in Nodes /\ owner[s[k]] = f
  <2>1. KidsOf(f, s)
    BY DEF NtInv
  <2> QED
    BY <2>1, KidsShape
<1>3. CASE i = 1
  <2>1. next' = [next EXCEPT ![c] = child[f]] /\ child' = [child EXCEPT ![f] = c]
    BY <1>3 DEF LinkAt
  <2> QED
    BY <2>1, <1>1, <1>3
<1>4. CASE i # 1
  <2> PICK pw : pw = s[i - 1]
    OBVIOUS
  <2>0. i - 1 \in 1 .. Len(s)
    BY <1>2, <1>4
  <2>1. pw \in Nodes /\ pw # c
    BY <2>0, <1>2, NodesAssumption
  <2>2. next' = [[next EXCEPT ![c] = next[pw]] EXCEPT ![pw] = c] /\ child' = child
    BY <1>4 DEF LinkAt
  <2>3. next[pw] \in Ptr
    BY <2>1, <1>1
  <2>4. /\ next' \in [Nodes -> Ptr]
        /\ next'[c] = next[pw] /\ next'[pw] = c
        /\ \A n \in Nodes : n # c /\ n # pw => next'[n] = next[n]
    BY <2>1, <2>2, <2>3, <1>1
  <2> QED
    BY <2>2, <2>4, <1>4
<1> QED
  BY <1>3, <1>4

LEMMA PrependStep ==
    ASSUME NtInv, NEW f \in Nodes, NEW c \in Nodes, ntree_prepend_child(f, c)
    PROVE  NtInv' /\ LinksChild(f, c, 1)
<1>1. /\ MayLink(f, c) /\ ~ tainted /\ owner[c] = Null /\ tainted' = tainted
      /\ parent' = [parent EXCEPT ![c] = f] /\ owner' = [owner EXCEPT ![c] = f]
      /\ LinkAt(f, 1, c)
  BY DEF ntree_prepend_child, MayLink
<1>2. PICK s : s = ntree_foreach_child(f)
  OBVIOUS
<1>3. 1 \in 1 .. Len(s) + 1
  <2>1. KidsOf(f, s)
    BY <1>1, <1>2 DEF NtInv
  <2>2. Len(s) \in Nat
    BY <2>1, KidsShape
  <2> QED
    BY <2>2
<1>4. PICK i : i = 1
  OBVIOUS
<1>5. /\ next' \in [Nodes -> Ptr]
      /\ child' = IF i = 1 THEN [child EXCEPT ![f] = c] ELSE child
      /\ next'[c] = IF i = 1 THEN child[f] ELSE next[s[i - 1]]
      /\ i # 1 => next'[s[i - 1]] = c
      /\ \A n \in Nodes : n # c /\ (i # 1 => n # s[i - 1]) => next'[n] = next[n]
  BY <1>1, <1>2, <1>3, <1>4, LinkAtPointers
<1> QED
  BY <1>1, <1>2, <1>3, <1>4, <1>5, LinkKeeps

(* Where ntree_insert_child puts c.                                        *)
Ordered(f, c, i) ==
    LET ks == ntree_foreach_child(f)
    IN  /\ \A j \in 1 .. i - 1 : Key[ks[j]] <= Key[c]
        /\ i <= Len(ks) => Key[ks[i]] > Key[c]

LEMMA InsertStep ==
    ASSUME NtInv, NEW f \in Nodes, NEW c \in Nodes, ntree_insert_child(f, c)
    PROVE  /\ NtInv'
           /\ tainted' \/ \E i \in 1 .. Len(ntree_foreach_child(f)) + 1 :
                              LinksChild(f, c, i) /\ Ordered(f, c, i)
<1>1. /\ MayLink(f, c) /\ ~ tainted /\ owner[c] = Null
      /\ parent' = [parent EXCEPT ![c] = f] /\ owner' = [owner EXCEPT ![c] = f]
  BY DEF ntree_insert_child, MayLink
<1>2. PICK s : s = ntree_foreach_child(f)
  OBVIOUS
<1>3. KidsOf(f, s)
  BY <1>1, <1>2 DEF NtInv
<1>4. /\ s \in Seq(Nodes) /\ Len(s) \in Nat /\ DOMAIN s = 1 .. Len(s)
      /\ \A k \in 1 .. Len(s) : s[k] \in Nodes
      /\ s = <<>> <=> child[f] = Null
  BY <1>3, KidsShape
<1>5. /\ next \in [Nodes -> Ptr] /\ child \in [Nodes -> Ptr] /\ f \in Ptr /\ c \in Ptr
      /\ tainted \in BOOLEAN
  BY DEF NtInv, NtTypeOK, Ptr
<1>6. CASE child[f] = Null
  <2>0. /\ child' = [child EXCEPT ![f] = c] /\ next' = next
        /\ tainted' = (next[c] # Null)
    BY <1>6 DEF ntree_insert_child
  <2>1. CASE next[c] = Null
    <3>1. s = <<>> /\ Len(s) = 0 /\ ~ tainted' /\ tainted' = tainted
      BY <2>0, <2>1, <1>1, <1>4, <1>5, <1>6
    <3>2. PICK i : i = 1
      OBVIOUS
    <3>3. /\ next' \in [Nodes -> Ptr] /\ i \in 1 .. Len(s) + 1
          /\ child' = IF i = 1 THEN [child EXCEPT ![f] = c] ELSE child
          /\ next'[c] = IF i = 1 THEN child[f] ELSE next[s[i - 1]]
          /\ i # 1 => next'[s[i - 1]] = c
          /\ \A n \in Nodes : n # c /\ (i # 1 => n # s[i - 1]) => next'[n] = next[n]
      BY <3>1, <3>2, <2>0, <2>1, <1>5, <1>6
    <3>4. NtInv' /\ LinksChild(f, c, i)
      BY <3>1, <3>3, <1>1, <1>2, LinkKeeps
    <3>5. Ordered(f, c, i)
      BY <3>1, <3>2, <1>2 DEF Ordered
    <3> QED
      BY <3>3, <3>4, <3>5, <1>2
  <2>2. CASE next[c] # Null
    <3>1. /\ parent' \in [Nodes -> Ptr] /\ owner' \in [Nodes -> Ptr]
          /\ \A n \in Nodes : owner'[n] # Null => parent'[n] = owner'[n]
          /\ \E rank : Ranked(owner', rank)
      BY <1>1, LinkForest, Zenon
    <3>2. tainted' = TRUE /\ child' \in [Nodes -> Ptr]
      BY <2>0, <2>2, <1>5
    <3>3. NtTypeOK'
      BY <3>1, <3>2, <2>0, <1>5 DEF NtTypeOK
    <3> QED
      BY <3>1, <3>2, <3>3 DEF NtInv
  <2> QED
    BY <2>1, <2>2
<1>7. CASE child[f] # Null
  <2>0. PICK i : i = Place(f, c)
    OBVIOUS
  <2> DEFINE keep == {walk \in Nodes : Key[walk] <= Key[c]}
  <2>1. i = StopAt(s, Nodes \ keep)
    BY <2>0, <1>2 DEF Place, Stop
  <2>2. /\ i \in 1 .. Len(s) + 1
        /\ \A k \in 1 .. Len(s) : k < i => s[k] \notin Nodes \ keep
        /\ i <= Len(s) => s[i] \in Nodes \ keep
    BY <2>1, <1>4, StopAtShape
  <2>3. LinkAt(f, i, c) /\ tainted' = tainted
    BY <2>0, <1>7 DEF ntree_insert_child
  <2>4. /\ next' \in [Nodes -> Ptr]
        /\ child' = IF i = 1 THEN [child EXCEPT ![f] = c] ELSE child
        /\ next'[c] = IF i = 1 THEN child[f] ELSE next[s[i - 1]]
        /\ i # 1 => next'[s[i - 1]] = c
        /\ \A n \in Nodes : n # c /\ (i # 1 => n # s[i - 1]) => next'[n] = next[n]
    BY <2>2, <2>3, <1>1, <1>2, LinkAtPointers
  <2>5. NtInv' /\ LinksChild(f, c, i)
    <3>1. NtInv /\ i \in 1 .. Len(s) + 1 /\ tainted' = tainted
      BY <2>2, <2>3
    <3> QED
      BY ONLY <3>1, <2>4, <1>1, <1>2, LinkKeeps
  <2>6. Ordered(f, c, i)
    <3>1. \A j \in 1 .. i - 1 : Key[s[j]] <= Key[c]
      <4> TAKE j \in 1 .. i - 1
      <4>1. j \in 1 .. Len(s) /\ j < i
        BY <2>2, <1>4
      <4> QED
        BY <4>1, <2>2, <1>4
    <3>2. i <= Len(s) => Key[s[i]] > Key[c]
      <4> HAVE i <= Len(s)
      <4>1. s[i] \in Nodes /\ ~ (Key[s[i]] <= Key[c])
        BY <2>2
      <4>2. Key[s[i]] \in Int /\ Key[c] \in Int
        BY <4>1, KeyAssumption
      <4> QED
        BY <4>1, <4>2
    <3> QED
      BY <3>1, <3>2, <1>2 DEF Ordered
  <2> QED
    BY <2>2, <2>5, <2>6, <1>2
<1> QED
  BY <1>6, <1>7

LEMMA RemoveStep ==
    ASSUME NtInv, NEW f \in Nodes, NEW keep, ntree_remove_child_if(f, keep)
    PROVE  NtInv' /\ \E i \in 1 .. Len(ntree_foreach_child(f)) : UnlinksChild(f, i)
<1>1. PICK s : s = ntree_foreach_child(f)
  OBVIOUS
<1>2. PICK i : i = Stop(f, keep)
  OBVIOUS
<1>3. /\ ~ tainted /\ i <= Len(s) /\ UnlinkAt(f, i)
      /\ owner' = [owner EXCEPT ![s[i]] = Null] /\ UNCHANGED <<parent, tainted>>
  BY <1>1, <1>2 DEF ntree_remove_child_if
<1>4. KidsOf(f, s)
  BY <1>1, <1>3 DEF NtInv
<1>5. s \in Seq(Nodes) /\ Len(s) \in Nat
  BY <1>4, KidsShape
<1>6. i = StopAt(s, Nodes \ keep)
  BY <1>1, <1>2 DEF Stop
<1>7. i \in 1 .. Len(s) + 1
  BY <1>5, <1>6, StopAtShape
<1>8. i \in 1 .. Len(s)
  BY <1>3, <1>5, <1>7
<1>9. NtInv' /\ UnlinksChild(f, i)
  BY <1>1, <1>3, <1>8, UnlinkKeeps, Zenon
<1> QED
  BY <1>1, <1>8, <1>9

(* Every step keeps the invariant and is one of the steps on lists.        *)
ListStep ==
    \/ Same
    \/ \E f, c \in Nodes : LinksChild(f, c, 1)
    \/ \E f, c \in Nodes : \E i \in 1 .. Len(ntree_foreach_child(f)) + 1 :
           LinksChild(f, c, i) /\ Ordered(f, c, i)
    \/ \E f \in Nodes : \E i \in 1 .. Len(ntree_foreach_child(f)) : UnlinksChild(f, i)

LEMMA NtStep ==
    ASSUME NtInv, [NtNext]_nt_vars
    PROVE  NtInv' /\ (tainted' \/ ListStep)
<1>1. CASE NtNext
  <2>1. PICK f \in Nodes :
           \/ \E c \in Nodes : \/ ntree_prepend_child(f, c)
                               \/ ntree_insert_child(f, c)
                               \/ ntree_remove_child(f, c)
           \/ \E keep \in SUBSET ToSet(ntree_foreach_child(f)) : ntree_remove_child_if(f, keep)
    BY <1>1 DEF NtNext
  <2>2. ASSUME NEW c \in Nodes, ntree_prepend_child(f, c)
        PROVE  NtInv' /\ ListStep
    BY <2>2, PrependStep, Zenon DEF ListStep
  <2>3. ASSUME NEW c \in Nodes, ntree_insert_child(f, c)
        PROVE  NtInv' /\ (tainted' \/ ListStep)
    <3>1. /\ NtInv'
          /\ tainted' \/ \E i \in 1 .. Len(ntree_foreach_child(f)) + 1 :
                             LinksChild(f, c, i) /\ Ordered(f, c, i)
      BY <2>3, InsertStep, Zenon
    <3> QED
      BY <3>1, Zenon DEF ListStep
  <2>4. ASSUME NEW keep, ntree_remove_child_if(f, keep)
        PROVE  NtInv' /\ ListStep
    <3>1. NtInv' /\ \E i \in 1 .. Len(ntree_foreach_child(f)) : UnlinksChild(f, i)
      BY <2>4, RemoveStep, Zenon
    <3> QED
      BY <3>1, Zenon DEF ListStep
  <2>5. ASSUME NEW c \in Nodes, ntree_remove_child(f, c)
        PROVE  NtInv' /\ ListStep
    BY <2>4, <2>5 DEF ntree_remove_child
  <2> QED
    BY <2>1, <2>2, <2>3, <2>4, <2>5
<1>2. CASE UNCHANGED nt_vars
  <2>1. /\ next' = next /\ parent' = parent /\ child' = child
        /\ owner' = owner /\ tainted' = tainted
    BY <1>2 DEF nt_vars, nt_ptrs
  <2>2. \A f \in Nodes : ntree_foreach_child(f)' = ntree_foreach_child(f)
    BY <2>1 DEF ntree_foreach_child
  <2>3. NtInv'
    BY <2>1, <2>2 DEF NtInv, NtTypeOK, KidsOf
  <2> QED
    BY <2>2, <2>3 DEF ListStep, Same
<1> QED
  BY <1>1, <1>2

LEMMA NtInitInv == NtInit => NtInv
<1> SUFFICES ASSUME NtInit PROVE NtInv
  OBVIOUS
<1>1. NtTypeOK
  BY DEF NtInit, NtTypeOK, Ptr
<1>2. \A n \in Nodes : owner[n] = Null /\ child[n] = Null
  BY DEF NtInit
<1>3. Ranked(owner, [n \in Nodes |-> 0])
  BY <1>2 DEF Ranked
<1>4. ASSUME NEW f \in Nodes PROVE KidsOf(f, ntree_foreach_child(f))
  <2>1. Path(<<>>, Nodes, child[f], next, Null)
    BY <1>2 DEF Path, Linked, IsInjective
  <2>2. next \in Pointers(Nodes, Null) /\ child[f] \in Nodes \cup {Null}
    BY <1>1, NtTypes
  <2>3. ntree_foreach_child(f) = <<>>
    BY <2>1, <2>2, NodesAssumption, PathIsWalk DEF ntree_foreach_child
  <2>4. ToSet(<<>>) = {n \in Nodes : owner[n] = f}
    BY <1>2, NodesAssumption DEF ToSet
  <2> QED
    BY <2>1, <2>3, <2>4 DEF KidsOf
<1> QED
  BY <1>1, <1>2, <1>3, <1>4 DEF NtInv

(* n_tree.h: for any nodes and keys, every macro keeps the invariant.      *)
THEOREM NtInvariant == NtSpec => []NtInv
<1>1. NtInv /\ [NtNext]_nt_vars => NtInv'
  BY NtStep, Zenon
<1> QED
  BY <1>1, NtInitInv, PTL DEF NtSpec

(* n_tree.h: each list visits the nodes the client put under its father,   *)
(* each once, and each of them climbs to that father, whatever pointers    *)
(* the removed nodes keep, up to the first tainted list.                   *)
THEOREM PointersAgreeAlways == NtSpec => []PointersAgree
<1>1. NtInv => PointersAgree
  <2> SUFFICES ASSUME NtInv, ~ tainted, NEW f \in Nodes
               PROVE  LET ks == ntree_foreach_child(f)
                      IN  /\ IsInjective(ks)
                          /\ ToSet(ks) = {n \in Nodes : owner[n] = f}
                          /\ \A n \in ToSet(ks) : parent[n] = f
    BY DEF PointersAgree
  <2>1. KidsOf(f, ntree_foreach_child(f))
    BY DEF NtInv
  <2>2. \A n \in Nodes : owner[n] = f => parent[n] = f
    BY NodesAssumption DEF NtInv
  <2> QED
    BY <2>1, <2>2 DEF KidsOf, Path
<1> QED
  BY <1>1, NtInvariant, PTL

(* n_tree.h: ntree_foreach_ancestor runs in a circle only through a node   *)
(* that was removed and still points to its father.                        *)
THEOREM CirclesNeedRemoved == NtSpec => []CirclesPassRemoved
<1>1. NtInv => CirclesPassRemoved
  <2> SUFFICES ASSUME NtInv, NEW n \in Nodes,
                      Len(ntree_foreach_ancestor(n)) > Cardinality(Nodes),
                      \A a \in ToSet(ntree_foreach_ancestor(n)) : ~ (owner[a] = Null /\ parent[a] # Null)
               PROVE  FALSE
    BY DEF CirclesPassRemoved
  <2>0. PICK s : s = Walk(parent[n], parent, Null)
    OBVIOUS
  <2>1. /\ Len(s) > Cardinality(Nodes)
        /\ \A a \in ToSet(s) : ~ (owner[a] = Null /\ parent[a] # Null)
    BY <2>0 DEF ntree_foreach_ancestor
  <2>2. parent \in Pointers(Nodes, Null) /\ parent[n] \in Nodes \cup {Null}
    BY NtTypes, PtrPointers DEF NtInv, NtTypeOK, Ptr
  <2>3. Linked(s, Nodes, parent[n], parent, Null)
    BY <2>0, <2>2, NodesAssumption, WalkLinked
  <2>4. /\ s \in Seq(Nodes) /\ Len(s) \in Nat /\ DOMAIN s = 1 .. Len(s)
        /\ \A k \in 1 .. Len(s) - 1 : s[k + 1] = parent[s[k]]
    BY <2>3 DEF Linked
  <2>5. PICK r : Ranked(owner, r)
    BY DEF NtInv
  <2>6. \A m \in Nodes : owner[m] # Null => parent[m] = owner[m]
    BY DEF NtInv
  <2>7. ASSUME NEW k \in 1 .. Len(s) - 1 PROVE r[s[k]] < r[s[k + 1]]
    <3>1. s[k] \in Nodes /\ s[k + 1] \in Nodes /\ s[k + 1] = parent[s[k]] /\ k \in DOMAIN s
      BY <2>4
    <3>2. s[k] \in ToSet(s) /\ parent[s[k]] # Null
      BY <3>1, NodesAssumption DEF ToSet
    <3>3. owner[s[k]] # Null
      BY <3>2, <2>1
    <3> QED
      BY <3>1, <3>3, <2>5, <2>6 DEF Ranked
  <2>8. IsInjective(s)
    BY <2>4, <2>5, <2>7, RankInjective DEF Ranked
  <2>9. Len(s) <= Cardinality(Nodes) /\ Cardinality(Nodes) \in Nat
    BY <2>4, <2>8, NodesAssumption, InjectiveLen, FS_CardinalityType
  <2> QED
    BY <2>1, <2>4, <2>9
<1> QED
  BY <1>1, NtInvariant, PTL

(* n_tree.h implements the sequences of children of ChildLists: every      *)
(* macro is one of its steps or leaves every list, as long as no list is   *)
(* tainted.                                                                *)
THEOREM TreesImplementLists == NtSpec => ImplementsLists
<1> DEFINE kids == [f \in Nodes |-> ntree_foreach_child(f)]
<1>1. NtInit => Lists!Init
  <2> SUFFICES ASSUME NtInit PROVE kids = [g \in Nodes |-> <<>>]
    BY DEF Lists!Init
  <2>1. NtInv /\ ~ tainted /\ \A g \in Nodes : child[g] = Null
    BY NtInitInv DEF NtInit
  <2>2. \A g \in Nodes : ntree_foreach_child(g) = <<>>
    BY <2>1, KidsShape DEF NtInv
  <2> QED
    BY <2>2
<1>2. ASSUME NtInv, [NtNext]_nt_vars, ~ tainted'
      PROVE  Lists!Next \/ UNCHANGED kids
  <2>0. ListStep
    BY <1>2, NtStep, Zenon
  <2>1. CASE Same
    BY <2>1 DEF Same
  <2>2. ASSUME NEW f \in Nodes, NEW c \in Nodes, NEW i, LinksChild(f, c, i)
        PROVE  Lists!PutAt(f, i, c)
    <3>1. ASSUME NEW g \in Nodes PROVE c \notin ToSet(kids[g])
      <4>1. KidsOf(g, ntree_foreach_child(g))
        BY <1>2, <2>2 DEF NtInv, LinksChild
      <4>2. ToSet(ntree_foreach_child(g)) = {n \in Nodes : owner[n] = g}
        BY <4>1 DEF KidsOf
      <4> QED
        BY <4>2, <2>2, NodesAssumption DEF LinksChild
    <3>2. Lists!Free(c)
      BY <3>1 DEF Lists!Free, Lists!ChildrenOf, Lists!ToSet, ToSet
    <3>3. kids' = [kids EXCEPT ![f] = InsertAt(kids[f], i, c)]
      BY <2>2 DEF LinksChild
    <3> QED
      BY <2>2, <3>2, <3>3 DEF Lists!PutAt, Lists!InsertAt, InsertAt, LinksChild
  <2>3. ASSUME NEW f \in Nodes, NEW c \in Nodes, LinksChild(f, c, 1)
        PROVE  Lists!Next
    <3>1. Lists!PrependChild(f, c)
      BY <2>2, <2>3 DEF Lists!PrependChild
    <3> QED
      BY <3>1 DEF Lists!Next
  <2>4. ASSUME NEW f \in Nodes, NEW c \in Nodes, NEW i \in 1 .. Len(ntree_foreach_child(f)) + 1,
               LinksChild(f, c, i), Ordered(f, c, i)
        PROVE  Lists!Next
    <3>1. Lists!PutAt(f, i, c)
      BY <2>2, <2>4
    <3>2. kids[f] = ntree_foreach_child(f)
      OBVIOUS
    <3>3. /\ i \in 1 .. Len(kids[f]) + 1
          /\ \A j \in 1 .. i - 1 : Key[kids[f][j]] <= Key[c]
          /\ i <= Len(kids[f]) => Key[kids[f][i]] > Key[c]
      BY <3>2, <2>4 DEF Ordered
    <3>4. Lists!InsertChild(f, c)
      <4> HIDE DEF kids
      <4> QED
        BY <3>1, <3>3 DEF Lists!InsertChild, kids
    <3> QED
      BY <3>4 DEF Lists!Next
  <2>5. ASSUME NEW f \in Nodes, NEW i \in 1 .. Len(ntree_foreach_child(f)), UnlinksChild(f, i)
        PROVE  Lists!Next
    <3>1. KidsOf(f, ntree_foreach_child(f))
      BY <1>2, <2>5 DEF NtInv, UnlinksChild
    <3>2. PICK c \in Nodes : c = ntree_foreach_child(f)[i]
      BY <3>1, KidsShape
    <3>3. kids' = [kids EXCEPT ![f] = RemoveAt(kids[f], i)]
      BY <2>5 DEF UnlinksChild
    <3>4. i \in 1 .. Len(kids[f]) /\ kids[f][i] = c
      BY <3>2
    <3>5. Lists!RemoveChild(f, c)
      BY <3>3, <3>4 DEF Lists!RemoveChild, Lists!RemoveAt, RemoveAt
    <3> QED
      BY <3>5 DEF Lists!Next
  <2> QED
    BY <2>0, <2>1, <2>3, <2>4, <2>5 DEF ListStep
<1>3. NtInv /\ [NtNext]_nt_vars =>
        [~ tainted' => (Lists!Next \/ UNCHANGED [f \in Nodes |-> ntree_foreach_child(f)])]_nt_vars
  BY <1>2
<1> QED
  BY <1>1, <1>3, NtInvariant, PTL DEF NtSpec, ImplementsLists

----------------------------------------------------------------------------
(* The libraries of one program share no state.                            *)
LEMMA LibrariesImplementParts == LibrariesSpec => Spec /\ LkSpec /\ NtSpec /\ SlSpec
<1>1. LibrariesInit => Init /\ LkInit /\ NtInit /\ SlInit
  BY DEF LibrariesInit
<1>2. [LibrariesNext]_libraries_vars =>
         [Next]_vars /\ [LkNext]_lk_vars /\ [NtNext]_nt_vars /\ [SlNext]_sl_vars
  BY DEF LibrariesNext, libraries_vars
<1> QED
  BY <1>1, <1>2, PTL DEF LibrariesSpec, Spec, LkSpec, NtSpec, SlSpec

(* heap_pool, heap_looker and the trees keep to their types and ranges,    *)
(* in any program that links them.                                         *)
THEOREM LibrariesTypes == LibrariesSpec => []LibrariesTypeOK
<1>1. LkInv => LkTypeOK
  BY DEF LkInv
<1>2. NtInv => NtTypeOK
  BY DEF NtInv
<1>3. LibrariesTypeOK <=> TypeOK /\ LkTypeOK /\ NtTypeOK
  BY DEF LibrariesTypeOK
<1> QED
  BY <1>1, <1>2, <1>3, LibrariesImplementParts, TypeCorrect, LkInvariant, NtInvariant, PTL
=============================================================================
