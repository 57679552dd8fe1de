-------------------------- MODULE StatsRelay_proofs --------------------------
(***************************************************************************)
(* What is counted and what is passed on.  Nothing is lost from the        *)
(* statistics of StatsStore and nothing is added twice, for any number of  *)
(* clients, addresses and names and any amount that is earned.  The uses   *)
(* of a buffer of Relay are the packets that point into it, and what       *)
(* players say reaches all the others once and in time, for any number of  *)
(* clients and bots and any size of packets.                               *)
(***************************************************************************)
EXTENDS StatsStore, Relay, FiniteSetTheorems, SequenceTheorems, WellFoundedInduction, TLAPS

-----------------------------------------------------------------------------
(***************************************************************************)
(* Sums over finite sets.  The library's fold is a recursive function on   *)
(* the subsets of the set; that it exists, and what it does whatever the   *)
(* order it adds in, follows by induction on the size of the sets.         *)
(***************************************************************************)
\* A set of naturals that is not empty has a least element.
LEMMA LeastNat == ASSUME NEW T \in SUBSET Nat, T # {} PROVE \E m \in T : \A n \in T : m <= n
<1> DEFINE R == OpToRel(<, Nat)
<1>1. IsWellFoundedOn(R, Nat)
  BY NatLessThanWellFounded
<1>2. \A x, y \in Nat : x < y => <<x, y>> \in R
  BY DEF OpToRel
<1> HIDE DEF R
<1>3. PICK m \in T : \A n \in T : ~ (<<n, m>> \in R)
  BY <1>1, WFMin
<1>4. ASSUME NEW n \in T PROVE m <= n
  <2>1. m \in Nat /\ n \in Nat /\ ~ (n < m)
    BY <1>2, <1>3
  <2> QED
    BY <2>1
<1> QED
  BY <1>4

\* P has every subset of K whose own proper subsets it has.
Inherits(P, K) == \A s \in SUBSET K : (\A t \in SUBSET s : t # s => t \in P) => s \in P

\* What holds of a set when it holds of all smaller ones holds of all sets.
LEMMA SetInduction ==
  ASSUME NEW K, IsFiniteSet(K), NEW P, Inherits(P, K)
  PROVE  SUBSET K \subseteq P
<1> SUFFICES ASSUME ~ (SUBSET K \subseteq P) PROVE FALSE
  OBVIOUS
<1> DEFINE T == {Cardinality(s) : s \in (SUBSET K) \ P}
<1>1. \A s \in SUBSET K : IsFiniteSet(s) /\ Cardinality(s) \in Nat
  BY FS_Subset, FS_CardinalityType
<1>2. T \in SUBSET Nat /\ T # {}
  BY <1>1
<1>3. PICK m \in T : \A n \in T : m <= n
  BY <1>2, LeastNat
<1>4. PICK s \in (SUBSET K) \ P : m = Cardinality(s)
  BY <1>3
<1>5. ASSUME NEW t \in SUBSET s, t # s PROVE t \in P
  <2>1. Cardinality(t) < m /\ t \in SUBSET K
    BY <1>1, <1>4, <1>5, FS_Subset
  <2>2. ~ (m <= Cardinality(t))
    BY <1>1, <1>4, <2>1
  <2> QED
    BY <1>3, <2>1, <2>2
<1> QED
  BY <1>4, <1>5 DEF Inherits

-----------------------------------------------------------------------------
Pick(s) == CHOOSE x \in s : TRUE

\* it is the function that the library's fold is defined with.
Adds(it, f, K) == it = [s \in SUBSET K |-> IF s = {} THEN 0 ELSE f[Pick(s)] + it[s \ {Pick(s)}]]
Adder(f, K) == CHOOSE it : Adds(it, f, K)

LEMMA SumIsAdder == ASSUME NEW f, NEW K PROVE SumOf(f, K) = Adder(f, K)[K]
  BY DEF SumOf, MapThenSumSet, MapThenFoldSet, Adds, Adder, Pick

LEMMA Picked == ASSUME NEW s, s # {} PROVE Pick(s) \in s
  BY DEF Pick

LEMMA AddsAlike ==
  ASSUME NEW f, NEW K, NEW L, NEW i, NEW j, Adds(i, f, K), Adds(j, f, L), IsFiniteSet(K)
  PROVE  \A s \in SUBSET (K \cap L) : i[s] = j[s]
<1> DEFINE P == {s \in SUBSET (K \cap L) : i[s] = j[s]}
<1>1. ASSUME NEW s \in SUBSET (K \cap L), \A t \in SUBSET s : t # s => t \in P PROVE s \in P
  <2>1. CASE s = {}
    BY <2>1 DEF Adds
  <2>2. CASE s # {}
    <3> DEFINE p == Pick(s)
    <3>1. p \in s
      BY <2>2, Picked
    <3>2. s \ {p} \in P
      BY <1>1, <3>1
    <3>3. i[s] = f[p] + i[s \ {p}] /\ j[s] = f[p] + j[s \ {p}]
      BY <2>2, <3>1 DEF Adds
    <3> QED
      BY <3>2, <3>3
  <2> QED
    BY <2>1, <2>2
<1>2. IsFiniteSet(K \cap L)
  BY FS_Intersection
<1>3. Inherits(P, K \cap L)
  BY <1>1 DEF Inherits
<1>4. SUBSET (K \cap L) \subseteq P
  BY <1>2, <1>3, SetInduction
<1> QED
  BY <1>4

LEMMA AdderAdds ==
  ASSUME NEW f, NEW K, IsFiniteSet(K)
  PROVE  Adds(Adder(f, K), f, K)
<1> DEFINE P == {s \in SUBSET K : Adds(Adder(f, s), f, s)}
<1>1. ASSUME NEW s \in SUBSET K, \A t \in SUBSET s : t # s => t \in P PROVE s \in P
  <2> DEFINE val(t) == Adder(f, t)[t]
             it == [t \in SUBSET s |-> IF t = {} THEN 0 ELSE f[Pick(t)] + val(t \ {Pick(t)})]
  <2>1. ASSUME NEW t \in SUBSET s, t # s PROVE it[t] = val(t)
    <3>1. Adds(Adder(f, t), f, t)
      BY <1>1, <2>1
    <3>2. CASE t = {}
      BY <3>1, <3>2 DEF Adds
    <3>3. CASE t # {}
      <4> DEFINE q == Pick(t)
                 r == t \ {q}
      <4>1. q \in t /\ r \in SUBSET s /\ r # s /\ r \in SUBSET (t \cap r)
        BY <3>3, Picked
      <4>2. Adds(Adder(f, r), f, r) /\ IsFiniteSet(t)
        BY <1>1, <4>1, FS_Subset
      <4>3. Adder(f, t)[r] = val(r)
        BY <3>1, <4>1, <4>2, AddsAlike
      <4>4. val(t) = f[q] + Adder(f, t)[r]
        BY <3>1, <3>3 DEF Adds
      <4> QED
        BY <3>3, <4>3, <4>4
    <3> QED
      BY <3>2, <3>3
  <2>2. Adds(it, f, s)
    <3>1. ASSUME NEW t \in SUBSET s, t # {} PROVE it[t \ {Pick(t)}] = val(t \ {Pick(t)})
      <4>1. Pick(t) \in t
        BY <3>1, Picked
      <4> QED
        BY <2>1, <4>1
    <3> HIDE DEF val
    <3>2. it = [t \in SUBSET s |-> IF t = {} THEN 0 ELSE f[Pick(t)] + it[t \ {Pick(t)}]]
      BY <3>1
    <3> QED
      BY <3>2 DEF Adds
  <2> HIDE DEF it
  <2>3. Adds(Adder(f, s), f, s)
    BY <2>2 DEF Adder
  <2> QED
    BY <2>3
<1>2. Inherits(P, K)
  BY <1>1 DEF Inherits
<1>3. SUBSET K \subseteq P
  BY <1>2, SetInduction
<1> QED
  BY <1>3

\* The sum of nothing is 0, that of more is what the sum of the others adds to.
LEMMA SumPick ==
  ASSUME NEW f, NEW K, IsFiniteSet(K)
  PROVE  /\ K = {} => SumOf(f, K) = 0
         /\ K # {} => /\ Pick(K) \in K
                     /\ SumOf(f, K) = f[Pick(K)] + SumOf(f, K \ {Pick(K)})
<1> DEFINE p == Pick(K)
           r == K \ {p}
<1>1. Adds(Adder(f, K), f, K)
  BY AdderAdds
<1>2. CASE K = {}
  BY <1>1, <1>2, SumIsAdder DEF Adds
<1>3. CASE K # {}
  <2>1. p \in K /\ IsFiniteSet(r) /\ r \in SUBSET (K \cap r)
    BY <1>3, Picked, FS_Subset
  <2>2. Adds(Adder(f, r), f, r)
    BY <2>1, AdderAdds
  <2>3. Adder(f, K)[r] = SumOf(f, r)
    BY <1>1, <2>1, <2>2, AddsAlike, SumIsAdder
  <2>4. Adder(f, K)[K] = f[p] + Adder(f, K)[r]
    BY <1>1, <1>3, <2>1 DEF Adds
  <2> QED
    BY <1>3, <2>1, <2>3, <2>4, SumIsAdder
<1> QED
  BY <1>2, <1>3

\* A sum of integers is one.
LEMMA SumType ==
  ASSUME NEW f, NEW K, IsFiniteSet(K), \A k \in K : f[k] \in Int
  PROVE  SumOf(f, K) \in Int
<1> DEFINE P == {s \in SUBSET K : SumOf(f, s) \in Int}
<1>1. ASSUME NEW s \in SUBSET K, \A t \in SUBSET s : t # s => t \in P PROVE s \in P
  <2>1. IsFiniteSet(s)
    BY FS_Subset
  <2>2. CASE s = {}
    BY <2>1, <2>2, SumPick
  <2>3. CASE s # {}
    <3>1. Pick(s) \in s /\ SumOf(f, s) = f[Pick(s)] + SumOf(f, s \ {Pick(s)})
      BY <2>1, <2>3, SumPick
    <3>2. s \ {Pick(s)} \in P
      BY <1>1, <3>1
    <3> QED
      BY <3>1, <3>2
  <2> QED
    BY <2>2, <2>3
<1>2. Inherits(P, K)
  BY <1>1 DEF Inherits
<1>3. SUBSET K \subseteq P
  BY <1>2, SetInduction
<1> QED
  BY <1>3

\* Naturals add up to a natural.
LEMMA SumNat ==
  ASSUME NEW f, NEW K, IsFiniteSet(K), \A k \in K : f[k] \in Nat
  PROVE  SumOf(f, K) \in Nat
<1> DEFINE P == {s \in SUBSET K : SumOf(f, s) \in Nat}
<1>1. ASSUME NEW s \in SUBSET K, \A t \in SUBSET s : t # s => t \in P PROVE s \in P
  <2>1. IsFiniteSet(s)
    BY FS_Subset
  <2>2. CASE s = {}
    <3>1. SumOf(f, s) = 0
      BY <2>1, <2>2, SumPick
    <3> QED
      BY <3>1
  <2>3. CASE s # {}
    <3>1. Pick(s) \in s /\ SumOf(f, s) = f[Pick(s)] + SumOf(f, s \ {Pick(s)})
      BY <2>1, <2>3, SumPick
    <3>2. s \ {Pick(s)} \in P
      BY <1>1, <3>1
    <3> QED
      BY <3>1, <3>2
  <2> QED
    BY <2>2, <2>3
<1>2. Inherits(P, K)
  BY <1>1 DEF Inherits
<1>3. SUBSET K \subseteq P
  BY <1>2, SetInduction
<1> QED
  BY <1>3

\* The order of adding does not matter.
LEMMA SumInsert ==
  ASSUME NEW f, NEW K, IsFiniteSet(K), \A k \in K : f[k] \in Int, NEW x \in K
  PROVE  SumOf(f, K) = f[x] + SumOf(f, K \ {x})
<1> DEFINE P == {s \in SUBSET K : \A y \in s : SumOf(f, s) = f[y] + SumOf(f, s \ {y})}
<1>1. ASSUME NEW s \in SUBSET K, \A t \in SUBSET s : t # s => t \in P PROVE s \in P
  <2>1. IsFiniteSet(s)
    BY FS_Subset
  <2> SUFFICES ASSUME NEW y \in s PROVE SumOf(f, s) = f[y] + SumOf(f, s \ {y})
    OBVIOUS
  <2> DEFINE p == Pick(s)
             r == s \ {p}
             q == s \ {y}
             b == r \ {y}
  <2>2. p \in s /\ SumOf(f, s) = f[p] + SumOf(f, r)
    BY <2>1, SumPick
  <2>3. CASE p = y
    BY <2>2, <2>3
  <2>4. CASE p # y
    <3>1. r \in P /\ q \in P
      BY <1>1, <2>2
    <3>2. b = q \ {p} /\ y \in r /\ p \in q
      BY <2>2, <2>4
    <3>3. SumOf(f, r) = f[y] + SumOf(f, b) /\ SumOf(f, q) = f[p] + SumOf(f, b)
      BY <3>1, <3>2
    <3>4. f[p] \in Int /\ f[y] \in Int /\ SumOf(f, b) \in Int
      <4>1. IsFiniteSet(b) /\ b \subseteq K
        BY <2>1, FS_Subset
      <4> QED
        BY <2>2, <4>1, SumType
    <3> QED
      BY <2>2, <3>3, <3>4
  <2> QED
    BY <2>3, <2>4
<1>2. Inherits(P, K)
  BY <1>1 DEF Inherits
<1>3. SUBSET K \subseteq P
  BY <1>2, SetInduction
<1> QED
  BY <1>3

\* Sums of functions that agree are equal.
LEMMA SumSame ==
  ASSUME NEW f, NEW g, NEW K, IsFiniteSet(K), \A k \in K : f[k] = g[k]
  PROVE  SumOf(f, K) = SumOf(g, K)
<1> DEFINE P == {s \in SUBSET K : SumOf(f, s) = SumOf(g, s)}
<1>1. ASSUME NEW s \in SUBSET K, \A t \in SUBSET s : t # s => t \in P PROVE s \in P
  <2>1. IsFiniteSet(s)
    BY FS_Subset
  <2>2. CASE s = {}
    BY <2>1, <2>2, SumPick
  <2>3. CASE s # {}
    <3> DEFINE p == Pick(s)
    <3>1. /\ p \in s /\ SumOf(f, s) = f[p] + SumOf(f, s \ {p})
          /\ SumOf(g, s) = g[p] + SumOf(g, s \ {p})
      BY <2>1, <2>3, SumPick
    <3>2. s \ {p} \in P
      BY <1>1, <3>1
    <3> QED
      BY <3>1, <3>2
  <2> QED
    BY <2>2, <2>3
<1>2. Inherits(P, K)
  BY <1>1 DEF Inherits
<1>3. SUBSET K \subseteq P
  BY <1>2, SetInduction
<1> QED
  BY <1>3

\* The sum of sums.
LEMMA SumPlus ==
  ASSUME NEW f, NEW g, NEW h, NEW K, IsFiniteSet(K),
         \A k \in K : f[k] \in Int /\ g[k] \in Int /\ h[k] = f[k] + g[k]
  PROVE  SumOf(h, K) = SumOf(f, K) + SumOf(g, K)
<1> DEFINE P == {s \in SUBSET K : SumOf(h, s) = SumOf(f, s) + SumOf(g, s)}
<1>1. ASSUME NEW s \in SUBSET K, \A t \in SUBSET s : t # s => t \in P PROVE s \in P
  <2>1. IsFiniteSet(s)
    BY FS_Subset
  <2>2. CASE s = {}
    <3>1. SumOf(f, s) = 0 /\ SumOf(g, s) = 0 /\ SumOf(h, s) = 0
      BY <2>1, <2>2, SumPick
    <3>2. SumOf(h, s) = SumOf(f, s) + SumOf(g, s)
      BY <3>1
    <3> QED
      BY <3>2
  <2>3. CASE s # {}
    <3> DEFINE p == Pick(s)
               r == s \ {p}
    <3>1. /\ p \in s /\ SumOf(f, s) = f[p] + SumOf(f, r)
          /\ SumOf(g, s) = g[p] + SumOf(g, r) /\ SumOf(h, s) = h[p] + SumOf(h, r)
      BY <2>1, <2>3, SumPick
    <3>2. r \in P
      BY <1>1, <3>1
    <3>3. IsFiniteSet(r) /\ r \subseteq K
      BY <2>1, FS_Subset
    <3>4. SumOf(f, r) \in Int /\ SumOf(g, r) \in Int
      BY <3>3, SumType
    <3>5. f[p] \in Int /\ g[p] \in Int /\ h[p] = f[p] + g[p]
      BY <3>1
    <3>6. SumOf(h, r) = SumOf(f, r) + SumOf(g, r)
      BY <3>2
    <3> HIDE DEF p, r, P
    <3>7. SumOf(h, s) = SumOf(f, s) + SumOf(g, s)
      BY <3>1, <3>4, <3>5, <3>6
    <3> QED
      BY <3>7 DEF P
  <2> QED
    BY <2>2, <2>3
<1>2. Inherits(P, K)
  BY <1>1 DEF Inherits
<1>3. SUBSET K \subseteq P
  BY <1>2, SetInduction
<1> QED
  BY <1>3

\* Smaller parts make a smaller sum.
LEMMA SumLess ==
  ASSUME NEW f, NEW g, NEW K, IsFiniteSet(K),
         \A k \in K : f[k] \in Int /\ g[k] \in Int /\ f[k] <= g[k]
  PROVE  SumOf(f, K) <= SumOf(g, K)
<1> DEFINE P == {s \in SUBSET K : SumOf(f, s) <= SumOf(g, s)}
<1>1. ASSUME NEW s \in SUBSET K, \A t \in SUBSET s : t # s => t \in P PROVE s \in P
  <2>1. IsFiniteSet(s)
    BY FS_Subset
  <2>2. CASE s = {}
    <3>1. SumOf(f, s) = 0 /\ SumOf(g, s) = 0
      BY <2>1, <2>2, SumPick
    <3>2. SumOf(f, s) <= SumOf(g, s)
      BY <3>1
    <3> QED
      BY <3>2
  <2>3. CASE s # {}
    <3> DEFINE p == Pick(s)
               r == s \ {p}
    <3>1. /\ p \in s /\ SumOf(f, s) = f[p] + SumOf(f, r) /\ SumOf(g, s) = g[p] + SumOf(g, r)
      BY <2>1, <2>3, SumPick
    <3>2. r \in P
      BY <1>1, <3>1
    <3>3. IsFiniteSet(r) /\ r \subseteq K
      BY <2>1, FS_Subset
    <3>4. SumOf(f, r) \in Int /\ SumOf(g, r) \in Int /\ SumOf(f, r) <= SumOf(g, r)
      BY <3>2, <3>3, SumType
    <3>5. f[p] \in Int /\ g[p] \in Int /\ f[p] <= g[p]
      BY <3>1
    <3> HIDE DEF p, r, P
    <3>6. SumOf(f, s) <= SumOf(g, s)
      BY <3>1, <3>4, <3>5
    <3> QED
      BY <3>6 DEF P
  <2> QED
    BY <2>2, <2>3
<1>2. Inherits(P, K)
  BY <1>1 DEF Inherits
<1>3. SUBSET K \subseteq P
  BY <1>2, SetInduction
<1> QED
  BY <1>3

\* Only one part changes.
LEMMA SumChange ==
  ASSUME NEW f, NEW g, NEW K, IsFiniteSet(K), NEW x \in K,
         \A k \in K : f[k] \in Int /\ g[k] \in Int,
         \A k \in K \ {x} : g[k] = f[k]
  PROVE  SumOf(g, K) = SumOf(f, K) + g[x] - f[x]
<1> DEFINE r == K \ {x}
<1>1. SumOf(g, K) = g[x] + SumOf(g, r) /\ SumOf(f, K) = f[x] + SumOf(f, r)
  BY SumInsert
<1>2. IsFiniteSet(r)
  BY FS_Subset
<1>3. SumOf(g, r) = SumOf(f, r) /\ SumOf(f, r) \in Int
  BY <1>2, SumSame, SumType
<1>4. f[x] \in Int /\ g[x] \in Int
  OBVIOUS
<1> HIDE DEF r
<1> QED
  BY <1>1, <1>3, <1>4

\* Parts that are 0 may be left out.
LEMMA SumPart ==
  ASSUME NEW f, NEW K, IsFiniteSet(K), NEW L \in SUBSET K,
         \A k \in L : f[k] \in Int, \A k \in K \ L : f[k] = 0
  PROVE  SumOf(f, K) = SumOf(f, L)
<1> DEFINE P == {s \in SUBSET K : SumOf(f, s) = SumOf(f, s \cap L)}
<1>1. ASSUME NEW s \in SUBSET K, \A t \in SUBSET s : t # s => t \in P PROVE s \in P
  <2>1. IsFiniteSet(s)
    BY FS_Subset
  <2>2. CASE s = {}
    <3>1. s \cap L = s
      BY <2>2
    <3> QED
      BY <3>1
  <2>3. CASE s # {}
    <3> DEFINE p == Pick(s)
               r == s \ {p}
    <3>1. p \in s /\ SumOf(f, s) = f[p] + SumOf(f, r)
      BY <2>1, <2>3, SumPick
    <3>2. SumOf(f, r) = SumOf(f, r \cap L)
      BY <1>1, <3>1
    <3>3. CASE p \in L
      <4>1. /\ p \in s \cap L /\ r \cap L = (s \cap L) \ {p} /\ IsFiniteSet(s \cap L)
            /\ \A k \in s \cap L : f[k] \in Int
        BY <2>1, <3>1, <3>3, FS_Subset
      <4>2. SumOf(f, s \cap L) = f[p] + SumOf(f, r \cap L)
        BY <4>1, SumInsert
      <4> QED
        BY <3>1, <3>2, <4>2
    <3>4. CASE p \notin L
      <4>1. r \cap L = s \cap L /\ f[p] = 0 /\ IsFiniteSet(r \cap L)
        BY <2>1, <3>1, <3>4, FS_Subset
      <4>2. SumOf(f, r \cap L) \in Int
        BY <4>1, SumType
      <4> HIDE DEF p, r
      <4>3. SumOf(f, s) = SumOf(f, s \cap L)
        BY <3>1, <3>2, <4>1, <4>2
      <4> QED
        BY <4>3
    <3> QED
      BY <3>3, <3>4
  <2> QED
    BY <2>2, <2>3
<1>2. Inherits(P, K)
  BY <1>1 DEF Inherits
<1>3. SUBSET K \subseteq P
  BY <1>2, SetInduction
<1>4. SumOf(f, K) = SumOf(f, K \cap L) /\ K \cap L = L
  BY <1>3
<1> QED
  BY <1>4

\* What is added to the rows of a table, each c to the row name[c], is added to
\* the total.
Added(g, f, name, N, s) == [n \in N |-> g[n] + SumOf(f, {c \in s : name[c] = n})]

LEMMA SumByName ==
  ASSUME NEW N, IsFiniteSet(N), NEW g \in [N -> Int],
         NEW A, IsFiniteSet(A), NEW f \in [A -> Int], NEW name \in [A -> N]
  PROVE  SumOf(Added(g, f, name, N, A), N) = SumOf(g, N) + SumOf(f, A)
<1> DEFINE P == {s \in SUBSET A : SumOf(Added(g, f, name, N, s), N) = SumOf(g, N) + SumOf(f, s)}
<1>1. ASSUME NEW s \in SUBSET A, \A t \in SUBSET s : t # s => t \in P PROVE s \in P
  <2>1. IsFiniteSet(s) /\ SumOf(g, N) \in Int
    BY FS_Subset, SumType
  <2>2. ASSUME NEW t \in SUBSET A, NEW n \in N
        PROVE  IsFiniteSet({c \in t : name[c] = n}) /\ SumOf(f, {c \in t : name[c] = n}) \in Int
    <3>1. IsFiniteSet({c \in t : name[c] = n}) /\ {c \in t : name[c] = n} \subseteq A
      BY FS_Subset
    <3>2. \A k \in {c \in t : name[c] = n} : f[k] \in Int
      OBVIOUS
    <3> QED
      BY <3>1, <3>2, SumType
  <2>5. ASSUME NEW t \in SUBSET A, NEW n \in N
        PROVE  /\ Added(g, f, name, N, t)[n] = g[n] + SumOf(f, {c \in t : name[c] = n})
               /\ Added(g, f, name, N, t)[n] \in Int
    <3>1. Added(g, f, name, N, t)[n] = g[n] + SumOf(f, {c \in t : name[c] = n})
      BY DEF Added
    <3> DEFINE T == {c \in t : name[c] = n}
    <3>2. g[n] \in Int /\ SumOf(f, T) \in Int /\ Added(g, f, name, N, t)[n] = g[n] + SumOf(f, T)
      BY <2>2, <3>1
    <3> HIDE DEF T
    <3>3. Added(g, f, name, N, t)[n] \in Int
      BY <3>2
    <3> QED
      BY <3>1, <3>3
  <2>3. CASE s = {}
    <3>2. SumOf(f, {}) = 0
      BY SumPick, FS_EmptySet
    <3>3. ASSUME NEW n \in N PROVE Added(g, f, name, N, s)[n] = g[n]
      <4> DEFINE T == {c \in s : name[c] = n}
      <4>1. T = {}
        BY <2>3
      <4>2. Added(g, f, name, N, s)[n] = g[n] + SumOf(f, T)
        BY <2>5
      <4>3. g[n] \in Int
        OBVIOUS
      <4> HIDE DEF T
      <4> QED
        BY <3>2, <4>1, <4>2, <4>3
    <3>4. SumOf(Added(g, f, name, N, s), N) = SumOf(g, N)
      BY <3>3, SumSame
    <3> QED
      BY <2>1, <2>3, <3>2, <3>4
  <2>4. CASE s # {}
    <3> DEFINE p == Pick(s)
               r == s \ {p}
               before == Added(g, f, name, N, r)
               after  == Added(g, f, name, N, s)
    <3>1. p \in s /\ SumOf(f, s) = f[p] + SumOf(f, r)
      BY <2>1, <2>4, SumPick
    <3>2. r \in P /\ r \in SUBSET A
      BY <1>1, <3>1
    <3>3. name[p] \in N /\ f[p] \in Int /\ SumOf(f, r) \in Int
      BY <2>1, <3>1, <3>2, FS_Subset, SumType
    <3>4. \A n \in N : before[n] \in Int /\ after[n] \in Int
      BY <2>5, <3>2
    <3>5. \A n \in N \ {name[p]} : after[n] = before[n]
      <4>1. \A n \in N \ {name[p]} : {c \in s : name[c] = n} = {c \in r : name[c] = n}
        OBVIOUS
      <4> QED
        BY <4>1 DEF Added
    <3>6. after[name[p]] = before[name[p]] + f[p]
      <4> DEFINE T == {c \in s : name[c] = name[p]}
                 U == {c \in r : name[c] = name[p]}
      <4>1. p \in T /\ U = T \ {p} /\ \A k \in T : f[k] \in Int
        BY <3>1
      <4>2. IsFiniteSet(T) /\ SumOf(f, U) \in Int
        BY <2>2, <3>2, <3>3
      <4>3. SumOf(f, T) = f[p] + SumOf(f, U)
        BY <4>1, <4>2, SumInsert
      <4>4. after[name[p]] = g[name[p]] + SumOf(f, T) /\ before[name[p]] = g[name[p]] + SumOf(f, U)
        BY <3>3 DEF Added
      <4>5. g[name[p]] \in Int
        BY <3>3
      <4> HIDE DEF T, U, after, before, p
      <4> QED
        BY <3>3, <4>2, <4>3, <4>4, <4>5
    <3>7. SumOf(after, N) = SumOf(before, N) + after[name[p]] - before[name[p]]
      <4> HIDE DEF before, after
      <4> QED
        BY <3>3, <3>4, <3>5, SumChange
    <3>8. SumOf(before, N) = SumOf(g, N) + SumOf(f, r)
      BY <3>2
    <3>9. before[name[p]] \in Int
      BY <3>3, <3>4
    <3> HIDE DEF p, r, before, after, P
    <3>10. SumOf(after, N) = SumOf(g, N) + SumOf(f, s)
      BY <2>1, <3>1, <3>3, <3>6, <3>7, <3>8, <3>9
    <3> QED
      BY <3>10 DEF P, after
  <2> QED
    BY <2>3, <2>4
<1>2. Inherits(P, A)
  BY <1>1 DEF Inherits
<1>3. SUBSET A \subseteq P
  BY <1>2, SetInduction
<1> QED
  BY <1>3

\* A sum of zeros.
LEMMA SumZero ==
  ASSUME NEW f, NEW K, IsFiniteSet(K), \A k \in K : f[k] = 0
  PROVE  SumOf(f, K) = 0
<1>1. IsFiniteSet({}) /\ {} \in SUBSET K /\ \A k \in {} : f[k] \in Int
  BY FS_EmptySet
<1>2. SumOf(f, K) = SumOf(f, {})
  BY <1>1, SumPart
<1> QED
  BY <1>1, <1>2, SumPick

-----------------------------------------------------------------------------
(***************************************************************************)
(* The inductive invariant.                                                *)
(***************************************************************************)
Player ==
    [connected : {TRUE}, ip : Ips, name : Names, spectator : BOOLEAN,
     frags : Nat, stats_saved : BOOLEAN]

TypeInv ==
    /\ ci \in [Cns -> Player \cup {Free}]
    /\ scores \in [Ips \X Names -> {NoScore, 0}]
    /\ table \in [Names -> Nat]
    /\ intermission \in BOOLEAN /\ earned \in Nat /\ late \in Nat /\ lapsed \in BOOLEAN

\* What each client has earned that was not saved, and what of it will be saved
\* when the match ends: not what those who watch have earned.
Debts == [c \in Cns |-> IF ci[c].connected /\ ~ci[c].stats_saved THEN ci[c].frags ELSE 0]
Dues  == [c \in Cns |-> IF ci[c].connected /\ ~ci[c].stats_saved /\ ~ci[c].spectator
                        THEN ci[c].frags ELSE 0]

\* In a match that goes on what is not in the table, and not late, is due; when
\* the match is decided, all is in the table but what is late.
Kept ==
    lapsed \/ IF intermission THEN Total + late >= earned
              ELSE Total + SumOf(Dues, Cns) + late >= earned

Bounded == Twins \/ Total + SumOf(Debts, Cns) <= earned

\* A score that was kept for who returns is 0: it is in the table already.
IInv == TypeInv /\ Kept /\ Bounded

\* A slot is empty or has a player.
LEMMA Slots ==
  ASSUME TypeInv, NEW c \in Cns
  PROVE  /\ ci[c].connected => ci[c] \in Player
         /\ ~ci[c].connected => ci[c] = Free
         /\ c \in Players <=> ci[c].connected
<1>1. ci[c] \in Player \cup {Free}
  BY DEF TypeInv
<1>2. CASE ci[c] \in Player
  <2>1. ci[c].connected = TRUE
    BY <1>2 DEF Player
  <2> QED
    BY <1>2, <2>1 DEF Players
<1>3. CASE ci[c] = Free
  <2>1. ci[c].connected = FALSE
    BY <1>3 DEF Free
  <2> QED
    BY <1>3, <2>1 DEF Players
<1> QED
  BY <1>1, <1>2, <1>3

\* The sums are of integers.
Integral ==
    /\ \A c \in Cns : Debts[c] \in Int /\ Dues[c] \in Int
    /\ Total \in Int /\ SumOf(Debts, Cns) \in Int /\ SumOf(Dues, Cns) \in Int

LEMMA Numbers == TypeInv => Integral
<1> SUFFICES ASSUME TypeInv PROVE Integral
  OBVIOUS
<1>1. \A c \in Cns : ci[c].connected => ci[c].frags \in Nat
  BY Slots DEF Player
<1>2. \A c \in Cns : Debts[c] \in Int /\ Dues[c] \in Int
  BY <1>1 DEF Debts, Dues
<1>3. IsFiniteSet(Cns) /\ IsFiniteSet(Names) /\ \A n \in Names : table[n] \in Int
  BY StoreAssumption DEF TypeInv
<1> QED
  BY <1>2, <1>3, SumType DEF Total, Integral

\* Nothing but debts is pending.
LEMMA PendingIsDebts == TypeInv => Pending = SumOf(Debts, Cns)
<1> SUFFICES ASSUME TypeInv PROVE Pending = SumOf(Debts, Cns)
  OBVIOUS
<1> DEFINE owed == [c \in Players |-> IF ci[c].stats_saved THEN 0 ELSE ci[c].frags]
<1>1. Players \in SUBSET Cns /\ IsFiniteSet(Cns) /\ IsFiniteSet(Players)
  BY StoreAssumption, FS_Subset DEF Players
<1>2. /\ \A c \in Players : owed[c] = Debts[c] /\ Debts[c] \in Int
      /\ \A c \in Cns \ Players : Debts[c] = 0
  BY Numbers DEF Debts, Players, Integral
<1> HIDE DEF owed
<1>3. SumOf(Debts, Cns) = SumOf(Debts, Players)
  BY <1>1, <1>2, SumPart
<1>4. SumOf(owed, Players) = SumOf(Debts, Players)
  BY <1>1, <1>2, SumSame
<1> QED
  BY <1>3, <1>4 DEF Pending, owed

\* Debts are not negative, and include what is due.
LEMMA DebtsCover ==
  ASSUME TypeInv
  PROVE  /\ \A c \in Cns : 0 <= Dues[c] /\ Dues[c] <= Debts[c]
         /\ 0 <= SumOf(Dues, Cns) /\ SumOf(Dues, Cns) <= SumOf(Debts, Cns)
<1>1. \A c \in Cns : ci[c].connected => ci[c].frags \in Nat
  BY Slots DEF Player
<1>2. \A c \in Cns : 0 <= Dues[c] /\ Dues[c] <= Debts[c]
  BY <1>1 DEF Debts, Dues
<1> DEFINE zero == [c \in Cns |-> 0]
<1>3. IsFiniteSet(Cns) /\ \A c \in Cns : Debts[c] \in Int /\ Dues[c] \in Int /\ zero[c] = 0
  BY StoreAssumption, Numbers DEF Integral
<1> HIDE DEF zero
<1>4. SumOf(zero, Cns) = 0
  BY <1>3, SumZero
<1>5. \A c \in Cns : zero[c] \in Int /\ zero[c] <= Dues[c]
  BY <1>2, <1>3
<1>6. SumOf(zero, Cns) <= SumOf(Dues, Cns)
  BY <1>3, <1>5, SumLess
<1>7. SumOf(Dues, Cns) <= SumOf(Debts, Cns)
  BY <1>2, <1>3, SumLess
<1> QED
  BY <1>2, <1>4, <1>6, <1>7

\* The same in the next state.
LEMMA NumbersNext == TypeInv' => Integral'
  BY Numbers, PTL

LEMMA DebtsCoverNext == TypeInv' => (0 <= SumOf(Dues, Cns))'
<1>1. TypeInv => 0 <= SumOf(Dues, Cns)
  BY DebtsCover
<1> QED
  BY <1>1, PTL

-----------------------------------------------------------------------------
\* What savestats adds for each of the clients S.
Gains(S) == [c \in Cns |-> IF c \in S \cap Unsaved THEN ci[c].frags ELSE 0]

\* It is what is added to the total.
LEMMA SaveAdds ==
  ASSUME TypeInv, NEW S
  PROVE  /\ save(S) \in [Names -> Nat] /\ Gains(S) \in [Cns -> Nat]
         /\ SumOf(save(S), Names) = Total + SumOf(Gains(S), Cns)
<1> DEFINE A == S \cap Unsaved
           frags == [c \in Players |-> ci[c].frags]
           f == [c \in A |-> ci[c].frags]
           name == [c \in A |-> ci[c].name]
<1>1. A \in SUBSET Players /\ Players \in SUBSET Cns /\ A \in SUBSET Cns
  BY DEF Unsaved, Players
<1>2. IsFiniteSet(Names) /\ IsFiniteSet(Cns) /\ IsFiniteSet(A)
  BY <1>1, StoreAssumption, FS_Subset
<1>3. \A c \in A : ci[c].frags \in Nat /\ ci[c].name \in Names
  BY <1>1, Slots DEF Player, Players
<1>4. f \in [A -> Int] /\ name \in [A -> Names] /\ table \in [Names -> Int]
  BY <1>3 DEF TypeInv
<1>5. SumOf(Added(table, f, name, Names, A), Names) = Total + SumOf(f, A)
  BY <1>2, <1>4, SumByName DEF Total
<1>6. ASSUME NEW n \in Names
      PROVE  /\ save(S)[n] = Added(table, f, name, Names, A)[n]
             /\ save(S)[n] \in Nat
  <2> DEFINE T == {c \in A : name[c] = n}
             U == {c \in A : ci[c].name = n}
  <2>1. T = U /\ U \subseteq A /\ IsFiniteSet(U)
    BY <1>2, FS_Subset
  <2>2. \A c \in U : frags[c] = f[c] /\ f[c] \in Nat
    BY <1>1, <1>3
  <2>3. save(S)[n] = table[n] + SumOf(frags, U)
    BY DEF save
  <2>4. Added(table, f, name, Names, A)[n] = table[n] + SumOf(f, T)
    BY DEF Added
  <2> HIDE DEF T, U, frags, f, name, A
  <2>5. SumOf(frags, U) = SumOf(f, U)
    BY <2>1, <2>2, SumSame
  <2>6. SumOf(f, U) \in Nat
    BY <2>1, <2>2, SumNat
  <2>7. table[n] \in Nat
    BY DEF TypeInv
  <2> QED
    BY <2>1, <2>3, <2>4, <2>5, <2>6, <2>7
<1>7. save(S) = [n \in Names |-> save(S)[n]]
  BY DEF save
<1>8. Gains(S) \in [Cns -> Nat]
  BY <1>3 DEF Gains
<1>9. /\ \A c \in A : Gains(S)[c] = f[c] /\ Gains(S)[c] \in Int
      /\ \A c \in Cns \ A : Gains(S)[c] = 0
  BY <1>1, <1>3 DEF Gains
<1> HIDE DEF A, f, name, frags
<1>10. SumOf(Gains(S), Cns) = SumOf(f, A)
  BY <1>1, <1>2, <1>9, SumPart, SumSame
<1>11. SumOf(save(S), Names) = SumOf(Added(table, f, name, Names, A), Names)
  BY <1>2, <1>6, SumSame
<1>12. save(S) \in [Names -> Nat]
  BY <1>6, <1>7
<1> QED
  BY <1>5, <1>8, <1>10, <1>11, <1>12

-----------------------------------------------------------------------------
(***************************************************************************)
(* Balancing the books: gain is what a step adds to the total.             *)
(***************************************************************************)
Balance(gain) ==
    /\ gain \in [Cns -> Nat] /\ Total' = Total + SumOf(gain, Cns)
    /\ earned' = earned /\ late' = late

\* Nothing gained is still owed.
LEMMA BoundedHolds ==
  ASSUME IInv, TypeInv', NEW gain, Balance(gain),
         ~Twins => \A c \in Cns : Debts'[c] + gain[c] <= Debts[c]
  PROVE  Bounded'
<1> SUFFICES ASSUME ~Twins PROVE (Total + SumOf(Debts, Cns) <= earned)'
  BY DEF Bounded
<1> DEFINE both == [c \in Cns |-> Debts'[c] + gain[c]]
<1>1. /\ \A c \in Cns : Debts[c] \in Int /\ Debts'[c] \in Int
      /\ Total \in Int /\ SumOf(Debts, Cns) \in Int /\ SumOf(Debts', Cns) \in Int
  BY Numbers, NumbersNext DEF IInv, Integral
<1>2. IsFiniteSet(Cns) /\ \A c \in Cns : gain[c] \in Int
  BY StoreAssumption DEF Balance
<1>3. \A c \in Cns : both[c] \in Int /\ both[c] = Debts'[c] + gain[c] /\ both[c] <= Debts[c]
  BY <1>1, <1>2
<1> HIDE DEF both
<1>4. SumOf(both, Cns) = SumOf(Debts', Cns) + SumOf(gain, Cns)
  BY <1>1, <1>2, <1>3, SumPlus
<1>5. SumOf(both, Cns) <= SumOf(Debts, Cns)
  BY <1>1, <1>2, <1>3, SumLess
<1>6. SumOf(gain, Cns) \in Int /\ earned \in Int
  BY <1>2, SumType DEF IInv, TypeInv
<1>7. Total + SumOf(Debts, Cns) <= earned
  BY DEF IInv, Bounded
<1>8. Total' = Total + SumOf(gain, Cns) /\ earned' = earned
  BY DEF Balance
<1>9. Total' + SumOf(Debts', Cns) <= earned'
  BY <1>1, <1>4, <1>5, <1>6, <1>7, <1>8
<1> QED
  BY <1>9

\* What was due is gained or still due; at an intermission, or after it, all
\* that was earned is in the table, but what is late.
LEMMA KeptHolds ==
  ASSUME IInv, TypeInv', NEW gain, Balance(gain),
         lapsed' \/ /\ ~lapsed
                    /\ \/ intermission
                       \/ \A c \in Cns : Dues[c] <= gain[c] + (IF intermission' THEN 0 ELSE Dues'[c])
  PROVE  Kept'
<1> SUFFICES ASSUME ~lapsed' PROVE Kept'
  BY DEF Kept
<1>1. /\ \A c \in Cns : Dues[c] \in Int /\ Dues'[c] \in Int
      /\ Total \in Int /\ SumOf(Dues, Cns) \in Int /\ SumOf(Dues', Cns) \in Int
  BY Numbers, NumbersNext DEF IInv, Integral
<1>2. /\ IsFiniteSet(Cns) /\ \A c \in Cns : gain[c] \in Int /\ gain[c] \in Nat
      /\ earned \in Int /\ late \in Int /\ intermission \in BOOLEAN /\ intermission' \in BOOLEAN
  BY StoreAssumption DEF Balance, IInv, TypeInv
<1>3. SumOf(gain, Cns) \in Nat /\ 0 <= SumOf(Dues', Cns)
  BY <1>2, SumNat, DebtsCoverNext
<1>4. Total' = Total + SumOf(gain, Cns) /\ earned' = earned /\ late' = late /\ ~lapsed
  BY DEF Balance
<1>5. CASE intermission
  <2>1. Total + late >= earned
    BY <1>4, <1>5 DEF IInv, Kept
  <2>2. Total' + late' >= earned' /\ Total' + SumOf(Dues', Cns) + late' >= earned'
    BY <1>1, <1>2, <1>3, <1>4, <2>1
  <2> QED
    BY <2>2 DEF Kept
<1>6. CASE ~intermission
  <2>1. Total + SumOf(Dues, Cns) + late >= earned
    BY <1>4, <1>6 DEF IInv, Kept
  <2>2. CASE intermission'
    <3>1. SumOf(Dues, Cns) <= SumOf(gain, Cns)
      BY <1>1, <1>2, <1>6, <2>2, SumLess
    <3>2. Total' + late' >= earned'
      BY <1>1, <1>2, <1>3, <1>4, <2>1, <3>1
    <3> QED
      BY <2>2, <3>2 DEF Kept
  <2>3. CASE ~intermission'
    <3> DEFINE both == [c \in Cns |-> gain[c] + Dues'[c]]
    <3>1. \A c \in Cns : both[c] \in Int /\ both[c] = gain[c] + Dues'[c] /\ Dues[c] <= both[c]
      BY <1>1, <1>2, <1>6, <2>3
    <3> HIDE DEF both
    <3>2. SumOf(both, Cns) = SumOf(gain, Cns) + SumOf(Dues', Cns)
      BY <1>1, <1>2, <3>1, SumPlus
    <3>3. SumOf(Dues, Cns) <= SumOf(both, Cns)
      BY <1>1, <1>2, <3>1, SumLess
    <3>4. Total' + SumOf(Dues', Cns) + late' >= earned'
      BY <1>1, <1>2, <1>3, <1>4, <2>1, <3>2, <3>3
    <3> QED
      BY <2>3, <3>4 DEF Kept
  <2> QED
    BY <1>2, <2>2, <2>3
<1> QED
  BY <1>5, <1>6

\* A step that saves nobody gains nothing.
None == [c \in Cns |-> 0]

LEMMA NothingGained ==
  ASSUME TypeInv, table' = table, earned' = earned, late' = late
  PROVE  Balance(None)
<1>1. IsFiniteSet(Cns) /\ None \in [Cns -> Nat] /\ \A c \in Cns : None[c] = 0
  BY StoreAssumption DEF None
<1>2. SumOf(None, Cns) = 0
  BY <1>1, SumZero
<1>3. Total' = Total /\ Total \in Int
  BY Numbers DEF Total, Integral
<1>4. Total' = Total + SumOf(None, Cns)
  BY <1>2, <1>3
<1> QED
  BY <1>1, <1>4 DEF Balance

\* A step that saves the clients S gains what they have not saved.
LEMMA SavedGained ==
  ASSUME TypeInv, NEW S, table' = save(S), earned' = earned, late' = late
  PROVE  Balance(Gains(S))
  BY SaveAdds DEF Balance, Total

\* A step that changes nothing.
LEMMA UnchangedInv == IInv /\ UNCHANGED vars => IInv'
<1> SUFFICES ASSUME IInv, UNCHANGED vars PROVE IInv'
  OBVIOUS
<1>1. TypeInv'
  BY DEF IInv, TypeInv, vars, ghosts
<1>2. Total' = Total /\ Debts' = Debts /\ Dues' = Dues
  BY DEF Total, Debts, Dues, vars, ghosts
<1>3. Bounded' /\ Kept'
  BY <1>2 DEF IInv, Bounded, Kept, vars, ghosts
<1> QED
  BY <1>1, <1>3 DEF IInv

-----------------------------------------------------------------------------
(***************************************************************************)
(* One lemma for every action.                                             *)
(***************************************************************************)
\* What a client who is connected has.
LEMMA Fields ==
  ASSUME IInv, NEW c \in Cns, ci[c].connected
  PROVE  /\ ci[c] \in Player /\ ci[c].ip \in Ips /\ ci[c].name \in Names
         /\ ci[c].spectator \in BOOLEAN /\ ci[c].stats_saved \in BOOLEAN
         /\ ci[c].frags \in Nat
<1>1. ci[c] \in Player
  BY Slots DEF IInv
<1> QED
  BY <1>1 DEF Player

\* Only the slot c changes.
LEMMA Replaced ==
  ASSUME TypeInv, NEW c \in Cns, NEW p \in Player \cup {Free}, ci' = [ci EXCEPT ![c] = p]
  PROVE  /\ ci' \in [Cns -> Player \cup {Free}] /\ ci'[c] = p
         /\ \A d \in Cns : d # c => ci'[d] = ci[d]
  BY DEF TypeInv

\* What remains to be shown of a step: it keeps the types, and each client's
\* account is settled.
LEMMA Settles ==
  ASSUME IInv, NEW gain, Balance(gain), TypeInv',
         ~Twins => \A c \in Cns : Debts'[c] + gain[c] <= Debts[c],
         lapsed' \/ /\ ~lapsed
                    /\ \/ intermission
                       \/ \A c \in Cns : Dues[c] <= gain[c] + (IF intermission' THEN 0 ELSE Dues'[c])
  PROVE  IInv'
  BY BoundedHolds, KeptHolds DEF IInv

\* A score that was kept is 0; a twin's frags are restored only to twins.
LEMMA RestoredNothing ==
  ASSUME IInv, NEW ip \in Ips, NEW name \in Names
  PROVE  /\ Restored(ip, name) \subseteq Nat
         /\ (\A d \in Players : ci[d].ip # ip) => Restored(ip, name) \subseteq {0}
<1> DEFINE twins == {d \in Players : ci[d].ip = ip /\ ci[d].name = name}
<1>1. \A d \in twins : ci[d].frags \in Nat
  BY Fields DEF Players
<1>2. scores[<<ip, name>>] \in {NoScore, 0}
  BY DEF IInv, TypeInv
<1>3. CASE twins = {}
  BY <1>2, <1>3 DEF Restored
<1>4. CASE twins # {}
  BY <1>1, <1>4 DEF Restored
<1> QED
  BY <1>3, <1>4

\* Nobody returns to more than what is owed.
LEMMA ConnectInv ==
  ASSUME IInv, NEW c \in Cns, NEW ip \in Ips, NEW name \in Names, Connect(c, ip, name)
  PROVE  IInv'
<1>1. PICK frags \in Restored(ip, name), spectator \in {FALSE} \cup {Asks("spectate")} :
        ci' = [ci EXCEPT ![c] = [connected |-> TRUE, ip |-> ip, name |-> name,
                                 spectator |-> spectator, frags |-> frags,
                                 stats_saved |-> FALSE]]
  BY DEF Connect
<1> DEFINE p == [connected |-> TRUE, ip |-> ip, name |-> name, spectator |-> spectator,
                 frags |-> frags, stats_saved |-> FALSE]
<1>2. frags \in Nat /\ (~Twins => frags = 0) /\ spectator \in BOOLEAN
  <2>1. Restored(ip, name) \subseteq Nat /\ (~Twins => Restored(ip, name) \subseteq {0})
    BY RestoredNothing DEF Connect
  <2>2. Asks("spectate") \in BOOLEAN
    BY DEF Asks
  <2> QED
    BY <2>1, <2>2
<1>3. /\ p \in Player /\ p.connected = TRUE /\ p.frags = frags
      /\ p.stats_saved = FALSE /\ p.spectator = spectator
  BY <1>2 DEF Player
<1>4. ~ci[c].connected /\ TypeInv /\ UNCHANGED <<scores, table, intermission, ghosts>>
  BY DEF Connect, IInv
<1> HIDE DEF p
<1>5. /\ ci' \in [Cns -> Player \cup {Free}] /\ ci'[c] = p
      /\ \A d \in Cns : d # c => ci'[d] = ci[d]
  BY <1>1, <1>3, <1>4, Replaced DEF p
<1>6. TypeInv'
  BY <1>4, <1>5 DEF TypeInv, ghosts
<1>7. Balance(None) /\ \A d \in Cns : None[d] = 0
  BY <1>4, NothingGained DEF ghosts, None
<1>8. ASSUME NEW d \in Cns
      PROVE  /\ ~Twins => Debts'[d] + None[d] <= Debts[d]
             /\ Dues[d] <= None[d] + Dues'[d]
  <2>1. CASE d = c
    BY <1>2, <1>3, <1>4, <1>5, <1>7, <2>1 DEF Debts, Dues
  <2>2. CASE d # c
    <3>1. Debts'[d] = Debts[d] /\ Dues'[d] = Dues[d] /\ Debts[d] \in Int /\ Dues[d] \in Int
      BY <1>4, <1>5, <2>2, Numbers DEF Debts, Dues, Integral
    <3> QED
      BY <1>7, <2>2, <3>1
  <2> QED
    BY <2>1, <2>2
<1>9. lapsed' = lapsed /\ intermission' = intermission /\ Dues' \in [Cns -> Int]
      /\ lapsed \in BOOLEAN /\ intermission \in BOOLEAN
  BY <1>4, <1>6, NumbersNext DEF ghosts, IInv, TypeInv, Dues, Integral
<1> QED
  BY <1>6, <1>7, <1>8, <1>9, Settles

\* What a client earns is late, or it is owed and will be paid, if it does not
\* watch: that is a reason.
LEMMA FragInv ==
  ASSUME IInv, NEW c \in Cns, Frag(c)
  PROVE  IInv'
<1> DEFINE p == [ci[c] EXCEPT !.frags = @ + 1]
<1>1. /\ TypeInv /\ ci[c].connected /\ ci' = [ci EXCEPT ![c] = p] /\ earned' = earned + 1
      /\ late' = IF ci[c].stats_saved \/ intermission THEN late + 1 ELSE late
      /\ lapsed' = (lapsed \/ ci[c].spectator) /\ UNCHANGED <<scores, table, intermission>>
  BY DEF Frag, IInv, Players
<1>2. ci[c] \in Player /\ ci[c].frags \in Nat /\ ci[c].spectator \in BOOLEAN
  BY <1>1, Fields
<1>3. /\ p \in Player /\ p.connected = TRUE /\ p.frags = ci[c].frags + 1
      /\ p.stats_saved = ci[c].stats_saved /\ p.spectator = ci[c].spectator
  <2>1. ci[c].frags + 1 \in Nat
    BY <1>2
  <2>2. p = [ci[c] EXCEPT !.frags = ci[c].frags + 1]
    OBVIOUS
  <2> QED
    BY <1>1, <1>2, <2>1, <2>2 DEF Player
<1> HIDE DEF p
<1>4. /\ ci' \in [Cns -> Player \cup {Free}] /\ ci'[c] = p
      /\ \A d \in Cns : d # c => ci'[d] = ci[d]
  BY <1>1, <1>3, Replaced
<1>5. lapsed' \in BOOLEAN /\ earned' \in Nat /\ late' \in Nat
  BY <1>1, <1>2 DEF TypeInv
<1>6. TypeInv'
  BY <1>1, <1>4, <1>5 DEF TypeInv
<1>7. /\ Debts'[c] = Debts[c] + (IF ci[c].stats_saved THEN 0 ELSE 1)
      /\ Dues'[c] = Dues[c] + (IF ci[c].stats_saved \/ ci[c].spectator THEN 0 ELSE 1)
  BY <1>1, <1>2, <1>3, <1>4 DEF Debts, Dues
<1>8. \A d \in Cns : d # c => Debts'[d] = Debts[d] /\ Dues'[d] = Dues[d]
  BY <1>4 DEF Debts, Dues
<1>9. Integral /\ Integral' /\ IsFiniteSet(Cns)
  BY <1>1, <1>6, Numbers, NumbersNext, StoreAssumption
<1>10. /\ Total' = Total /\ Total \in Int /\ earned \in Int /\ late \in Int
       /\ SumOf(Debts, Cns) \in Int /\ SumOf(Dues, Cns) \in Int
       /\ Debts[c] \in Int /\ Dues[c] \in Int
  BY <1>1, <1>9 DEF Total, Integral, TypeInv
<1>11. SumOf(Debts', Cns) = SumOf(Debts, Cns) + (IF ci[c].stats_saved THEN 0 ELSE 1)
  <2>1. SumOf(Debts', Cns) = SumOf(Debts, Cns) + Debts'[c] - Debts[c]
    BY <1>8, <1>9, SumChange DEF Integral
  <2> QED
    BY <1>7, <1>10, <2>1
<1>12. SumOf(Dues', Cns) = SumOf(Dues, Cns) + (IF ci[c].stats_saved \/ ci[c].spectator THEN 0 ELSE 1)
  <2>1. SumOf(Dues', Cns) = SumOf(Dues, Cns) + Dues'[c] - Dues[c]
    BY <1>8, <1>9, SumChange DEF Integral
  <2> QED
    BY <1>7, <1>10, <2>1
<1>13. Bounded'
  <2>1. Twins \/ Total + SumOf(Debts, Cns) <= earned
    BY DEF IInv, Bounded
  <2>2. Twins \/ Total' + SumOf(Debts', Cns) <= earned'
    BY <1>1, <1>10, <1>11, <2>1
  <2> QED
    BY <2>2 DEF Bounded
<1>14. Kept'
  <2> SUFFICES ASSUME ~lapsed' PROVE Kept'
    BY DEF Kept
  <2>1. ~lapsed /\ ~ci[c].spectator
    BY <1>1
  <2>2. CASE intermission
    <3>1. Total + late >= earned /\ late' = late + 1 /\ intermission'
      BY <1>1, <2>1, <2>2 DEF IInv, Kept
    <3>2. Total' + late' >= earned'
      BY <1>1, <1>10, <3>1
    <3> QED
      BY <3>1, <3>2 DEF Kept
  <2>3. CASE ~intermission
    <3>1. Total + SumOf(Dues, Cns) + late >= earned /\ ~intermission'
      BY <1>1, <2>1, <2>3 DEF IInv, Kept
    <3>2. late' + SumOf(Dues', Cns) = late + SumOf(Dues, Cns) + 1
      BY <1>1, <1>10, <1>12, <2>1, <2>3
    <3>3. SumOf(Dues', Cns) \in Int /\ late' \in Int
      BY <1>5, <1>9 DEF Integral
    <3>4. Total' + SumOf(Dues', Cns) + late' >= earned'
      BY <1>1, <1>10, <3>1, <3>2, <3>3
    <3> QED
      BY <3>1, <3>4 DEF Kept
  <2> QED
    BY <2>2, <2>3
<1> QED
  BY <1>6, <1>13, <1>14 DEF IInv

\* The accounts are settled when they stay as they are, but for who watches.
LEMMA SameAccounts ==
  ASSUME IInv, TypeInv', UNCHANGED <<table, intermission, earned, late>>,
         \A c \in Cns : /\ ci'[c].connected <=> ci[c].connected
                        /\ ci[c].connected => /\ ci'[c].frags = ci[c].frags
                                              /\ ci'[c].stats_saved = ci[c].stats_saved,
         lapsed' \/ /\ ~lapsed
                    /\ \A c \in Cns : ci[c].connected => ci'[c].spectator = ci[c].spectator
  PROVE  IInv'
<1>1. Balance(None) /\ \A c \in Cns : None[c] = 0
  BY NothingGained DEF None, IInv
<1>2. \A c \in Cns : Debts[c] \in Int /\ Dues[c] \in Int
  BY Numbers DEF IInv, Integral
<1>3. ASSUME NEW c \in Cns
      PROVE  /\ Debts'[c] + None[c] <= Debts[c]
             /\ ~lapsed' => Dues[c] <= None[c] + Dues'[c]
  <2>1. Debts'[c] = Debts[c]
    BY DEF Debts
  <2>2. ~lapsed' => Dues'[c] = Dues[c]
    BY DEF Dues
  <2> QED
    BY <1>1, <1>2, <2>1, <2>2
<1>4. /\ intermission' = intermission /\ intermission \in BOOLEAN
      /\ lapsed \in BOOLEAN /\ lapsed' \in BOOLEAN
  BY DEF IInv, TypeInv
<1> QED
  BY <1>1, <1>3, <1>4, Settles

\* Another name changes no account.
LEMMA SwitchNameInv ==
  ASSUME IInv, NEW c \in Cns, NEW name \in Names, SwitchName(c, name)
  PROVE  IInv'
<1> DEFINE p == [ci[c] EXCEPT !.name = name]
<1>1. /\ TypeInv /\ ci[c].connected
      /\ ci' = [ci EXCEPT ![c] = p]
      /\ UNCHANGED <<scores, table, intermission, earned, late, lapsed>>
  BY DEF SwitchName, IInv, Players, ghosts
<1>2. /\ p \in Player /\ p.connected = TRUE /\ p.frags = ci[c].frags
      /\ p.stats_saved = ci[c].stats_saved /\ p.spectator = ci[c].spectator
  <2>1. ci[c] \in Player
    BY <1>1, Fields
  <2> QED
    BY <2>1 DEF Player
<1> HIDE DEF p
<1>3. /\ ci' \in [Cns -> Player \cup {Free}] /\ ci'[c] = p
      /\ \A d \in Cns : d # c => ci'[d] = ci[d]
  BY <1>1, <1>2, Replaced
<1>4. TypeInv'
  BY <1>1, <1>3 DEF TypeInv
<1>5. lapsed \in BOOLEAN
  BY <1>1 DEF TypeInv
<1> QED
  BY <1>1, <1>2, <1>3, <1>4, <1>5, SameAccounts

\* What who watches has earned is not due any more, but that is a reason.
LEMMA SpectateInv ==
  ASSUME IInv, NEW c \in Cns, Spectate(c)
  PROVE  IInv'
<1> DEFINE p == [ci[c] EXCEPT !.spectator = ~@]
<1>1. /\ TypeInv /\ ci[c].connected
      /\ ci' = [ci EXCEPT ![c] = p] /\ lapsed' = TRUE
      /\ UNCHANGED <<scores, table, intermission, earned, late>>
  BY DEF Spectate, IInv, Players
<1>2. /\ p \in Player /\ p.connected = TRUE /\ p.frags = ci[c].frags
      /\ p.stats_saved = ci[c].stats_saved
  <2>1. ci[c] \in Player /\ ci[c].spectator \in BOOLEAN
    BY <1>1, Fields
  <2>2. (~ci[c].spectator) \in BOOLEAN
    OBVIOUS
  <2> QED
    BY <2>1, <2>2 DEF Player
<1> HIDE DEF p
<1>3. /\ ci' \in [Cns -> Player \cup {Free}] /\ ci'[c] = p
      /\ \A d \in Cns : d # c => ci'[d] = ci[d]
  BY <1>1, <1>2, Replaced
<1>4. TypeInv'
  BY <1>1, <1>3 DEF TypeInv
<1> QED
  BY <1>1, <1>2, <1>3, <1>4, SameAccounts

\* The time of a match is over: that is a reason.
LEMMA CheckintermissionInv ==
  ASSUME IInv, checkintermission
  PROVE  IInv'
<1>1. /\ lapsed' = TRUE /\ intermission' = TRUE
      /\ UNCHANGED <<ci, scores, table, earned, late>> /\ TypeInv /\ Bounded
  BY DEF checkintermission, IInv
<1>2. TypeInv'
  BY <1>1 DEF TypeInv
<1>3. Total' = Total /\ Debts' = Debts
  BY <1>1 DEF Total, Debts
<1>4. Bounded' /\ Kept'
  BY <1>1, <1>3 DEF Bounded, Kept
<1> QED
  BY <1>2, <1>4 DEF IInv

\* A client is gone, and its score with it, or is kept as 0: either all that it
\* had to save was saved, or there is a reason.
LEMMA LeavesInv ==
  ASSUME IInv, NEW c \in Players, NEW gain, Balance(gain),
         table' \in [Names -> Nat], UNCHANGED intermission,
         scores' = [scores EXCEPT ![<<ci[c].ip, ci[c].name>>] = 0],
         ci' = [ci EXCEPT ![c] = Free], lapsed' \in BOOLEAN,
         \A d \in Cns : d # c => gain[d] = 0,
         gain[c] <= Debts[c],
         lapsed' \/ (~lapsed /\ (intermission \/ Dues[c] <= gain[c]))
  PROVE  IInv'
<1>1. TypeInv /\ c \in Cns /\ ci[c].connected /\ Free.connected = FALSE
  BY DEF IInv, Players, Free
<1>2. /\ ci' \in [Cns -> Player \cup {Free}] /\ ci'[c] = Free
      /\ \A d \in Cns : d # c => ci'[d] = ci[d]
  BY <1>1, Replaced
<1>3. scores' \in [Ips \X Names -> {NoScore, 0}]
  <2>1. <<ci[c].ip, ci[c].name>> \in Ips \X Names
    BY <1>1, Fields
  <2> QED
    BY <1>1, <2>1 DEF TypeInv
<1>4. TypeInv'
  BY <1>1, <1>2, <1>3 DEF TypeInv, Balance
<1>5. \A d \in Cns : gain[d] \in Nat /\ Debts[d] \in Int /\ Dues[d] \in Int
  BY <1>1, Numbers DEF Balance, Integral
<1>6. Debts'[c] = 0 /\ Dues'[c] = 0
  BY <1>1, <1>2 DEF Debts, Dues
<1>7. ASSUME NEW d \in Cns
      PROVE  /\ Debts'[d] + gain[d] <= Debts[d]
             /\ ~lapsed' => intermission \/ Dues[d] <= gain[d] + Dues'[d]
  <2>1. CASE d = c
    BY <1>1, <1>2, <1>5, <1>6, <2>1
  <2>2. CASE d # c
    <3>1. Debts'[d] = Debts[d] /\ Dues'[d] = Dues[d]
      BY <1>2, <2>2 DEF Debts, Dues
    <3> QED
      BY <1>2, <1>5, <2>2, <3>1
  <2> QED
    BY <2>1, <2>2
<1>8. /\ intermission' = intermission /\ intermission \in BOOLEAN /\ lapsed \in BOOLEAN
  BY <1>1 DEF TypeInv
<1> QED
  BY <1>4, <1>7, <1>8, Settles

\* All that is due from whoever is saved is gained; nothing is due from those
\* who have nothing to save.
LEMMA GainsAre ==
  ASSUME IInv, NEW S, NEW c \in Cns
  PROVE  /\ c \in S \cap Unsaved => /\ ci[c].connected
                                   /\ Gains(S)[c] = Debts[c] /\ Gains(S)[c] = Dues[c]
         /\ ~ (c \in S \cap Unsaved) => Gains(S)[c] = 0
         /\ Gains(S)[c] <= Debts[c]
         /\ (c \in Unsaved => c \in S) => Dues[c] = Gains(S)[c]
<1>1. c \in Unsaved <=> ci[c].connected /\ ~ci[c].spectator /\ ~ci[c].stats_saved /\ ci[c].frags > 0
  BY DEF Unsaved, Players
<1>2. /\ Debts[c] \in Int /\ 0 <= Debts[c]
      /\ ci[c].connected => ci[c].frags \in Nat
  BY Numbers, DebtsCover, Fields DEF IInv, Integral
<1>3. CASE c \in S \cap Unsaved
  <2>1. Gains(S)[c] = ci[c].frags
    BY <1>3 DEF Gains
  <2>2. Debts[c] = ci[c].frags /\ Dues[c] = ci[c].frags
    BY <1>1, <1>3 DEF Debts, Dues
  <2> QED
    BY <1>1, <1>2, <1>3, <2>1, <2>2
<1>4. CASE ~ (c \in S \cap Unsaved)
  <2>1. Gains(S)[c] = 0
    BY <1>4 DEF Gains
  <2>2. ASSUME c \in Unsaved => c \in S PROVE Dues[c] = 0
    BY <1>1, <1>2, <1>4, <2>2 DEF Dues
  <2> QED
    BY <1>2, <1>4, <2>1, <2>2
<1> QED
  BY <1>3, <1>4

\* Who leaves is saved, unless the table is locked.
LEMMA ClientdisconnectInv ==
  ASSUME IInv, NEW c \in Cns, clientdisconnect(c)
  PROVE  IInv'
<1>1. PICK busy \in Busy : /\ table' = IF busy THEN table ELSE save({c})
                           /\ lapsed' = (lapsed \/ busy)
  BY DEF clientdisconnect
<1>2. /\ TypeInv /\ c \in Players /\ UNCHANGED <<intermission, earned, late>>
      /\ scores' = [scores EXCEPT ![<<ci[c].ip, ci[c].name>>] = 0]
      /\ ci' = [ci EXCEPT ![c] = Free]
  BY DEF clientdisconnect, IInv
<1>3. busy \in BOOLEAN /\ lapsed' \in BOOLEAN
  BY <1>1 DEF Busy
<1>4. CASE busy
  <2>1. table' = table /\ lapsed'
    BY <1>1, <1>4
  <2>2. Balance(None) /\ table' \in [Names -> Nat] /\ \A d \in Cns : None[d] = 0
    BY <1>2, <2>1, NothingGained DEF TypeInv, None
  <2>3. None[c] <= Debts[c]
    BY <1>2, <2>2, DebtsCover, Numbers DEF IInv, Integral
  <2> QED
    BY <1>2, <1>3, <2>1, <2>2, <2>3, LeavesInv
<1>5. CASE ~busy
  <2>1. table' = save({c}) /\ lapsed' = (lapsed \/ FALSE)
    BY <1>1, <1>3, <1>5
  <2>2. Balance(Gains({c})) /\ table' \in [Names -> Nat]
    BY <1>2, <2>1, SavedGained, SaveAdds
  <2>3. /\ \A d \in Cns : d # c => Gains({c})[d] = 0
        /\ Gains({c})[c] <= Debts[c]
    BY GainsAre
  <2>4. lapsed' \/ (~lapsed /\ (intermission \/ Dues[c] <= Gains({c})[c]))
    <3>1. Dues[c] = Gains({c})[c] /\ Dues[c] \in Int
      BY <1>2, GainsAre, Numbers DEF Integral
    <3>2. Dues[c] <= Gains({c})[c]
      BY <3>1
    <3> QED
      BY <2>1, <3>2
  <2> QED
    BY <1>2, <1>3, <2>2, <2>3, <2>4, LeavesInv
<1> QED
  BY <1>3, <1>4, <1>5

\* Who cheats is not saved, for a reason.
LEMMA KickFlagrunnerInv ==
  ASSUME IInv, NEW c \in Cns, KickFlagrunner(c)
  PROVE  IInv'
<1>1. /\ TypeInv /\ c \in Players /\ UNCHANGED <<table, intermission, earned, late>> /\ lapsed' = TRUE
      /\ scores' = [scores EXCEPT ![<<ci[c].ip, ci[c].name>>] = 0]
      /\ ci' = [ci EXCEPT ![c] = Free]
  BY DEF KickFlagrunner, IInv
<1>2. Balance(None) /\ table' \in [Names -> Nat] /\ \A d \in Cns : None[d] = 0
  BY <1>1, NothingGained DEF TypeInv, None
<1>3. None[c] <= Debts[c]
  BY <1>1, <1>2, DebtsCover, Numbers DEF IInv, Integral
<1> QED
  BY <1>1, <1>2, <1>3, LeavesInv

\* Saved marks the player.
LEMMA SavedIs ==
  ASSUME NEW c, ci[c] \in Player
  PROVE  Saved(c) \in Player /\ Saved(c).stats_saved = TRUE
  BY DEF Saved, Player

\* Players are saved: what was due from them is gained, from the others it is
\* due as before.
LEMMA SavesInv ==
  ASSUME IInv, NEW S \in SUBSET Unsaved, table' = save(S), earned' = earned, late' = late,
         scores' = scores, ci' = [c \in Cns |-> IF c \in S THEN Saved(c) ELSE ci[c]],
         intermission' \in BOOLEAN, lapsed' \in BOOLEAN,
         lapsed' \/ (~lapsed /\ (intermission' = intermission \/ S = Unsaved))
  PROVE  IInv'
<1>1. TypeInv /\ Balance(Gains(S)) /\ table' \in [Names -> Nat]
  BY SavedGained, SaveAdds DEF IInv
<1>2. ASSUME NEW c \in Cns
      PROVE  /\ ci'[c] \in Player \cup {Free}
             /\ Debts'[c] + Gains(S)[c] <= Debts[c]
             /\ Dues[c] <= Gains(S)[c] + Dues'[c]
             /\ S = Unsaved => Dues[c] <= Gains(S)[c]
  <2>1. Debts[c] \in Int /\ Dues[c] \in Int
    BY <1>1, Numbers DEF Integral
  <2>2. CASE c \in S
    <3>1. ci[c].connected /\ Gains(S)[c] = Debts[c] /\ Gains(S)[c] = Dues[c]
      BY <2>2, GainsAre
    <3>2. ci[c] \in Player /\ ci'[c] = Saved(c)
      BY <2>2, <3>1, Fields
    <3>3. ci'[c] \in Player /\ ci'[c].stats_saved = TRUE
      BY <3>2, SavedIs
    <3>4. Debts'[c] = 0 /\ Dues'[c] = 0
      BY <3>3 DEF Debts, Dues
    <3> QED
      BY <2>1, <3>1, <3>3, <3>4
  <2>3. CASE ~ (c \in S)
    <3>1. ci'[c] = ci[c] /\ ci[c] \in Player \cup {Free}
      BY <1>1, <2>3 DEF TypeInv
    <3>2. Gains(S)[c] = 0 /\ (S = Unsaved => Dues[c] = 0)
      BY <2>3, GainsAre
    <3>3. Debts'[c] = Debts[c] /\ Dues'[c] = Dues[c]
      BY <3>1 DEF Debts, Dues
    <3> QED
      BY <2>1, <3>1, <3>2, <3>3
  <2> QED
    BY <2>2, <2>3
<1>3. TypeInv'
  <2>1. ci' = [c \in Cns |-> ci'[c]]
    OBVIOUS
  <2>2. ci' \in [Cns -> Player \cup {Free}]
    BY <1>2, <2>1
  <2> QED
    BY <1>1, <2>2 DEF TypeInv
<1>4. \A c \in Cns : Gains(S)[c] \in Int /\ Dues[c] \in Int
  BY <1>1, Numbers DEF Balance, Integral
<1>5. intermission \in BOOLEAN
  BY <1>1 DEF TypeInv
<1>6. \/ lapsed'
      \/ /\ ~lapsed
         /\ \/ intermission
            \/ \A c \in Cns : Dues[c] <= Gains(S)[c] + (IF intermission' THEN 0 ELSE Dues'[c])
  <2>1. CASE lapsed'
    BY <2>1
  <2>2. CASE ~lapsed' /\ intermission' = intermission
    BY <1>2, <1>5, <2>2
  <2>3. CASE ~lapsed' /\ S = Unsaved
    <3>1. CASE intermission'
      BY <1>2, <1>4, <2>3, <3>1
    <3>2. CASE ~intermission'
      BY <1>2, <2>3, <3>2
    <3> QED
      BY <3>1, <3>2
  <2> QED
    BY <2>1, <2>2, <2>3
<1>7. ~Twins => \A c \in Cns : Debts'[c] + Gains(S)[c] <= Debts[c]
  BY <1>2
<1>8. Balance(Gains(S))
  BY <1>1
<1> QED
  BY <1>3, <1>6, <1>7, <1>8, Settles

\* Who asks is saved in the middle of a match: what it earns from then on is late.
LEMMA ShowStatsInv ==
  ASSUME IInv, NEW c \in Cns, NEW due \in BOOLEAN, ShowStats(c, due)
  PROVE  IInv'
<1>1. PICK busy \in Busy :
        IF due /\ c \in Unsaved /\ ~busy
        THEN table' = save({c}) /\ ci' = [ci EXCEPT ![c] = Saved(c)]
        ELSE UNCHANGED <<table, ci>>
  BY DEF ShowStats
<1>2. TypeInv /\ UNCHANGED <<scores, intermission, earned, late, lapsed>>
  BY DEF ShowStats, IInv, ghosts
<1>3. CASE due /\ c \in Unsaved /\ ~busy
  <2>1. table' = save({c}) /\ ci' = [ci EXCEPT ![c] = Saved(c)]
    BY <1>1, <1>3
  <2>2. ci' = [d \in Cns |-> IF d \in {c} THEN Saved(d) ELSE ci[d]]
    BY <1>2, <2>1 DEF TypeInv
  <2>3. /\ {c} \in SUBSET Unsaved /\ intermission' \in BOOLEAN /\ lapsed' \in BOOLEAN
        /\ lapsed' \/ ~lapsed
    BY <1>2, <1>3 DEF TypeInv
  <2> QED
    BY <1>2, <2>1, <2>2, <2>3, SavesInv
<1>4. CASE ~ (due /\ c \in Unsaved /\ ~busy)
  <2>1. UNCHANGED vars
    BY <1>1, <1>2, <1>4 DEF vars, ghosts
  <2> QED
    BY <2>1, UnchangedInv
<1> QED
  BY <1>3, <1>4

\* When the match is decided everybody is saved, unless the table is locked.
LEMMA StartintermissionInv ==
  ASSUME IInv, startintermission
  PROVE  IInv'
<1>1. PICK S \in SUBSET Unsaved :
        /\ table' = save(S)
        /\ ci' = [c \in Cns |-> IF c \in S THEN Saved(c) ELSE ci[c]]
        /\ lapsed' = (lapsed \/ S # Unsaved)
  BY DEF startintermission
<1>2. /\ TypeInv /\ intermission' = TRUE /\ UNCHANGED <<scores, earned, late>>
  BY DEF startintermission, IInv
<1>3. lapsed' \in BOOLEAN /\ (lapsed' \/ (~lapsed /\ S = Unsaved))
  BY <1>1
<1> QED
  BY <1>1, <1>2, <1>3, SavesInv

\* mapchange leaves a player with no frags.
LEMMA Forgotten ==
  ASSUME NEW c, ci[c] \in Player
  PROVE  mapchange(c) \in Player /\ mapchange(c).frags = 0
  BY DEF mapchange, Player

\* A new map: after an intermission all is in the table that is not late.
LEMMA ChangemapInv ==
  ASSUME IInv, changemap
  PROVE  IInv'
<1>1. /\ TypeInv /\ UNCHANGED <<table, earned, late>>
      /\ ci' = [c \in Cns |-> IF c \in Players THEN mapchange(c) ELSE ci[c]]
      /\ scores' = [key \in Ips \X Names |-> NoScore]
      /\ intermission' = FALSE /\ lapsed' = (lapsed \/ ~intermission)
  BY DEF changemap, IInv
<1>2. Balance(None) /\ \A c \in Cns : None[c] = 0
  BY <1>1, NothingGained DEF None
<1>3. ASSUME NEW c \in Cns
      PROVE  /\ ci'[c] \in Player \cup {Free}
             /\ ci'[c].connected => ci'[c].frags = 0
  <2>1. CASE ci[c].connected
    <3>1. ci[c] \in Player /\ c \in Players
      BY <2>1, Fields DEF Players
    <3>2. ci'[c] = mapchange(c)
      BY <1>1, <3>1
    <3> QED
      BY <3>1, <3>2, Forgotten
  <2>2. CASE ~ci[c].connected
    <3>1. ci'[c] = ci[c] /\ ci[c] = Free
      BY <1>1, <2>2, Slots DEF Players
    <3> QED
      BY <2>2, <3>1
  <2> QED
    BY <2>1, <2>2
<1>4. TypeInv'
  <2>1. ci' = [c \in Cns |-> ci'[c]]
    BY <1>1
  <2>2. ci' \in [Cns -> Player \cup {Free}]
    BY <1>3, <2>1
  <2> QED
    BY <1>1, <2>2 DEF TypeInv
<1>5. \A c \in Cns : Debts[c] \in Int /\ 0 <= Debts[c]
  BY <1>1, Numbers, DebtsCover DEF IInv, Integral
<1>6. ASSUME NEW c \in Cns PROVE Debts'[c] + None[c] <= Debts[c]
  <2>1. Debts'[c] = 0
    BY <1>3 DEF Debts
  <2> QED
    BY <1>2, <1>5, <2>1
<1>7. lapsed' \/ (~lapsed /\ intermission)
  BY <1>1
<1> QED
  BY <1>2, <1>3, <1>4, <1>6, <1>7, Settles

\* The server ends: everybody is saved, unless the table is locked.
LEMMA ServercloseInv ==
  ASSUME IInv, serverclose
  PROVE  IInv'
<1>1. PICK S \in SUBSET Unsaved : table' = save(S) /\ lapsed' = (lapsed \/ S # Unsaved)
  BY DEF serverclose
<1>2. /\ TypeInv /\ ci' = [c \in Cns |-> Free] /\ UNCHANGED <<earned, late>>
      /\ scores' = [key \in Ips \X Names |-> NoScore] /\ intermission' = FALSE
  BY DEF serverclose, IInv
<1>3. Balance(Gains(S)) /\ table' \in [Names -> Nat]
  BY <1>1, <1>2, SavedGained, SaveAdds
<1>4. \A c \in Cns : ci'[c] = Free /\ ci'[c].connected = FALSE
  BY <1>2 DEF Free
<1>5. TypeInv'
  BY <1>1, <1>2, <1>3 DEF TypeInv
<1>6. \A c \in Cns : Debts'[c] = 0 /\ Dues'[c] = 0
  BY <1>4 DEF Debts, Dues
<1>7. \A c \in Cns : Gains(S)[c] \in Int /\ Debts[c] \in Int /\ Dues[c] \in Int
  BY <1>2, <1>3, Numbers DEF Balance, Integral
<1>8. ASSUME NEW c \in Cns
      PROVE  /\ Debts'[c] + Gains(S)[c] <= Debts[c]
             /\ ~lapsed' => Dues[c] <= Gains(S)[c] + Dues'[c]
  <2>1. Gains(S)[c] <= Debts[c]
    BY GainsAre
  <2>2. ~lapsed' => Dues[c] = Gains(S)[c]
    BY <1>1, GainsAre
  <2> QED
    BY <1>6, <1>7, <2>1, <2>2
<1>9. lapsed' \/ (~lapsed /\ (intermission \/ \A c \in Cns : Dues[c] <= Gains(S)[c] + Dues'[c]))
  BY <1>1, <1>8
<1> QED
  BY <1>2, <1>3, <1>4, <1>5, <1>8, <1>9, Settles

-----------------------------------------------------------------------------
(***************************************************************************)
(* The invariant and what follows from it.                                 *)
(***************************************************************************)
\* At first nothing is earned and nothing is in the table.
LEMMA InitInv == Init => IInv
<1> SUFFICES ASSUME Init PROVE IInv
  OBVIOUS
<1>1. \A c \in Cns : ci[c] = Free /\ ci[c].connected = FALSE
  BY DEF Init, Free
<1>2. TypeInv
  BY DEF Init, TypeInv
<1>3. Debts = None /\ Dues = None
  BY <1>1 DEF Debts, Dues, None
<1>4. SumOf(None, Cns) = 0
  <2>1. IsFiniteSet(Cns) /\ \A c \in Cns : None[c] = 0
    BY StoreAssumption DEF None
  <2> QED
    BY <2>1, SumZero
<1>5. Total = 0
  <2>1. IsFiniteSet(Names) /\ \A name \in Names : table[name] = 0
    BY StoreAssumption DEF Init
  <2> QED
    BY <2>1, SumZero DEF Total
<1>6. earned = 0 /\ late = 0 /\ intermission = FALSE
  BY DEF Init
<1>7. Bounded /\ Kept
  BY <1>3, <1>4, <1>5, <1>6 DEF Bounded, Kept
<1> QED
  BY <1>2, <1>7 DEF IInv

\* Every step keeps the accounts.
LEMMA NextInv == IInv /\ [Next]_vars => IInv'
<1> SUFFICES ASSUME IInv, [Next]_vars PROVE IInv'
  OBVIOUS
<1>1. ASSUME NEW c \in Cns, NEW ip \in Ips, NEW name \in Names, Connect(c, ip, name) PROVE IInv'
  BY <1>1, ConnectInv
<1>2. ASSUME NEW c \in Cns, NEW name \in Names, SwitchName(c, name) PROVE IInv'
  BY <1>2, SwitchNameInv
<1>3. ASSUME NEW c \in Cns, NEW due \in BOOLEAN, ShowStats(c, due) PROVE IInv'
  BY <1>3, ShowStatsInv
<1>4. ASSUME NEW c \in Cns, Frag(c) PROVE IInv'
  BY <1>4, FragInv
<1>5. ASSUME NEW c \in Cns, Spectate(c) PROVE IInv'
  BY <1>5, SpectateInv
<1>6. ASSUME NEW c \in Cns, clientdisconnect(c) PROVE IInv'
  BY <1>6, ClientdisconnectInv
<1>7. ASSUME NEW c \in Cns, KickFlagrunner(c) PROVE IInv'
  BY <1>7, KickFlagrunnerInv
<1>8. CASE startintermission
  BY <1>8, StartintermissionInv
<1>9. CASE checkintermission
  BY <1>9, CheckintermissionInv
<1>10. CASE changemap
  BY <1>10, ChangemapInv
<1>11. CASE serverclose
  BY <1>11, ServercloseInv
<1>12. CASE UNCHANGED vars
  BY <1>12, UnchangedInv
<1> QED
  BY <1>1, <1>2, <1>3, <1>4, <1>5, <1>6, <1>7, <1>8, <1>9, <1>10, <1>11, <1>12 DEF Next

\* The accounts are kept in every state.
THEOREM Invariance == Spec => []IInv
<1> QED
  BY InitInv, NextInv, PTL DEF Spec

\* Without another reason to lose something, whatever was earned, but for what
\* was earned after a save or in an intermission, is in the table or belongs to a
\* connected player who was not saved yet.
THEOREM NothingIsLost == Spec => []NothingLost
<1>1. IInv => NothingLost
  <2> SUFFICES ASSUME IInv, ~lapsed PROVE Total + Pending + late >= earned
    BY DEF NothingLost, AllKept
  <2>1. TypeInv /\ Kept
    BY DEF IInv
  <2>2. /\ Pending = SumOf(Debts, Cns) /\ Total \in Int /\ earned \in Int /\ late \in Int
        /\ SumOf(Debts, Cns) \in Int /\ SumOf(Dues, Cns) \in Int
    BY <2>1, PendingIsDebts, Numbers DEF Integral, TypeInv
  <2>3. 0 <= SumOf(Dues, Cns) /\ SumOf(Dues, Cns) <= SumOf(Debts, Cns)
    BY <2>1, DebtsCover
  <2>4. Total + late >= earned \/ Total + SumOf(Dues, Cns) + late >= earned
    BY <2>1 DEF Kept
  <2> QED
    BY <2>2, <2>3, <2>4
<1> QED
  BY <1>1, Invariance, PTL

\* Where no two clients with one address play at once, nothing is in the table
\* or restored to a player twice.
THEOREM NothingIsDoubled == ~Twins => (Spec => []NothingTwice)
<1> SUFFICES ASSUME ~Twins PROVE Spec => []NothingTwice
  OBVIOUS
<1>1. IInv => NothingTwice
  BY PendingIsDebts DEF IInv, Bounded, NothingTwice
<1> QED
  BY <1>1, Invariance, PTL

-----------------------------------------------------------------------------
(***************************************************************************)
(* Folds.  The library's FoldLeft is a recursive function on the sets of   *)
(* indices; that it exists, and that it takes one element after the other, *)
(* follows by induction on the length of the sequence.                     *)
(***************************************************************************)
\* What holds of 0 and is passed on holds of every number up to n.
LEMMA Climb ==
  ASSUME NEW n \in Nat, NEW P, 0 \in P, \A k \in 0..(n - 1) : k \in P => k + 1 \in P
  PROVE  0..n \subseteq P
<1> SUFFICES ASSUME ~ (0..n \subseteq P) PROVE FALSE
  OBVIOUS
<1> DEFINE T == {k \in 0..n : ~ (k \in P)}
<1>1. T \in SUBSET Nat /\ T # {}
  OBVIOUS
<1>2. PICK m \in T : \A k \in T : m <= k
  BY <1>1, LeastNat
<1>3. m \in 0..n /\ ~ (m \in P) /\ m # 0
  BY <1>2
<1>4. m - 1 \in 0..(n - 1) /\ m - 1 + 1 = m
  BY <1>3
<1>5. m - 1 \in P
  <2>1. ~ (m <= m - 1) /\ m - 1 \in 0..n
    BY <1>3, <1>4
  <2> QED
    BY <1>2, <2>1
<1> QED
  BY <1>3, <1>4, <1>5

\* The greatest of a set of indices.
LEMMA MaxIs ==
  ASSUME NEW n \in Nat, NEW s \in SUBSET (1..n), s # {}
  PROVE  Max(s) \in s /\ \A x \in s : x <= Max(s)
<1> DEFINE T == {m \in Nat : \A x \in s : x <= m}
<1>1. T \in SUBSET Nat /\ n \in T
  OBVIOUS
<1>2. PICK m \in T : \A k \in T : m <= k
  BY <1>1, LeastNat
<1>3. m \in Nat /\ \A x \in s : x <= m /\ x \in Nat /\ x >= 1
  BY <1>2
<1>4. m \in s
  <2> SUFFICES ASSUME ~ (m \in s) PROVE FALSE
    OBVIOUS
  <2>1. ASSUME NEW x \in s PROVE x <= m - 1 /\ m - 1 \in Nat
    <3>1. x # m
      BY <2>1
    <3> QED
      BY <1>3, <3>1
  <2>2. m - 1 \in T
    BY <2>1
  <2>3. ~ (m <= m - 1)
    BY <1>3
  <2> QED
    BY <1>2, <2>2, <2>3
<1>5. \E x \in s : \A y \in s : x >= y
  BY <1>3, <1>4
<1> QED
  BY <1>3, <1>5 DEF Max

\* it is the function that FoldLeft is defined with.
Folds(it, base, G, n) ==
    \A s \in SUBSET (1..n) : it[s] = IF s = {} THEN base ELSE G[<<it[s \ {Max(s)}], Max(s)>>]

\* There is such a function.
LEMMA FoldExists ==
  ASSUME NEW W, NEW base \in W, NEW n \in Nat, NEW G \in [W \X (1..n) -> W]
  PROVE  \E it \in [SUBSET (1..n) -> W] : Folds(it, base, G, n)
<1> DEFINE P == {m \in 0..n : \E it \in [SUBSET (1..m) -> W] : Folds(it, base, G, m)}
<1>1. 0 \in P
  <2> DEFINE it == [s \in SUBSET (1..0) |-> base]
  <2>1. \A s \in SUBSET (1..0) : s = {}
    OBVIOUS
  <2>2. it \in [SUBSET (1..0) -> W] /\ Folds(it, base, G, 0)
    BY <2>1 DEF Folds
  <2> QED
    BY <2>2
<1>2. ASSUME NEW m \in 0..(n - 1), m \in P PROVE m + 1 \in P
  <2>1. PICK i \in [SUBSET (1..m) -> W] : Folds(i, base, G, m)
    BY <1>2
  <2> DEFINE k == m + 1
             j == [s \in SUBSET (1..k) |-> IF k \in s THEN G[<<i[s \ {k}], k>>] ELSE i[s]]
  <2>2. k \in 1..n /\ m \in Nat /\ k \in Nat /\ k = m + 1
    BY <1>2
  <2>8. ASSUME NEW s \in SUBSET (1..k), k \in s PROVE Max(s) = k
    <3>1. Max(s) \in s /\ k <= Max(s)
      BY <2>2, <2>8, MaxIs
    <3>2. Max(s) \in 1..k
      BY <3>1
    <3> QED
      BY <2>2, <3>1, <3>2
  <2> HIDE DEF k
  <2>3. ASSUME NEW s \in SUBSET (1..k)
        PROVE  /\ s \ {k} \in SUBSET (1..m)
               /\ ~ (k \in s) => s \in SUBSET (1..m)
    BY <2>2
  <2>4. j \in [SUBSET (1..k) -> W]
    <3>1. ASSUME NEW s \in SUBSET (1..k) PROVE (IF k \in s THEN G[<<i[s \ {k}], k>>] ELSE i[s]) \in W
      <4>1. CASE k \in s
        <5>1. i[s \ {k}] \in W
          BY <2>3
        <5> QED
          BY <2>2, <4>1, <5>1
      <4>2. CASE ~ (k \in s)
        BY <2>3, <4>2
      <4> QED
        BY <4>1, <4>2
    <3> QED
      BY <3>1
  <2>5. ASSUME NEW s \in SUBSET (1..k)
        PROVE  j[s] = IF s = {} THEN base ELSE G[<<j[s \ {Max(s)}], Max(s)>>]
    <3>1. CASE k \in s
      <4>2. Max(s) = k
        BY <3>1, <2>8
      <4>3. j[s \ {k}] = i[s \ {k}] /\ j[s] = G[<<i[s \ {k}], k>>]
        BY <3>1
      <4> QED
        BY <3>1, <4>2, <4>3
    <3>2. CASE ~ (k \in s)
      <4>1. s \in SUBSET (1..m) /\ j[s] = i[s]
        BY <2>3, <3>2
      <4>2. i[s] = IF s = {} THEN base ELSE G[<<i[s \ {Max(s)}], Max(s)>>]
        BY <2>1, <4>1 DEF Folds
      <4>3. j[s \ {Max(s)}] = i[s \ {Max(s)}]
        BY <3>2
      <4> QED
        BY <4>1, <4>2, <4>3
    <3> QED
      BY <3>1, <3>2
  <2> HIDE DEF j
  <2>6. Folds(j, base, G, k)
    BY <2>5 DEF Folds
  <2>7. k \in 0..n
    BY <2>2
  <2> QED
    BY <2>2, <2>4, <2>6, <2>7
<1> HIDE DEF P
<1>3. 0..n \subseteq P
  BY <1>1, <1>2, Climb
<1>4. n \in P
  BY <1>3
<1> QED
  BY <1>4 DEF P

\* The greatest of the first k indices is k.
LEMMA Intervals ==
  ASSUME NEW n \in Nat, NEW k \in 1..n
  PROVE  /\ 1..k \in SUBSET (1..n) /\ 1..k # {} /\ Max(1..k) = k
         /\ (1..k) \ {k} = 1..(k - 1) /\ k - 1 \in 0..(n - 1)
<1>1. 1..k \in SUBSET (1..n) /\ 1..k # {} /\ k \in 1..k
  OBVIOUS
<1>2. Max(1..k) \in 1..k /\ k <= Max(1..k)
  BY <1>1, MaxIs
<1>3. (1..k) \ {k} = 1..(k - 1) /\ k - 1 \in 0..(n - 1)
  OBVIOUS
<1> QED
  BY <1>1, <1>2, <1>3

\* A function that does on sets of indices what G does takes one element after
\* the other.
Obeys(j, base, G, n, W) ==
    /\ j[{}] = base
    /\ \A u \in SUBSET (1..n) :
          u # {} /\ j[u \ {Max(u)}] \in W => j[u] = G[<<j[u \ {Max(u)}], Max(u)>>]

\* t[k] is what the first k elements make of base.
Traces(t, base, G, n) == t[0] = base /\ \A k \in 1..n : t[k] = G[<<t[k - 1], k>>]

\* What j makes of the indices of a sequence it makes step by step.
LEMMA FoldSteps ==
  ASSUME NEW W, NEW base \in W, NEW n \in Nat, NEW G \in [W \X (1..n) -> W],
         NEW j, Obeys(j, base, G, n, W)
  PROVE  \E t \in [0..n -> W] : t[n] = j[1..n] /\ Traces(t, base, G, n)
<1>1. j[1..0] = base
  <2>1. 1..0 = {}
    OBVIOUS
  <2> QED
    BY <2>1 DEF Obeys
<1>2. ASSUME NEW k \in 1..n, j[1..(k - 1)] \in W
      PROVE  j[1..k] = G[<<j[1..(k - 1)], k>>] /\ j[1..k] \in W
  <2>1. 1..k \in SUBSET (1..n) /\ 1..k # {} /\ Max(1..k) = k /\ (1..k) \ {k} = 1..(k - 1)
    BY Intervals
  <2>2. j[1..k] = G[<<j[1..(k - 1)], k>>]
    BY <1>2, <2>1 DEF Obeys
  <2> QED
    BY <1>2, <2>2
<1> DEFINE P == {k \in 0..n : j[1..k] \in W}
<1>3. 0 \in P
  BY <1>1
<1>4. ASSUME NEW k \in 0..(n - 1), k \in P PROVE k + 1 \in P
  <2>1. k + 1 \in 1..n /\ k + 1 - 1 = k /\ k + 1 \in 0..n
    OBVIOUS
  <2> DEFINE m == k + 1
  <2>2. m \in 1..n /\ j[1..(m - 1)] \in W
    BY <1>4, <2>1
  <2> HIDE DEF m
  <2>3. j[1..m] \in W
    BY <1>2, <2>2
  <2> QED
    BY <2>1, <2>3 DEF m
<1>5. 0..n \subseteq P
  BY <1>3, <1>4, Climb
<1> DEFINE t == [k \in 0..n |-> j[1..k]]
<1>6. t \in [0..n -> W] /\ t[0] = base /\ t[n] = j[1..n]
  BY <1>1, <1>5
<1>7. ASSUME NEW k \in 1..n PROVE t[k] = G[<<t[k - 1], k>>]
  <2>1. k \in 0..n /\ k - 1 \in 0..n
    OBVIOUS
  <2>2. j[1..(k - 1)] \in W
    BY <1>5, <2>1
  <2> QED
    BY <1>2, <2>1, <2>2
<1> QED
  BY <1>6, <1>7 DEF Traces

\* One element less, the one at position i.
LEMMA Removed ==
  ASSUME NEW S, NEW s \in Seq(S), NEW i \in 1..Len(s)
  PROVE  /\ RemoveAt(s, i) \in Seq(S)
         /\ Len(RemoveAt(s, i)) = Len(s) - 1
         /\ \A j \in 1..Len(s) - 1 : RemoveAt(s, i)[j] = IF j < i THEN s[j] ELSE s[j + 1]
<1> DEFINE a == SubSeq(s, 1, i - 1)  b == SubSeq(s, i + 1, Len(s))
<1>1. Len(s) \in Nat /\ \A j \in 1..Len(s) : s[j] \in S
  OBVIOUS
<1>2. a \in Seq(S) /\ Len(a) = i - 1 /\ \A j \in 1..i - 1 : a[j] = s[j]
  BY <1>1, SubSeqProperties
<1>3. b \in Seq(S) /\ Len(b) = Len(s) - i /\ \A j \in 1..Len(s) - i : b[j] = s[i + j]
  BY <1>1, SubSeqProperties
<1>4. RemoveAt(s, i) = a \o b
  BY DEF RemoveAt
<1> HIDE DEF a, b
<1>5. /\ a \o b \in Seq(S) /\ Len(a \o b) = Len(a) + Len(b)
      /\ \A j \in 1..Len(a) + Len(b) :
            (a \o b)[j] = IF j <= Len(a) THEN a[j] ELSE b[j - Len(a)]
  BY <1>2, <1>3, ConcatProperties
<1>6. \A j \in i..Len(s) - 1 : b[j - (i - 1)] = s[j + 1]
  BY <1>1, <1>3
<1>7. Len(RemoveAt(s, i)) = Len(s) - 1 /\ RemoveAt(s, i) \in Seq(S)
  BY <1>1, <1>2, <1>3, <1>4, <1>5
<1>8. ASSUME NEW j \in 1..Len(s) - 1, j < i PROVE RemoveAt(s, i)[j] = s[j]
  BY <1>1, <1>2, <1>3, <1>4, <1>5, <1>8
<1>9. ASSUME NEW j \in 1..Len(s) - 1, ~(j < i) PROVE RemoveAt(s, i)[j] = s[j + 1]
  <2>1. j \in 1..Len(a) + Len(b) /\ ~(j <= Len(a)) /\ Len(a) = i - 1 /\ j \in i..Len(s) - 1
    BY <1>1, <1>2, <1>3, <1>9
  <2>2. (a \o b)[j] = b[j - (i - 1)]
    BY <1>5, <2>1
  <2> QED
    BY <1>4, <1>6, <2>1, <2>2
<1> QED
  BY <1>1, <1>7, <1>8, <1>9

-----------------------------------------------------------------------------
(***************************************************************************)
(* Lists that hold nothing twice.                                          *)
(***************************************************************************)
Once(s) == \A i, j \in DOMAIN s : s[i] = s[j] => i = j

\* The least of a set of naturals.
LEMMA MinIs ==
  ASSUME NEW s \in SUBSET Nat, s # {}
  PROVE  Min(s) \in s /\ \A x \in s : Min(s) <= x
<1>1. \E x \in s : \A y \in s : x <= y
  BY LeastNat
<1> QED
  BY <1>1 DEF Min

\* One element more at the end.
LEMMA Appended ==
  ASSUME NEW S, NEW s \in Seq(S), NEW e \in S, Once(s), e \notin ToSet(s)
  PROVE  /\ Append(s, e) \in Seq(S) /\ Once(Append(s, e))
         /\ \A c : c \in ToSet(Append(s, e)) <=> c \in ToSet(s) \/ c = e
<1> DEFINE r == Append(s, e)
<1>1. /\ r \in Seq(S) /\ Len(r) = Len(s) + 1 /\ DOMAIN r = 1..Len(s) + 1 /\ DOMAIN s = 1..Len(s)
      /\ Len(s) \in Nat /\ r[Len(s) + 1] = e /\ \A i \in 1..Len(s) : r[i] = s[i]
  OBVIOUS
<1> HIDE DEF r
<1>2. \A i \in 1..Len(s) + 1 : i \in 1..Len(s) \/ i = Len(s) + 1
  BY <1>1
<1>3. \A i \in 1..Len(s) : s[i] # e /\ i \in 1..Len(s) + 1 /\ Len(s) + 1 \in 1..Len(s) + 1
  BY <1>1 DEF ToSet
<1>4. Once(r)
  BY <1>1, <1>2, <1>3 DEF Once
<1>5. ASSUME NEW c PROVE c \in ToSet(r) <=> c \in ToSet(s) \/ c = e
  <2>1. Len(s) + 1 \in 1..Len(s) + 1
    BY <1>1
  <2> QED
    BY <1>1, <1>2, <1>3, <2>1 DEF ToSet
<1> QED
  BY <1>1, <1>4, <1>5 DEF r

\* One element less.
LEMMA Taken ==
  ASSUME NEW S, NEW s \in Seq(S), NEW e \in ToSet(s), Once(s)
  PROVE  /\ RemoveFirst(s, e) \in Seq(S) /\ Once(RemoveFirst(s, e))
         /\ \A c : c \in ToSet(RemoveFirst(s, e)) <=> c \in ToSet(s) /\ c # e
<1> DEFINE I == {i \in 1..Len(s) : s[i] = e}
           i == Min(I)
           r == RemoveAt(s, i)
<1>1. DOMAIN s = 1..Len(s) /\ Len(s) \in Nat
  OBVIOUS
<1>2. I # {} /\ I \in SUBSET Nat
  BY <1>1 DEF ToSet
<1>3. i \in I
  BY <1>2, MinIs
<1>4. RemoveFirst(s, e) = r
  BY <1>2 DEF RemoveFirst, SelectInSeq
<1>5. i \in 1..Len(s) /\ s[i] = e
  BY <1>3
<1> HIDE DEF i
<1>6. /\ r \in Seq(S) /\ Len(r) = Len(s) - 1
      /\ \A j \in 1..Len(s) - 1 : r[j] = IF j < i THEN s[j] ELSE s[j + 1]
  BY <1>5, Removed
<1> HIDE DEF r
<1>7. DOMAIN r = 1..Len(s) - 1
  BY <1>6
<1> DEFINE at(j) == IF j < i THEN j ELSE j + 1
<1>8. ASSUME NEW j \in 1..Len(s) - 1 PROVE r[j] = s[at(j)] /\ at(j) \in 1..Len(s) /\ at(j) # i
  BY <1>1, <1>5, <1>6
<1>9. ASSUME NEW j \in 1..Len(s) - 1, NEW k \in 1..Len(s) - 1, at(j) = at(k) PROVE j = k
  BY <1>1, <1>5, <1>9
<1>10. ASSUME NEW k \in 1..Len(s), k # i PROVE \E j \in 1..Len(s) - 1 : at(j) = k
  <2>1. CASE k < i
    <3>1. k \in 1..Len(s) - 1 /\ at(k) = k
      BY <1>1, <1>5, <2>1
    <3> QED
      BY <3>1
  <2>2. CASE k > i
    <3>1. k - 1 \in 1..Len(s) - 1 /\ at(k - 1) = k
      BY <1>1, <1>5, <2>2
    <3> QED
      BY <3>1
  <2> QED
    BY <1>1, <1>5, <1>10, <2>1, <2>2
<1> HIDE DEF at
<1>11. Once(r)
  BY <1>1, <1>7, <1>8, <1>9 DEF Once
<1>12. ASSUME NEW c PROVE c \in ToSet(r) <=> c \in ToSet(s) /\ c # e
  <2>1. ASSUME c \in ToSet(r) PROVE c \in ToSet(s) /\ c # e
    <3>1. PICK j \in 1..Len(s) - 1 : c = r[j]
      BY <1>7, <2>1 DEF ToSet
    <3> QED
      BY <1>1, <1>5, <1>8, <3>1 DEF ToSet, Once
  <2>2. ASSUME c \in ToSet(s), c # e PROVE c \in ToSet(r)
    <3>1. PICK k \in 1..Len(s) : c = s[k] /\ k # i
      BY <1>1, <1>5, <2>2 DEF ToSet
    <3>2. PICK j \in 1..Len(s) - 1 : at(j) = k
      BY <1>10, <3>1
    <3> QED
      BY <1>7, <1>8, <3>1, <3>2 DEF ToSet
  <2> QED
    BY <2>1, <2>2
<1> QED
  BY <1>4, <1>6, <1>11, <1>12

\* A list that holds nothing twice is as long as it has elements.
LEMMA Counted ==
  ASSUME NEW S, NEW s \in Seq(S), Once(s)
  PROVE  Cardinality(ToSet(s)) = Len(s)
<1>1. Len(s) \in Nat /\ DOMAIN s = 1..Len(s) /\ s \in [1..Len(s) -> ToSet(s)]
  BY DEF ToSet
<1>2. IsFiniteSet(1..Len(s)) /\ Cardinality(1..Len(s)) = Len(s)
  <2>1. 1 \in Int /\ Len(s) \in Int
    BY <1>1
  <2>2. IsFiniteSet(1..Len(s)) /\ Cardinality(1..Len(s)) = IF 1 > Len(s) THEN 0 ELSE Len(s) - 1 + 1
    BY <2>1, FS_Interval
  <2> QED
    BY <1>1, <2>2
<1>3. s \in Bijection(1..Len(s), ToSet(s))
  BY <1>1 DEF Bijection, Injection, Surjection, IsInjective, ToSet, Once
<1>4. Cardinality(1..Len(s)) = Cardinality(ToSet(s))
  <2>1. IsFiniteSet(1..Len(s)) /\ ExistsBijection(1..Len(s), ToSet(s))
    BY <1>2, <1>3 DEF ExistsBijection
  <2> QED
    BY <2>1, FS_Bijection
<1> QED
  BY <1>2, <1>4

-----------------------------------------------------------------------------
(***************************************************************************)
(* The invariant of the relay.                                             *)
(***************************************************************************)
Items ==
    [no : Nat, from : Clients \cup {NoOne}, reliable : BOOLEAN, map : Nat, excused : BOOLEAN]

Positions == [ws : Nat, items : Seq(Items)]

Messages == [ws : Nat, items : Seq(Items), reliable : BOOLEAN, map : Nat]

\* What is on its way to a client; pos is finite as well.
Lines == [pos : SUBSET Positions, msg : Seq(Messages)]

\* The numbers of items, and what has each number once.
Nos(items) == {items[i].no : i \in DOMAIN items}

Single(items) == \A i, j \in DOMAIN items : items[i].no = items[j].no => i = j

LineNos(line) == UNION {Nos(p.items) : p \in All(line)}

\* An item belongs to who has said it, who is still there, or is excused.
Owed(items, c) ==
    \A i \in DOMAIN items : items[i].excused \/ (items[i].from = c /\ c \in Here)

NotFrom(items, c) == \A i \in DOMAIN items : items[i].excused \/ items[i].from # c

\* No message is in two packets, packets that use a buffer are not empty, and
\* nothing is behind a change of maps that was said before it.
InOrder(msg, m) ==
    /\ \A a \in DOMAIN msg : /\ Single(msg[a].items) /\ msg[a].map <= m
                             /\ msg[a].ws # NoBuffer => msg[a].items # <<>>
    /\ \A a, b \in DOMAIN msg : a # b => Nos(msg[a].items) \cap Nos(msg[b].items) = {}
    /\ \A a, b \in DOMAIN msg : a < b => \A i \in DOMAIN msg[b].items :
          msg[b].items[i].excused \/ msg[b].items[i].map >= msg[a].map

\* What is on its way to c.
LineOK(line, c, m) ==
    /\ line \in Lines /\ IsFiniteSet(line.pos)
    /\ InOrder(line.msg, m)
    /\ \A p \in All(line) : NotFrom(p.items, c)

\* Of what waits every number is there once, and its owner is there or it is
\* excused.
Distinct(what) ==
    /\ \A x \in Entities : Single(what[x])
    /\ \A x, y \in Entities : x # y => Nos(what[x]) \cap Nos(what[y]) = {}

Apart(pos, msg) ==
    /\ Distinct(pos) /\ Distinct(msg)
    /\ \A x, y \in Entities : Nos(pos[x]) \cap Nos(msg[y]) = {}

WaitOK ==
    /\ position \in [Entities -> Seq(Items)] /\ messages \in [Entities -> Seq(Items)]
    /\ Apart(position, messages)
    /\ \A x \in Entities : Owed(position[x], ownernum(x)) /\ Owed(messages[x], ownernum(x))
    /\ \A x \in Entities : \A i \in DOMAIN messages[x] :
          /\ messages[x][i].excused \/ messages[x][i].map = maps
          /\ messages[x][i].excused => ~messages[x][i].reliable
          /\ messages[x][i].reliable => reliablemessages

RestOK ==
    /\ clients \in Seq(Clients) /\ Once(clients)
    /\ owner \in [Bots -> Clients \cup {NoOne}]
    /\ reliablemessages \in BOOLEAN /\ maps \in Nat

\* The numbers of what waits for the world state when those in done have been
\* served on channel k.
Left(k, done) ==
    UNION ({Nos(position[x]) : x \in Entities \ (IF k = "pos" THEN done ELSE Served)}
           \cup {Nos(messages[x]) : x \in Entities \ (IF k = "pos" THEN {} ELSE done)})

\* The packets that point into the buffer w.
Uses(line, w) == UNION {{<<c, p>> : p \in {q \in All(line[c]) : q.ws = w}} : c \in Clients}

\* Nothing that is on its way has a number in T.
LinesOK(lines, T) == \A c \in Clients : LineOK(lines[c], c, maps) /\ LineNos(lines[c]) \cap T = {}

WireOK == wire \in [Clients -> Lines] /\ LinesOK(wire, Left("pos", {}))

UsesOK == \A w \in Buffers : worldstates[w] = Cardinality(Uses(wire, w))

\* The conjunction that every step preserves.
RelayInv == RestOK /\ WaitOK /\ WireOK /\ UsesOK
-----------------------------------------------------------------------------
(***************************************************************************)
(* Lists and windows.                                                      *)
(***************************************************************************)
\* A finite set as a list has every element once.
LEMMA Listed ==
  ASSUME NEW S, IsFiniteSet(S)
  PROVE  SetToSeq(S) \in Seq(S) /\ ToSet(SetToSeq(S)) = S /\ Once(SetToSeq(S))
<1> DEFINE n == Cardinality(S)
           q == SetToSeq(S)
<1>1. n \in Nat /\ ExistsBijection(1..n, S)
  BY FS_CardinalityType
<1>2. \E f \in [1..n -> S] : IsInjective(f)
  BY <1>1 DEF ExistsBijection, Bijection, Injection
<1>3. q \in [1..n -> S] /\ IsInjective(q)
  BY <1>2 DEF SetToSeq
<1> HIDE DEF q
<1>4. q \in Injection(1..n, S)
  BY <1>3 DEF Injection
<1>5. Cardinality(1..n) = n
  <2>1. 1 \in Int /\ n \in Int
    BY <1>1
  <2>2. Cardinality(1..n) = IF 1 > n THEN 0 ELSE n - 1 + 1
    BY <2>1, FS_Interval
  <2> QED
    BY <1>1, <2>2
<1>6. q \in Surjection(1..n, S)
  <2> DEFINE I == 1..n
  <2>1. q \in Injection(I, S) /\ Cardinality(I) = Cardinality(S)
    BY <1>4, <1>5
  <2> HIDE DEF I, n
  <2>2. q \in Surjection(I, S)
    BY <2>1, FS_Injection
  <2> QED
    BY <2>2 DEF I
<1> HIDE DEF n
<1>7. q \in Seq(S) /\ DOMAIN q = 1..n
  BY <1>1, <1>3
<1>8. ToSet(q) = S
  BY <1>6, <1>7 DEF ToSet, Surjection
<1>9. Once(q)
  BY <1>3 DEF Once, IsInjective
<1> QED
  BY <1>7, <1>8, <1>9 DEF q

\* r has what s has outside of the part from + 1 .. from + len, each place once.
Without(r, S, s, from, len) ==
    /\ r \in Seq(S)
    /\ \A k \in DOMAIN r : \E i \in DOMAIN s : r[k] = s[i] /\ (i <= from \/ i > from + len)
    /\ \A i \in DOMAIN s : i <= from \/ i > from + len => \E k \in DOMAIN r : r[k] = s[i]
    /\ \A k, j \in DOMAIN r : k # j =>
          \E i, m \in DOMAIN s : i # m /\ r[k] = s[i] /\ r[j] = s[m]

\* The window into the doubled list.
LEMMA WindowIs ==
  ASSUME NEW S, NEW s \in Seq(S), NEW from \in Nat, NEW len \in Nat, from + len <= Len(s),
         NEW r, r = SubSeq(s \o s, from + len + 1, from + Len(s))
  PROVE  Without(r, S, s, from, len)
<1> DEFINE n == Len(s)
           d == s \o s
           at(k) == IF from + len + k <= n THEN from + len + k ELSE from + len + k - n
<1>1. n \in Nat /\ DOMAIN s = 1..n
  OBVIOUS
<1>2. d \in Seq(S) /\ Len(d) = n + n /\ \A i \in 1..n + n : d[i] = IF i <= n THEN s[i] ELSE s[i - n]
  BY <1>1, ConcatProperties
<1>3. from + len + 1 \in 1..n + n + 1 /\ from + n \in 0..n + n /\ from + len <= from + n
  BY <1>1
<1> HIDE DEF n, d
<1>4. r = SubSeq(d, from + len + 1, from + n)
  BY DEF n, d
<1>5. r \in Seq(S) /\ Len(r) = n - len /\ \A k \in 1..n - len : r[k] = d[from + len + k]
  <2> DEFINE lo == from + len + 1
             hi == from + n
  <2>1. lo \in Int /\ hi \in Int /\ hi - lo + 1 = n - len /\ lo <= hi + 1 /\ n >= len
    BY <1>1 DEF n
  <2>2. \A i \in lo..hi : i \in 1..n + n
    BY <1>1 DEF n
  <2>3. \A i \in lo..hi : d[i] \in S
    <3>1. \A i \in 1..n + n : d[i] \in S
      BY <1>2
    <3> QED
      BY <2>2, <3>1
  <2>4. r = SubSeq(d, lo, hi)
    BY <1>4
  <2>6. \A k \in 1..n - len : lo + k - 1 = from + len + k
    BY <1>1 DEF lo
  <2> HIDE DEF lo, hi
  <2>5. /\ r \in Seq(S) /\ Len(r) = IF lo <= hi THEN hi - lo + 1 ELSE 0
        /\ \A k \in 1..(hi - lo + 1) : r[k] = d[lo + k - 1]
    <3>1. /\ SubSeq(d, lo, hi) \in Seq(S)
          /\ Len(SubSeq(d, lo, hi)) = IF lo <= hi THEN hi - lo + 1 ELSE 0
          /\ \A k \in 1..(hi - lo + 1) : SubSeq(d, lo, hi)[k] = d[lo + k - 1]
      <4>1. lo \in Int /\ hi \in Int
        BY <2>1
      <4> QED
        BY <4>1, <2>3, SubSeqProperties
    <3> QED
      BY <2>4, <3>1
  <2>7. Len(r) = n - len
    <3>1. Len(r) = IF lo <= hi THEN hi - lo + 1 ELSE 0
      BY <2>5
    <3> QED
      BY <1>1, <2>1, <3>1
  <2> QED
    BY <2>1, <2>5, <2>6, <2>7
<1>6. ASSUME NEW k \in 1..n - len
      PROVE  r[k] = s[at(k)] /\ at(k) \in 1..n /\ (at(k) <= from \/ at(k) > from + len)
  <2>1. from + len + k \in 1..n + n
    BY <1>1, <1>3
  <2>2. r[k] = IF from + len + k <= n THEN s[from + len + k] ELSE s[from + len + k - n]
    <3> DEFINE p == from + len + k
    <3>1. p \in 1..n + n
      BY <2>1
    <3>2. r[k] = d[p]
      BY <1>5
    <3> HIDE DEF p
    <3>3. r[k] = IF p <= n THEN s[p] ELSE s[p - n]
      BY <1>2, <3>1, <3>2
    <3> QED
      BY <1>1, <3>3 DEF p
  <2>3. at(k) \in 1..n /\ (at(k) <= from \/ at(k) > from + len)
    BY <1>1, from + len <= n DEF n
  <2> QED
    BY <2>2, <2>3
<1>7. ASSUME NEW k \in 1..n - len, NEW j \in 1..n - len, k # j PROVE at(k) # at(j)
  BY <1>1, <1>7, from + len <= n DEF n
<1>8. ASSUME NEW i \in 1..n, i <= from \/ i > from + len PROVE \E k \in 1..n - len : at(k) = i
  <2>1. CASE i > from + len
    <3>1. i - (from + len) \in 1..n - len /\ at(i - (from + len)) = i
      BY <1>1, <2>1
    <3> QED
      BY <3>1
  <2>2. CASE i <= from
    <3>1. i + n - (from + len) \in 1..n - len /\ at(i + n - (from + len)) = i
      BY <1>1, <2>2, from + len <= n DEF n
    <3> QED
      BY <3>1
  <2> QED
    BY <1>8, <2>1, <2>2
<1> HIDE DEF at
<1>9. DOMAIN r = 1..n - len /\ DOMAIN s = 1..n
  BY <1>1, <1>5
<1>10. ASSUME NEW k \in DOMAIN r PROVE \E i \in DOMAIN s : r[k] = s[i] /\ (i <= from \/ i > from + len)
  BY <1>6, <1>9
<1>11. ASSUME NEW i \in DOMAIN s, i <= from \/ i > from + len PROVE \E k \in DOMAIN r : r[k] = s[i]
  <2>1. PICK k \in 1..n - len : at(k) = i
    BY <1>8, <1>9, <1>11
  <2> QED
    BY <1>6, <1>9, <2>1
<1>12. ASSUME NEW k \in DOMAIN r, NEW j \in DOMAIN r, k # j
       PROVE  \E i, m \in DOMAIN s : i # m /\ r[k] = s[i] /\ r[j] = s[m]
  BY <1>6, <1>7, <1>9, <1>12
<1> QED
  BY <1>5, <1>10, <1>11, <1>12 DEF Without

\* The elements of b outside of the part.
Others(b, part) == {b[i] : i \in {j \in DOMAIN b : j <= part.from \/ j > part.from + part.len}}

Part == [from : Nat, len : Nat]

\* The part of c is in the buffer.
Fits(b, part) == part.from + part.len <= Len(b)

\* A packet for c has what is outside of its part.
LEMMA AllButIs ==
  ASSUME NEW acc, NEW c, acc.buf \in Seq(Items), acc.own[c] \in Part, Fits(acc.buf, acc.own[c])
  PROVE  /\ AllBut(acc, c) \in Seq(Items)
         /\ ToSet(AllBut(acc, c)) = Others(acc.buf, acc.own[c])
         /\ Single(acc.buf) => Single(AllBut(acc, c))
<1> DEFINE b == acc.buf
           from == acc.own[c].from
           len == acc.own[c].len
           r == AllBut(acc, c)
<1>1. b \in Seq(Items) /\ from \in Nat /\ len \in Nat /\ from + len <= Len(b)
  BY DEF Part, Fits
<1>2. r = SubSeq(b \o b, from + len + 1, from + Len(b))
  BY DEF AllBut
<1>3. Others(acc.buf, acc.own[c]) = {b[i] : i \in {j \in DOMAIN b : j <= from \/ j > from + len}}
  BY DEF Others
<1> HIDE DEF b, from, len, r
<1>4. Without(r, Items, b, from, len)
  BY <1>1, <1>2, WindowIs
<1>5. r \in Seq(Items)
  BY <1>4 DEF Without
<1>6. ToSet(r) = {b[i] : i \in {j \in DOMAIN b : j <= from \/ j > from + len}}
  <2>1. ASSUME NEW n, n \in ToSet(r) PROVE n \in {b[i] : i \in {j \in DOMAIN b : j <= from \/ j > from + len}}
    <3>1. PICK k \in DOMAIN r : n = r[k]
      BY <2>1 DEF ToSet
    <3> QED
      BY <1>4, <3>1 DEF Without
  <2>2. ASSUME NEW n, n \in {b[i] : i \in {j \in DOMAIN b : j <= from \/ j > from + len}} PROVE n \in ToSet(r)
    <3>1. PICK i \in DOMAIN b : n = b[i] /\ (i <= from \/ i > from + len)
      BY <2>2
    <3>2. PICK k \in DOMAIN r : r[k] = b[i]
      BY <1>4, <3>1 DEF Without
    <3> QED
      BY <3>1, <3>2 DEF ToSet
  <2> QED
    BY <2>1, <2>2
<1>7. ASSUME Single(b) PROVE Single(r)
  <2>1. ASSUME NEW k \in DOMAIN r, NEW j \in DOMAIN r, k # j PROVE r[k].no # r[j].no
    <3>1. PICK i \in DOMAIN b, m \in DOMAIN b : i # m /\ r[k] = b[i] /\ r[j] = b[m]
      BY <1>4, <2>1 DEF Without
    <3> QED
      BY <1>7, <3>1 DEF Single
  <2> QED
    BY <2>1 DEF Single
<1> QED
  BY <1>3, <1>5, <1>6, <1>7 DEF b, r

\* What is outside of a part is in the buffer.
LEMMA OthersIn ==
  ASSUME NEW b, NEW part
  PROVE  Others(b, part) \subseteq ToSet(b)
<1> QED
  BY DEF Others, ToSet

\* The elements of two lists.
LEMMA Joined ==
  ASSUME NEW S, NEW b \in Seq(S), NEW s \in Seq(S)
  PROVE  /\ b \o s \in Seq(S) /\ Len(b \o s) = Len(b) + Len(s)
         /\ \A i \in DOMAIN b : i \in DOMAIN (b \o s) /\ (b \o s)[i] = b[i] /\ i <= Len(b)
         /\ \A i \in DOMAIN s : Len(b) + i \in DOMAIN (b \o s) /\ (b \o s)[Len(b) + i] = s[i]
         /\ \A i \in DOMAIN (b \o s) :
               \/ i \in DOMAIN b /\ (b \o s)[i] = b[i]
               \/ \E k \in DOMAIN s : i = Len(b) + k /\ (b \o s)[i] = s[k]
<1> DEFINE r == b \o s
<1>1. /\ Len(b) \in Nat /\ Len(s) \in Nat /\ DOMAIN b = 1..Len(b) /\ DOMAIN s = 1..Len(s)
  OBVIOUS
<1>2. /\ r \in Seq(S) /\ Len(r) = Len(b) + Len(s)
      /\ \A i \in 1..Len(b) + Len(s) : r[i] = IF i <= Len(b) THEN b[i] ELSE s[i - Len(b)]
  BY ConcatProperties
<1>3. DOMAIN r = 1..Len(b) + Len(s)
  BY <1>2
<1> HIDE DEF r
<1>4. ASSUME NEW i \in DOMAIN b PROVE i \in DOMAIN r /\ r[i] = b[i] /\ i <= Len(b)
  BY <1>1, <1>2, <1>3
<1>5. ASSUME NEW i \in DOMAIN s PROVE Len(b) + i \in DOMAIN r /\ r[Len(b) + i] = s[i]
  <2> DEFINE k == Len(b) + i
  <2>1. k \in 1..Len(b) + Len(s) /\ ~ (k <= Len(b)) /\ k - Len(b) = i
    BY <1>1
  <2> HIDE DEF k
  <2>2. k \in DOMAIN r /\ r[k] = s[i]
    BY <1>2, <1>3, <2>1
  <2> QED
    BY <2>2 DEF k
<1>6. ASSUME NEW i \in DOMAIN r
      PROVE  \/ i \in DOMAIN b /\ r[i] = b[i]
             \/ \E k \in DOMAIN s : i = Len(b) + k /\ r[i] = s[k]
  <2>1. CASE i <= Len(b)
    <3>1. i \in DOMAIN b
      BY <1>1, <1>3, <2>1
    <3> QED
      BY <1>4, <3>1
  <2>2. CASE ~ (i <= Len(b))
    <3>1. i - Len(b) \in DOMAIN s /\ i = Len(b) + (i - Len(b)) /\ r[i] = s[i - Len(b)]
      BY <1>1, <1>2, <1>3, <2>2
    <3> QED
      BY <3>1
  <2> QED
    BY <2>1, <2>2
<1> QED
  BY <1>2, <1>4, <1>5, <1>6 DEF r

\* Something is added that does not belong to the part.
LEMMA OthersAdded ==
  ASSUME NEW S, NEW b \in Seq(S), NEW s \in Seq(S), NEW part \in Part, Fits(b, part)
  PROVE  Others(b \o s, part) = Others(b, part) \cup ToSet(s) /\ Fits(b \o s, part)
<1> DEFINE r == b \o s
           from == part.from
           len == part.len
           n == Len(b)
<1>1. /\ r \in Seq(S) /\ Len(r) = n + Len(s)
      /\ \A i \in DOMAIN b : i \in DOMAIN r /\ r[i] = b[i] /\ i <= n
      /\ \A i \in DOMAIN s : n + i \in DOMAIN r /\ r[n + i] = s[i]
      /\ \A i \in DOMAIN r : \/ i \in DOMAIN b /\ r[i] = b[i]
                             \/ \E k \in DOMAIN s : i = n + k /\ r[i] = s[k]
  BY Joined
<1>2. from \in Nat /\ len \in Nat /\ n \in Nat /\ Len(s) \in Nat /\ from + len <= n
  BY DEF Part, Fits
<1>3. \A k \in DOMAIN s : k \in Nat /\ k >= 1
  OBVIOUS
<1>4. /\ Others(b, part) = {b[i] : i \in {j \in DOMAIN b : j <= from \/ j > from + len}}
      /\ Others(r, part) = {r[i] : i \in {j \in DOMAIN r : j <= from \/ j > from + len}}
  BY DEF Others
<1>5. Fits(r, part) <=> from + len <= Len(r)
  BY DEF Fits
<1> HIDE DEF r, from, len, n
<1>6. ASSUME NEW e, e \in Others(r, part) PROVE e \in Others(b, part) \cup ToSet(s)
  <2>1. PICK i \in DOMAIN r : e = r[i] /\ (i <= from \/ i > from + len)
    BY <1>4, <1>6
  <2>2. CASE i \in DOMAIN b /\ r[i] = b[i]
    BY <1>4, <2>1, <2>2
  <2>3. CASE \E k \in DOMAIN s : i = n + k /\ r[i] = s[k]
    BY <2>1, <2>3 DEF ToSet
  <2> QED
    BY <1>1, <2>2, <2>3
<1>7. ASSUME NEW e, e \in Others(b, part) PROVE e \in Others(r, part)
  <2>1. PICK i \in DOMAIN b : e = b[i] /\ (i <= from \/ i > from + len)
    BY <1>4, <1>7
  <2> QED
    BY <1>1, <1>4, <2>1
<1>8. ASSUME NEW e, e \in ToSet(s) PROVE e \in Others(r, part)
  <2>1. PICK k \in DOMAIN s : e = s[k]
    BY <1>8 DEF ToSet
  <2> DEFINE i == n + k
  <2>2. i > from + len
    BY <1>2, <1>3
  <2>3. i \in DOMAIN r /\ r[i] = s[k]
    BY <1>1
  <2> HIDE DEF i
  <2> QED
    BY <1>4, <2>1, <2>2, <2>3
<1>9. Others(r, part) = Others(b, part) \cup ToSet(s)
  BY <1>6, <1>7, <1>8
<1>10. Fits(r, part)
  BY <1>1, <1>2, <1>5
<1> QED
  BY <1>9, <1>10 DEF r

\* The part that is at the end of the buffer, or is none yet.
Current(b, part) == part.len = 0 \/ part.from + part.len = Len(b)

Grown(b, s, part) ==
    IF part.len = 0 THEN [from |-> Len(b), len |-> Len(s)]
    ELSE [from |-> part.from, len |-> part.len + Len(s)]

\* Something is added that belongs to it.
LEMMA OthersKept ==
  ASSUME NEW S, NEW b \in Seq(S), NEW s \in Seq(S), NEW part \in Part, Fits(b, part), Current(b, part)
  PROVE  /\ Others(b \o s, Grown(b, s, part)) = Others(b, part)
         /\ Grown(b, s, part) \in Part /\ Fits(b \o s, Grown(b, s, part))
         /\ Current(b \o s, Grown(b, s, part))
<1> DEFINE r == b \o s
           new == Grown(b, s, part)
           n == Len(b)
           from == new.from
           len == new.len
<1>1. /\ r \in Seq(S) /\ Len(r) = n + Len(s)
      /\ \A i \in DOMAIN b : i \in DOMAIN r /\ r[i] = b[i] /\ i <= n
      /\ \A i \in DOMAIN s : n + i \in DOMAIN r /\ r[n + i] = s[i]
      /\ \A i \in DOMAIN r : \/ i \in DOMAIN b /\ r[i] = b[i]
                             \/ \E k \in DOMAIN s : i = n + k /\ r[i] = s[k]
  BY Joined
<1>2. n \in Nat /\ Len(s) \in Nat /\ part.from \in Nat /\ part.len \in Nat
  BY DEF Part
<1>3. new \in Part
  BY <1>2 DEF Grown, Part
<1>4. from \in Nat /\ len \in Nat /\ from + len = Len(r) /\ from <= n
  <2>1. CASE part.len = 0
    BY <1>1, <1>2, <2>1 DEF Grown
  <2>2. CASE part.len # 0
    <3>1. part.from + part.len = n
      BY <2>2 DEF Current
    <3>2. from = part.from /\ len = part.len + Len(s)
      BY <2>2 DEF Grown
    <3>3. Len(r) = n + Len(s)
      BY <1>1
    <3> HIDE DEF r, from, len, n
    <3> DEFINE p == part.from
               q == part.len
               l == Len(s)
               m == Len(r)
    <3>4. /\ n \in Nat /\ l \in Nat /\ p \in Nat /\ q \in Nat
          /\ p + q = n /\ from = p /\ len = q + l /\ m = n + l
      BY <1>2, <3>1, <3>2, <3>3
    <3> HIDE DEF p, q, l, m
    <3>5. from \in Nat /\ len \in Nat /\ from + len = m /\ from <= n
      BY <3>4
    <3> QED
      BY <3>5 DEF m
  <2> QED
    BY <2>1, <2>2
<1>5. ASSUME NEW i \in 1..n PROVE (i <= from \/ i > from + len) <=> (i <= part.from \/ i > part.from + part.len)
  <2>1. CASE part.len = 0
    <3>1. from = n
      BY <2>1 DEF Grown
    <3>2. i <= from
      BY <1>2, <3>1
    <3>3. i <= part.from \/ i > part.from
      BY <1>2
    <3>4. part.from + part.len = part.from
      BY <1>2, <2>1
    <3> QED
      BY <3>2, <3>3, <3>4
  <2>2. CASE part.len # 0
    <3>1. part.from + part.len = n
      BY <2>2 DEF Current
    <3>2. from = part.from /\ len = part.len + Len(s)
      BY <2>2 DEF Grown
    <3>3. from + len >= n
      BY <1>2, <3>1, <3>2
    <3> QED
      BY <1>2, <1>4, <3>1, <3>2, <3>3
  <2> QED
    BY <2>1, <2>2
<1>6. /\ Others(b, part) = {b[i] : i \in {j \in DOMAIN b : j <= part.from \/ j > part.from + part.len}}
      /\ Others(r, new) = {r[i] : i \in {j \in DOMAIN r : j <= from \/ j > from + len}}
  BY DEF Others
<1>7. DOMAIN b = 1..n /\ DOMAIN r = 1..Len(r)
  BY <1>1
<1>8. Fits(r, new) /\ Current(r, new)
  BY <1>1, <1>2, <1>4 DEF Fits, Current
<1> HIDE DEF r, new, n, from, len
<1>9. ASSUME NEW e, e \in Others(r, new) PROVE e \in Others(b, part)
  <2>1. PICK i \in DOMAIN r : e = r[i] /\ (i <= from \/ i > from + len)
    BY <1>6, <1>9
  <2>2. i <= n
    BY <1>1, <1>2, <1>4, <1>7, <2>1
  <2>3. i \in 1..n /\ i \in DOMAIN b
    BY <1>1, <1>2, <1>7, <2>1, <2>2
  <2> QED
    BY <1>1, <1>5, <1>6, <2>1, <2>3
<1>10. ASSUME NEW e, e \in Others(b, part) PROVE e \in Others(r, new)
  <2>1. PICK i \in DOMAIN b : e = b[i] /\ (i <= part.from \/ i > part.from + part.len)
    BY <1>6, <1>10
  <2> QED
    BY <1>1, <1>5, <1>6, <1>7, <2>1
<1>11. Others(r, new) = Others(b, part)
  BY <1>9, <1>10
<1> QED
  BY <1>3, <1>8, <1>11 DEF r, new

-----------------------------------------------------------------------------
(***************************************************************************)
(* Apart, and the packets for one client.                                *)
(***************************************************************************)
\* The numbers of two lists, one after the other.
LEMMA NosJoined ==
  ASSUME NEW b \in Seq(Items), NEW s \in Seq(Items)
  PROVE  /\ Nos(b \o s) = Nos(b) \cup Nos(s) /\ ToSet(b \o s) = ToSet(b) \cup ToSet(s)
         /\ Single(b) /\ Single(s) /\ Nos(b) \cap Nos(s) = {} => Single(b \o s)
<1> DEFINE r == b \o s
           n == Len(b)
<1>1. /\ \A i \in DOMAIN b : i \in DOMAIN r /\ r[i] = b[i]
      /\ \A i \in DOMAIN s : n + i \in DOMAIN r /\ r[n + i] = s[i]
      /\ \A i \in DOMAIN r : \/ i \in DOMAIN b /\ r[i] = b[i]
                             \/ \E k \in DOMAIN s : i = n + k /\ r[i] = s[k]
  BY Joined
<1> HIDE DEF r, n
<1>2. ASSUME NEW i \in DOMAIN r
      PROVE  (\E k \in DOMAIN b : r[i] = b[k]) \/ (\E k \in DOMAIN s : r[i] = s[k])
  BY <1>1
<1>3. ASSUME NEW k \in DOMAIN b PROVE \E i \in DOMAIN r : r[i] = b[k]
  BY <1>1
<1>4. ASSUME NEW k \in DOMAIN s PROVE \E i \in DOMAIN r : r[i] = s[k]
  BY <1>1
<1>5. Nos(r) = Nos(b) \cup Nos(s)
  BY <1>2, <1>3, <1>4 DEF Nos
<1>6. ToSet(r) = ToSet(b) \cup ToSet(s)
  BY <1>2, <1>3, <1>4 DEF ToSet
<1>7. ASSUME Single(b), Single(s), Nos(b) \cap Nos(s) = {}, NEW i \in DOMAIN r, NEW j \in DOMAIN r,
             r[i].no = r[j].no
      PROVE  i = j
  <2>1. CASE i \in DOMAIN b /\ r[i] = b[i] /\ j \in DOMAIN b /\ r[j] = b[j]
    BY <1>7, <2>1 DEF Single
  <2>2. CASE i \in DOMAIN b /\ r[i] = b[i] /\ \E k \in DOMAIN s : j = n + k /\ r[j] = s[k]
    BY <1>7, <2>2 DEF Nos
  <2>3. CASE j \in DOMAIN b /\ r[j] = b[j] /\ \E k \in DOMAIN s : i = n + k /\ r[i] = s[k]
    BY <1>7, <2>3 DEF Nos
  <2>4. CASE (\E k \in DOMAIN s : i = n + k /\ r[i] = s[k]) /\ (\E k \in DOMAIN s : j = n + k /\ r[j] = s[k])
    <3>1. PICK k \in DOMAIN s : i = n + k /\ r[i] = s[k]
      BY <2>4
    <3>2. PICK l \in DOMAIN s : j = n + l /\ r[j] = s[l]
      BY <2>4
    <3>3. k = l
      BY <1>7, <3>1, <3>2 DEF Single
    <3> QED
      BY <3>1, <3>2, <3>3
  <2> QED
    BY <1>1, <2>1, <2>2, <2>3, <2>4
<1> QED
  BY <1>5, <1>6, <1>7 DEF r, Single

\* new has the packet p more than line.
OneMore(new, line, p) == All(new) = All(line) \cup {p}

\* The numbers of the packets for a client.
LEMMA Gained ==
  ASSUME NEW new, NEW line, NEW p, OneMore(new, line, p)
  PROVE  /\ LineNos(new) = LineNos(line) \cup Nos(p.items)
         /\ Nos(p.items) \cap LineNos(line) = {} /\ p.items \in Seq(Items) /\ p.items # <<>> => p \notin All(line)
<1>1. LineNos(new) = LineNos(line) \cup Nos(p.items)
  BY DEF OneMore, LineNos
<1>2. ASSUME Nos(p.items) \cap LineNos(line) = {}, p.items \in Seq(Items), p.items # <<>>, p \in All(line)
      PROVE  FALSE
  <2>1. Nos(p.items) \subseteq LineNos(line)
    BY <1>2 DEF LineNos
  <2>2. 1 \in DOMAIN p.items
    <3> DEFINE q == p.items
    <3>1. q \in Seq(Items) /\ q # <<>>
      BY <1>2
    <3> HIDE DEF q
    <3>2. 1 \in DOMAIN q
      BY <3>1
    <3> QED
      BY <3>2 DEF q
  <2>3. p.items[1].no \in Nos(p.items)
    BY <2>2 DEF Nos
  <2> QED
    BY <1>2, <2>1, <2>3
<1> QED
  BY <1>1, <1>2

PosPacket(w, items) == [ws |-> w, items |-> items]

MsgPacket(w, items, reliable, m) == [ws |-> w, items |-> items, reliable |-> reliable, map |-> m]

\* A packet of positions.
LEMMA PosGained ==
  ASSUME NEW line, NEW c, NEW m, LineOK(line, c, m), NEW w \in Nat, NEW items \in Seq(Items),
         NotFrom(items, c), NEW new, new = [line EXCEPT !.pos = @ \cup {PosPacket(w, items)}]
  PROVE  /\ LineOK(new, c, m) /\ OneMore(new, line, PosPacket(w, items))
         /\ new.msg = line.msg /\ new.pos = line.pos \cup {PosPacket(w, items)}
<1> DEFINE p == PosPacket(w, items)
<1>1. /\ line \in Lines /\ IsFiniteSet(line.pos) /\ InOrder(line.msg, m)
      /\ \A q \in All(line) : NotFrom(q.items, c)
  BY DEF LineOK
<1>2. p \in Positions /\ p.items = items
  BY DEF Positions, PosPacket
<1> HIDE DEF p
<1>3. new = [pos |-> line.pos \cup {p}, msg |-> line.msg]
  BY <1>1 DEF Lines, p
<1>4. new \in Lines /\ new.pos = line.pos \cup {p} /\ new.msg = line.msg
  BY <1>1, <1>2, <1>3 DEF Lines
<1>5. OneMore(new, line, p)
  BY <1>4 DEF OneMore, All
<1>6. IsFiniteSet(new.pos)
  <2> DEFINE A == line.pos
  <2>1. IsFiniteSet(A)
    BY <1>1
  <2> HIDE DEF A
  <2>2. IsFiniteSet(A \cup {p})
    BY <2>1, FS_AddElement
  <2> QED
    BY <1>4, <2>2 DEF A
<1>7. ASSUME NEW q \in All(new) PROVE NotFrom(q.items, c)
  <2>1. q \in All(line) \/ q = p
    BY <1>5, <1>7 DEF OneMore
  <2> QED
    BY <1>1, <1>2, <2>1
<1> QED
  BY <1>1, <1>4, <1>5, <1>6, <1>7 DEF LineOK, p

\* Nothing in items was said before the match m.
Timely(items, m) == \A i \in DOMAIN items : items[i].excused \/ items[i].map = m

\* What is appended is in order if it was said in this match and nobody was told.
LEMMA OrderKept ==
  ASSUME NEW msg \in Seq(Messages), NEW m \in Nat, InOrder(msg, m), NEW p \in Messages,
         Single(p.items), p.map <= m, p.ws # NoBuffer => p.items # <<>>, Timely(p.items, m),
         \A a \in DOMAIN msg : Nos(msg[a].items) \cap Nos(p.items) = {}
  PROVE  InOrder(Append(msg, p), m)
<1> DEFINE r == Append(msg, p)
           n == Len(msg) + 1
<1>1. /\ n \in Nat /\ DOMAIN r = 1..n /\ DOMAIN msg = 1..(n - 1) /\ r[n] = p
      /\ \A a \in 1..(n - 1) : r[a] = msg[a] /\ a # n /\ a \in 1..n
      /\ \A a \in 1..n : a \in 1..(n - 1) \/ a = n
      /\ \A a \in 1..(n - 1) : a < n
      /\ ~ (n < n)
  OBVIOUS
<1>2. \A a \in DOMAIN msg : ~ (n < a)
  BY <1>1
<1> HIDE DEF r, n
<1>3. \A a \in DOMAIN r : (a \in DOMAIN msg /\ r[a] = msg[a]) \/ (a = n /\ r[a] = p)
  <2> SUFFICES ASSUME NEW a \in DOMAIN r
               PROVE  (a \in DOMAIN msg /\ r[a] = msg[a]) \/ (a = n /\ r[a] = p)
    OBVIOUS
  <2>1. a \in 1..(n - 1) \/ a = n
    BY <1>1
  <2> QED
    BY <1>1, <2>1
<1>4. ASSUME NEW a \in DOMAIN r
      PROVE  Single(r[a].items) /\ r[a].map <= m /\ (r[a].ws # NoBuffer => r[a].items # <<>>)
  BY <1>3 DEF InOrder
<1>5. ASSUME NEW a \in DOMAIN r, NEW b \in DOMAIN r, a # b PROVE Nos(r[a].items) \cap Nos(r[b].items) = {}
  <2>1. CASE a \in DOMAIN msg /\ b \in DOMAIN msg /\ r[a] = msg[a] /\ r[b] = msg[b]
    BY <1>5, <2>1 DEF InOrder
  <2>2. CASE a \in DOMAIN msg /\ r[a] = msg[a] /\ r[b] = p
    BY <2>2
  <2>3. CASE b \in DOMAIN msg /\ r[b] = msg[b] /\ r[a] = p
    BY <2>3
  <2> QED
    BY <1>3, <1>5, <2>1, <2>2, <2>3
<1>6. ASSUME NEW a \in DOMAIN r, NEW b \in DOMAIN r, a < b, NEW i \in DOMAIN r[b].items
      PROVE  r[b].items[i].excused \/ r[b].items[i].map >= r[a].map
  <2>1. CASE a \in DOMAIN msg /\ b \in DOMAIN msg /\ r[a] = msg[a] /\ r[b] = msg[b]
    BY <1>6, <2>1 DEF InOrder
  <2>2. CASE a \in DOMAIN msg /\ r[a] = msg[a] /\ r[b] = p
    <3>3. msg[a] \in Messages
      BY <2>2
    <3>4. msg[a].map \in Nat
      BY <3>3 DEF Messages
    <3>1. r[a].map <= m /\ r[a].map \in Nat
      BY <1>4, <2>2, <3>4
    <3>2. r[b].items[i].excused \/ r[b].items[i].map = m
      BY <1>6, <2>2 DEF Timely
    <3> QED
      BY <3>1, <3>2
  <2>3. CASE a = n
    <3>1. b \in DOMAIN msg \/ b = n
      BY <1>3
    <3> QED
      BY <1>1, <1>2, <1>6, <2>3, <3>1
  <2> QED
    BY <1>1, <1>3, <1>6, <2>1, <2>2, <2>3
<1> QED
  BY <1>4, <1>5, <1>6 DEF InOrder, r

\* A packet that uses a buffer is not empty.
FilledIfUsed(p) == p.ws # NoBuffer => p.items # <<>>

\* A packet of messages.
LEMMA MsgGained ==
  ASSUME NEW line, NEW c, NEW m \in Nat, LineOK(line, c, m), NEW p \in Messages,
         NotFrom(p.items, c), Single(p.items), Timely(p.items, m), p.map <= m,
         FilledIfUsed(p),
         Nos(p.items) \cap LineNos(line) = {}, NEW new, new = [line EXCEPT !.msg = Append(@, p)]
  PROVE  /\ LineOK(new, c, m) /\ OneMore(new, line, p)
         /\ new.pos = line.pos /\ new.msg = Append(line.msg, p)
<1>1. /\ line \in Lines /\ IsFiniteSet(line.pos) /\ InOrder(line.msg, m)
      /\ \A q \in All(line) : NotFrom(q.items, c)
  BY DEF LineOK
<1> DEFINE r == Append(line.msg, p)
<1>2. line.msg \in Seq(Messages)
  BY <1>1 DEF Lines
<1>3. r \in Seq(Messages) /\ ToSet(r) = ToSet(line.msg) \cup {p}
  <2> DEFINE s == line.msg
  <2>1. s \in Seq(Messages)
    BY <1>2
  <2> HIDE DEF s
  <2>2. Append(s, p) \in Seq(Messages) /\ ToSet(Append(s, p)) = ToSet(s) \cup {p}
    <3>1. /\ Append(s, p) \in Seq(Messages) /\ DOMAIN Append(s, p) = 1..Len(s) + 1 /\ DOMAIN s = 1..Len(s)
          /\ Len(s) \in Nat /\ Append(s, p)[Len(s) + 1] = p /\ \A i \in 1..Len(s) : Append(s, p)[i] = s[i]
      BY <2>1
    <3>2. \A i \in 1..Len(s) + 1 : i \in 1..Len(s) \/ i = Len(s) + 1
      BY <3>1
    <3>3. Len(s) + 1 \in 1..Len(s) + 1 /\ \A i \in 1..Len(s) : i \in 1..Len(s) + 1
      BY <3>1
    <3> QED
      BY <3>1, <3>2, <3>3 DEF ToSet
  <2> QED
    BY <2>2 DEF s
<1>4. InOrder(r, m)
  <2>1. \A a \in DOMAIN line.msg : Nos(line.msg[a].items) \cap Nos(p.items) = {}
    BY DEF LineNos, All, ToSet
  <2> QED
    BY <1>1, <1>2, <2>1, OrderKept DEF FilledIfUsed
<1> HIDE DEF r
<1>5. new = [pos |-> line.pos, msg |-> r]
  BY <1>1 DEF Lines, r
<1>6. new \in Lines /\ new.pos = line.pos /\ new.msg = r
  <2>1. line.pos \in SUBSET Positions
    BY <1>1 DEF Lines
  <2>2. new.pos = line.pos /\ new.msg = r
    BY <1>5
  <2>3. new \in Lines
    <3> DEFINE A == line.pos
    <3>1. A \in SUBSET Positions /\ r \in Seq(Messages)
      BY <1>3, <2>1
    <3>2. new = [pos |-> A, msg |-> r]
      BY <1>5
    <3> HIDE DEF A
    <3>3. new.pos \in SUBSET Positions /\ new.msg \in Seq(Messages)
      BY <2>2, <3>1, Zenon DEF A
    <3> QED
      BY <3>1, <3>2, <3>3 DEF Lines
  <2> QED
    BY <2>2, <2>3
<1>7. OneMore(new, line, p)
  BY <1>3, <1>6 DEF OneMore, All
<1>8. ASSUME NEW q \in All(new) PROVE NotFrom(q.items, c)
  <2>1. q \in All(line) \/ q = p
    BY <1>7, <1>8 DEF OneMore
  <2> QED
    BY <1>1, <2>1
<1> QED
  BY <1>1, <1>4, <1>6, <1>7, <1>8 DEF LineOK, r

-----------------------------------------------------------------------------
(***************************************************************************)
(* The packets that use a buffer, and their number.                        *)
(***************************************************************************)
\* Who a packet in a buffer is for, and the packet.
LEMMA UsesHas ==
  ASSUME NEW lines, NEW w, NEW z
  PROVE  z \in Uses(lines, w) <=> \E c \in Clients : \E p \in All(lines[c]) : p.ws = w /\ z = <<c, p>>
<1> QED
  BY DEF Uses

\* All that is on its way is finite.
LEMMA LineFinite ==
  ASSUME NEW line, NEW c, NEW m, LineOK(line, c, m)
  PROVE  IsFiniteSet(All(line))
<1> DEFINE s == line.msg
           A == line.pos
           I == 1..Len(s)
<1>1. line \in Lines /\ IsFiniteSet(A)
  BY DEF LineOK
<1>2. s \in Seq(Messages)
  BY <1>1 DEF Lines
<1>3. All(line) = A \cup ToSet(s)
  BY DEF All
<1> HIDE DEF s, A
<1>4. Len(s) \in Nat /\ DOMAIN s = I
  BY <1>2
<1>5. IsFiniteSet(I)
  <2>1. 1 \in Int /\ Len(s) \in Int
    BY <1>4
  <2> QED
    BY <2>1, FS_Interval
<1> HIDE DEF I
<1>6. s \in Surjection(I, ToSet(s))
  <2>1. s \in [I -> ToSet(s)] /\ \A e \in ToSet(s) : \E i \in I : s[i] = e
    <3>1. ToSet(s) = {s[i] : i \in I}
      BY <1>4 DEF ToSet
    <3>2. s = [i \in I |-> s[i]]
      BY <1>2, <1>4
    <3> QED
      BY <3>1, <3>2
  <2> QED
    BY <2>1 DEF Surjection
<1>7. IsFiniteSet(ToSet(s))
  BY <1>5, <1>6, FS_Surjection
<1>8. IsFiniteSet(A \cup ToSet(s))
  BY <1>1, <1>7, FS_Union
<1> QED
  BY <1>3, <1>8

\* So are the uses of a buffer.
LEMMA UsesFinite ==
  ASSUME NEW lines, NEW w, \A c \in Clients : IsFiniteSet(All(lines[c]))
  PROVE  IsFiniteSet(Uses(lines, w))
<1> DEFINE of(c) == {<<c, p>> : p \in {q \in All(lines[c]) : q.ws = w}}
           f == [c \in Clients |-> of(c)]
           F == {of(c) : c \in Clients}
<1>1. ASSUME NEW c \in Clients PROVE IsFiniteSet(of(c))
  <2> DEFINE S == {q \in All(lines[c]) : q.ws = w}
             T == of(c)
             g == [p \in S |-> <<c, p>>]
  <2>1. IsFiniteSet(S)
    <3> DEFINE A == All(lines[c])
    <3>1. IsFiniteSet(A) /\ S \subseteq A
      OBVIOUS
    <3> HIDE DEF A, S
    <3> QED
      BY <3>1, FS_Subset
  <2>2. g \in Surjection(S, T)
    BY DEF Surjection
  <2> HIDE DEF S, T, g
  <2>3. IsFiniteSet(T)
    BY <2>1, <2>2, FS_Surjection
  <2> QED
    BY <2>3 DEF T
<1>2. f \in Surjection(Clients, F)
  BY DEF Surjection
<1>3. Uses(lines, w) = UNION F
  BY DEF Uses
<1>4. \A T \in F : IsFiniteSet(T)
  BY <1>1
<1>5. IsFiniteSet(Clients)
  BY RelayAssumption
<1> HIDE DEF f, F
<1>6. IsFiniteSet(F)
  BY <1>2, <1>5, FS_Surjection
<1>7. IsFiniteSet(UNION F)
  BY <1>4, <1>6, FS_UNION
<1> QED
  BY <1>3, <1>7

\* The packets to all of R are the first uses for them.
FirstUses(new, lines, R, P, w) ==
    /\ \A c \in R : OneMore(new[c], lines[c], P[c]) /\ P[c] \notin All(lines[c]) /\ P[c].ws = w
    /\ \A c \in Clients \ R : new[c] = lines[c]

\* Every packet is a use more.
LEMMA UsesGained ==
  ASSUME NEW lines, NEW new, NEW R \in SUBSET Clients, NEW P, NEW w, FirstUses(new, lines, R, P, w),
         IsFiniteSet(Uses(lines, w))
  PROVE  /\ Cardinality(Uses(new, w)) = Cardinality(Uses(lines, w)) + Cardinality(R)
         /\ \A v : v # w => Uses(new, v) = Uses(lines, v)
<1> DEFINE N == {<<c, P[c]>> : c \in R}
           U == Uses(lines, w)
           f == [c \in R |-> <<c, P[c]>>]
<1>1. ASSUME NEW c \in Clients, NEW p
      PROVE  p \in All(new[c]) <=> p \in All(lines[c]) \/ (c \in R /\ p = P[c])
  <2>1. CASE c \in R
    BY <2>1 DEF FirstUses, OneMore
  <2>2. CASE c \notin R
    BY <2>2 DEF FirstUses
  <2> QED
    BY <2>1, <2>2
<1>2. Uses(new, w) = U \cup N
  <2>1. ASSUME NEW z, z \in Uses(new, w) PROVE z \in U \cup N
    <3>1. PICK c, p : c \in Clients /\ p \in All(new[c]) /\ p.ws = w /\ z = <<c, p>>
      BY <2>1, UsesHas
    <3>2. CASE p \in All(lines[c])
      BY <3>1, <3>2, UsesHas
    <3>3. CASE c \in R /\ p = P[c]
      BY <3>1, <3>3
    <3> QED
      BY <1>1, <3>1, <3>2, <3>3
  <2>2. ASSUME NEW z, z \in U PROVE z \in Uses(new, w)
    <3>1. PICK c, p : c \in Clients /\ p \in All(lines[c]) /\ p.ws = w /\ z = <<c, p>>
      BY <2>2, UsesHas
    <3>2. p \in All(new[c])
      BY <1>1, <3>1
    <3> QED
      BY <3>1, <3>2, UsesHas
  <2>3. ASSUME NEW z, z \in N PROVE z \in Uses(new, w)
    <3>1. PICK c \in R : z = <<c, P[c]>>
      BY <2>3
    <3>2. P[c] \in All(new[c]) /\ P[c].ws = w
      BY <1>1, <3>1 DEF FirstUses
    <3> QED
      BY <3>1, <3>2, UsesHas
  <2> QED
    BY <2>1, <2>2, <2>3
<1>3. U \cap N = {}
  <2> SUFFICES ASSUME NEW z, z \in U, z \in N PROVE FALSE
    OBVIOUS
  <2>1. PICK c, p : c \in Clients /\ p \in All(lines[c]) /\ p.ws = w /\ z = <<c, p>>
    BY UsesHas
  <2>2. PICK d \in R : z = <<d, P[d]>>
    OBVIOUS
  <2>3. c = d /\ p = P[d]
    BY <2>1, <2>2
  <2> QED
    BY <2>1, <2>2, <2>3 DEF FirstUses
<1>4. IsFiniteSet(R)
  <2>1. IsFiniteSet(Clients)
    BY RelayAssumption
  <2> QED
    BY <2>1, FS_Subset
<1>5. f \in Bijection(R, N)
  BY DEF Bijection, Injection, Surjection, IsInjective
<1>6. ASSUME NEW v, v # w PROVE Uses(new, v) = Uses(lines, v)
  <2>1. ASSUME NEW z, z \in Uses(new, v) PROVE z \in Uses(lines, v)
    <3>1. PICK c, p : c \in Clients /\ p \in All(new[c]) /\ p.ws = v /\ z = <<c, p>>
      BY <2>1, UsesHas
    <3>2. p \in All(lines[c])
      BY <1>1, <1>6, <3>1 DEF FirstUses
    <3> QED
      BY <3>1, <3>2, UsesHas
  <2>2. ASSUME NEW z, z \in Uses(lines, v) PROVE z \in Uses(new, v)
    <3>1. PICK c, p : c \in Clients /\ p \in All(lines[c]) /\ p.ws = v /\ z = <<c, p>>
      BY <2>2, UsesHas
    <3>2. p \in All(new[c])
      BY <1>1, <3>1
    <3> QED
      BY <3>1, <3>2, UsesHas
  <2> QED
    BY <2>1, <2>2
<1> HIDE DEF N, U, f
<1>7. IsFiniteSet(N) /\ Cardinality(N) = Cardinality(R)
  <2>1. ExistsBijection(R, N)
    BY <1>5 DEF ExistsBijection
  <2> QED
    BY <1>4, <2>1, FS_Bijection
<1>8. IsFiniteSet(U)
  BY DEF U
<1>9. /\ Cardinality(U \cup N) = Cardinality(U) + Cardinality(N) - Cardinality(U \cap N)
      /\ Cardinality(U) \in Nat /\ Cardinality(N) \in Nat
  BY <1>7, <1>8, FS_Union, FS_CardinalityType
<1>10. Cardinality(U \cap N) = 0
  BY <1>3, FS_EmptySet
<1>11. Cardinality(U \cup N) = Cardinality(U) + Cardinality(N)
  BY <1>9, <1>10
<1> QED
  BY <1>2, <1>6, <1>7, <1>11 DEF U

\* In the buffer w, new lacks the packets of G that line has.
Lacks(new, line, w, G) ==
    /\ G \subseteq {q \in All(line) : q.ws = w}
    /\ {q \in All(new) : q.ws = w} = {q \in All(line) : q.ws = w} \ G

\* Packets that go are uses less.
LEMMA UsesLost ==
  ASSUME NEW lines, NEW new, NEW c \in Clients, NEW w, NEW G,
         \A d \in Clients \ {c} : new[d] = lines[d],
         Lacks(new[c], lines[c], w, G),
         IsFiniteSet(Uses(lines, w))
  PROVE  Cardinality(Uses(new, w)) = Cardinality(Uses(lines, w)) - Cardinality(G)
<1> USE DEF Lacks
<1> DEFINE N == {<<c, p>> : p \in G}
           U == Uses(lines, w)
           V == Uses(new, w)
           f == [p \in G |-> <<c, p>>]
<1>1. N \subseteq U
  <2> SUFFICES ASSUME NEW z, z \in N PROVE z \in U
    OBVIOUS
  <2>1. PICK p \in G : z = <<c, p>>
    OBVIOUS
  <2>2. p \in All(lines[c]) /\ p.ws = w
    BY <2>1
  <2> QED
    BY <2>1, <2>2, UsesHas
<1>2. V = U \ N
  <2>1. ASSUME NEW z, z \in V PROVE z \in U \ N
    <3>1. PICK d, p : d \in Clients /\ p \in All(new[d]) /\ p.ws = w /\ z = <<d, p>>
      BY <2>1, UsesHas
    <3>2. CASE d = c
      <4>1. p \in All(lines[c]) /\ p \notin G
        BY <3>1, <3>2
      <4>2. z \in U
        BY <3>1, <3>2, <4>1, UsesHas
      <4>3. z \notin N
        BY <3>1, <4>1
      <4> QED
        BY <4>2, <4>3
    <3>3. CASE d # c
      <4>1. p \in All(lines[d])
        BY <3>1, <3>3
      <4>2. z \in U
        BY <3>1, <4>1, UsesHas
      <4>3. z \notin N
        BY <3>1, <3>3
      <4> QED
        BY <4>2, <4>3
    <3> QED
      BY <3>2, <3>3
  <2>2. ASSUME NEW z, z \in U, z \notin N PROVE z \in V
    <3>1. PICK d, p : d \in Clients /\ p \in All(lines[d]) /\ p.ws = w /\ z = <<d, p>>
      BY <2>2, UsesHas
    <3>2. CASE d = c
      <4>1. p \notin G
        BY <2>2, <3>1, <3>2
      <4>2. p \in All(new[c])
        BY <3>1, <3>2, <4>1
      <4> QED
        BY <3>1, <3>2, <4>2, UsesHas
    <3>3. CASE d # c
      <4>1. p \in All(new[d])
        BY <3>1, <3>3
      <4> QED
        BY <3>1, <4>1, UsesHas
    <3> QED
      BY <3>2, <3>3
  <2> QED
    BY <2>1, <2>2
<1>3. f \in Bijection(G, N)
  BY DEF Bijection, Injection, Surjection, IsInjective
<1>4. IsFiniteSet(U)
  OBVIOUS
<1>5. Cardinality(Uses(lines, w)) = Cardinality(U) /\ Cardinality(Uses(new, w)) = Cardinality(V)
  OBVIOUS
<1>6. f \in Injection(G, N)
  BY <1>3 DEF Bijection
<1> HIDE DEF N, U, V, f
<1>7. IsFiniteSet(N)
  BY <1>1, <1>4, FS_Subset
<1>8. Cardinality(G) = Cardinality(N)
  <2>1. IsFiniteSet(G) /\ (Cardinality(G) = Cardinality(N) <=> f \in Surjection(G, N))
    BY <1>6, <1>7, FS_Injection
  <2>2. f \in Surjection(G, N)
    BY <1>3 DEF Bijection
  <2> QED
    BY <2>1, <2>2
<1>9. Cardinality(U \ N) = Cardinality(U) - Cardinality(U \cap N)
  BY <1>4, FS_Difference
<1>10. U \cap N = N
  BY <1>1
<1> QED
  BY <1>2, <1>5, <1>8, <1>9, <1>10

\* Packets that do not use the buffer make no difference.
LEMMA UsesSame ==
  ASSUME NEW lines, NEW new, NEW w,
         \A c \in Clients : {q \in All(new[c]) : q.ws = w} = {q \in All(lines[c]) : q.ws = w}
  PROVE  Uses(new, w) = Uses(lines, w)
<1> QED
  BY DEF Uses

-----------------------------------------------------------------------------
(***************************************************************************)
(* Sending a chunk.                                                        *)
(***************************************************************************)
Accs == [buf : Seq(Items), own : [Clients -> Part], uses : Nat, wire : [Clients -> Lines]]

\* Of what is not in the part of c nothing is of c.
PartsOK(acc) ==
    \A c \in Clients : /\ Fits(acc.buf, acc.own[c])
                       /\ \A n \in Others(acc.buf, acc.own[c]) : n.excused \/ n.from # c

ChunkOK(b, k, T) == Single(b) /\ Nos(b) \cap T = {} /\ (k = "msg" => Timely(b, maps))

\* What was counted for the buffer w; the others have the uses they had.
Count(lines, w, n) ==
    \A v \in Buffers : Cardinality(Uses(lines, v)) = IF v = w THEN n ELSE Cardinality(Uses(wire, v))

\* An accumulator, for channel k and the buffer w, when what has a number in T
\* is still to come.
AccOK(acc, w, k, T) ==
    /\ acc \in Accs /\ PartsOK(acc) /\ ChunkOK(acc.buf, k, T)
    /\ LinesOK(acc.wire, T \cup Nos(acc.buf)) /\ Count(acc.wire, w, acc.uses)

Packet(w, k, items) ==
    IF k = "pos" THEN PosPacket(w, items) ELSE MsgPacket(w, items, reliablemessages, 0)

\* One list has only elements of another one.
LEMMA Fewer ==
  ASSUME NEW r, NEW b, ToSet(r) \subseteq ToSet(b)
  PROVE  /\ Nos(r) \subseteq Nos(b)
         /\ \A m : Timely(b, m) => Timely(r, m)
<1>1. \A i \in DOMAIN r : \E j \in DOMAIN b : r[i] = b[j]
  BY DEF ToSet
<1> QED
  BY <1>1 DEF Nos, Timely

\* A packet for one client.
LEMMA SentOK ==
  ASSUME RestOK, NEW k \in {"pos", "msg"}, NEW w \in Nat, NEW c, NEW line, LineOK(line, c, maps),
         NEW items \in Seq(Items), items # <<>>, NotFrom(items, c), Single(items),
         k = "msg" => Timely(items, maps), Nos(items) \cap LineNos(line) = {},
         NEW new, new = Sent(line, w, k, items), NEW p, p = Packet(w, k, items)
  PROVE  /\ LineOK(new, c, maps) /\ OneMore(new, line, p) /\ p \notin All(line) /\ p.ws = w
         /\ LineNos(new) = LineNos(line) \cup Nos(items)
         /\ k = "msg" => new.msg = Append(line.msg, p) /\ p.items = items /\ p.reliable = reliablemessages
         /\ k = "pos" => new.msg = line.msg
<1>1. reliablemessages \in BOOLEAN /\ maps \in Nat
  BY DEF RestOK
<1>2. p.ws = w /\ p.items = items
  BY DEF Packet, PosPacket, MsgPacket
<1>3. CASE k = "pos"
  <2>1. p = PosPacket(w, items)
    BY <1>3 DEF Packet
  <2>2. new = [line EXCEPT !.pos = @ \cup {PosPacket(w, items)}]
    BY <1>3 DEF Sent, PosPacket
  <2>3. LineOK(new, c, maps) /\ OneMore(new, line, p) /\ new.msg = line.msg
    BY <2>1, <2>2, PosGained
  <2>4. LineNos(new) = LineNos(line) \cup Nos(p.items) /\ p \notin All(line)
    BY <1>2, <2>3, Gained
  <2> QED
    BY <1>2, <1>3, <2>3, <2>4
<1>4. CASE k = "msg"
  <2>1. p = MsgPacket(w, items, reliablemessages, 0)
    BY <1>4 DEF Packet
  <2>2. new = [line EXCEPT !.msg = Append(@, p)]
    BY <1>4, <2>1 DEF Sent, MsgPacket
  <2>3. p \in Messages /\ p.map = 0 /\ p.reliable = reliablemessages
    BY <1>1, <2>1 DEF MsgPacket, Messages
  <2>4. 0 <= maps
    BY <1>1
  <2>5. /\ NotFrom(p.items, c) /\ Single(p.items) /\ Timely(p.items, maps) /\ p.map <= maps
        /\ FilledIfUsed(p) /\ Nos(p.items) \cap LineNos(line) = {}
    BY <1>2, <1>4, <2>3, <2>4 DEF FilledIfUsed
  <2>6. LineOK(new, c, maps) /\ OneMore(new, line, p) /\ new.msg = Append(line.msg, p)
    BY <1>1, <2>2, <2>3, <2>5, MsgGained
  <2>7. LineNos(new) = LineNos(line) \cup Nos(p.items) /\ p \notin All(line)
    BY <1>2, <2>6, Gained
  <2> QED
    BY <1>2, <1>4, <2>3, <2>6, <2>7
<1> QED
  BY <1>3, <1>4

\* What a chunk has got for c.
LEMMA PacketFor ==
  ASSUME NEW w, NEW k, NEW T, NEW acc, AccOK(acc, w, k, T), NEW c \in Clients
  PROVE  /\ AllBut(acc, c) \in Seq(Items) /\ ToSet(AllBut(acc, c)) = Others(acc.buf, acc.own[c])
         /\ NotFrom(AllBut(acc, c), c) /\ Single(AllBut(acc, c))
         /\ Nos(AllBut(acc, c)) \subseteq Nos(acc.buf)
         /\ k = "msg" => Timely(AllBut(acc, c), maps)
         /\ Nos(AllBut(acc, c)) \cap LineNos(acc.wire[c]) = {}
         /\ LineOK(acc.wire[c], c, maps)
         /\ LineNos(acc.wire[c]) \cap T = {} /\ Nos(acc.buf) \cap T = {}
<1>1. acc.buf \in Seq(Items) /\ acc.own \in [Clients -> Part]
  BY DEF AccOK, Accs
<1>2. acc.own[c] \in Part /\ Fits(acc.buf, acc.own[c])
  BY <1>1 DEF AccOK, PartsOK
<1> DEFINE r == AllBut(acc, c)
<1>3. /\ r \in Seq(Items) /\ ToSet(r) = Others(acc.buf, acc.own[c])
      /\ Single(acc.buf) => Single(r)
  BY <1>1, <1>2, AllButIs
<1>4. ToSet(r) \subseteq ToSet(acc.buf)
  BY <1>3, OthersIn
<1>5. Single(acc.buf) /\ Nos(acc.buf) \cap T = {} /\ (k = "msg" => Timely(acc.buf, maps))
  BY DEF AccOK, ChunkOK
<1>6. LineOK(acc.wire[c], c, maps) /\ LineNos(acc.wire[c]) \cap (T \cup Nos(acc.buf)) = {}
  BY DEF AccOK, LinesOK
<1>7. \A n \in ToSet(r) : n.excused \/ n.from # c
  BY <1>3 DEF AccOK, PartsOK
<1> HIDE DEF r
<1>8. NotFrom(r, c)
  BY <1>7 DEF NotFrom, ToSet
<1>9. Nos(r) \subseteq Nos(acc.buf) /\ (k = "msg" => Timely(r, maps))
  BY <1>4, <1>5, Fewer
<1> QED
  BY <1>3, <1>5, <1>6, <1>8, <1>9 DEF r

\* Who gets a packet.
LEMMA DeliveredOK ==
  ASSUME RestOK, NEW k \in {"pos", "msg"}, NEW w \in Nat, NEW T, NEW acc, AccOK(acc, w, k, T),
         NEW new, new = Delivered(acc, w, k), NEW R, R = Receivers(acc)
  PROVE  /\ R \in SUBSET Clients
         /\ new \in [Clients -> Lines] /\ LinesOK(new, T)
         /\ FirstUses(new, acc.wire, R, [c \in R |-> Packet(w, k, AllBut(acc, c))], w)
         /\ \A c \in R : k = "msg" => new[c].msg = Append(acc.wire[c].msg, Packet(w, k, AllBut(acc, c)))
         /\ \A c \in Clients : k = "pos" => new[c].msg = acc.wire[c].msg
<1> DEFINE P == [c \in R |-> Packet(w, k, AllBut(acc, c))]
<1>1. R \in SUBSET Clients /\ \A c \in R : AllBut(acc, c) # <<>>
  <2>1. Here \subseteq Clients
    BY DEF RestOK, Here, ToSet
  <2> QED
    BY <2>1 DEF Receivers
<1>2. ASSUME NEW c \in R
      PROVE  /\ LineOK(new[c], c, maps) /\ OneMore(new[c], acc.wire[c], P[c]) /\ P[c] \notin All(acc.wire[c])
             /\ P[c].ws = w /\ LineNos(new[c]) \cap T = {}
             /\ k = "msg" => new[c].msg = Append(acc.wire[c].msg, P[c])
             /\ k = "pos" => new[c].msg = acc.wire[c].msg
  <2> DEFINE items == AllBut(acc, c)
             line == acc.wire[c]
             p == P[c]
             n == new[c]
  <2>1. c \in Clients /\ items # <<>>
    BY <1>1
  <2>2. /\ items \in Seq(Items) /\ NotFrom(items, c) /\ Single(items)
        /\ Nos(items) \subseteq Nos(acc.buf)
        /\ k = "msg" => Timely(items, maps)
        /\ Nos(items) \cap LineNos(line) = {}
        /\ LineOK(line, c, maps)
        /\ LineNos(line) \cap T = {} /\ Nos(acc.buf) \cap T = {}
    BY <2>1, PacketFor
  <2>3. n = Sent(line, w, k, items)
    BY <2>1 DEF Delivered
  <2>4. p = Packet(w, k, items)
    OBVIOUS
  <2> HIDE DEF items, line, p, n
  <2>5. /\ LineOK(n, c, maps) /\ OneMore(n, line, p) /\ p \notin All(line) /\ p.ws = w
        /\ LineNos(n) = LineNos(line) \cup Nos(items)
        /\ k = "msg" => n.msg = Append(line.msg, p)
        /\ k = "pos" => n.msg = line.msg
    BY <2>1, <2>2, <2>3, <2>4, SentOK
  <2>6. LineNos(n) \cap T = {}
    BY <2>2, <2>5
  <2> QED
    BY <2>5, <2>6 DEF line, n, p
<1>3. ASSUME NEW c \in Clients, c \notin R PROVE new[c] = acc.wire[c]
  BY <1>3 DEF Delivered
<1>4. LinesOK(new, T)
  <2>1. \A c \in Clients : LineOK(acc.wire[c], c, maps) /\ LineNos(acc.wire[c]) \cap T = {}
    BY PacketFor
  <2> QED
    BY <1>2, <1>3, <2>1 DEF LinesOK
<1>5. new \in [Clients -> Lines]
  <2>1. \A c \in Clients : new[c] \in Lines
    BY <1>4 DEF LinesOK, LineOK
  <2>2. new = [c \in Clients |-> new[c]]
    BY DEF Delivered
  <2> QED
    BY <2>1, <2>2
<1>6. FirstUses(new, acc.wire, R, P, w)
  BY <1>2, <1>3 DEF FirstUses
<1>7. \A c \in Clients : k = "pos" => new[c].msg = acc.wire[c].msg
  BY <1>2, <1>3
<1>8. \A c \in R : k = "msg" => new[c].msg = Append(acc.wire[c].msg, Packet(w, k, AllBut(acc, c)))
  BY <1>2
<1> QED
  BY <1>1, <1>4, <1>5, <1>6, <1>7, <1>8

\* Every packet is counted.
LEMMA Counting ==
  ASSUME NEW lines, NEW T, LinesOK(lines, T), NEW w, NEW n \in Nat, Count(lines, w, n),
         NEW new, NEW R \in SUBSET Clients, NEW P, FirstUses(new, lines, R, P, w)
  PROVE  Count(new, w, n + Cardinality(R)) /\ n + Cardinality(R) \in Nat
<1>1. \A c \in Clients : IsFiniteSet(All(lines[c]))
  BY LineFinite DEF LinesOK
<1>2. \A v : IsFiniteSet(Uses(lines, v))
  BY <1>1, UsesFinite
<1>3. /\ Cardinality(Uses(new, w)) = Cardinality(Uses(lines, w)) + Cardinality(R)
      /\ \A v : v # w => Uses(new, v) = Uses(lines, v)
  BY <1>2, UsesGained
<1>4. Cardinality(R) \in Nat
  <2>1. IsFiniteSet(Clients)
    BY RelayAssumption
  <2> QED
    BY <2>1, FS_Subset, FS_CardinalityType
<1>5. ASSUME NEW v \in Buffers
      PROVE  Cardinality(Uses(new, v)) = IF v = w THEN n + Cardinality(R) ELSE Cardinality(Uses(wire, v))
  <2>1. CASE v = w
    <3>1. Cardinality(Uses(lines, v)) = n
      BY <2>1 DEF Count
    <3>2. Cardinality(Uses(new, v)) = n + Cardinality(R)
      BY <1>3, <2>1, <3>1
    <3> QED
      BY <2>1, <3>2
  <2>2. CASE v # w
    BY <1>3, <2>2 DEF Count
  <2> QED
    BY <2>1, <2>2
<1>6. n + Cardinality(R) \in Nat
  BY <1>4
<1> QED
  BY <1>5, <1>6 DEF Count

\* The chunk is empty and nobody has a part of it.
Cleared(acc) == acc.buf = <<>> /\ \A c \in Clients : acc.own[c].len = 0

\* sendpositions and sendmessages.
LEMMA ChunkSent ==
  ASSUME RestOK, NEW k \in {"pos", "msg"}, NEW w \in Nat, NEW T, NEW acc, AccOK(acc, w, k, T),
         NEW new, new = sendChunk(acc, w, k)
  PROVE  AccOK(new, w, k, T) /\ Cleared(new)
<1>1. CASE acc.buf = <<>>
  <2>1. new = acc
    BY <1>1 DEF sendChunk
  <2>2. ASSUME NEW c \in Clients PROVE acc.own[c].len = 0
    <3>1. acc.own[c] \in Part /\ Fits(acc.buf, acc.own[c])
      BY DEF AccOK, PartsOK, Accs
    <3>2. acc.own[c].from \in Nat /\ acc.own[c].len \in Nat /\ acc.own[c].from + acc.own[c].len <= 0
      BY <1>1, <3>1 DEF Part, Fits
    <3> QED
      BY <3>2
  <2> QED
    BY <1>1, <2>1, <2>2 DEF Cleared
<1>2. CASE acc.buf # <<>>
  <2> DEFINE R == Receivers(acc)
             d == Delivered(acc, w, k)
             P == [c \in R |-> Packet(w, k, AllBut(acc, c))]
  <2>1. new = [buf |-> <<>>, own |-> NoParts, uses |-> acc.uses + Cardinality(R), wire |-> d]
    BY <1>2 DEF sendChunk
  <2>2. R \in SUBSET Clients /\ d \in [Clients -> Lines] /\ LinesOK(d, T) /\ FirstUses(d, acc.wire, R, P, w)
    <3>1. R = Receivers(acc) /\ d = Delivered(acc, w, k)
      OBVIOUS
    <3> HIDE DEF R, d
    <3> QED
      BY <3>1, DeliveredOK
  <2> HIDE DEF R, d, P
  <2>3. /\ acc.uses \in Nat /\ LinesOK(acc.wire, T \cup Nos(acc.buf)) /\ Count(acc.wire, w, acc.uses)
    BY DEF AccOK, Accs
  <2>4. Count(d, w, acc.uses + Cardinality(R)) /\ acc.uses + Cardinality(R) \in Nat
    BY <2>2, <2>3, Counting
  <2>5. new.buf = <<>> /\ new.own = NoParts /\ new.uses = acc.uses + Cardinality(R) /\ new.wire = d
    BY <2>1
  <2>6. NoParts \in [Clients -> Part] /\ <<>> \in Seq(Items) /\ \A c \in Clients : NoParts[c].len = 0 /\ NoParts[c].from = 0
    BY DEF NoParts, Part
  <2>7. new \in Accs
    <3> DEFINE u == acc.uses + Cardinality(R)
    <3>1. new = [buf |-> <<>>, own |-> NoParts, uses |-> u, wire |-> d] /\ u \in Nat
      BY <2>1, <2>4
    <3> HIDE DEF u
    <3> QED
      BY <2>2, <2>6, <3>1 DEF Accs
  <2>8. PartsOK(new)
    <3> SUFFICES ASSUME NEW c \in Clients
                 PROVE  Fits(new.buf, new.own[c]) /\ Others(new.buf, new.own[c]) = {}
      BY DEF PartsOK
    <3> QED
      BY <2>5, <2>6 DEF Fits, Others
  <2>9. Nos(new.buf) = {} /\ ChunkOK(new.buf, k, T)
    BY <2>5 DEF ChunkOK, Nos, Single, Timely
  <2>10. LinesOK(new.wire, T \cup Nos(new.buf))
    <3>1. T \cup Nos(new.buf) = T
      BY <2>9
    <3> QED
      BY <2>2, <2>5, <3>1
  <2>11. AccOK(new, w, k, T)
    BY <2>4, <2>5, <2>7, <2>8, <2>9, <2>10 DEF AccOK
  <2>12. Cleared(new)
    BY <2>5, <2>6 DEF Cleared
  <2> QED
    BY <2>11, <2>12
<1> QED
  BY <1>1, <1>2

-----------------------------------------------------------------------------
(***************************************************************************)
(* Adding items to a chunk, and who is told them.                          *)
(***************************************************************************)
\* n is on its way, reliably if it was received so.
Reached(line, n) ==
    \E i \in DOMAIN line.msg : n \in ToSet(line.msg[i].items) /\ (n.reliable => line.msg[i].reliable)

\* What those in D have said is on its way to all the others, or it will be
\* with the chunk.
Told(acc, D) ==
    \A x \in D : \A n \in ToSet(messages[x]) : \A c \in Here \ zombies :
        c = ownernum(x) \/ Reached(acc.wire[c], n) \/ n \in Others(acc.buf, acc.own[c])

\* One packet more.
LEMMA ReachedMore ==
  ASSUME NEW line, line.msg \in Seq(Messages), NEW p, NEW new, new.msg = Append(line.msg, p), NEW n
  PROVE  /\ Reached(line, n) => Reached(new, n)
         /\ n \in ToSet(p.items) /\ (n.reliable => p.reliable) => Reached(new, n)
<1> DEFINE s == line.msg
           r == new.msg
<1>1. s \in Seq(Messages) /\ r = Append(s, p)
  OBVIOUS
<1> HIDE DEF s, r
<1>2. /\ DOMAIN s = 1..Len(s) /\ DOMAIN r = 1..Len(s) + 1 /\ Len(s) \in Nat
      /\ r[Len(s) + 1] = p /\ \A i \in 1..Len(s) : r[i] = s[i]
  BY <1>1
<1>3. /\ \A i \in DOMAIN s : i \in DOMAIN r /\ r[i] = s[i]
      /\ Len(s) + 1 \in DOMAIN r
  BY <1>2
<1>4. /\ Reached(line, n) <=> \E i \in DOMAIN s : n \in ToSet(s[i].items) /\ (n.reliable => s[i].reliable)
      /\ Reached(new, n) <=> \E i \in DOMAIN r : n \in ToSet(r[i].items) /\ (n.reliable => r[i].reliable)
  BY DEF Reached, s, r
<1> QED
  BY <1>2, <1>3, <1>4

\* With a chunk goes what is in it.
LEMMA ChunkTold ==
  ASSUME RestOK, WaitOK, NEW w \in Nat, NEW T, NEW acc, AccOK(acc, w, "msg", T),
         NEW D \in SUBSET Entities, Told(acc, D), NEW new, new = sendChunk(acc, w, "msg")
  PROVE  Told(new, D)
<1>1. CASE acc.buf = <<>>
  <2>1. new = acc
    BY <1>1 DEF sendChunk
  <2> QED
    BY <2>1
<1>2. CASE acc.buf # <<>>
  <2> DEFINE R == Receivers(acc)
             d == Delivered(acc, w, "msg")
             P(c) == Packet(w, "msg", AllBut(acc, c))
  <2>1. new.wire = d
    BY <1>2 DEF sendChunk
  <2>2. /\ R \in SUBSET Clients
        /\ FirstUses(d, acc.wire, R, [c \in R |-> Packet(w, "msg", AllBut(acc, c))], w)
        /\ \A c \in R : d[c].msg = Append(acc.wire[c].msg, Packet(w, "msg", AllBut(acc, c)))
    <3>1. R = Receivers(acc) /\ d = Delivered(acc, w, "msg") /\ "msg" \in {"pos", "msg"}
      OBVIOUS
    <3> DEFINE k == "msg"
    <3>2. AccOK(acc, w, k, T) /\ k \in {"pos", "msg"} /\ R = Receivers(acc) /\ d = Delivered(acc, w, k)
      BY <3>1
    <3> HIDE DEF R, d, k
    <3>3. /\ R \in SUBSET Clients
          /\ FirstUses(d, acc.wire, R, [c \in R |-> Packet(w, k, AllBut(acc, c))], w)
          /\ \A c \in R : k = "msg" => d[c].msg = Append(acc.wire[c].msg, Packet(w, k, AllBut(acc, c)))
      BY <3>2, DeliveredOK
    <3> QED
      BY <3>3 DEF k
  <2>3. \A c \in Clients \ R : d[c] = acc.wire[c]
    BY <2>2 DEF FirstUses
  <2>4. \A c \in Here \ zombies : AllBut(acc, c) # <<>> => c \in R
    BY DEF Receivers
  <2>5. Here \subseteq Clients
    BY DEF RestOK, Here, ToSet
  <2>6. \A c \in R : P(c).items = AllBut(acc, c) /\ P(c).reliable = reliablemessages
    BY DEF Packet, MsgPacket
  <2> HIDE DEF R, d
  <2>7. ASSUME NEW x \in D, NEW n \in ToSet(messages[x]), NEW c \in Here \ zombies, c # ownernum(x)
        PROVE  Reached(d[c], n)
    <3>1. c \in Clients
      BY <2>5
    <3>2. /\ ToSet(AllBut(acc, c)) = Others(acc.buf, acc.own[c])
      BY <3>1, PacketFor
    <3>3. acc.wire[c].msg \in Seq(Messages)
      <4>1. acc.wire[c] \in Lines
        BY <3>1 DEF AccOK, Accs
      <4> QED
        BY <4>1 DEF Lines
    <3>4. n.reliable => reliablemessages
      <4>1. x \in Entities
        OBVIOUS
      <4>2. \A i \in DOMAIN messages[x] : messages[x][i].reliable => reliablemessages
        BY <4>1 DEF WaitOK
      <4> QED
        BY <4>2 DEF ToSet
    <3>5. Reached(acc.wire[c], n) \/ n \in Others(acc.buf, acc.own[c])
      BY <2>7 DEF Told
    <3>6. CASE c \notin R
      <4>1. AllBut(acc, c) = <<>> /\ d[c] = acc.wire[c]
        BY <2>3, <2>4, <3>1, <3>6
      <4>2. n \notin ToSet(AllBut(acc, c))
        BY <4>1 DEF ToSet
      <4> QED
        BY <3>2, <3>5, <4>1, <4>2
    <3>7. CASE c \in R
      <4>1. d[c].msg = Append(acc.wire[c].msg, P(c)) /\ P(c).items = AllBut(acc, c) /\ P(c).reliable = reliablemessages
        BY <2>2, <2>6, <3>7
      <4> DEFINE p == P(c)
                 line == acc.wire[c]
                 nl == d[c]
      <4>2. line.msg \in Seq(Messages) /\ nl.msg = Append(line.msg, p)
        BY <3>3, <4>1
      <4>3. p.items = AllBut(acc, c) /\ p.reliable = reliablemessages
        BY <4>1
      <4> HIDE DEF p, line, nl
      <4>4. /\ Reached(line, n) => Reached(nl, n)
            /\ n \in ToSet(p.items) /\ (n.reliable => p.reliable) => Reached(nl, n)
        BY <4>2, ReachedMore
      <4>5. Reached(line, n) \/ n \in ToSet(AllBut(acc, c))
        BY <3>2, <3>5 DEF line
      <4>6. n \in ToSet(p.items) \/ Reached(line, n)
        BY <4>3, <4>5
      <4>7. n.reliable => p.reliable
        BY <3>4, <4>3, Zenon
      <4>8. Reached(nl, n)
        BY <4>4, <4>6, <4>7, Zenon
      <4> QED
        BY <4>8 DEF nl
    <3> QED
      BY <3>6, <3>7
  <2> QED
    BY <2>1, <2>7 DEF Told
<1> QED
  BY <1>1, <1>2

Grows(new, a, c, items) ==
    /\ new.buf = a.buf \o items /\ new.uses = a.uses /\ new.wire = a.wire
    /\ new.own = [a.own EXCEPT ![c] = Grown(a.buf, items, a.own[c])]
    /\ new \in Accs

\* What addposition and addmessages do to the chunk.
LEMMA ItemsGrow ==
  ASSUME NEW acc, NEW w, NEW k, NEW c \in Clients, NEW items \in Seq(Items), items # <<>>,
         NEW a, a = IF Len(acc.buf) + Len(items) > mtu THEN sendChunk(acc, w, k) ELSE acc,
         a \in Accs, NEW new, new = addItems(acc, w, k, c, items)
  PROVE  Grows(new, a, c, items)
<1> DEFINE g == Grown(a.buf, items, a.own[c])
<1>1. new = [a EXCEPT !.buf = @ \o items,
                      !.own[c] = IF a.own[c].len = 0 THEN [from |-> Len(a.buf), len |-> Len(items)]
                                 ELSE [from |-> a.own[c].from, len |-> a.own[c].len + Len(items)]]
  BY DEF addItems
<1>2. g = IF a.own[c].len = 0 THEN [from |-> Len(a.buf), len |-> Len(items)]
          ELSE [from |-> a.own[c].from, len |-> a.own[c].len + Len(items)]
  BY DEF Grown
<1> HIDE DEF g
<1>3. new = [a EXCEPT !.buf = @ \o items, !.own[c] = g]
  BY <1>1, <1>2
<1>4. a.buf \in Seq(Items) /\ a.own \in [Clients -> Part] /\ a.uses \in Nat /\ a.wire \in [Clients -> Lines]
  BY DEF Accs
<1>5. g \in Part
  <2>1. a.own[c] \in Part
    BY <1>4
  <2>2. a.own[c].from \in Nat /\ a.own[c].len \in Nat /\ Len(a.buf) \in Nat /\ Len(items) \in Nat
    BY <1>4, <2>1 DEF Part
  <2> QED
    BY <1>2, <2>2 DEF Part
<1> DEFINE b == a.buf \o items
           o == [a.own EXCEPT ![c] = g]
<1>6. new.buf = b /\ new.own = o /\ new.uses = a.uses /\ new.wire = a.wire
      /\ new = [buf |-> b, own |-> o, uses |-> a.uses, wire |-> a.wire]
  BY <1>3 DEF Accs
<1>7. b \in Seq(Items) /\ o \in [Clients -> Part]
  BY <1>4, <1>5
<1> HIDE DEF b, o
<1>8. new \in Accs
  BY <1>4, <1>6, <1>7 DEF Accs
<1> QED
  BY <1>6, <1>8 DEF Grows, g, b, o

\* The client c, who said what is in items or whose bot did.
Speaks(items, c, k, T, later) ==
    /\ Single(items) /\ Nos(items) \subseteq T /\ later \subseteq T /\ Nos(items) \cap later = {}
    /\ Owed(items, c) /\ (k = "msg" => Timely(items, maps))

\* The parts of those that are still to be served are empty.
Unserved(acc, U) == \A d \in U : acc.own[d].len = 0

\* All but c will be told items as well.
Extends(new, a, c, items) ==
    /\ new.wire = a.wire
    /\ \A d \in Clients : Others(new.buf, new.own[d])
          = IF d = c THEN Others(a.buf, a.own[d]) ELSE Others(a.buf, a.own[d]) \cup ToSet(items)

\* The chunk has them behind what c said before.
LEMMA GrowsOK ==
  ASSUME NEW k, NEW w, NEW T, NEW a, AccOK(a, w, k, T), NEW c \in Clients,
         NEW items \in Seq(Items), NEW later, Speaks(items, c, k, T, later),
         Current(a.buf, a.own[c]), NEW new, Grows(new, a, c, items)
  PROVE  /\ AccOK(new, w, k, later) /\ Current(new.buf, new.own[c])
         /\ \A U \in SUBSET (Clients \ {c}) : Unserved(a, U) => Unserved(new, U)
         /\ Extends(new, a, c, items)
<1> DEFINE b == a.buf
           r == b \o items
           part == a.own[c]
           g == Grown(b, items, part)
<1>1. b \in Seq(Items) /\ a.own \in [Clients -> Part] /\ \A d \in Clients : Fits(b, a.own[d])
  BY DEF AccOK, Accs, PartsOK
<1>2. new.buf = r /\ new.uses = a.uses /\ new.wire = a.wire /\ new.own = [a.own EXCEPT ![c] = g] /\ new \in Accs
  BY DEF Grows
<1>3. part \in Part /\ Fits(b, part) /\ Current(b, part)
  BY <1>1
<1>4. ASSUME NEW d \in Clients, d # c
      PROVE  new.own[d] = a.own[d] /\ a.own[d] \in Part /\ Fits(b, a.own[d])
  BY <1>1, <1>2, <1>4
<1>5. new.own[c] = g
  BY <1>1, <1>2
<1> HIDE DEF b, r, part, g
<1>6. r = b \o items /\ g = Grown(b, items, part)
  BY DEF b, r, g, part
<1>7. Others(r, g) = Others(b, part) /\ Fits(r, g) /\ Current(r, g)
  BY <1>1, <1>3, <1>6, OthersKept
<1>8. ASSUME NEW d \in Clients, d # c
      PROVE  Others(r, a.own[d]) = Others(b, a.own[d]) \cup ToSet(items) /\ Fits(r, a.own[d])
  BY <1>1, <1>4, <1>6, <1>8, OthersAdded
<1>9. \A d \in Clients : Others(new.buf, new.own[d])
                = IF d = c THEN Others(a.buf, a.own[d]) ELSE Others(a.buf, a.own[d]) \cup ToSet(items)
  <2> SUFFICES ASSUME NEW d \in Clients
               PROVE  Others(new.buf, new.own[d])
                        = IF d = c THEN Others(a.buf, a.own[d]) ELSE Others(a.buf, a.own[d]) \cup ToSet(items)
    OBVIOUS
  <2>1. CASE d = c
    BY <1>2, <1>5, <1>7, <2>1 DEF b, part
  <2>2. CASE d # c
    BY <1>2, <1>4, <1>8, <2>2 DEF b
  <2> QED
    BY <2>1, <2>2
<1>10. PartsOK(new)
  <2> SUFFICES ASSUME NEW d \in Clients
               PROVE  /\ Fits(new.buf, new.own[d])
                      /\ \A n \in Others(new.buf, new.own[d]) : n.excused \/ n.from # d
    BY DEF PartsOK
  <2>1. Fits(new.buf, new.own[d])
    BY <1>2, <1>4, <1>5, <1>7, <1>8
  <2>2. ASSUME NEW n \in Others(a.buf, a.own[d]) PROVE n.excused \/ n.from # d
    BY DEF AccOK, PartsOK
  <2>3. ASSUME NEW n \in ToSet(items), d # c PROVE n.excused \/ n.from # d
    <3>1. \A i \in DOMAIN items : items[i].excused \/ items[i].from = c
      BY DEF Speaks, Owed
    <3> QED
      BY <2>3, <3>1 DEF ToSet
  <2>4. \A n \in Others(new.buf, new.own[d]) : n.excused \/ n.from # d
    BY <1>9, <2>2, <2>3
  <2> QED
    BY <2>1, <2>4
<1>11. /\ Single(b) /\ Nos(b) \cap T = {} /\ (k = "msg" => Timely(b, maps))
       /\ LinesOK(a.wire, T \cup Nos(b)) /\ Count(a.wire, w, a.uses)
  BY DEF AccOK, ChunkOK, b
<1>12. /\ Single(items) /\ Nos(items) \subseteq T /\ later \subseteq T /\ Nos(items) \cap later = {}
       /\ (k = "msg" => Timely(items, maps))
  BY DEF Speaks
<1>13. Nos(r) = Nos(b) \cup Nos(items) /\ ToSet(r) = ToSet(b) \cup ToSet(items) /\ Single(r)
  <2>1. Nos(b) \cap Nos(items) = {}
    BY <1>11, <1>12
  <2> QED
    BY <1>1, <1>6, <1>11, <1>12, <2>1, NosJoined
<1>14. ChunkOK(r, k, later)
  <2>1. ASSUME k = "msg" PROVE Timely(r, maps)
    <3>1. /\ \A n \in ToSet(b) : n.excused \/ n.map = maps
          /\ \A n \in ToSet(items) : n.excused \/ n.map = maps
      BY <1>11, <1>12, <2>1 DEF Timely, ToSet
    <3>2. \A n \in ToSet(r) : n.excused \/ n.map = maps
      BY <1>13, <3>1
    <3> QED
      BY <3>2 DEF Timely, ToSet
  <2>2. Nos(r) \cap later = {}
    BY <1>11, <1>12, <1>13
  <2> QED
    BY <1>13, <2>1, <2>2 DEF ChunkOK
<1>15. LinesOK(a.wire, later \cup Nos(r))
  <2>1. later \cup Nos(r) \subseteq T \cup Nos(b)
    BY <1>12, <1>13
  <2> QED
    BY <1>11, <2>1 DEF LinesOK
<1>16. AccOK(new, w, k, later)
  BY <1>2, <1>10, <1>11, <1>14, <1>15 DEF AccOK
<1>17. Current(new.buf, new.own[c])
  BY <1>2, <1>5, <1>7
<1>18. ASSUME NEW U \in SUBSET (Clients \ {c}), Unserved(a, U) PROVE Unserved(new, U)
  BY <1>4, <1>18 DEF Unserved
<1>19. Extends(new, a, c, items)
  BY <1>2, <1>9 DEF Extends
<1> QED
  BY <1>16, <1>17, <1>18, <1>19


\* addposition and addmessages, when there is something to add.
LEMMA ItemsPut ==
  ASSUME RestOK, NEW k \in {"pos", "msg"}, NEW w \in Nat, NEW T, NEW acc, AccOK(acc, w, k, T),
         NEW c \in Clients, NEW items \in Seq(Items), items # <<>>,
         NEW later, Speaks(items, c, k, T, later), Current(acc.buf, acc.own[c]),
         NEW a, a = IF Len(acc.buf) + Len(items) > mtu THEN sendChunk(acc, w, k) ELSE acc,
         NEW new, new = addItems(acc, w, k, c, items)
  PROVE  /\ AccOK(new, w, k, later) /\ Current(new.buf, new.own[c]) /\ Extends(new, a, c, items)
         /\ \A U \in SUBSET (Clients \ {c}) : Unserved(acc, U) => Unserved(new, U)
<1> DEFINE s == sendChunk(acc, w, k)
<1>1. AccOK(s, w, k, T) /\ Cleared(s)
  <2> HIDE DEF s
  <2>1. s = sendChunk(acc, w, k)
    BY DEF s
  <2> QED
    BY <2>1, ChunkSent
<1>2. /\ AccOK(a, w, k, T) /\ Current(a.buf, a.own[c])
      /\ \A U \in SUBSET (Clients \ {c}) : Unserved(acc, U) => Unserved(a, U)
  <2>1. Current(s.buf, s.own[c]) /\ \A U \in SUBSET (Clients \ {c}) : Unserved(s, U)
    BY <1>1 DEF Cleared, Current, Unserved
  <2>2. a = s \/ a = acc
    OBVIOUS
  <2> HIDE DEF s
  <2> QED
    BY <1>1, <2>1, <2>2
<1>3. a \in Accs
  BY <1>2 DEF AccOK
<1>4. Grows(new, a, c, items)
  BY <1>3, ItemsGrow
<1>5. /\ AccOK(new, w, k, later) /\ Current(new.buf, new.own[c])
      /\ \A U \in SUBSET (Clients \ {c}) : Unserved(a, U) => Unserved(new, U)
      /\ Extends(new, a, c, items)
  BY <1>2, <1>4, GrowsOK
<1> QED
  BY <1>2, <1>5

\* addposition and addmessages.
LEMMA ItemsAdded ==
  ASSUME RestOK, NEW k \in {"pos", "msg"}, NEW w \in Nat, NEW T, NEW acc, AccOK(acc, w, k, T),
         NEW c \in Clients, NEW items \in Seq(Items), NEW later, Speaks(items, c, k, T, later),
         Current(acc.buf, acc.own[c]), NEW new, new = addItems(acc, w, k, c, items)
  PROVE  /\ AccOK(new, w, k, later) /\ Current(new.buf, new.own[c])
         /\ \A U \in SUBSET (Clients \ {c}) : Unserved(acc, U) => Unserved(new, U)
<1>1. CASE items = <<>>
  <2>1. new = acc
    BY <1>1 DEF addItems
  <2>2. LinesOK(acc.wire, T \cup Nos(acc.buf)) /\ later \subseteq T /\ ChunkOK(acc.buf, k, T)
    BY DEF AccOK, Speaks
  <2>3. LinesOK(acc.wire, later \cup Nos(acc.buf)) /\ ChunkOK(acc.buf, k, later)
    BY <2>2 DEF LinesOK, ChunkOK
  <2>4. AccOK(acc, w, k, later)
    BY <2>3 DEF AccOK
  <2> QED
    BY <2>1, <2>4
<1>2. CASE items # <<>>
  <2> DEFINE a == IF Len(acc.buf) + Len(items) > mtu THEN sendChunk(acc, w, k) ELSE acc
  <2>1. a = IF Len(acc.buf) + Len(items) > mtu THEN sendChunk(acc, w, k) ELSE acc
    OBVIOUS
  <2> HIDE DEF a
  <2> QED
    BY <1>2, <2>1, ItemsPut
<1> QED
  BY <1>1, <1>2

\* All but c will be told.
LEMMA ItemsTold ==
  ASSUME RestOK, WaitOK, NEW w \in Nat, NEW T, NEW acc, AccOK(acc, w, "msg", T),
         NEW x \in Entities, NEW c \in Clients, ownernum(x) = c, messages[x] \in Seq(Items),
         NEW later, Speaks(messages[x], c, "msg", T, later), Current(acc.buf, acc.own[c]),
         NEW new, new = addItems(acc, w, "msg", c, messages[x]),
         NEW D \in SUBSET Entities, Told(acc, D)
  PROVE  Told(new, D \cup {x})
<1> DEFINE items == messages[x]
           k == "msg"
<1>1. CASE items = <<>>
  <2>1. new = acc
    BY <1>1 DEF addItems
  <2>2. ToSet(messages[x]) = {}
    BY <1>1 DEF ToSet
  <2> QED
    BY <2>1, <2>2 DEF Told
<1>2. CASE items # <<>>
  <2> DEFINE a == IF Len(acc.buf) + Len(items) > mtu THEN sendChunk(acc, w, k) ELSE acc
  <2>1. Told(a, D)
    <3> DEFINE s == sendChunk(acc, w, "msg")
    <3>1. s = sendChunk(acc, w, "msg")
      OBVIOUS
    <3> HIDE DEF s
    <3>2. Told(s, D)
      BY <3>1, ChunkTold
    <3>3. a = s \/ a = acc
      BY <3>1
    <3> QED
      BY <3>2, <3>3
  <2>2. a = IF Len(acc.buf) + Len(items) > mtu THEN sendChunk(acc, w, k) ELSE acc
    OBVIOUS
  <2> HIDE DEF a
  <2>3. /\ items \in Seq(Items) /\ items # <<>> /\ Speaks(items, c, k, T, later)
        /\ new = addItems(acc, w, k, c, items) /\ k \in {"pos", "msg"} /\ AccOK(acc, w, k, T)
    BY <1>2
  <2> HIDE DEF items, k
  <2>4. /\ new.wire = a.wire
        /\ \A d \in Clients : Others(new.buf, new.own[d])
                = IF d = c THEN Others(a.buf, a.own[d]) ELSE Others(a.buf, a.own[d]) \cup ToSet(items)
    <3>1. Extends(new, a, c, items)
      BY <2>2, <2>3, ItemsPut
    <3> QED
      BY <3>1 DEF Extends
  <2>5. Here \subseteq Clients
    BY DEF RestOK, Here, ToSet
  <2>6. ASSUME NEW y \in D \cup {x}, NEW n \in ToSet(messages[y]), NEW d \in Here \ zombies, d # ownernum(y)
        PROVE  Reached(new.wire[d], n) \/ n \in Others(new.buf, new.own[d])
    <3>1. CASE y = x
      <4>1. d # c /\ n \in ToSet(items)
        BY <2>6, <3>1 DEF items
      <4> QED
        BY <2>4, <2>5, <4>1
    <3>2. CASE y \in D
      <4>1. Reached(a.wire[d], n) \/ n \in Others(a.buf, a.own[d])
        BY <2>1, <2>6, <3>2 DEF Told
      <4>2. Others(a.buf, a.own[d]) \subseteq Others(new.buf, new.own[d])
        BY <2>4, <2>5
      <4> QED
        BY <2>4, <4>1, <4>2
    <3> QED
      BY <2>6, <3>1, <3>2
  <2> QED
    BY <2>6 DEF Told
<1> QED
  BY <1>1, <1>2

-----------------------------------------------------------------------------
(***************************************************************************)
(* The loops over the clients and their bots.                              *)
(***************************************************************************)
\* The accumulators of which the parts are in the buffer.
Whole == {acc \in Accs : \A c \in Clients : Fits(acc.buf, acc.own[c])}

\* A packet more is on its way.
LEMMA SentTyped ==
  ASSUME reliablemessages \in BOOLEAN, NEW line \in Lines, NEW items \in Seq(Items), NEW w \in Nat, NEW k
  PROVE  Sent(line, w, k, items) \in Lines
<1> DEFINE A == line.pos
           s == line.msg
           p == PosPacket(w, items)
           q == MsgPacket(w, items, reliablemessages, 0)
           t == Append(s, q)
           B == A \cup {p}
<1>1. A \in SUBSET Positions /\ s \in Seq(Messages) /\ line = [pos |-> A, msg |-> s]
  BY DEF Lines
<1>2. p \in Positions
  BY DEF PosPacket, Positions
<1>3. q \in Messages
  BY DEF MsgPacket, Messages
<1>4. Sent(line, w, k, items) = IF k = "pos" THEN [line EXCEPT !.pos = @ \cup {p}] ELSE [line EXCEPT !.msg = Append(@, q)]
  BY DEF Sent, PosPacket, MsgPacket
<1> HIDE DEF p, q
<1> DEFINE e == [line EXCEPT !.pos = @ \cup {p}]
           f == [line EXCEPT !.msg = Append(@, q)]
<1>9. line \in Lines /\ e = [line EXCEPT !.pos = @ \cup {p}] /\ f = [line EXCEPT !.msg = Append(@, q)]
  OBVIOUS
<1> HIDE DEF e, f
<1>5. e = [pos |-> line.pos \cup {p}, msg |-> line.msg]
  BY <1>9 DEF Lines
<1>6. f = [pos |-> line.pos, msg |-> Append(line.msg, q)]
  BY <1>9 DEF Lines
<1> HIDE DEF A, s
<1>7. B \in SUBSET Positions /\ t \in Seq(Messages)
  BY <1>1, <1>2, <1>3
<1> HIDE DEF B, t
<1>8. [pos |-> B, msg |-> s] \in Lines /\ [pos |-> A, msg |-> t] \in Lines
  BY <1>1, <1>7 DEF Lines
<1> QED
  BY <1>4, <1>5, <1>6, <1>8 DEF A, B, s, t, e, f

\* sendpositions and sendmessages keep the accumulator whole.
LEMMA ChunkWhole ==
  ASSUME RestOK, NEW w \in Nat, NEW k, NEW acc \in Whole
  PROVE  sendChunk(acc, w, k) \in Whole
<1> DEFINE new == sendChunk(acc, w, k)
           R == Receivers(acc)
           u == acc.uses + Cardinality(R)
           d == Delivered(acc, w, k)
<1>1. CASE acc.buf = <<>>
  BY <1>1 DEF sendChunk
<1>2. CASE acc.buf # <<>>
  <2>1. new = [buf |-> <<>>, own |-> NoParts, uses |-> u, wire |-> d]
    BY <1>2 DEF sendChunk
  <2>2. acc \in Accs /\ \A c \in Clients : Fits(acc.buf, acc.own[c])
    BY DEF Whole
  <2>3. acc.buf \in Seq(Items) /\ acc.own \in [Clients -> Part] /\ acc.uses \in Nat /\ acc.wire \in [Clients -> Lines]
    BY <2>2 DEF Accs
  <2>4. R \subseteq Clients => u \in Nat
    <3>1. IsFiniteSet(Clients)
      BY RelayAssumption
    <3> HIDE DEF R
    <3>2. R \subseteq Clients => Cardinality(R) \in Nat
      BY <3>1, FS_Subset, FS_CardinalityType
    <3> QED
      BY <2>3, <3>2
  <2>5. ASSUME NEW c \in Clients PROVE d[c] \in Lines
    <3> DEFINE line == acc.wire[c]
               items == AllBut(acc, c)
    <3>1. line \in Lines
      BY <2>3
    <3>2. acc.buf \in Seq(Items) /\ acc.own[c] \in Part /\ Fits(acc.buf, acc.own[c])
      BY <2>2, <2>3
    <3>3. items \in Seq(Items)
      BY <3>2, AllButIs
    <3>4. d[c] = IF c \in R THEN Sent(line, w, k, items) ELSE line
      BY DEF Delivered
    <3> HIDE DEF line, items, d
    <3>5. Sent(line, w, k, items) \in Lines
      <4>1. reliablemessages \in BOOLEAN
        BY DEF RestOK
      <4> QED
        BY <3>1, <3>3, <4>1, SentTyped
    <3> QED
      BY <3>1, <3>4, <3>5
  <2>6. d \in [Clients -> Lines]
    <3>1. d = [c \in Clients |-> d[c]]
      BY DEF Delivered
    <3> HIDE DEF d
    <3> QED
      BY <2>5, <3>1
  <2>7. NoParts \in [Clients -> Part] /\ \A c \in Clients : Fits(<<>>, NoParts[c])
    BY DEF NoParts, Part, Fits
  <2>8. acc.wire \in [Clients -> Lines] /\ R \subseteq Clients
    BY <2>3 DEF Receivers, RestOK, Here, ToSet
  <2> HIDE DEF new, u, d
  <2>9. ASSUME u \in Nat PROVE new \in Whole
    <3>1. <<>> \in Seq(Items)
      OBVIOUS
    <3>2. new \in Accs /\ new.buf = <<>> /\ new.own = NoParts
      BY <2>1, <2>6, <2>7, <2>9, <3>1 DEF Accs
    <3> QED
      BY <2>7, <3>2 DEF Whole
  <2> QED
    BY <2>4, <2>8, <2>9 DEF new
<1> QED
  BY <1>1, <1>2

\* addposition and addmessages do, too.
LEMMA ItemsWhole ==
  ASSUME RestOK, NEW w \in Nat, NEW k, NEW acc \in Whole, NEW c \in Clients, NEW items \in Seq(Items)
  PROVE  addItems(acc, w, k, c, items) \in Whole
<1> DEFINE new == addItems(acc, w, k, c, items)
           a == IF Len(acc.buf) + Len(items) > mtu THEN sendChunk(acc, w, k) ELSE acc
<1>1. CASE items = <<>>
  BY <1>1 DEF addItems
<1>2. CASE items # <<>>
  <2>1. a \in Whole
    <3>1. sendChunk(acc, w, k) \in Whole
      BY ChunkWhole
    <3> QED
      BY <3>1
  <2>2. a = IF Len(acc.buf) + Len(items) > mtu THEN sendChunk(acc, w, k) ELSE acc
    OBVIOUS
  <2>3. new = addItems(acc, w, k, c, items)
    OBVIOUS
  <2> HIDE DEF a, new
  <2>4. a \in Accs /\ \A d \in Clients : Fits(a.buf, a.own[d])
    BY <2>1 DEF Whole
  <2>5. Grows(new, a, c, items)
    BY <1>2, <2>2, <2>3, <2>4, ItemsGrow
  <2>6. a.buf \in Seq(Items) /\ a.own \in [Clients -> Part]
    BY <2>4 DEF Accs
  <2>7. /\ new.buf = a.buf \o items /\ new.own = [a.own EXCEPT ![c] = Grown(a.buf, items, a.own[c])]
        /\ new \in Accs
    BY <2>5 DEF Grows
  <2>8. ASSUME NEW d \in Clients PROVE Fits(new.buf, new.own[d])
    <3> DEFINE b == a.buf
               part == a.own[d]
    <3>1. b \in Seq(Items) /\ part \in Part /\ Fits(b, part)
      BY <2>4, <2>6
    <3>2. new.own[d] = IF d = c THEN Grown(b, items, part) ELSE part
      BY <2>6, <2>7
    <3>3. new.buf = b \o items
      BY <2>7
    <3> HIDE DEF b, part
    <3>4. Fits(b \o items, part)
      BY <3>1, OthersAdded
    <3>5. Fits(b \o items, Grown(b, items, part))
      <4>1. Len(b \o items) = Len(b) + Len(items) /\ Len(b) \in Nat /\ Len(items) \in Nat
        BY <3>1, Joined
      <4>2. part.from \in Nat /\ part.len \in Nat /\ part.from + part.len <= Len(b)
        BY <3>1 DEF Part, Fits
      <4> DEFINE g == Grown(b, items, part)
      <4>3. g.from + g.len <= Len(b) + Len(items)
        <5>1. CASE part.len = 0
          <6>1. g.from = Len(b) /\ g.len = Len(items)
            BY <5>1 DEF Grown
          <6> HIDE DEF g
          <6> QED
            BY <4>1, <6>1
        <5>2. CASE part.len # 0
          <6>1. g.from = part.from /\ g.len = part.len + Len(items)
            BY <5>2 DEF Grown
          <6> HIDE DEF g
          <6> DEFINE p == part.from
                     q == part.len
                     l == Len(items)
                     m == Len(b)
          <6>2. p \in Nat /\ q \in Nat /\ l \in Nat /\ m \in Nat /\ p + q <= m /\ g.from = p /\ g.len = q + l
            BY <4>1, <4>2, <6>1
          <6> HIDE DEF p, q, l, m
          <6>3. g.from + g.len <= m + l
            BY <6>2
          <6> QED
            BY <6>3 DEF m, l
        <5> QED
          BY <5>1, <5>2
      <4> HIDE DEF g
      <4>4. g.from + g.len <= Len(b \o items)
        BY <4>1, <4>3
      <4> QED
        BY <4>4 DEF Fits, g
    <3> QED
      BY <3>2, <3>3, <3>4, <3>5
  <2> QED
    BY <2>7, <2>8 DEF Whole, new
<1> QED
  BY <1>1, <1>2

\* A client and its bots, each once.
LEMMA PartsAre ==
  ASSUME RestOK, NEW c \in Clients
  PROVE  Parts(c) \in Seq(Entities) /\ Once(Parts(c)) /\ ToSet(Parts(c)) = OwnedBy(c)
<1> DEFINE S == {b \in Bots : owner[b] = c}
           q == SetToSeq(S)
           o == <<c>>
           r == Parts(c)
<1>1. IsFiniteSet(S)
  <2>1. IsFiniteSet(Bots) /\ S \subseteq Bots
    BY RelayAssumption
  <2> HIDE DEF S
  <2> QED
    BY <2>1, FS_Subset
<1>2. S \subseteq Entities /\ c \in Entities /\ Clients \cap Bots = {}
  BY RelayAssumption DEF Entities
<1>3. OwnedBy(c) = {c} \cup S /\ c \notin S
  <2>1. \A x \in Entities : (x \in Clients /\ x \notin Bots) \/ (x \in Bots /\ x \notin Clients)
    BY <1>2 DEF Entities
  <2>2. ASSUME NEW x \in Entities PROVE ownernum(x) = c <=> x = c \/ x \in S
    BY <1>2, <2>1 DEF ownernum, Entities
  <2> QED
    BY <1>2, <2>2 DEF OwnedBy
<1> HIDE DEF S
<1>4. q \in Seq(S) /\ ToSet(q) = S /\ Once(q)
  BY <1>1, Listed
<1> HIDE DEF q
<1>5. q \in Seq(Entities)
  BY <1>2, <1>4
<1>6. o \in Seq(Entities) /\ DOMAIN o = {1} /\ o[1] = c /\ Len(o) = 1
  BY <1>2
<1>7. r = o \o q
  BY DEF Parts, q, S
<1> HIDE DEF r, o
<1>8. /\ o \o q \in Seq(Entities) /\ Len(o \o q) = Len(o) + Len(q)
      /\ \A i \in DOMAIN o : i \in DOMAIN (o \o q) /\ (o \o q)[i] = o[i] /\ i <= Len(o)
      /\ \A i \in DOMAIN q : Len(o) + i \in DOMAIN (o \o q) /\ (o \o q)[Len(o) + i] = q[i]
      /\ \A i \in DOMAIN (o \o q) :
            \/ i \in DOMAIN o /\ (o \o q)[i] = o[i]
            \/ \E k \in DOMAIN q : i = Len(o) + k /\ (o \o q)[i] = q[k]
  <2>1. o \in Seq(Entities) /\ q \in Seq(Entities)
    BY <1>5, <1>6
  <2> QED
    BY <2>1, Joined
<1>9. /\ 1 \in DOMAIN r /\ r[1] = c
      /\ \A i \in DOMAIN q : 1 + i \in DOMAIN r /\ r[1 + i] = q[i]
      /\ \A i \in DOMAIN r : (i = 1 /\ r[i] = c) \/ \E k \in DOMAIN q : i = 1 + k /\ r[i] = q[k]
  BY <1>6, <1>7, <1>8
<1>10. ToSet(r) = {c} \cup ToSet(q)
  BY <1>9 DEF ToSet
<1>11. Once(r)
  <2> SUFFICES ASSUME NEW i \in DOMAIN r, NEW j \in DOMAIN r, r[i] = r[j] PROVE i = j
    BY DEF Once
  <2>1. \A k \in DOMAIN q : q[k] # c
    BY <1>3, <1>4 DEF ToSet
  <2>2. CASE i = 1 /\ r[i] = c
    BY <1>9, <2>1, <2>2
  <2>3. CASE \E k \in DOMAIN q : i = 1 + k /\ r[i] = q[k]
    <3>1. PICK k \in DOMAIN q : i = 1 + k /\ r[i] = q[k]
      BY <2>3
    <3>2. PICK l \in DOMAIN q : j = 1 + l /\ r[j] = q[l]
      BY <1>9, <2>1, <3>1
    <3>3. k = l
      BY <1>4, <3>1, <3>2 DEF Once
    <3> QED
      BY <3>1, <3>2, <3>3
  <2> QED
    BY <1>9, <2>2, <2>3
<1> QED
  BY <1>3, <1>4, <1>7, <1>8, <1>10, <1>11 DEF r

ClientTrace(t, acc, w, k, c, what, n) ==
    t[0] = acc /\ \A j \in 1..n : t[j] = addItems(t[j - 1], w, k, c, what[Parts(c)[j]])

\* The loop over a client and its bots.
LEMMA ClientSteps ==
  ASSUME NEW W, NEW acc \in W, NEW n \in Nat, NEW w, NEW k, NEW c, NEW what, DOMAIN Parts(c) = 1..n,
         \A a \in W, j \in 1..n : addItems(a, w, k, c, what[Parts(c)[j]]) \in W
  PROVE  \E t \in [0..n -> W] : t[n] = addClient(acc, w, k, c, what) /\ ClientTrace(t, acc, w, k, c, what, n)
<1> DEFINE s == Parts(c)
           G == [p \in W \X (1..n) |-> addItems(p[1], w, k, c, what[s[p[2]]])]
           Loop(j) == j = [u \in SUBSET DOMAIN s |->
                             IF u = {} THEN acc ELSE addItems(j[u \ {Max(u)}], w, k, c, what[s[Max(u)]])]
           j == CHOOSE j : Loop(j)
<1> HIDE DEF s
<1>1. addClient(acc, w, k, c, what) = j[1..n]
  BY DEF FoldLeft, MapThenFoldSet, addClient, s
<1>0. DOMAIN s = 1..n
  BY DEF s
<1>2. G \in [W \X (1..n) -> W] /\ \A a \in W, i \in 1..n : G[<<a, i>>] = addItems(a, w, k, c, what[s[i]])
  BY DEF s
<1> HIDE DEF G
<1>3. PICK it \in [SUBSET (1..n) -> W] : Folds(it, acc, G, n)
  BY <1>2, FoldExists
<1>4. Loop(it)
  <2>1. ASSUME NEW u \in SUBSET (1..n), u # {} PROVE it[u] = addItems(it[u \ {Max(u)}], w, k, c, what[s[Max(u)]])
    <3>1. Max(u) \in 1..n /\ it[u \ {Max(u)}] \in W
      BY <2>1, MaxIs
    <3> QED
      BY <1>2, <1>3, <2>1, <3>1 DEF Folds
  <2>2. it[{}] = acc
    BY <1>3 DEF Folds
  <2>3. it = [u \in SUBSET (1..n) |-> it[u]]
    OBVIOUS
  <2> QED
    BY <1>0, <2>1, <2>2, <2>3
<1>5. Loop(j)
  BY <1>4
<1> HIDE DEF j, Loop
<1>6. Obeys(j, acc, G, n, W)
  <2>1. ASSUME NEW u \in SUBSET (1..n), u # {}, j[u \ {Max(u)}] \in W
        PROVE  j[u] = G[<<j[u \ {Max(u)}], Max(u)>>]
    <3>1. Max(u) \in 1..n
      BY <2>1, MaxIs
    <3> QED
      BY <1>0, <1>2, <1>5, <2>1, <3>1 DEF Loop
  <2>2. j[{}] = acc
    BY <1>5 DEF Loop
  <2> QED
    BY <2>1, <2>2 DEF Obeys
<1>7. PICK t \in [0..n -> W] : t[n] = j[1..n] /\ Traces(t, acc, G, n)
  BY <1>2, <1>6, FoldSteps
<1>8. ASSUME NEW i \in 1..n PROVE t[i] = addItems(t[i - 1], w, k, c, what[s[i]])
  <2>1. t[i - 1] \in W
    OBVIOUS
  <2> QED
    BY <1>2, <1>7, <2>1 DEF Traces
<1>9. t[0] = acc
  BY <1>7 DEF Traces
<1> QED
  BY <1>1, <1>7, <1>8, <1>9 DEF ClientTrace, s

AllTrace(t, acc, w, k, what, n) ==
    t[0] = acc /\ \A j \in 1..n : t[j] = addClient(t[j - 1], w, k, clients[j], what)

Folded(acc, w, k, what) == FoldLeft(LAMBDA a, c : addClient(a, w, k, c, what), acc, clients)

\* The loop over the clients.
LEMMA AllSteps ==
  ASSUME NEW W, NEW acc \in W, NEW n \in Nat, NEW w, NEW k, NEW what, DOMAIN clients = 1..n,
         \A a \in W, j \in 1..n : addClient(a, w, k, clients[j], what) \in W
  PROVE  \E t \in [0..n -> W] : t[n] = Folded(acc, w, k, what) /\ AllTrace(t, acc, w, k, what, n)
<1> DEFINE s == clients
           G == [p \in W \X (1..n) |-> addClient(p[1], w, k, s[p[2]], what)]
           Loop(j) == j = [u \in SUBSET DOMAIN s |->
                             IF u = {} THEN acc ELSE addClient(j[u \ {Max(u)}], w, k, s[Max(u)], what)]
           j == CHOOSE j : Loop(j)
<1>1. Folded(acc, w, k, what) = j[1..n]
  BY DEF FoldLeft, MapThenFoldSet, Folded
<1>0. DOMAIN s = 1..n
  OBVIOUS
<1>2. G \in [W \X (1..n) -> W] /\ \A a \in W, i \in 1..n : G[<<a, i>>] = addClient(a, w, k, s[i], what)
  OBVIOUS
<1> HIDE DEF s, G
<1>3. PICK it \in [SUBSET (1..n) -> W] : Folds(it, acc, G, n)
  BY <1>2, FoldExists
<1>4. Loop(it)
  <2>1. ASSUME NEW u \in SUBSET (1..n), u # {} PROVE it[u] = addClient(it[u \ {Max(u)}], w, k, s[Max(u)], what)
    <3>1. Max(u) \in 1..n /\ it[u \ {Max(u)}] \in W
      BY <2>1, MaxIs
    <3> QED
      BY <1>2, <1>3, <2>1, <3>1 DEF Folds
  <2>2. it[{}] = acc
    BY <1>3 DEF Folds
  <2>3. it = [u \in SUBSET (1..n) |-> it[u]]
    OBVIOUS
  <2> QED
    BY <1>0, <2>1, <2>2, <2>3
<1>5. Loop(j)
  BY <1>4
<1> HIDE DEF j, Loop
<1>6. Obeys(j, acc, G, n, W)
  <2>1. ASSUME NEW u \in SUBSET (1..n), u # {}, j[u \ {Max(u)}] \in W
        PROVE  j[u] = G[<<j[u \ {Max(u)}], Max(u)>>]
    <3>1. Max(u) \in 1..n
      BY <2>1, MaxIs
    <3> QED
      BY <1>0, <1>2, <1>5, <2>1, <3>1 DEF Loop
  <2>2. j[{}] = acc
    BY <1>5 DEF Loop
  <2> QED
    BY <2>1, <2>2 DEF Obeys
<1>7. PICK t \in [0..n -> W] : t[n] = j[1..n] /\ Traces(t, acc, G, n)
  BY <1>2, <1>6, FoldSteps
<1>8. ASSUME NEW i \in 1..n PROVE t[i] = addClient(t[i - 1], w, k, s[i], what)
  <2>1. t[i - 1] \in W
    OBVIOUS
  <2> QED
    BY <1>2, <1>7, <2>1 DEF Traces
<1>9. t[0] = acc
  BY <1>7 DEF Traces
<1> QED
  BY <1>1, <1>7, <1>8, <1>9 DEF AllTrace, s

-----------------------------------------------------------------------------
(***************************************************************************)
(* The world state.                                                        *)
(***************************************************************************)
What(k) == IF k = "pos" THEN position ELSE messages

\* Everything that is told on channel k is told to all.
Heard(acc, k, D) == k = "msg" => Told(acc, D)

\* What x has said is the next to be told.
LEMMA LeftStep ==
  ASSUME WaitOK, NEW k \in {"pos", "msg"}, NEW done \in SUBSET Entities, NEW x \in Entities, x \notin done,
         NEW items, items = What(k)[x], NEW T, T = Left(k, done), NEW later, later = Left(k, done \cup {x})
  PROVE  items \in Seq(Items) /\ Speaks(items, ownernum(x), k, T, later)
<1>1. /\ position \in [Entities -> Seq(Items)] /\ messages \in [Entities -> Seq(Items)]
      /\ Distinct(position) /\ Distinct(messages)
      /\ \A y, z \in Entities : Nos(position[y]) \cap Nos(messages[z]) = {}
      /\ Owed(position[x], ownernum(x)) /\ Owed(messages[x], ownernum(x))
      /\ \A i \in DOMAIN messages[x] : messages[x][i].excused \/ messages[x][i].map = maps
  BY DEF WaitOK, Apart
<1>2. CASE k = "pos"
  <2>1. items = position[x]
    BY <1>2 DEF What
  <2>2. T = UNION ({Nos(position[y]) : y \in Entities \ done} \cup {Nos(messages[y]) : y \in Entities})
    BY <1>2 DEF Left
  <2>3. later = UNION ({Nos(position[y]) : y \in Entities \ (done \cup {x})} \cup {Nos(messages[y]) : y \in Entities})
    BY <1>2 DEF Left
  <2>4. Single(items) /\ \A y \in Entities : y # x => Nos(position[y]) \cap Nos(items) = {}
    BY <1>1, <2>1 DEF Distinct
  <2>5. \A y \in Entities : Nos(messages[y]) \cap Nos(items) = {}
    BY <1>1, <2>1
  <2>6. later \subseteq T /\ Nos(items) \subseteq T
    BY <2>1, <2>2, <2>3
  <2>7. Nos(items) \cap later = {}
    <3> SUFFICES ASSUME NEW z \in Nos(items), z \in later PROVE FALSE
      OBVIOUS
    <3>1. \/ \E y \in Entities : y # x /\ z \in Nos(position[y])
          \/ \E y \in Entities : z \in Nos(messages[y])
      BY <2>3
    <3> QED
      BY <2>4, <2>5, <3>1
  <2>8. items \in Seq(Items)
    BY <1>1, <2>1
  <2> QED
    BY <1>1, <1>2, <2>1, <2>4, <2>6, <2>7, <2>8 DEF Speaks
<1>3. CASE k = "msg"
  <2>1. items = messages[x]
    BY <1>3 DEF What
  <2>2. T = UNION ({Nos(position[y]) : y \in Entities \ Served} \cup {Nos(messages[y]) : y \in Entities \ done})
    BY <1>3 DEF Left
  <2>3. later = UNION ({Nos(position[y]) : y \in Entities \ Served} \cup {Nos(messages[y]) : y \in Entities \ (done \cup {x})})
    BY <1>3 DEF Left
  <2>4. Single(items) /\ \A y \in Entities : y # x => Nos(messages[y]) \cap Nos(items) = {}
    BY <1>1, <2>1 DEF Distinct
  <2>5. \A y \in Entities : Nos(position[y]) \cap Nos(items) = {}
    BY <1>1, <2>1
  <2>6. later \subseteq T /\ Nos(items) \subseteq T
    BY <2>1, <2>2, <2>3
  <2>7. Nos(items) \cap later = {}
    <3> SUFFICES ASSUME NEW z \in Nos(items), z \in later PROVE FALSE
      OBVIOUS
    <3>1. \/ \E y \in Entities : y # x /\ z \in Nos(messages[y])
          \/ \E y \in Entities : z \in Nos(position[y])
      BY <2>3
    <3> QED
      BY <2>4, <2>5, <3>1
  <2>8. items \in Seq(Items) /\ Timely(items, maps)
    BY <1>1, <2>1 DEF Timely
  <2> QED
    BY <1>1, <2>1, <2>4, <2>6, <2>7, <2>8 DEF Speaks
<1> QED
  BY <1>2, <1>3

\* An accumulator is whole.
LEMMA AccWhole ==
  ASSUME NEW w, NEW k, NEW T, NEW acc, AccOK(acc, w, k, T)
  PROVE  acc \in Whole
<1> QED
  BY DEF AccOK, Whole, PartsOK

\* What waits are items.
LEMMA WhatIs ==
  ASSUME WaitOK, NEW k
  PROVE  \A x \in Entities : What(k)[x] \in Seq(Items)
<1> QED
  BY DEF WaitOK, What

\* addClient keeps the accumulator whole.
LEMMA ClientWhole ==
  ASSUME RestOK, WaitOK, NEW w \in Nat, NEW k, NEW acc \in Whole, NEW c \in Clients
  PROVE  /\ addClient(acc, w, k, c, What(k)) \in Whole
         /\ \E n \in Nat : /\ DOMAIN Parts(c) = 1..n
                           /\ \E t \in [0..n -> Whole] :
                                 /\ t[n] = addClient(acc, w, k, c, What(k))
                                 /\ ClientTrace(t, acc, w, k, c, What(k), n)
<1> DEFINE what == What(k)
           n == Len(Parts(c))
           W == Whole
<1>1. Parts(c) \in Seq(Entities)
  BY PartsAre
<1>2. n \in Nat /\ DOMAIN Parts(c) = 1..n /\ \A j \in 1..n : Parts(c)[j] \in Entities
  BY <1>1
<1>3. \A x \in Entities : what[x] \in Seq(Items)
  BY WhatIs
<1> HIDE DEF n, what, W
<1>4. ASSUME NEW a \in W, NEW j \in 1..n PROVE addItems(a, w, k, c, what[Parts(c)[j]]) \in W
  <2> DEFINE items == what[Parts(c)[j]]
  <2>1. items \in Seq(Items) /\ a \in Whole
    BY <1>2, <1>3 DEF W
  <2> HIDE DEF items
  <2>2. addItems(a, w, k, c, items) \in Whole
    BY <2>1, ItemsWhole
  <2> QED
    BY <2>2 DEF items, W
<1>5. acc \in W
  BY DEF W
<1>6. PICK t \in [0..n -> W] : t[n] = addClient(acc, w, k, c, what) /\ ClientTrace(t, acc, w, k, c, what, n)
  BY <1>2, <1>4, <1>5, ClientSteps
<1>7. n \in 0..n
  BY <1>2
<1>8. addClient(acc, w, k, c, what) \in W
  BY <1>6, <1>7
<1> QED
  BY <1>2, <1>6, <1>8 DEF W, what

\* What the accumulator is when some of the parts of c have been added.
ServedOK(a, acc, w, k, c, done, D) ==
    /\ AccOK(a, w, k, Left(k, done \cup D)) /\ Current(a.buf, a.own[c])
    /\ \A U \in SUBSET (Clients \ {c}) : Unserved(acc, U) => Unserved(a, U)
    /\ Heard(a, k, done \cup D)

\* One of the parts of c.
LEMMA ServeOne ==
  ASSUME RestOK, WaitOK, NEW w \in Nat, NEW k \in {"pos", "msg"}, NEW acc, NEW c \in Clients,
         NEW done \in SUBSET Entities, NEW D \in SUBSET Entities, NEW a, ServedOK(a, acc, w, k, c, done, D),
         NEW x \in Entities, ownernum(x) = c, x \notin done \cup D,
         NEW new, new = addItems(a, w, k, c, What(k)[x])
  PROVE  ServedOK(new, acc, w, k, c, done, D \cup {x})
<1> DEFINE all == done \cup D
           T == Left(k, all)
           more == all \cup {x}
           later == Left(k, more)
           items == What(k)[x]
<1>1. all \in SUBSET Entities /\ x \notin all /\ items = What(k)[x] /\ T = Left(k, all) /\ later = Left(k, all \cup {x})
      /\ more = done \cup (D \cup {x}) /\ later = Left(k, more) /\ more = all \cup {x}
  OBVIOUS
<1>2. /\ AccOK(a, w, k, T) /\ Current(a.buf, a.own[c]) /\ Heard(a, k, all)
      /\ \A U \in SUBSET (Clients \ {c}) : Unserved(acc, U) => Unserved(a, U)
  BY DEF ServedOK
<1>9. new = addItems(a, w, k, c, items)
  OBVIOUS
<1> HIDE DEF all, T, later, items, more
<1>3. items \in Seq(Items) /\ Speaks(items, c, k, T, later)
  BY <1>1, LeftStep
<1>4. /\ AccOK(new, w, k, later) /\ Current(new.buf, new.own[c])
      /\ \A U \in SUBSET (Clients \ {c}) : Unserved(a, U) => Unserved(new, U)
  BY <1>2, <1>3, <1>9, ItemsAdded
<1>5. Heard(new, k, more)
  <2>1. ASSUME k = "msg" PROVE Told(new, all \cup {x})
    <3>1. items = messages[x]
      BY <1>1, <2>1 DEF What
    <3>2. Told(a, all)
      BY <1>2, <2>1 DEF Heard
    <3>3. /\ AccOK(a, w, "msg", T) /\ messages[x] \in Seq(Items) /\ Speaks(messages[x], c, "msg", T, later)
          /\ new = addItems(a, w, "msg", c, messages[x])
      BY <1>2, <1>3, <1>9, <2>1, <3>1
    <3> QED
      BY <1>1, <1>2, <3>2, <3>3, ItemsTold
  <2> QED
    BY <1>1, <2>1 DEF Heard
<1> QED
  BY <1>1, <1>2, <1>4, <1>5 DEF ServedOK

\* All parts of c.
LEMMA ServeClient ==
  ASSUME RestOK, WaitOK, NEW w \in Nat, NEW k \in {"pos", "msg"}, NEW c \in Clients,
         NEW done \in SUBSET Entities, OwnedBy(c) \cap done = {},
         NEW acc, ServedOK(acc, acc, w, k, c, done, {}),
         NEW new, new = addClient(acc, w, k, c, What(k))
  PROVE  ServedOK(new, acc, w, k, c, done, OwnedBy(c))
<1> DEFINE s == Parts(c)
<1>1. acc \in Whole
  BY AccWhole DEF ServedOK
<1>2. PICK n \in Nat : /\ DOMAIN Parts(c) = 1..n
                       /\ \E t \in [0..n -> Whole] :
                             /\ t[n] = addClient(acc, w, k, c, What(k))
                             /\ ClientTrace(t, acc, w, k, c, What(k), n)
  BY <1>1, ClientWhole
<1>3. PICK t \in [0..n -> Whole] : t[n] = new /\ ClientTrace(t, acc, w, k, c, What(k), n)
  BY <1>2
<1>4. DOMAIN s = 1..n /\ \A j \in 1..n : t[j] = addItems(t[j - 1], w, k, c, What(k)[s[j]])
  BY <1>2, <1>3 DEF ClientTrace
<1>5. s \in Seq(Entities) /\ Once(s) /\ ToSet(s) = OwnedBy(c)
  BY PartsAre
<1> HIDE DEF s
<1> DEFINE First(j) == {s[i] : i \in 1..j}
           P == {j \in 0..n : ServedOK(t[j], acc, w, k, c, done, First(j))}
<1>6. 0 \in P
  <2>1. First(0) = {} /\ t[0] = acc /\ 0 \in 0..n
    BY <1>3 DEF ClientTrace
  <2> QED
    BY <2>1
<1>7. ASSUME NEW j \in 0..(n - 1), j \in P PROVE j + 1 \in P
  <2> DEFINE m == j + 1
             x == s[m]
             D == First(j)
             E == First(m)
  <2>1. m \in 1..n /\ m \in 0..n /\ m - 1 = j /\ \A i \in 1..j : i \in 1..n /\ i # m
    OBVIOUS
  <2>2. E = D \cup {x}
    <3>1. \A i \in 1..m : i \in 1..j \/ i = m
      OBVIOUS
    <3>2. \A i \in 1..j : i \in 1..m
      OBVIOUS
    <3>3. m \in 1..m
      OBVIOUS
    <3> HIDE DEF m
    <3> QED
      BY <3>1, <3>2, <3>3
  <2> HIDE DEF m
  <2>3. t[m] = addItems(t[j], w, k, c, What(k)[x])
    BY <1>4, <2>1
  <2>4. x \in Entities /\ x \in OwnedBy(c)
    <3>1. m \in DOMAIN s
      BY <1>4, <2>1
    <3>2. s[m] \in ToSet(s)
      BY <3>1 DEF ToSet
    <3>3. OwnedBy(c) \subseteq Entities
      BY DEF OwnedBy
    <3> QED
      BY <1>5, <3>2, <3>3
  <2>5. ownernum(x) = c /\ x \notin done
    BY <2>4 DEF OwnedBy
  <2>6. x \notin D
    BY <1>4, <1>5, <2>1 DEF Once
  <2>7. D \in SUBSET Entities
    BY <1>4, <1>5, <2>1
  <2>8. ServedOK(t[j], acc, w, k, c, done, D)
    BY <1>7
  <2> HIDE DEF x, D, E, P
  <2>9. x \notin done \cup D
    BY <2>5, <2>6
  <2>10. ServedOK(t[m], acc, w, k, c, done, D \cup {x})
    BY <2>3, <2>4, <2>5, <2>7, <2>8, <2>9, ServeOne
  <2>11. ServedOK(t[m], acc, w, k, c, done, First(m))
    BY <2>2, <2>10 DEF E
  <2> QED
    BY <2>1, <2>11 DEF P, m
<1>8. 0..n \subseteq P
  <2> HIDE DEF P
  <2> QED
    BY <1>6, <1>7, Climb
<1>9. n \in P
  <2>1. n \in 0..n
    OBVIOUS
  <2> QED
    BY <1>8, <2>1
<1>10. First(n) = OwnedBy(c)
  BY <1>4, <1>5 DEF ToSet
<1> HIDE DEF First
<1>11. ServedOK(t[n], acc, w, k, c, done, First(n))
  BY <1>9
<1> QED
  BY <1>3, <1>10, <1>11

\* When the first j clients have been served.
UpTo(j) == {x \in Entities : \E i \in 1..j : ownernum(x) = clients[i]}

AllOK(a, w, k, j) ==
    /\ AccOK(a, w, k, Left(k, UpTo(j))) /\ Heard(a, k, UpTo(j))
    /\ \A i \in DOMAIN clients : i > j => a.own[clients[i]].len = 0

\* The next client.
LEMMA ServeNext ==
  ASSUME RestOK, WaitOK, NEW w \in Nat, NEW k \in {"pos", "msg"}, NEW n \in Nat, DOMAIN clients = 1..n,
         NEW j \in 0..(n - 1), NEW a, AllOK(a, w, k, j), NEW m, m = j + 1,
         NEW new, new = addClient(a, w, k, clients[m], What(k))
  PROVE  AllOK(new, w, k, m)
<1> DEFINE c == clients[m]
           done == UpTo(j)
           later == {clients[i] : i \in {i \in DOMAIN clients : i > m}}
<1>1. m \in 1..n /\ clients \in Seq(Clients) /\ Once(clients)
  BY DEF RestOK
<1>2. c \in Clients
  BY <1>1
<1>3. /\ AccOK(a, w, k, Left(k, done)) /\ Heard(a, k, done)
      /\ \A i \in DOMAIN clients : i > j => a.own[clients[i]].len = 0
  BY DEF AllOK
<1>4. done \in SUBSET Entities
  BY DEF UpTo
<1>5. \A i \in 1..j : i \in DOMAIN clients /\ i # m /\ i \in 1..m
  BY <1>1
<1>6. \A i \in 1..j : clients[i] # c
  BY <1>1, <1>5 DEF Once
<1>7. OwnedBy(c) \cap done = {}
  <2> SUFFICES ASSUME NEW x, x \in OwnedBy(c), x \in done PROVE FALSE
    OBVIOUS
  <2>1. ownernum(x) = c
    BY DEF OwnedBy
  <2>2. PICK i \in 1..j : ownernum(x) = clients[i]
    BY DEF UpTo
  <2> HIDE DEF c
  <2> QED
    BY <1>6, <2>1, <2>2
<1>8. UpTo(m) = done \cup OwnedBy(c)
  <2>1. \A i \in 1..m : i \in 1..j \/ i = m
    OBVIOUS
  <2>2. m \in 1..m
    BY <1>1
  <2>3. ASSUME NEW x \in Entities PROVE (\E i \in 1..m : ownernum(x) = clients[i])
                                        <=> (\E i \in 1..j : ownernum(x) = clients[i]) \/ ownernum(x) = c
    BY <1>5, <2>1, <2>2
  <2> HIDE DEF c
  <2> QED
    BY <2>3 DEF UpTo, OwnedBy
<1>9. a.own[c].len = 0
  <2>1. m > j /\ m \in DOMAIN clients
    BY <1>1
  <2> QED
    BY <1>3, <2>1
<1>10. later \in SUBSET (Clients \ {c}) /\ Unserved(a, later)
  <2>1. ASSUME NEW i \in DOMAIN clients, i > m PROVE clients[i] \in Clients /\ clients[i] # c /\ a.own[clients[i]].len = 0
    <3>1. i # m /\ i > j /\ m \in DOMAIN clients
      BY <1>1, <2>1
    <3> QED
      BY <1>1, <1>3, <3>1 DEF Once
  <2> QED
    BY <2>1 DEF Unserved
<1>11. ServedOK(a, a, w, k, c, done, {})
  <2>1. done \cup {} = done
    OBVIOUS
  <2>2. Current(a.buf, a.own[c])
    BY <1>9 DEF Current
  <2> HIDE DEF done, c
  <2> QED
    BY <1>3, <2>1, <2>2 DEF ServedOK
<1>12. new = addClient(a, w, k, c, What(k))
  OBVIOUS
<1> HIDE DEF done, c, later
<1>13. ServedOK(new, a, w, k, c, done, OwnedBy(c))
  BY <1>2, <1>4, <1>7, <1>11, <1>12, ServeClient
<1>14. AccOK(new, w, k, Left(k, UpTo(m))) /\ Heard(new, k, UpTo(m)) /\ Unserved(new, later)
  BY <1>8, <1>10, <1>13 DEF ServedOK
<1>15. \A i \in DOMAIN clients : i > m => new.own[clients[i]].len = 0
  BY <1>14 DEF Unserved, later
<1> QED
  BY <1>14, <1>15 DEF AllOK

\* All clients.
LEMMA ServeAll ==
  ASSUME RestOK, WaitOK, NEW w \in Nat, NEW k \in {"pos", "msg"},
         NEW acc, AccOK(acc, w, k, Left(k, {})), Cleared(acc), NEW new, new = addAll(acc, w, k, What(k))
  PROVE  AccOK(new, w, k, Left(k, Served)) /\ Cleared(new) /\ Heard(new, k, Served)
<1> DEFINE n == Len(clients)
           W == Whole
           f == Folded(acc, w, k, What(k))
<1>1. clients \in Seq(Clients) /\ n \in Nat /\ DOMAIN clients = 1..n
  BY DEF RestOK
<1>2. \A j \in 1..n : clients[j] \in Clients
  BY <1>1
<1> HIDE DEF n
<1>3. acc \in W
  BY AccWhole
<1>4. ASSUME NEW a \in W, NEW j \in 1..n PROVE addClient(a, w, k, clients[j], What(k)) \in W
  BY <1>2, ClientWhole
<1> HIDE DEF W
<1>5. PICK t \in [0..n -> W] : t[n] = Folded(acc, w, k, What(k)) /\ AllTrace(t, acc, w, k, What(k), n)
  BY <1>1, <1>3, <1>4, AllSteps
<1>6. t[0] = acc /\ \A j \in 1..n : t[j] = addClient(t[j - 1], w, k, clients[j], What(k))
  BY <1>5 DEF AllTrace
<1> DEFINE P == {j \in 0..n : AllOK(t[j], w, k, j)}
<1>7. 0 \in P
  <2>1. UpTo(0) = {}
    BY DEF UpTo
  <2>2. AccOK(acc, w, k, Left(k, UpTo(0))) /\ Heard(acc, k, UpTo(0))
    BY <2>1 DEF Heard, Told
  <2>3. \A i \in DOMAIN clients : acc.own[clients[i]].len = 0
    BY <1>1, <1>2 DEF Cleared
  <2> QED
    BY <1>1, <1>6, <2>2, <2>3 DEF AllOK
<1>8. ASSUME NEW j \in 0..(n - 1), j \in P PROVE j + 1 \in P
  <2> DEFINE m == j + 1
  <2>1. m \in 1..n /\ m \in 0..n /\ m - 1 = j /\ m = j + 1
    BY <1>1
  <2> HIDE DEF m
  <2>2. t[m] = addClient(t[j], w, k, clients[m], What(k))
    BY <1>6, <2>1
  <2>3. AllOK(t[j], w, k, j)
    BY <1>8
  <2>4. AllOK(t[m], w, k, m)
    BY <1>1, <2>1, <2>2, <2>3, ServeNext
  <2> QED
    BY <2>1, <2>4 DEF m
<1> HIDE DEF P
<1>9. 0..n \subseteq P
  BY <1>1, <1>7, <1>8, Climb
<1>10. n \in 0..n
  BY <1>1
<1>11. AllOK(t[n], w, k, n)
  BY <1>9, <1>10 DEF P
<1>12. UpTo(n) = Served
  BY <1>1 DEF UpTo, Served, Here, ToSet
<1>13. f = t[n]
  BY <1>5
<1> HIDE DEF f
<1>14. AccOK(f, w, k, Left(k, Served)) /\ Heard(f, k, Served)
  BY <1>11, <1>12, <1>13 DEF AllOK
<1>15. new = sendChunk(f, w, k)
  BY DEF addAll, f, Folded
<1> DEFINE T == Left(k, Served)
<1>16. AccOK(f, w, k, T)
  BY <1>14
<1> HIDE DEF T
<1>17. AccOK(new, w, k, T) /\ Cleared(new)
  BY <1>15, <1>16, ChunkSent
<1>18. Heard(new, k, Served)
  <2>1. ASSUME k = "msg" PROVE Told(new, Served)
    <3>1. AccOK(f, w, "msg", T) /\ Told(f, Served) /\ new = sendChunk(f, w, "msg") /\ Served \in SUBSET Entities
      BY <1>14, <1>15, <1>16, <2>1 DEF Heard, Served
    <3> QED
      BY <3>1, ChunkTold
  <2> QED
    BY <2>1 DEF Heard
<1> QED
  BY <1>17, <1>18 DEF T

\* What the world state in the buffer w is.
WorldOK(w, lines, n) ==
    /\ lines \in [Clients -> Lines] /\ LinesOK(lines, Left("msg", Served))
    /\ Count(lines, w, n) /\ n \in Nat
    /\ \A x \in Served : \A i \in ToSet(messages[x]) : \A c \in Here \ zombies :
          c = ownernum(x) \/ Reached(lines[c], i)

\* The world state in a buffer without uses, or in none.
LEMMA WorldIs ==
  ASSUME RelayInv, NEW w \in Nat, w \in Buffers => worldstates[w] = 0
  PROVE  WorldOK(w, World(w).wire, World(w).uses)
<1> DEFINE start == [buf |-> <<>>, own |-> NoParts, uses |-> 0, wire |-> wire]
           mid == addAll(start, w, "pos", position)
           end == addAll(mid, w, "msg", messages)
<1>1. RestOK /\ WaitOK /\ WireOK /\ UsesOK
  BY DEF RelayInv
<1>2. World(w) = end
  BY DEF World
<1>3. wire \in [Clients -> Lines] /\ LinesOK(wire, Left("pos", {}))
  BY <1>1 DEF WireOK
<1>4. start.buf = <<>> /\ start.own = NoParts /\ start.uses = 0 /\ start.wire = wire
  OBVIOUS
<1>5. NoParts \in [Clients -> Part] /\ \A c \in Clients : NoParts[c].len = 0 /\ NoParts[c].from = 0
  BY DEF NoParts, Part
<1>6. start \in Accs
  <2>1. <<>> \in Seq(Items) /\ 0 \in Nat
    OBVIOUS
  <2> QED
    BY <1>3, <1>5, <2>1 DEF Accs
<1> HIDE DEF start
<1>7. PartsOK(start)
  <2> SUFFICES ASSUME NEW c \in Clients
               PROVE  Fits(start.buf, start.own[c]) /\ Others(start.buf, start.own[c]) = {}
    BY DEF PartsOK
  <2> QED
    BY <1>4, <1>5 DEF Fits, Others
<1>8. Nos(start.buf) = {} /\ \A T : ChunkOK(start.buf, "pos", T)
  BY <1>4 DEF ChunkOK, Nos, Single, Timely
<1>9. Count(wire, w, 0)
  <2> SUFFICES ASSUME NEW v \in Buffers PROVE Cardinality(Uses(wire, v)) = IF v = w THEN 0 ELSE Cardinality(Uses(wire, v))
    BY DEF Count
  <2>1. CASE v = w
    <3>1. worldstates[v] = 0
      BY <2>1
    <3>2. Cardinality(Uses(wire, v)) = 0
      BY <1>1, <3>1 DEF UsesOK
    <3> QED
      BY <2>1, <3>2
  <2>2. CASE v # w
    BY <2>2
  <2> QED
    BY <2>1, <2>2
<1>10. AccOK(start, w, "pos", Left("pos", {})) /\ Cleared(start)
  <2>1. Left("pos", {}) \cup Nos(start.buf) = Left("pos", {})
    BY <1>8
  <2>2. LinesOK(start.wire, Left("pos", {}) \cup Nos(start.buf)) /\ Count(start.wire, w, start.uses)
    BY <1>3, <1>4, <1>9, <2>1
  <2>3. Cleared(start)
    BY <1>4, <1>5 DEF Cleared
  <2> QED
    BY <1>6, <1>7, <1>8, <2>2, <2>3 DEF AccOK
<1> HIDE DEF mid, end
<1>11. mid = addAll(start, w, "pos", What("pos")) /\ end = addAll(mid, w, "msg", What("msg"))
  BY DEF What, mid, end
<1>12. AccOK(mid, w, "pos", Left("pos", Served)) /\ Cleared(mid)
  <2>1. "pos" \in {"pos", "msg"}
    OBVIOUS
  <2> QED
    BY <1>1, <1>10, <1>11, <2>1, ServeAll
<1>13. Left("pos", Served) = Left("msg", {})
  BY DEF Left
<1>14. AccOK(mid, w, "msg", Left("msg", {}))
  <2>1. \A T : ChunkOK(mid.buf, "msg", T)
    BY <1>12 DEF Cleared, ChunkOK, Nos, Single, Timely
  <2> QED
    BY <1>12, <1>13, <2>1 DEF AccOK
<1>15. AccOK(end, w, "msg", Left("msg", Served)) /\ Cleared(end) /\ Heard(end, "msg", Served)
  <2>1. "msg" \in {"pos", "msg"}
    OBVIOUS
  <2> QED
    BY <1>1, <1>11, <1>12, <1>14, <2>1, ServeAll
<1>16. end.wire \in [Clients -> Lines] /\ end.uses \in Nat
  BY <1>15 DEF AccOK, Accs
<1>17. LinesOK(end.wire, Left("msg", Served)) /\ Count(end.wire, w, end.uses)
  BY <1>15 DEF AccOK, LinesOK
<1>18. ASSUME NEW x \in Served, NEW i \in ToSet(messages[x]), NEW c \in Here \ zombies
       PROVE  c = ownernum(x) \/ Reached(end.wire[c], i)
  <2>1. c = ownernum(x) \/ Reached(end.wire[c], i) \/ i \in Others(end.buf, end.own[c])
    BY <1>15 DEF Heard, Told
  <2>2. Others(end.buf, end.own[c]) = {}
    BY <1>15 DEF Cleared, Others
  <2> QED
    BY <2>1, <2>2
<1>19. WorldOK(w, end.wire, end.uses)
  BY <1>16, <1>17, <1>18 DEF WorldOK
<1> QED
  BY <1>2, <1>19 DEF end

-----------------------------------------------------------------------------
(***************************************************************************)
(* The steps.                                                              *)
(***************************************************************************)
\* The numbers of what waits.
LEMMA LeftHas ==
  \A z : z \in Left("pos", {}) <=> \E x \in Entities : z \in Nos(position[x]) \/ z \in Nos(messages[x])
<1> QED
  BY DEF Left

\* The state in which nobody has connected yet.
LEMMA InitOK == RelayInit => RelayInv
<1> SUFFICES ASSUME RelayInit PROVE RelayInv
  OBVIOUS
<1> USE DEF RelayInit
<1>1. RestOK
  <2>1. <<>> \in Seq(Clients) /\ Once(<<>>)
    BY DEF Once
  <2> QED
    BY <2>1 DEF RestOK
<1>2. \A x \in Entities : position[x] = <<>> /\ messages[x] = <<>>
  OBVIOUS
<1>3. WaitOK
  <2>1. <<>> \in Seq(Items) /\ Nos(<<>>) = {} /\ Single(<<>>) /\ \A c : Owed(<<>>, c)
    BY DEF Nos, Single, Owed
  <2>2. position \in [Entities -> Seq(Items)] /\ messages \in [Entities -> Seq(Items)]
    BY <2>1
  <2> QED
    BY <1>2, <2>1, <2>2 DEF WaitOK, Apart, Distinct
<1>4. \A c \in Clients : wire[c] = Idle /\ All(wire[c]) = {}
  BY DEF All, Idle, ToSet
<1>5. WireOK
  <2>1. Idle.pos = {} /\ Idle.msg = <<>> /\ Idle \in Lines
    <3>1. <<>> \in Seq(Messages)
      OBVIOUS
    <3> QED
      BY <3>1 DEF Idle, Lines
  <2>2. InOrder(<<>>, maps) /\ IsFiniteSet({})
    BY FS_EmptySet DEF InOrder
  <2>3. \A c \in Clients : LineOK(wire[c], c, maps) /\ LineNos(wire[c]) = {}
    BY <1>4, <2>1, <2>2 DEF LineOK, LineNos
  <2>4. wire \in [Clients -> Lines]
    BY <2>1
  <2> QED
    BY <2>3, <2>4 DEF WireOK, LinesOK
<1>6. UsesOK
  <2>1. \A w : Uses(wire, w) = {}
    BY <1>4 DEF Uses
  <2>2. Cardinality({}) = 0
    BY FS_EmptySet
  <2> QED
    BY <2>1, <2>2 DEF UsesOK
<1> QED
  BY <1>1, <1>3, <1>5, <1>6 DEF RelayInv

\* What is in order is in order in a later match.
LEMMA LineLater ==
  ASSUME NEW line, NEW c, NEW m \in Nat, LineOK(line, c, m), NEW l \in Nat, m <= l
  PROVE  LineOK(line, c, l)
<1>1. line \in Lines /\ InOrder(line.msg, m)
  BY DEF LineOK
<1>2. \A a \in DOMAIN line.msg : line.msg[a] \in Messages
  BY <1>1 DEF Lines
<1>3. \A a \in DOMAIN line.msg : line.msg[a].map \in Nat
  BY <1>2 DEF Messages
<1>4. \A a \in DOMAIN line.msg : line.msg[a].map <= l
  <2> SUFFICES ASSUME NEW a \in DOMAIN line.msg PROVE line.msg[a].map <= l
    OBVIOUS
  <2>1. line.msg[a].map \in Nat /\ line.msg[a].map <= m
    BY <1>1, <1>3 DEF InOrder
  <2> QED
    BY <2>1
<1>5. InOrder(line.msg, l)
  BY <1>1, <1>4 DEF InOrder
<1> QED
  BY <1>5 DEF LineOK

\* Both have the same packets in each buffer.
SameUses(new, line) == \A v \in Buffers : {q \in All(new) : q.ws = v} = {q \in All(line) : q.ws = v}

\* N_MAPCHANGE is the last thing on its way to c.
LEMMA Changed ==
  ASSUME NEW line, NEW c, NEW m \in Nat, LineOK(line, c, m), NEW l \in Nat, m <= l,
         NEW p \in Messages, p.items = <<>>, p.map = l, p.ws = NoBuffer,
         NEW new, new = [line EXCEPT !.msg = Append(@, p)]
  PROVE  /\ LineOK(new, c, l) /\ LineNos(new) = LineNos(line)
         /\ SameUses(new, line)
         /\ new.msg = Append(line.msg, p)
<1>1. LineOK(line, c, l)
  BY LineLater
<1>2. p.items = <<>> /\ p.map = l /\ p.ws = NoBuffer
  OBVIOUS
<1>4. NotFrom(p.items, c) /\ Single(p.items) /\ Timely(p.items, l) /\ Nos(p.items) = {} /\ p.map <= l
  BY <1>2 DEF NotFrom, Single, Timely, Nos
<1>6. LineOK(new, c, l) /\ OneMore(new, line, p) /\ new.msg = Append(line.msg, p)
  <2>1. Nos(p.items) \cap LineNos(line) = {}
    BY <1>4
  <2>2. FilledIfUsed(p)
    BY <1>2 DEF FilledIfUsed
  <2> QED
    <3> QED
      BY <1>1, <1>4, <2>1, <2>2, MsgGained
<1>7. LineNos(new) = LineNos(line)
  <2>1. LineNos(new) = LineNos(line) \cup Nos(p.items)
    BY <1>6, Gained
  <2> QED
    BY <1>4, <2>1
<1>8. ASSUME NEW v \in Buffers PROVE {q \in All(new) : q.ws = v} = {q \in All(line) : q.ws = v}
  <2>1. v # NoBuffer
    BY RelayAssumption DEF Buffers, NoBuffer
  <2> QED
    BY <1>2, <1>6, <2>1 DEF OneMore
<1>9. SameUses(new, line)
  BY <1>8 DEF SameUses
<1> QED
  BY <1>6, <1>7, <1>9

\* N_MAPCHANGE for all that are there.
LEMMA ChangedAll ==
  ASSUME maps \in Nat, maps' \in Nat, maps <= maps', NEW lines \in [Clients -> Lines], NEW T, LinesOK(lines, T),
         NEW new, new = Mapchange(lines)
  PROVE  /\ new \in [Clients -> Lines]
         /\ \A c \in Clients : LineOK(new[c], c, maps') /\ LineNos(new[c]) \cap T = {}
         /\ \A v \in Buffers : Uses(new, v) = Uses(lines, v)
         /\ \A c \in Clients : \A n : Reached(lines[c], n) => Reached(new[c], n)
<1>1. ASSUME NEW c \in Clients
      PROVE  /\ LineOK(new[c], c, maps') /\ LineNos(new[c]) \cap T = {}
             /\ SameUses(new[c], lines[c])
             /\ \A n : Reached(lines[c], n) => Reached(new[c], n)
  <2> DEFINE line == lines[c]
             nl == new[c]
             m == maps
             l == maps'
             p == [ws |-> NoBuffer, items |-> <<>>, reliable |-> TRUE, map |-> l]
  <2>1. LineOK(line, c, m) /\ LineNos(line) \cap T = {} /\ m \in Nat /\ l \in Nat /\ m <= l
    BY DEF LinesOK
  <2>2. nl = line \/ nl = [line EXCEPT !.msg = Append(@, p)]
    BY DEF Mapchange
  <2>3. p \in Messages /\ p.items = <<>> /\ p.map = l /\ p.ws = NoBuffer
    <3>1. <<>> \in Seq(Items) /\ NoBuffer \in Nat
      BY DEF NoBuffer
    <3> QED
      BY <2>1, <3>1 DEF Messages
  <2> HIDE DEF line, nl, m, l, p
  <2>4. CASE nl = line
    <3>1. LineOK(line, c, l)
      BY <2>1, LineLater
    <3>2. LineOK(nl, c, l) /\ LineNos(nl) \cap T = {}
      BY <2>1, <2>4, <3>1
    <3> QED
      BY <2>4, <3>2 DEF line, nl, l, SameUses
  <2>5. CASE nl = [line EXCEPT !.msg = Append(@, p)]
    <3>1. /\ LineOK(nl, c, l) /\ LineNos(nl) = LineNos(line)
          /\ SameUses(nl, line)
          /\ nl.msg = Append(line.msg, p)
      BY <2>1, <2>3, <2>5, Changed
    <3>2. line.msg \in Seq(Messages)
      BY <2>1 DEF LineOK, Lines
    <3>3. \A n : Reached(line, n) => Reached(nl, n)
      BY <3>1, <3>2, ReachedMore
    <3>4. LineOK(nl, c, l) /\ LineNos(nl) \cap T = {}
      BY <2>1, <3>1
    <3> QED
      BY <3>1, <3>3, <3>4 DEF line, nl, l
  <2> QED
    BY <2>2, <2>4, <2>5
<1>2. new \in [Clients -> Lines]
  <2>1. \A c \in Clients : new[c] \in Lines
    BY <1>1 DEF LineOK
  <2>2. new = [c \in Clients |-> new[c]]
    BY DEF Mapchange
  <2> QED
    BY <2>1, <2>2
<1>3. \A v \in Buffers : Uses(new, v) = Uses(lines, v)
  BY <1>1, UsesSame DEF SameUses
<1> QED
  BY <1>1, <1>2, <1>3

\* Apart of what waits are lost, none is new.
LEMMA NumbersKept ==
  ASSUME NEW p, NEW m, Apart(p, m), NEW q, NEW n,
         \A x \in Entities : /\ Nos(q[x]) \subseteq Nos(p[x]) /\ Single(q[x])
                             /\ Nos(n[x]) \subseteq Nos(m[x]) /\ Single(n[x])
  PROVE  Apart(q, n)
<1>1. ASSUME NEW x \in Entities, NEW y \in Entities
      PROVE  /\ x # y => Nos(q[x]) \cap Nos(q[y]) = {} /\ Nos(n[x]) \cap Nos(n[y]) = {}
             /\ Nos(q[x]) \cap Nos(n[y]) = {}
  <2>1. /\ Nos(q[x]) \subseteq Nos(p[x]) /\ Nos(n[x]) \subseteq Nos(m[x])
        /\ Nos(q[y]) \subseteq Nos(p[y]) /\ Nos(n[y]) \subseteq Nos(m[y])
    OBVIOUS
  <2>2. /\ x # y => Nos(p[x]) \cap Nos(p[y]) = {} /\ Nos(m[x]) \cap Nos(m[y]) = {}
        /\ Nos(p[x]) \cap Nos(m[y]) = {}
    BY DEF Apart, Distinct
  <2> QED
    BY <2>1, <2>2
<1> QED
  BY <1>1 DEF Apart, Distinct

\* What was taken from its owner is excused.
LEMMA ExcusedIs ==
  ASSUME NEW items \in Seq(Items)
  PROVE  /\ Excused(items) \in Seq(Items) /\ Nos(Excused(items)) = Nos(items)
         /\ DOMAIN Excused(items) = DOMAIN items
         /\ Single(items) => Single(Excused(items))
         /\ \A i \in DOMAIN items : Excused(items)[i].excused /\ ~Excused(items)[i].reliable
                                    /\ Excused(items)[i].no = items[i].no
<1> DEFINE e(i) == [no |-> items[i].no, from |-> NoOne, reliable |-> FALSE, map |-> 0, excused |-> TRUE]
           r == Excused(items)
<1>1. Len(items) \in Nat /\ DOMAIN items = 1..Len(items) /\ \A i \in DOMAIN items : items[i] \in Items
  OBVIOUS
<1>2. r = [i \in DOMAIN items |-> e(i)]
  BY DEF Excused
<1>3. \A i \in DOMAIN items : e(i) \in Items
  BY <1>1 DEF Items
<1>4. r \in Seq(Items)
  BY <1>1, <1>2, <1>3
<1>5. DOMAIN r = DOMAIN items /\ \A i \in DOMAIN items : r[i].excused /\ ~r[i].reliable /\ r[i].no = items[i].no
  BY <1>2
<1> HIDE DEF r, e
<1>6. Nos(r) = Nos(items)
  BY <1>5 DEF Nos
<1>7. Single(items) => Single(r)
  BY <1>5 DEF Single
<1> QED
  BY <1>4, <1>5, <1>6, <1>7 DEF r

\* Nothing.
LEMMA Nothing ==
  <<>> \in Seq(Items) /\ Nos(<<>>) = {} /\ Single(<<>>) /\ \A c : Owed(<<>>, c)
<1> QED
  BY DEF Nos, Single, Owed

\* A buffer that is taken is not used by any packet, or it is none.
LEMMA FreshIs ==
  ASSUME NEW w \in Fresh
  PROVE  w \in Nat /\ (w \in Buffers => worldstates[w] = 0)
<1>1. Buffers \subseteq Nat /\ NoBuffer \in Nat /\ NoBuffer \notin Buffers
  BY RelayAssumption DEF Buffers, NoBuffer
<1> QED
  BY <1>1 DEF Fresh

\* sendpackets and changemapByVote take what waits, except what bots without an
\* owner have said.
LEMMA BuildStep ==
  ASSUME RelayInv, NEW w \in Fresh, buildworldstate(w), UNCHANGED <<clients, zombies, owner>>, maps' \in Nat
  PROVE  /\ RestOK' /\ WaitOK' /\ WorldOK(w, World(w).wire, World(w).uses)
         /\ \A v \in Buffers : worldstates'[v] = Cardinality(Uses(World(w).wire, v))
         /\ (Left("pos", {}))' \subseteq Left("msg", Served)
<1>1. RestOK /\ WaitOK /\ UsesOK
  BY DEF RelayInv
<1>2. /\ worldstates' = [v \in Buffers |-> IF v = w THEN World(w).uses ELSE worldstates[v]]
      /\ position' = Unsaid(position) /\ messages' = Unsaid(messages)
      /\ reliablemessages' = FALSE
  BY DEF buildworldstate
<1>3. WorldOK(w, World(w).wire, World(w).uses)
  BY FreshIs, WorldIs
<1>4. \A v \in Buffers : worldstates'[v] = Cardinality(Uses(World(w).wire, v))
  <2> SUFFICES ASSUME NEW v \in Buffers PROVE worldstates'[v] = Cardinality(Uses(World(w).wire, v))
    OBVIOUS
  <2> DEFINE lines == World(w).wire
             u == World(w).uses
  <2>1. Cardinality(Uses(lines, v)) = IF v = w THEN u ELSE Cardinality(Uses(wire, v))
    BY <1>3 DEF WorldOK, Count
  <2>2. worldstates'[v] = IF v = w THEN u ELSE worldstates[v]
    BY <1>2
  <2>3. worldstates[v] = Cardinality(Uses(wire, v))
    BY <1>1 DEF UsesOK
  <2> HIDE DEF lines, u
  <2>4. worldstates'[v] = Cardinality(Uses(lines, v))
    BY <2>1, <2>2, <2>3
  <2> QED
    BY <2>4 DEF lines
<1>5. RestOK'
  BY <1>1, <1>2 DEF RestOK, Once
<1>6. \A x \in Entities : /\ position'[x] = IF x \in Served THEN <<>> ELSE position[x]
                          /\ messages'[x] = IF x \in Served THEN <<>> ELSE messages[x]
  BY <1>2 DEF Unsaid
<1>7. \A x \in Entities : Single(position[x]) /\ Single(messages[x])
  BY <1>1 DEF WaitOK, Apart, Distinct
<1>8. Apart(position', messages')
  <2>1. \A x \in Entities : /\ Nos(position'[x]) \subseteq Nos(position[x]) /\ Single(position'[x])
                            /\ Nos(messages'[x]) \subseteq Nos(messages[x]) /\ Single(messages'[x])
    BY <1>6, <1>7, Nothing
  <2>2. Apart(position, messages)
    BY <1>1 DEF WaitOK
  <2> QED
    BY <2>1, <2>2, NumbersKept
<1>9. position' \in [Entities -> Seq(Items)] /\ messages' \in [Entities -> Seq(Items)]
  <2>1. position \in [Entities -> Seq(Items)] /\ messages \in [Entities -> Seq(Items)]
    BY <1>1 DEF WaitOK
  <2>2. \A x \in Entities : position'[x] \in Seq(Items) /\ messages'[x] \in Seq(Items)
    BY <1>6, <2>1, Nothing
  <2>3. position' = [x \in Entities |-> position'[x]] /\ messages' = [x \in Entities |-> messages'[x]]
    BY <1>2 DEF Unsaid
  <2> QED
    BY <2>2, <2>3
<1>10. ASSUME NEW x \in Entities
       PROVE  /\ Owed(position'[x], ownernum(x)) /\ Owed(messages'[x], ownernum(x))
              /\ \A i \in DOMAIN messages'[x] : messages'[x][i].excused /\ ~messages'[x][i].reliable
  <2>1. /\ Owed(position[x], ownernum(x)) /\ Owed(messages[x], ownernum(x))
        /\ \A i \in DOMAIN messages[x] : messages[x][i].excused => ~messages[x][i].reliable
    BY <1>1 DEF WaitOK
  <2>2. CASE x \in Served
    BY <1>6, <2>2, Nothing
  <2>3. CASE x \notin Served
    <3>1. ownernum(x) \notin Here
      BY <2>3 DEF Served
    <3>2. \A i \in DOMAIN messages[x] : messages[x][i].excused /\ ~messages[x][i].reliable
      BY <2>1, <3>1 DEF Owed
    <3> QED
      BY <1>6, <2>1, <2>3, <3>2
  <2> QED
    BY <2>2, <2>3
<1>11. WaitOK'
  <2>1. \A x : (ownernum(x))' = ownernum(x)
    BY DEF ownernum
  <2>2. Here' = Here
    BY DEF Here
  <2>3. ASSUME NEW x \in Entities
        PROVE  (Owed(position[x], ownernum(x)))' /\ (Owed(messages[x], ownernum(x)))'
    <3>1. Owed(position'[x], ownernum(x)) /\ Owed(messages'[x], ownernum(x)) /\ (ownernum(x))' = ownernum(x)
      BY <1>10, <2>1
    <3> QED
      BY <2>2, <3>1 DEF Owed
  <2> QED
    BY <1>8, <1>9, <1>10, <2>3 DEF WaitOK
<1>12. (Left("pos", {}))' \subseteq Left("msg", Served)
  <2>1. ASSUME NEW z, z \in (Left("pos", {}))' PROVE z \in Left("msg", Served)
    <3>1. PICK x \in Entities : z \in Nos(position'[x]) \/ z \in Nos(messages'[x])
      BY <2>1 DEF Left
    <3>2. x \notin Served
      BY <1>6, <3>1, Nothing
    <3>3. z \in Nos(position[x]) \/ z \in Nos(messages[x])
      BY <1>6, <3>1, <3>2
    <3> QED
      BY <3>2, <3>3 DEF Left
  <2> QED
    BY <2>1
<1> QED
  BY <1>3, <1>4, <1>5, <1>11, <1>12

\* The invariant holds after a step.
LEMMA Assembled ==
  ASSUME RestOK', WaitOK', wire' \in [Clients -> Lines], NEW T, (Left("pos", {}))' \subseteq T,
         \A c \in Clients : LineOK(wire'[c], c, maps') /\ LineNos(wire'[c]) \cap T = {},
         \A v \in Buffers : worldstates'[v] = Cardinality(Uses(wire', v))
  PROVE  RelayInv'
<1>1. WireOK'
  <2>1. \A c \in Clients : LineNos(wire'[c]) \cap (Left("pos", {}))' = {}
    OBVIOUS
  <2> QED
    BY <2>1 DEF WireOK, LinesOK
<1>2. UsesOK'
  BY DEF UsesOK
<1> QED
  BY <1>1, <1>2 DEF RelayInv

\* sendpackets.
LEMMA SendStep ==
  ASSUME RelayInv, sendpackets
  PROVE  RelayInv'
<1>1. PICK w \in Fresh : buildworldstate(w) /\ wire' = World(w).wire
  BY DEF sendpackets
<1>2. UNCHANGED <<clients, zombies, owner>> /\ maps' = maps /\ maps \in Nat
  BY DEF sendpackets, RelayInv, RestOK
<1> DEFINE T == Left("msg", Served)
<1>3. /\ RestOK' /\ WaitOK' /\ WorldOK(w, World(w).wire, World(w).uses)
      /\ \A v \in Buffers : worldstates'[v] = Cardinality(Uses(World(w).wire, v))
      /\ (Left("pos", {}))' \subseteq T
  BY <1>1, <1>2, BuildStep
<1>4. wire' \in [Clients -> Lines] /\ \A c \in Clients : LineOK(wire'[c], c, maps') /\ LineNos(wire'[c]) \cap T = {}
  BY <1>1, <1>2, <1>3 DEF WorldOK, LinesOK
<1>5. \A v \in Buffers : worldstates'[v] = Cardinality(Uses(wire', v))
  BY <1>1, <1>3
<1> HIDE DEF T
<1> QED
  BY <1>3, <1>4, <1>5, Assembled

\* changemapByVote.
LEMMA VoteStep ==
  ASSUME RelayInv, changemapByVote
  PROVE  RelayInv'
<1>1. PICK w \in Fresh : buildworldstate(w) /\ wire' = Mapchange(World(w).wire)
  BY DEF changemapByVote
<1>2. UNCHANGED <<clients, zombies, owner>> /\ maps' \in Nat /\ maps \in Nat /\ maps <= maps'
  BY DEF changemapByVote, RelayInv, RestOK
<1> DEFINE T == Left("msg", Served)
           lines == World(w).wire
<1>3. /\ RestOK' /\ WaitOK' /\ WorldOK(w, lines, World(w).uses)
      /\ \A v \in Buffers : worldstates'[v] = Cardinality(Uses(lines, v))
      /\ (Left("pos", {}))' \subseteq T
  BY <1>1, <1>2, BuildStep
<1>4. lines \in [Clients -> Lines] /\ LinesOK(lines, T)
  BY <1>3 DEF WorldOK
<1>5. wire' = Mapchange(lines)
  BY <1>1
<1> HIDE DEF T, lines
<1>6. /\ wire' \in [Clients -> Lines]
      /\ \A c \in Clients : LineOK(wire'[c], c, maps') /\ LineNos(wire'[c]) \cap T = {}
      /\ \A v \in Buffers : Uses(wire', v) = Uses(lines, v)
  BY <1>2, <1>4, <1>5, ChangedAll
<1>7. \A v \in Buffers : worldstates'[v] = Cardinality(Uses(wire', v))
  BY <1>3, <1>6
<1> QED
  BY <1>3, <1>6, <1>7, Assembled

\* The maps of messages that wait are set anew.
Moved(items, m) == [i \in DOMAIN items |-> [items[i] EXCEPT !.map = m]]

\* Nothing else of them changes.
LEMMA MovedIs ==
  ASSUME NEW items \in Seq(Items), NEW m \in Nat
  PROVE  /\ Moved(items, m) \in Seq(Items) /\ Nos(Moved(items, m)) = Nos(items)
         /\ DOMAIN Moved(items, m) = DOMAIN items
         /\ Single(items) => Single(Moved(items, m))
         /\ \A i \in DOMAIN items : /\ Moved(items, m)[i].excused = items[i].excused
                                    /\ Moved(items, m)[i].reliable = items[i].reliable
                                    /\ Moved(items, m)[i].from = items[i].from
                                    /\ Moved(items, m)[i].no = items[i].no
                                    /\ Moved(items, m)[i].map = m
<1> DEFINE e(i) == [items[i] EXCEPT !.map = m]
           r == Moved(items, m)
<1>1. Len(items) \in Nat /\ DOMAIN items = 1..Len(items) /\ \A i \in DOMAIN items : items[i] \in Items
  OBVIOUS
<1>2. r = [i \in DOMAIN items |-> e(i)]
  BY DEF Moved
<1>3. ASSUME NEW i \in DOMAIN items
      PROVE  /\ e(i) \in Items /\ e(i).excused = items[i].excused /\ e(i).reliable = items[i].reliable
             /\ e(i).from = items[i].from /\ e(i).no = items[i].no /\ e(i).map = m
  <2>1. items[i] \in Items
    BY <1>1
  <2> QED
    BY <2>1 DEF Items
<1> HIDE DEF r, e
<1>4. r \in Seq(Items)
  BY <1>1, <1>2, <1>3
<1>5. DOMAIN r = DOMAIN items /\ \A i \in DOMAIN items : r[i] = e(i)
  BY <1>2
<1>6. Nos(r) = Nos(items)
  BY <1>3, <1>5 DEF Nos
<1>7. Single(items) => Single(r)
  BY <1>3, <1>5 DEF Single
<1> QED
  BY <1>3, <1>4, <1>5, <1>6, <1>7 DEF r

\* changemapByOthers.
LEMMA OthersStep ==
  ASSUME RelayInv, changemapByOthers
  PROVE  RelayInv'
<1>1. RestOK /\ WaitOK /\ WireOK /\ UsesOK
  BY DEF RelayInv
<1>2. /\ maps' = maps + 1 /\ wire' = Mapchange(wire)
      /\ messages' = [x \in Entities |-> [i \in DOMAIN messages[x] |-> [messages[x][i] EXCEPT !.map = maps']]]
      /\ clients' = clients /\ zombies' = zombies /\ owner' = owner /\ position' = position
      /\ reliablemessages' = reliablemessages /\ worldstates' = worldstates
  BY DEF changemapByOthers
<1>3. maps \in Nat /\ maps' \in Nat /\ maps <= maps'
  BY <1>1, <1>2 DEF RestOK
<1> DEFINE T == Left("pos", {})
           M(x) == messages'[x]
<1>4. wire \in [Clients -> Lines] /\ LinesOK(wire, T)
  BY <1>1 DEF WireOK
<1>5. /\ wire' \in [Clients -> Lines]
      /\ \A c \in Clients : LineOK(wire'[c], c, maps') /\ LineNos(wire'[c]) \cap T = {}
      /\ \A v \in Buffers : Uses(wire', v) = Uses(wire, v)
  <2> HIDE DEF T
  <2> QED
    BY <1>2, <1>3, <1>4, ChangedAll
<1>6. \A v \in Buffers : worldstates'[v] = Cardinality(Uses(wire', v))
  BY <1>1, <1>2, <1>5 DEF UsesOK
<1>7. ASSUME NEW x \in Entities
      PROVE  /\ messages'[x] = Moved(messages[x], maps') /\ messages[x] \in Seq(Items)
             /\ Single(messages[x]) /\ Single(position[x])
  BY <1>1, <1>2 DEF WaitOK, Moved, Apart, Distinct
<1>8. ASSUME NEW x \in Entities
      PROVE  /\ messages'[x] \in Seq(Items) /\ Nos(messages'[x]) = Nos(messages[x])
             /\ DOMAIN messages'[x] = DOMAIN messages[x] /\ Single(messages'[x])
             /\ \A i \in DOMAIN messages[x] : /\ messages'[x][i].excused = messages[x][i].excused
                                              /\ messages'[x][i].reliable = messages[x][i].reliable
                                              /\ messages'[x][i].from = messages[x][i].from
                                              /\ messages'[x][i].map = maps'
  <2> DEFINE items == messages[x]
             new == messages'[x]
             m == maps'
  <2>1. items \in Seq(Items) /\ Single(items) /\ new = Moved(items, m) /\ m \in Nat
    BY <1>3, <1>7
  <2> HIDE DEF items, new, m
  <2>2. /\ Moved(items, m) \in Seq(Items) /\ Nos(Moved(items, m)) = Nos(items)
        /\ DOMAIN Moved(items, m) = DOMAIN items
        /\ Single(items) => Single(Moved(items, m))
        /\ \A i \in DOMAIN items : /\ Moved(items, m)[i].excused = items[i].excused
                                   /\ Moved(items, m)[i].reliable = items[i].reliable
                                   /\ Moved(items, m)[i].from = items[i].from
                                   /\ Moved(items, m)[i].no = items[i].no
                                   /\ Moved(items, m)[i].map = m
    BY <2>1, MovedIs
  <2> QED
    BY <2>1, <2>2 DEF items, new, m
<1>9. (Left("pos", {}))' \subseteq T
  <2>1. ASSUME NEW z, z \in (Left("pos", {}))' PROVE z \in T
    <3>1. PICK x \in Entities : z \in Nos(position'[x]) \/ z \in Nos(messages'[x])
      BY <2>1 DEF Left
    <3>2. z \in Nos(position[x]) \/ z \in Nos(messages[x])
      BY <1>2, <1>8, <3>1
    <3> QED
      BY <3>2 DEF Left
  <2> QED
    BY <2>1
<1>10. RestOK'
  BY <1>1, <1>2, <1>3 DEF RestOK, Once
<1>11. WaitOK'
  <2>1. Apart(position', messages')
    <3>1. Apart(position, messages)
      BY <1>1 DEF WaitOK
    <3>2. \A x \in Entities : /\ Nos(position'[x]) \subseteq Nos(position[x]) /\ Single(position'[x])
                              /\ Nos(messages'[x]) \subseteq Nos(messages[x]) /\ Single(messages'[x])
      BY <1>2, <1>7, <1>8
    <3> QED
      BY <3>1, <3>2, NumbersKept
  <2>2. position' \in [Entities -> Seq(Items)] /\ messages' \in [Entities -> Seq(Items)]
    <3>1. messages' = [x \in Entities |-> messages'[x]]
      BY <1>2
    <3>2. position' \in [Entities -> Seq(Items)]
      BY <1>1, <1>2 DEF WaitOK
    <3> QED
      BY <1>8, <3>1, <3>2
  <2>3. ASSUME NEW x \in Entities
        PROVE  (Owed(position[x], ownernum(x)))' /\ (Owed(messages[x], ownernum(x)))'
    <3>1. Owed(position[x], ownernum(x)) /\ Owed(messages[x], ownernum(x))
      BY <1>1 DEF WaitOK
    <3>2. (ownernum(x))' = ownernum(x) /\ Here' = Here
      BY <1>2 DEF ownernum, Here
    <3>3. Owed(messages'[x], ownernum(x)) /\ Owed(position'[x], ownernum(x))
      BY <1>2, <1>8, <3>1 DEF Owed
    <3> QED
      BY <3>2, <3>3 DEF Owed
  <2>4. ASSUME NEW x \in Entities, NEW i \in DOMAIN messages'[x]
        PROVE  /\ messages'[x][i].excused \/ messages'[x][i].map = maps'
               /\ messages'[x][i].excused => ~messages'[x][i].reliable
               /\ messages'[x][i].reliable => reliablemessages'
    <3>1. i \in DOMAIN messages[x]
      BY <1>8
    <3>2. /\ messages[x][i].excused => ~messages[x][i].reliable
          /\ messages[x][i].reliable => reliablemessages
      BY <1>1, <3>1 DEF WaitOK
    <3>3. /\ messages'[x][i].excused = messages[x][i].excused
          /\ messages'[x][i].reliable = messages[x][i].reliable
          /\ messages'[x][i].map = maps' /\ reliablemessages' = reliablemessages
      BY <1>2, <1>8, <3>1
    <3> QED
      BY <3>2, <3>3, Zenon
  <2> QED
    BY <2>1, <2>2, <2>3, <2>4 DEF WaitOK
<1> HIDE DEF T
<1> QED
  BY <1>5, <1>6, <1>9, <1>10, <1>11, Assembled

\* What waits is the same.
LEMMA WaitSame ==
  ASSUME RestOK, WaitOK, UNCHANGED <<clients, owner, position, messages, reliablemessages, maps>>
  PROVE  RestOK' /\ WaitOK' /\ (Left("pos", {}))' = Left("pos", {})
<1>1. RestOK'
  BY DEF RestOK, Once
<1>2. (\A x : (ownernum(x))' = ownernum(x)) /\ Here' = Here
  BY DEF ownernum, Here
<1>3. WaitOK'
  <2>1. ASSUME NEW x \in Entities
        PROVE  (Owed(position[x], ownernum(x)))' /\ (Owed(messages[x], ownernum(x)))'
    <3>1. Owed(position[x], ownernum(x)) /\ Owed(messages[x], ownernum(x))
      BY DEF WaitOK
    <3> QED
      BY <1>2, <3>1 DEF Owed
  <2> QED
    BY <2>1 DEF WaitOK
<1>4. (Left("pos", {}))' = Left("pos", {})
  BY DEF Left
<1> QED
  BY <1>1, <1>3, <1>4

\* Of the packets in old, line has lost those in G.
LostFrom(line, old, G) ==
    /\ G \subseteq All(old) /\ All(line) \subseteq All(old)
    /\ \A q \in All(old) : q.ws # NoBuffer => (q \in All(line) <=> q \notin G)

\* Packets for c go.
LEMMA Lost ==
  ASSUME WireOK, UsesOK, NEW c \in Clients, NEW G, NEW line, LineOK(line, c, maps), LostFrom(line, wire[c], G),
         wire' = [wire EXCEPT ![c] = line], worldstates' = cleanworldstate(G), maps' = maps
  PROVE  /\ wire' \in [Clients -> Lines]
         /\ \A d \in Clients : LineOK(wire'[d], d, maps') /\ LineNos(wire'[d]) \cap Left("pos", {}) = {}
         /\ \A v \in Buffers : worldstates'[v] = Cardinality(Uses(wire', v))
<1> DEFINE T == Left("pos", {})
           new == wire'
<1>1. wire \in [Clients -> Lines] /\ \A d \in Clients : LineOK(wire[d], d, maps) /\ LineNos(wire[d]) \cap T = {}
  BY DEF WireOK, LinesOK
<1>2. line \in Lines
  BY DEF LineOK
<1>3. new \in [Clients -> Lines] /\ \A d \in Clients : new[d] = IF d = c THEN line ELSE wire[d]
  BY <1>1, <1>2
<1> HIDE DEF T, new
<1>4. LineNos(line) \subseteq LineNos(wire[c])
  BY DEF LostFrom, LineNos
<1>5. \A d \in Clients : LineOK(new[d], d, maps) /\ LineNos(new[d]) \cap T = {}
  BY <1>1, <1>3, <1>4
<1>6. ASSUME NEW v \in Buffers PROVE worldstates'[v] = Cardinality(Uses(new, v))
  <2> DEFINE H == {p \in G : p.ws = v}
             lines == wire
  <2>1. v # NoBuffer
    BY RelayAssumption DEF Buffers, NoBuffer
  <2>2. worldstates'[v] = worldstates[v] - Cardinality(H)
    BY DEF cleanworldstate
  <2>3. worldstates[v] = Cardinality(Uses(lines, v))
    BY DEF UsesOK
  <2>4. \A d \in Clients : IsFiniteSet(All(lines[d]))
    BY <1>1, LineFinite
  <2>5. IsFiniteSet(Uses(lines, v))
    BY <2>4, UsesFinite
  <2>6. H \subseteq {q \in All(lines[c]) : q.ws = v}
    BY DEF LostFrom
  <2>7. {q \in All(new[c]) : q.ws = v} = {q \in All(lines[c]) : q.ws = v} \ H
    BY <1>3, <2>1 DEF LostFrom
  <2>10. Lacks(new[c], lines[c], v, H)
    BY <2>6, <2>7 DEF Lacks
  <2>8. \A d \in Clients \ {c} : new[d] = lines[d]
    BY <1>3
  <2> HIDE DEF H, lines
  <2>9. Cardinality(Uses(new, v)) = Cardinality(Uses(lines, v)) - Cardinality(H)
    BY <2>5, <2>8, <2>10, UsesLost
  <2> QED
    BY <2>2, <2>3, <2>9
<1> QED
  BY <1>3, <1>5, <1>6 DEF T, new

\* Nothing is on its way.
LEMMA IdleOK ==
  ASSUME NEW c, NEW m
  PROVE  LineOK(Idle, c, m) /\ All(Idle) = {}
<1>1. Idle.pos = {} /\ Idle.msg = <<>> /\ Idle \in Lines
  <2>1. <<>> \in Seq(Messages)
    OBVIOUS
  <2> QED
    BY <2>1 DEF Idle, Lines
<1>2. All(Idle) = {}
  BY <1>1 DEF All, ToSet
<1>3. InOrder(<<>>, m) /\ IsFiniteSet({})
  BY FS_EmptySet DEF InOrder
<1> QED
  BY <1>1, <1>2, <1>3 DEF LineOK

\* A client is given up.
LEMMA GiveUpStep ==
  ASSUME RelayInv, NEW c \in Clients, GiveUp(c)
  PROVE  RelayInv'
<1>1. RestOK /\ WaitOK /\ WireOK /\ UsesOK
  BY DEF RelayInv
<1>2. /\ UNCHANGED <<clients, owner, position, messages, reliablemessages, maps>>
      /\ worldstates' = cleanworldstate(All(wire[c])) /\ wire' = [wire EXCEPT ![c] = Idle]
  BY DEF GiveUp
<1>3. RestOK' /\ WaitOK' /\ (Left("pos", {}))' = Left("pos", {})
  BY <1>1, <1>2, WaitSame
<1>4. LineOK(Idle, c, maps) /\ LostFrom(Idle, wire[c], All(wire[c]))
  BY IdleOK DEF LostFrom
<1> DEFINE T == Left("pos", {})
<1>5. /\ wire' \in [Clients -> Lines]
      /\ \A d \in Clients : LineOK(wire'[d], d, maps') /\ LineNos(wire'[d]) \cap T = {}
      /\ \A v \in Buffers : worldstates'[v] = Cardinality(Uses(wire', v))
  BY <1>1, <1>2, <1>4, Lost
<1>6. (Left("pos", {}))' \subseteq T
  BY <1>3
<1> HIDE DEF T
<1> QED
  BY <1>3, <1>5, <1>6, Assembled

\* r has the elements of s but the one at i, in their order.
Thinned(r, s, i) ==
    \E at \in [DOMAIN r -> DOMAIN s] :
       /\ \A j \in DOMAIN r : r[j] = s[at[j]] /\ at[j] # i
       /\ \A j, k \in DOMAIN r : j < k => at[j] < at[k]
       /\ \A j, k \in DOMAIN r : j # k => at[j] # at[k]
       /\ \A k \in DOMAIN s : k # i => \E j \in DOMAIN r : at[j] = k

\* One element less.
LEMMA Shorter ==
  ASSUME NEW S, NEW s \in Seq(S), NEW i \in DOMAIN s
  PROVE  RemoveAt(s, i) \in Seq(S) /\ Thinned(RemoveAt(s, i), s, i)
<1> DEFINE r == RemoveAt(s, i)
           at(j) == IF j < i THEN j ELSE j + 1
           f == [j \in DOMAIN r |-> at(j)]
<1>1. DOMAIN s = 1..Len(s) /\ Len(s) \in Nat /\ i \in 1..Len(s)
  OBVIOUS
<1>2. /\ r \in Seq(S) /\ Len(r) = Len(s) - 1
      /\ \A j \in 1..Len(s) - 1 : r[j] = IF j < i THEN s[j] ELSE s[j + 1]
  BY <1>1, Removed
<1> HIDE DEF r
<1>3. DOMAIN r = 1..Len(s) - 1
  BY <1>1, <1>2
<1>4. ASSUME NEW j \in 1..Len(s) - 1 PROVE r[j] = s[at(j)] /\ at(j) \in 1..Len(s) /\ at(j) # i
  BY <1>1, <1>2
<1>5. ASSUME NEW j \in 1..Len(s) - 1, NEW k \in 1..Len(s) - 1, j < k PROVE at(j) < at(k)
  BY <1>1, <1>5
<1>6. ASSUME NEW j \in 1..Len(s) - 1, NEW k \in 1..Len(s) - 1, j # k PROVE at(j) # at(k)
  BY <1>1, <1>6
<1>7. ASSUME NEW k \in 1..Len(s), k # i PROVE \E j \in 1..Len(s) - 1 : at(j) = k
  <2>1. CASE k < i
    <3>1. k \in 1..Len(s) - 1 /\ at(k) = k
      BY <1>1, <2>1
    <3> QED
      BY <3>1
  <2>2. CASE k > i
    <3>1. k - 1 \in 1..Len(s) - 1 /\ at(k - 1) = k
      BY <1>1, <2>2
    <3> QED
      BY <3>1
  <2> QED
    BY <1>1, <1>7, <2>1, <2>2
<1> HIDE DEF at
<1>8. f \in [DOMAIN r -> DOMAIN s] /\ \A j \in DOMAIN r : f[j] = at(j)
  BY <1>1, <1>3, <1>4
<1> HIDE DEF f
<1>9. Thinned(r, s, i)
  <2>1. \A j \in DOMAIN r : r[j] = s[f[j]] /\ f[j] # i
    BY <1>3, <1>4, <1>8
  <2>2. \A j, k \in DOMAIN r : j < k => f[j] < f[k]
    BY <1>3, <1>5, <1>8
  <2>3. \A j, k \in DOMAIN r : j # k => f[j] # f[k]
    BY <1>3, <1>6, <1>8
  <2>4. \A k \in DOMAIN s : k # i => \E j \in DOMAIN r : f[j] = k
    <3> SUFFICES ASSUME NEW k \in DOMAIN s, k # i PROVE \E j \in DOMAIN r : f[j] = k
      OBVIOUS
    <3>1. PICK j \in 1..Len(s) - 1 : at(j) = k
      BY <1>1, <1>7
    <3> QED
      BY <1>3, <1>8, <3>1
  <2> QED
    BY <1>8, <2>1, <2>2, <2>3, <2>4, Zenon DEF Thinned
<1> QED
  BY <1>2, <1>9 DEF r

\* What is in order stays so.
LEMMA OrderThinned ==
  ASSUME NEW s, NEW i, NEW r, Thinned(r, s, i), NEW m, InOrder(s, m)
  PROVE  InOrder(r, m)
<1>1. PICK at \in [DOMAIN r -> DOMAIN s] :
         /\ \A j \in DOMAIN r : r[j] = s[at[j]] /\ at[j] # i
         /\ \A j, k \in DOMAIN r : j < k => at[j] < at[k]
         /\ \A j, k \in DOMAIN r : j # k => at[j] # at[k]
  BY DEF Thinned
<1>2. \A j \in DOMAIN r : at[j] \in DOMAIN s /\ r[j] = s[at[j]]
  BY <1>1
<1>3. \A a \in DOMAIN r : Single(r[a].items) /\ r[a].map <= m /\ (r[a].ws # NoBuffer => r[a].items # <<>>)
  BY <1>2 DEF InOrder
<1>4. \A a, b \in DOMAIN r : a # b => Nos(r[a].items) \cap Nos(r[b].items) = {}
  BY <1>1, <1>2 DEF InOrder
<1>5. ASSUME NEW a \in DOMAIN r, NEW b \in DOMAIN r, a < b, NEW k \in DOMAIN r[b].items
      PROVE  r[b].items[k].excused \/ r[b].items[k].map >= r[a].map
  <2>1. at[a] < at[b] /\ at[a] \in DOMAIN s /\ at[b] \in DOMAIN s /\ r[a] = s[at[a]] /\ r[b] = s[at[b]]
    BY <1>1, <1>2, <1>5
  <2> QED
    BY <1>5, <2>1 DEF InOrder
<1> QED
  BY <1>3, <1>4, <1>5 DEF InOrder

\* A packet of positions is none of messages.
LEMMA Unlike ==
  ASSUME NEW p \in Positions, NEW q \in Messages
  PROVE  p # q
<1>1. DOMAIN p = {"ws", "items"} /\ "reliable" \in DOMAIN q
  BY DEF Positions, Messages
<1>2. "reliable" # "ws" /\ "reliable" # "items"
  OBVIOUS
<1> QED
  BY <1>1, <1>2

\* Items that are there have numbers.
LEMMA Numbered ==
  ASSUME NEW items \in Seq(Items), items # <<>>
  PROVE  Nos(items) # {}
<1>1. 1 \in DOMAIN items
  OBVIOUS
<1> QED
  BY <1>1 DEF Nos

\* A packet of positions less.
LEMMA PosLost ==
  ASSUME NEW line, NEW c, NEW m, LineOK(line, c, m), NEW p \in line.pos,
         NEW new, new = [line EXCEPT !.pos = @ \ {p}]
  PROVE  LineOK(new, c, m) /\ LostFrom(new, line, {p})
<1>1. /\ line \in Lines /\ IsFiniteSet(line.pos) /\ InOrder(line.msg, m)
      /\ \A q \in All(line) : NotFrom(q.items, c)
  BY DEF LineOK
<1>2. new = [pos |-> line.pos \ {p}, msg |-> line.msg]
  BY <1>1 DEF Lines
<1>3. new \in Lines /\ new.pos = line.pos \ {p} /\ new.msg = line.msg
  BY <1>1, <1>2 DEF Lines
<1>4. IsFiniteSet(new.pos)
  <2> DEFINE A == line.pos
             B == new.pos
  <2>1. IsFiniteSet(A) /\ B \subseteq A
    BY <1>1, <1>3
  <2> HIDE DEF A, B
  <2>2. IsFiniteSet(B)
    BY <2>1, FS_Subset
  <2> QED
    BY <2>2 DEF B
<1>5. All(new) \subseteq All(line) /\ p \in All(line)
  BY <1>3 DEF All
<1>6. p \notin ToSet(line.msg)
  <2>1. p \in Positions /\ \A i \in DOMAIN line.msg : line.msg[i] \in Messages
    BY <1>1 DEF Lines
  <2> QED
    BY <2>1, Unlike DEF ToSet
<1>7. \A q \in All(line) : q \in All(new) <=> q # p
  BY <1>3, <1>6 DEF All
<1>8. \A q \in All(new) : NotFrom(q.items, c)
  BY <1>1, <1>5
<1> QED
  BY <1>1, <1>3, <1>4, <1>5, <1>7, <1>8 DEF LineOK, LostFrom

\* A packet of messages less.
LEMMA MsgLost ==
  ASSUME NEW line, NEW c, NEW m, LineOK(line, c, m), NEW i \in DOMAIN line.msg,
         NEW new, new = [line EXCEPT !.msg = RemoveAt(@, i)]
  PROVE  LineOK(new, c, m) /\ LostFrom(new, line, {line.msg[i]})
<1> DEFINE s == line.msg
           r == RemoveAt(line.msg, i)
           p == line.msg[i]
<1>1. /\ line \in Lines /\ IsFiniteSet(line.pos) /\ InOrder(s, m)
      /\ \A q \in All(line) : NotFrom(q.items, c)
  BY DEF LineOK
<1>2. s \in Seq(Messages) /\ line.pos \subseteq Positions /\ i \in DOMAIN s /\ p = s[i] /\ r = RemoveAt(s, i)
  BY <1>1 DEF Lines
<1>3. new = [pos |-> line.pos, msg |-> r]
  BY <1>1 DEF Lines
<1>4. All(line) = line.pos \cup ToSet(s)
  BY DEF All
<1> HIDE DEF s, r, p
<1>5. r \in Seq(Messages) /\ Thinned(r, s, i)
  BY <1>2, Shorter
<1>6. new \in Lines /\ new.pos = line.pos /\ new.msg = r
  <2> DEFINE A == line.pos
  <2>1. A \in SUBSET Positions /\ new = [pos |-> A, msg |-> r]
    BY <1>2, <1>3
  <2> HIDE DEF A
  <2>2. new.pos = A /\ new.msg = r
    BY <2>1
  <2>3. new \in Lines
    <3>1. new.pos \in SUBSET Positions /\ new.msg \in Seq(Messages)
      BY <1>5, <2>1, <2>2, Zenon
    <3> QED
      BY <2>1, <2>2, <3>1, <1>5 DEF Lines
  <2> QED
    BY <2>2, <2>3 DEF A
<1>7. InOrder(r, m)
  BY <1>1, <1>5, OrderThinned
<1>8. PICK at \in [DOMAIN r -> DOMAIN s] :
         /\ \A j \in DOMAIN r : r[j] = s[at[j]] /\ at[j] # i
         /\ \A k \in DOMAIN s : k # i => \E j \in DOMAIN r : at[j] = k
  BY <1>5 DEF Thinned
<1>9. ToSet(r) \subseteq ToSet(s) /\ p \in ToSet(s) /\ \A k \in DOMAIN s : k # i => s[k] \in ToSet(r)
  <2>1. \A j \in DOMAIN r : at[j] \in DOMAIN s /\ r[j] = s[at[j]]
    BY <1>8
  <2> QED
    BY <1>2, <1>8, <2>1 DEF ToSet
<1>10. All(new) = line.pos \cup ToSet(r)
  BY <1>6 DEF All
<1>11. {p} \subseteq All(line) /\ All(new) \subseteq All(line)
  BY <1>4, <1>9, <1>10
<1>12. p.ws # NoBuffer => p \notin All(new)
  <2> SUFFICES ASSUME p.ws # NoBuffer, p \in All(new) PROVE FALSE
    OBVIOUS
  <2>1. p \in Messages
    BY <1>2
  <2>2. p \notin line.pos
    BY <1>2, <2>1, Unlike
  <2>3. PICK j \in DOMAIN r : p = r[j]
    BY <1>10, <2>2 DEF ToSet
  <2>4. at[j] \in DOMAIN s /\ at[j] # i /\ s[at[j]] = p /\ s[i] = p
    BY <1>2, <1>8, <2>3
  <2>5. Nos(p.items) \cap Nos(p.items) = {} /\ p.items # <<>>
    BY <1>1, <1>2, <2>4 DEF InOrder
  <2>6. p.items \in Seq(Items)
    BY <2>1 DEF Messages
  <2> DEFINE items == p.items
  <2>7. items \in Seq(Items) /\ items # <<>> /\ Nos(items) = {}
    BY <2>5, <2>6
  <2> HIDE DEF items
  <2> QED
    BY <2>7, Numbered
<1>13. ASSUME NEW q \in All(line), q # p PROVE q \in All(new)
  <2>1. CASE q \in line.pos
    BY <1>10, <2>1
  <2>2. CASE q \in ToSet(s)
    <3>1. PICK k \in DOMAIN s : q = s[k]
      BY <2>2 DEF ToSet
    <3>2. k # i
      BY <1>2, <1>13, <3>1
    <3> QED
      BY <1>9, <1>10, <3>1, <3>2
  <2> QED
    BY <1>4, <2>1, <2>2
<1>14. LostFrom(new, line, {p})
  BY <1>11, <1>12, <1>13 DEF LostFrom
<1>15. \A q \in All(new) : NotFrom(q.items, c)
  BY <1>1, <1>11
<1> QED
  BY <1>1, <1>6, <1>7, <1>14, <1>15 DEF LineOK, p

\* ENet is done with a packet.
LEMMA ReleaseStep ==
  ASSUME RelayInv, NEW c \in Clients, Release(c)
  PROVE  RelayInv'
<1> DEFINE T == Left("pos", {})
           line == wire[c]
           new == wire'[c]
<1>1. RestOK /\ WaitOK /\ WireOK /\ UsesOK
  BY DEF RelayInv
<1>2. UNCHANGED <<clients, owner, position, messages, reliablemessages, maps>>
  BY DEF Release
<1>3. RestOK' /\ WaitOK' /\ (Left("pos", {}))' = T
  BY <1>1, <1>2, WaitSame
<1>4. LineOK(line, c, maps) /\ wire \in [Clients -> Lines]
  BY <1>1 DEF WireOK, LinesOK
<1>5. \E G : /\ LineOK(new, c, maps) /\ LostFrom(new, line, G)
             /\ worldstates' = cleanworldstate(G) /\ wire' = [wire EXCEPT ![c] = new]
  <2>1. CASE \E p \in wire[c].pos :
               worldstates' = cleanworldstate({p}) /\ wire' = [wire EXCEPT ![c].pos = @ \ {p}]
    <3>1. PICK p \in wire[c].pos :
               worldstates' = cleanworldstate({p}) /\ wire' = [wire EXCEPT ![c].pos = @ \ {p}]
      BY <2>1
    <3>2. new = [line EXCEPT !.pos = @ \ {p}] /\ wire' = [wire EXCEPT ![c] = new] /\ p \in line.pos
      BY <1>4, <3>1
    <3> HIDE DEF line, new
    <3>3. LineOK(new, c, maps) /\ LostFrom(new, line, {p})
      BY <1>4, <3>2, PosLost
    <3> QED
      BY <3>1, <3>2, <3>3
  <2>2. CASE \E i \in DOMAIN wire[c].msg :
             /\ worldstates' = cleanworldstate({wire[c].msg[i]})
             /\ wire' = [wire EXCEPT ![c].msg = RemoveAt(@, i)]
    <3>1. PICK i \in DOMAIN wire[c].msg :
             /\ worldstates' = cleanworldstate({wire[c].msg[i]})
             /\ wire' = [wire EXCEPT ![c].msg = RemoveAt(@, i)]
      BY <2>2
    <3>2. /\ new = [line EXCEPT !.msg = RemoveAt(@, i)] /\ wire' = [wire EXCEPT ![c] = new]
          /\ i \in DOMAIN line.msg /\ worldstates' = cleanworldstate({line.msg[i]})
      BY <1>4, <3>1
    <3> HIDE DEF line, new
    <3>3. LineOK(new, c, maps) /\ LostFrom(new, line, {line.msg[i]})
      BY <1>4, <3>2, MsgLost
    <3> QED
      BY <3>2, <3>3
  <2> QED
    BY <2>1, <2>2 DEF Release
<1>6. PICK G : /\ LineOK(new, c, maps) /\ LostFrom(new, wire[c], G)
               /\ worldstates' = cleanworldstate(G) /\ wire' = [wire EXCEPT ![c] = new]
  BY <1>5
<1>7. /\ wire' \in [Clients -> Lines]
      /\ \A d \in Clients : LineOK(wire'[d], d, maps') /\ LineNos(wire'[d]) \cap T = {}
      /\ \A v \in Buffers : worldstates'[v] = Cardinality(Uses(wire', v))
  <2>1. maps' = maps
    BY <1>2
  <2> HIDE DEF line, new
  <2> QED
    BY <1>1, <1>6, <2>1, Lost DEF T
<1>8. (Left("pos", {}))' \subseteq T
  BY <1>3
<1> HIDE DEF T
<1> QED
  BY <1>3, <1>7, <1>8, Assembled

\* What the invariant says of what waits for x.
WaitFor(x) ==
    /\ Owed(position[x], ownernum(x)) /\ Owed(messages[x], ownernum(x))
    /\ \A i \in DOMAIN messages[x] :
          /\ messages[x][i].excused \/ messages[x][i].map = maps
          /\ messages[x][i].excused => ~messages[x][i].reliable
          /\ messages[x][i].reliable => reliablemessages

\* A client leaves, or ENet has given it up.
LEMMA DisconnectedStep ==
  ASSUME RelayInv, NEW c \in Clients, disconnected(c)
  PROVE  RelayInv'
<1> DEFINE T == Left("pos", {})
<1>1. RestOK /\ WaitOK /\ WireOK /\ UsesOK
  BY DEF RelayInv
<1>2. PICK d \in Here \cup {NoOne} :
         /\ d # c /\ c \in Here
         /\ owner' = [b \in Bots |-> IF owner[b] = c THEN d ELSE owner[b]]
  <2>1. c # NoOne
    BY RelayAssumption
  <2> QED
    BY <2>1 DEF disconnected
<1>3. /\ clients' = RemoveFirst(clients, c) /\ maps' = maps /\ reliablemessages' = reliablemessages
      /\ worldstates' = cleanworldstate(All(wire[c])) /\ wire' = [wire EXCEPT ![c] = Idle]
      /\ messages' = [x \in Entities |-> IF x \in OwnedBy(c) THEN Excused(messages[x]) ELSE messages[x]]
      /\ position' = [x \in Entities |-> IF x \in OwnedBy(c) THEN Excused(position[x]) ELSE position[x]]
  BY DEF disconnected
<1>4. /\ clients' \in Seq(Clients) /\ Once(clients') /\ Here' = Here \ {c}
  <2>1. clients \in Seq(Clients) /\ c \in ToSet(clients) /\ Once(clients)
    BY <1>1, <1>2 DEF RestOK, Here
  <2>2. /\ RemoveFirst(clients, c) \in Seq(Clients) /\ Once(RemoveFirst(clients, c))
        /\ \A e : e \in ToSet(RemoveFirst(clients, c)) <=> e \in ToSet(clients) /\ e # c
    BY <2>1, Taken
  <2> QED
    BY <1>3, <2>2 DEF Here
<1>5. Here \subseteq Clients
  BY <1>1 DEF RestOK, Here, ToSet
<1>6. RestOK'
  <2>1. owner' \in [Bots -> Clients \cup {NoOne}]
    BY <1>1, <1>2, <1>5 DEF RestOK
  <2>2. reliablemessages' \in BOOLEAN /\ maps' \in Nat
    BY <1>1, <1>3 DEF RestOK
  <2> QED
    BY <1>4, <2>1, <2>2 DEF RestOK, Once
<1>7. ASSUME NEW x \in Entities
      PROVE  /\ position[x] \in Seq(Items) /\ messages[x] \in Seq(Items)
             /\ Single(position[x]) /\ Single(messages[x])
             /\ Owed(position[x], ownernum(x)) /\ Owed(messages[x], ownernum(x))
  BY <1>1 DEF WaitOK, Apart, Distinct
<1>8. ASSUME NEW x \in OwnedBy(c)
      PROVE  /\ x \in Entities /\ messages'[x] = Excused(messages[x]) /\ position'[x] = Excused(position[x])
             /\ messages'[x] \in Seq(Items) /\ position'[x] \in Seq(Items)
             /\ Nos(messages'[x]) = Nos(messages[x]) /\ Nos(position'[x]) = Nos(position[x])
             /\ Single(messages'[x]) /\ Single(position'[x])
             /\ \A i \in DOMAIN messages'[x] : messages'[x][i].excused /\ ~messages'[x][i].reliable
             /\ \A i \in DOMAIN position'[x] : position'[x][i].excused
  <2>1. x \in Entities
    BY DEF OwnedBy
  <2>2. messages'[x] = Excused(messages[x]) /\ position'[x] = Excused(position[x])
    BY <1>3, <2>1
  <2> DEFINE p == position[x]
             m == messages[x]
  <2>3. p \in Seq(Items) /\ m \in Seq(Items) /\ Single(p) /\ Single(m)
    BY <1>7, <2>1
  <2> HIDE DEF p, m
  <2>4. /\ Excused(p) \in Seq(Items) /\ Nos(Excused(p)) = Nos(p) /\ DOMAIN Excused(p) = DOMAIN p
        /\ Single(p) => Single(Excused(p))
        /\ \A i \in DOMAIN p : Excused(p)[i].excused /\ ~Excused(p)[i].reliable
    BY <2>3, ExcusedIs
  <2>5. /\ Excused(m) \in Seq(Items) /\ Nos(Excused(m)) = Nos(m) /\ DOMAIN Excused(m) = DOMAIN m
        /\ Single(m) => Single(Excused(m))
        /\ \A i \in DOMAIN m : Excused(m)[i].excused /\ ~Excused(m)[i].reliable
    BY <2>3, ExcusedIs
  <2> QED
    BY <2>1, <2>2, <2>3, <2>4, <2>5 DEF p, m
<1>9. ASSUME NEW x \in Entities, x \notin OwnedBy(c)
      PROVE  /\ messages'[x] = messages[x] /\ position'[x] = position[x]
             /\ (ownernum(x))' = ownernum(x) /\ ownernum(x) # c
  <2>1. messages'[x] = messages[x] /\ position'[x] = position[x]
    BY <1>3, <1>9
  <2>2. ownernum(x) # c
    BY <1>9 DEF OwnedBy
  <2>3. x \in Clients \/ x \in Bots
    BY DEF Entities
  <2>4. (ownernum(x))' = ownernum(x)
    BY <1>2, <2>2, <2>3 DEF ownernum
  <2> QED
    BY <2>1, <2>2, <2>4
<1>10. ASSUME NEW x \in Entities
       PROVE  /\ messages'[x] \in Seq(Items) /\ position'[x] \in Seq(Items)
              /\ Nos(messages'[x]) \subseteq Nos(messages[x]) /\ Nos(position'[x]) \subseteq Nos(position[x])
              /\ Single(messages'[x]) /\ Single(position'[x])
  <2>1. CASE x \in OwnedBy(c)
    BY <1>8, <2>1
  <2>2. CASE x \notin OwnedBy(c)
    BY <1>7, <1>9, <2>2
  <2> QED
    BY <2>1, <2>2
<1>11. ASSUME NEW x \in Entities PROVE (WaitFor(x))'
  <2>1. CASE x \in OwnedBy(c)
    <3>1. (Owed(position[x], ownernum(x)))' /\ (Owed(messages[x], ownernum(x)))'
      BY <1>8, <2>1 DEF Owed
    <3> QED
      BY <1>8, <2>1, <3>1 DEF WaitFor
  <2>2. CASE x \notin OwnedBy(c)
    <3>1. (Owed(position[x], ownernum(x)))' /\ (Owed(messages[x], ownernum(x)))'
      BY <1>4, <1>7, <1>9, <2>2 DEF Owed
    <3>2. \A i \in DOMAIN messages[x] :
          /\ messages[x][i].excused \/ messages[x][i].map = maps
          /\ messages[x][i].excused => ~messages[x][i].reliable
          /\ messages[x][i].reliable => reliablemessages
      BY <1>1 DEF WaitOK
    <3>3. messages'[x] = messages[x] /\ maps' = maps /\ reliablemessages' = reliablemessages
      BY <1>3, <1>9, <2>2
    <3> QED
      BY <3>1, <3>2, <3>3 DEF WaitFor
  <2> QED
    BY <2>1, <2>2
<1>12. WaitOK'
  <2>1. Apart(position, messages)
    BY <1>1 DEF WaitOK
  <2>2. Apart(position', messages')
    BY <1>10, <2>1, NumbersKept
  <2>3. position' = [x \in Entities |-> position'[x]] /\ messages' = [x \in Entities |-> messages'[x]]
    BY <1>3
  <2>4. position' \in [Entities -> Seq(Items)] /\ messages' \in [Entities -> Seq(Items)]
    BY <1>10, <2>3
  <2> QED
    BY <1>11, <2>2, <2>4 DEF WaitOK, WaitFor
<1>13. (Left("pos", {}))' \subseteq T
  <2>1. ASSUME NEW z, z \in (Left("pos", {}))' PROVE z \in T
    <3>1. PICK x \in Entities : z \in Nos(position'[x]) \/ z \in Nos(messages'[x])
      BY <2>1 DEF Left
    <3>2. z \in Nos(position[x]) \/ z \in Nos(messages[x])
      BY <1>10, <3>1
    <3> QED
      BY <3>2 DEF Left
  <2> QED
    BY <2>1
<1>14. LineOK(Idle, c, maps) /\ LostFrom(Idle, wire[c], All(wire[c]))
  BY IdleOK DEF LostFrom
<1>15. /\ wire' \in [Clients -> Lines]
       /\ \A e \in Clients : LineOK(wire'[e], e, maps') /\ LineNos(wire'[e]) \cap T = {}
       /\ \A v \in Buffers : worldstates'[v] = Cardinality(Uses(wire', v))
  BY <1>1, <1>3, <1>14, Lost
<1> HIDE DEF T
<1> QED
  BY <1>6, <1>12, <1>13, <1>15, Assembled

\* No packet goes or comes.
LEMMA WireSame ==
  ASSUME WireOK, UsesOK, wire' = wire, worldstates' = worldstates, maps' = maps
  PROVE  /\ wire' \in [Clients -> Lines]
         /\ \A d \in Clients : LineOK(wire'[d], d, maps') /\ LineNos(wire'[d]) \cap Left("pos", {}) = {}
         /\ \A v \in Buffers : worldstates'[v] = Cardinality(Uses(wire', v))
<1> QED
  BY DEF WireOK, LinesOK, UsesOK

\* No number is new.
LEMMA LeftLess ==
  ASSUME \A x \in Entities : /\ Nos(position'[x]) \subseteq Nos(position[x])
                             /\ Nos(messages'[x]) \subseteq Nos(messages[x])
  PROVE  (Left("pos", {}))' \subseteq Left("pos", {})
<1>1. ASSUME NEW z, z \in (Left("pos", {}))' PROVE z \in Left("pos", {})
  <2>1. PICK x \in Entities : z \in Nos(position'[x]) \/ z \in Nos(messages'[x])
    BY <1>1 DEF Left
  <2>2. z \in Nos(position[x]) \/ z \in Nos(messages[x])
    BY <2>1
  <2> QED
    BY <2>2 DEF Left
<1> QED
  BY <1>1

\* A client connects.
LEMMA ConnectedStep ==
  ASSUME RelayInv, NEW c \in Clients, connected(c)
  PROVE  RelayInv'
<1> DEFINE T == Left("pos", {})
<1>1. RestOK /\ WaitOK /\ WireOK /\ UsesOK
  BY DEF RelayInv
<1>2. /\ c \notin Here /\ clients' = Append(clients, c) /\ maps' = maps /\ reliablemessages' = reliablemessages
      /\ worldstates' = worldstates /\ wire' = wire /\ owner' = owner
      /\ messages' = [messages EXCEPT ![c] = <<>>] /\ position' = [position EXCEPT ![c] = <<>>]
  BY DEF connected
<1>3. /\ clients' \in Seq(Clients) /\ Once(clients') /\ Here' = Here \cup {c}
  <2>1. clients \in Seq(Clients) /\ c \notin ToSet(clients) /\ Once(clients)
    BY <1>1, <1>2 DEF RestOK, Here
  <2>2. /\ Append(clients, c) \in Seq(Clients) /\ Once(Append(clients, c))
        /\ \A e : e \in ToSet(Append(clients, c)) <=> e \in ToSet(clients) \/ e = c
    BY <2>1, Appended
  <2> QED
    BY <1>2, <2>2 DEF Here
<1>4. RestOK'
  BY <1>1, <1>2, <1>3 DEF RestOK, Once
<1>5. position \in [Entities -> Seq(Items)] /\ messages \in [Entities -> Seq(Items)]
  BY <1>1 DEF WaitOK
<1>6. ASSUME NEW x \in Entities
      PROVE  /\ messages'[x] = messages[x] \/ messages'[x] = <<>>
             /\ position'[x] = position[x] \/ position'[x] = <<>>
             /\ (ownernum(x))' = ownernum(x)
  BY <1>2, <1>5 DEF ownernum
<1>7. ASSUME NEW x \in Entities
      PROVE  /\ messages'[x] \in Seq(Items) /\ position'[x] \in Seq(Items)
             /\ Nos(messages'[x]) \subseteq Nos(messages[x]) /\ Nos(position'[x]) \subseteq Nos(position[x])
             /\ Single(messages'[x]) /\ Single(position'[x])
  <2>1. messages[x] \in Seq(Items) /\ position[x] \in Seq(Items) /\ Single(messages[x]) /\ Single(position[x])
    BY <1>1, <1>5 DEF WaitOK, Apart, Distinct
  <2> QED
    BY <1>6, <2>1, Nothing
<1>8. ASSUME NEW x \in Entities PROVE (WaitFor(x))'
  <2>1. WaitFor(x)
    BY <1>1 DEF WaitOK, WaitFor
  <2>2. (Owed(messages[x], ownernum(x)))'
    <3>1. Owed(messages[x], ownernum(x)) /\ DOMAIN <<>> = {}
      BY <2>1 DEF WaitFor
    <3> QED
      BY <1>3, <1>6, <3>1 DEF Owed
  <2>3. (Owed(position[x], ownernum(x)))'
    <3>1. Owed(position[x], ownernum(x)) /\ DOMAIN <<>> = {}
      BY <2>1 DEF WaitFor
    <3> QED
      BY <1>3, <1>6, <3>1 DEF Owed
  <2>4. DOMAIN <<>> = {} /\ maps' = maps /\ reliablemessages' = reliablemessages
    BY <1>2
  <2> QED
    BY <1>6, <2>1, <2>2, <2>3, <2>4 DEF WaitFor
<1>9. WaitOK'
  <2>1. Apart(position, messages)
    BY <1>1 DEF WaitOK
  <2>2. Apart(position', messages')
    BY <1>7, <2>1, NumbersKept
  <2>4. position' \in [Entities -> Seq(Items)] /\ messages' \in [Entities -> Seq(Items)]
    BY <1>2, <1>5, Nothing
  <2> QED
    BY <1>8, <2>2, <2>4 DEF WaitOK, WaitFor
<1>10. (Left("pos", {}))' \subseteq T
  BY <1>7, LeftLess
<1>11. /\ wire' \in [Clients -> Lines]
       /\ \A e \in Clients : LineOK(wire'[e], e, maps') /\ LineNos(wire'[e]) \cap T = {}
       /\ \A v \in Buffers : worldstates'[v] = Cardinality(Uses(wire', v))
  BY <1>1, <1>2, WireSame
<1> HIDE DEF T
<1> QED
  BY <1>4, <1>9, <1>10, <1>11, Assembled

\* A bot gets another owner.
LEMMA ShiftaiStep ==
  ASSUME RelayInv, NEW c \in Clients, NEW b \in Bots, shiftai(b, c)
  PROVE  RelayInv'
<1> DEFINE T == Left("pos", {})
<1>1. RestOK /\ WaitOK /\ WireOK /\ UsesOK
  BY DEF RelayInv
<1>2. /\ clients' = clients /\ maps' = maps /\ reliablemessages' = reliablemessages
      /\ worldstates' = worldstates /\ wire' = wire /\ owner' = [owner EXCEPT ![b] = c]
      /\ messages' = [messages EXCEPT ![b] = Excused(messages[b])]
      /\ position' = [position EXCEPT ![b] = Excused(position[b])]
  BY DEF shiftai
<1>3. RestOK' /\ Here' = Here
  BY <1>1, <1>2 DEF RestOK, Once, Here
<1>4. position \in [Entities -> Seq(Items)] /\ messages \in [Entities -> Seq(Items)] /\ b \in Entities
  BY <1>1 DEF WaitOK, Entities
<1>5. ASSUME NEW x \in Entities
      PROVE  /\ messages'[x] = IF x = b THEN Excused(messages[x]) ELSE messages[x]
             /\ position'[x] = IF x = b THEN Excused(position[x]) ELSE position[x]
             /\ messages[x] \in Seq(Items) /\ position[x] \in Seq(Items)
             /\ Single(messages[x]) /\ Single(position[x])
             /\ x # b => (ownernum(x))' = ownernum(x)
  <2>1. Single(messages[x]) /\ Single(position[x])
    BY <1>1 DEF WaitOK, Apart, Distinct
  <2>2. x # b => (ownernum(x))' = ownernum(x)
    <3>1. x \in Clients \/ x \in Bots
      BY DEF Entities
    <3>2. owner \in [Bots -> Clients \cup {NoOne}]
      BY <1>1 DEF RestOK
    <3> QED
      BY <1>2, <3>1, <3>2 DEF ownernum
  <2> QED
    BY <1>2, <1>4, <2>1, <2>2
<1>6. ASSUME NEW items, items \in Seq(Items), Single(items)
      PROVE  /\ Excused(items) \in Seq(Items) /\ Nos(Excused(items)) = Nos(items)
             /\ Single(Excused(items))
             /\ \A i \in DOMAIN Excused(items) : Excused(items)[i].excused /\ ~Excused(items)[i].reliable
  <2>1. /\ Excused(items) \in Seq(Items) /\ Nos(Excused(items)) = Nos(items)
        /\ DOMAIN Excused(items) = DOMAIN items
        /\ Single(items) => Single(Excused(items))
        /\ \A i \in DOMAIN items : Excused(items)[i].excused /\ ~Excused(items)[i].reliable
                                   /\ Excused(items)[i].no = items[i].no
    BY <1>6, ExcusedIs
  <2> QED
    BY <1>6, <2>1
<1>7. ASSUME NEW x \in Entities
      PROVE  /\ messages'[x] \in Seq(Items) /\ position'[x] \in Seq(Items)
             /\ Nos(messages'[x]) \subseteq Nos(messages[x]) /\ Nos(position'[x]) \subseteq Nos(position[x])
             /\ Single(messages'[x]) /\ Single(position'[x])
  BY <1>5, <1>6
<1>8. ASSUME NEW x \in Entities PROVE (WaitFor(x))'
  <2>1. WaitFor(x)
    BY <1>1 DEF WaitOK, WaitFor
  <2>2. CASE x = b
    <3>1. /\ \A i \in DOMAIN messages'[x] : messages'[x][i].excused /\ ~messages'[x][i].reliable
          /\ \A i \in DOMAIN position'[x] : position'[x][i].excused
      BY <1>5, <1>6, <2>2
    <3> QED
      BY <3>1 DEF WaitFor, Owed
  <2>3. CASE x # b
    <3>1. /\ messages'[x] = messages[x] /\ position'[x] = position[x] /\ (ownernum(x))' = ownernum(x)
          /\ maps' = maps /\ reliablemessages' = reliablemessages
      BY <1>2, <1>5, <2>3
    <3> QED
      BY <1>3, <2>1, <3>1 DEF WaitFor, Owed
  <2> QED
    BY <2>2, <2>3
<1>9. WaitOK'
  <2>1. Apart(position, messages)
    BY <1>1 DEF WaitOK
  <2>2. Apart(position', messages')
    BY <1>7, <2>1, NumbersKept
  <2>3. Excused(messages[b]) \in Seq(Items) /\ Excused(position[b]) \in Seq(Items)
    BY <1>4, <1>5, <1>6
  <2>4. position' \in [Entities -> Seq(Items)] /\ messages' \in [Entities -> Seq(Items)]
    BY <1>2, <1>4, <2>3
  <2> QED
    BY <1>8, <2>2, <2>4 DEF WaitOK, WaitFor
<1>10. (Left("pos", {}))' \subseteq T
  BY <1>7, LeftLess
<1>11. /\ wire' \in [Clients -> Lines]
       /\ \A e \in Clients : LineOK(wire'[e], e, maps') /\ LineNos(wire'[e]) \cap T = {}
       /\ \A v \in Buffers : worldstates'[v] = Cardinality(Uses(wire', v))
  BY <1>1, <1>2, WireSame
<1> HIDE DEF T
<1> QED
  BY <1>3, <1>9, <1>10, <1>11, Assembled

\* A new item has a number that nothing has.
LEMMA ItemIs ==
  ASSUME RestOK, Unused # {}, NEW c \in Clients, NEW r \in BOOLEAN, NEW it, it = Item(c, r)
  PROVE  /\ it \in Items /\ it.from = c /\ it.reliable = r /\ it.map = maps /\ ~it.excused
         /\ \A x \in Entities : it.no \notin Nos(position[x]) /\ it.no \notin Nos(messages[x])
         /\ \A d \in Clients : it.no \notin LineNos(wire[d])
<1> DEFINE z == Min(Unused)
<1>1. Unused \in SUBSET Nat
  BY DEF Unused
<1>2. z \in Unused
  BY <1>1, MinIs
<1>3. z \in Nat /\ \A n \in Waiting \cup UNION {OnWire(d) : d \in Clients} : n.no # z
  BY <1>1, <1>2 DEF Unused
<1> HIDE DEF z
<1>4. it = [no |-> z, from |-> c, reliable |-> r, map |-> maps, excused |-> FALSE]
  BY DEF Item, z
<1>5. maps \in Nat
  BY DEF RestOK
<1>6. it \in Items /\ it.from = c /\ it.reliable = r /\ it.map = maps /\ ~it.excused /\ it.no = z
  BY <1>3, <1>4, <1>5 DEF Items
<1>7. ASSUME NEW x \in Entities PROVE z \notin Nos(position[x]) /\ z \notin Nos(messages[x])
  <2>1. ToSet(position[x]) \subseteq Waiting /\ ToSet(messages[x]) \subseteq Waiting
    BY DEF Waiting
  <2> QED
    BY <1>3, <2>1 DEF Nos, ToSet
<1>8. ASSUME NEW d \in Clients PROVE z \notin LineNos(wire[d])
  <2> SUFFICES ASSUME z \in LineNos(wire[d]) PROVE FALSE
    OBVIOUS
  <2>1. PICK p \in All(wire[d]) : z \in Nos(p.items)
    BY DEF LineNos
  <2>2. PICK i \in DOMAIN p.items : z = p.items[i].no
    BY <2>1 DEF Nos
  <2>3. p.items[i] \in OnWire(d)
    BY DEF OnWire, ToSet
  <2> QED
    BY <1>3, <2>2, <2>3
<1> QED
  BY <1>6, <1>7, <1>8

\* An item more at the end.
LEMMA ItemAppended ==
  ASSUME NEW items \in Seq(Items), NEW it \in Items, it.no \notin Nos(items), Single(items)
  PROVE  /\ Append(items, it) \in Seq(Items) /\ Nos(Append(items, it)) = Nos(items) \cup {it.no}
         /\ Single(Append(items, it))
         /\ \A i \in DOMAIN Append(items, it) :
               \/ i \in DOMAIN items /\ Append(items, it)[i] = items[i]
               \/ Append(items, it)[i] = it
<1> DEFINE r == Append(items, it)
           n == Len(items) + 1
<1>1. /\ r \in Seq(Items) /\ DOMAIN r = 1..n /\ DOMAIN items = 1..(n - 1) /\ n \in Nat
      /\ r[n] = it /\ \A i \in 1..(n - 1) : r[i] = items[i] /\ i \in 1..n
      /\ n \in 1..n /\ \A i \in 1..n : i \in 1..(n - 1) \/ i = n
  OBVIOUS
<1> HIDE DEF r, n
<1>2. \A i \in DOMAIN r : (i \in DOMAIN items /\ r[i] = items[i]) \/ (i = n /\ r[i] = it)
  <2> SUFFICES ASSUME NEW i \in DOMAIN r PROVE (i \in DOMAIN items /\ r[i] = items[i]) \/ (i = n /\ r[i] = it)
    OBVIOUS
  <2>1. CASE i \in 1..(n - 1)
    <3>1. r[i] = items[i] /\ i \in DOMAIN items
      BY <1>1, <2>1
    <3> QED
      BY <3>1
  <2>2. CASE i = n
    BY <1>1, <2>2
  <2> QED
    BY <1>1, <2>1, <2>2
<1>3. Nos(r) = Nos(items) \cup {it.no}
  BY <1>1, <1>2 DEF Nos
<1>4. ASSUME NEW i \in DOMAIN r, NEW j \in DOMAIN r, r[i].no = r[j].no PROVE i = j
  BY <1>2, <1>4 DEF Nos, Single
<1>5. Single(r)
  BY <1>4 DEF Single
<1> QED
  BY <1>1, <1>2, <1>3, <1>5 DEF r

\* q and n have the numbers of p and m and, for y in one of them, z.
OneNew(y, z, p, m, q, n) ==
    /\ \A x \in Entities : z \notin Nos(p[x]) /\ z \notin Nos(m[x]) /\ Single(q[x]) /\ Single(n[x])
    /\ \A x \in Entities : x # y => (Nos(q[x]) \subseteq Nos(p[x]) /\ Nos(n[x]) \subseteq Nos(m[x]))
    /\ \/ Nos(q[y]) \subseteq Nos(p[y]) \cup {z} /\ Nos(n[y]) \subseteq Nos(m[y])
       \/ Nos(q[y]) \subseteq Nos(p[y]) /\ Nos(n[y]) \subseteq Nos(m[y]) \cup {z}

\* A number that is new is there once.
LEMMA NumberNew ==
  ASSUME NEW p, NEW m, Apart(p, m), NEW q, NEW n, NEW z, NEW y \in Entities, OneNew(y, z, p, m, q, n)
  PROVE  Apart(q, n)
<1> USE DEF OneNew
<1>1. ASSUME NEW u \in Entities, NEW v \in Entities
      PROVE  /\ u # v => Nos(q[u]) \cap Nos(q[v]) = {} /\ Nos(n[u]) \cap Nos(n[v]) = {}
             /\ Nos(q[u]) \cap Nos(n[v]) = {}
  <2>1. /\ u # v => Nos(p[u]) \cap Nos(p[v]) = {} /\ Nos(m[u]) \cap Nos(m[v]) = {}
        /\ Nos(p[u]) \cap Nos(m[v]) = {}
    BY DEF Apart, Distinct
  <2>2. z \notin Nos(p[u]) /\ z \notin Nos(m[u]) /\ z \notin Nos(p[v]) /\ z \notin Nos(m[v])
    OBVIOUS
  <2>3. /\ u # y => Nos(q[u]) \subseteq Nos(p[u]) /\ Nos(n[u]) \subseteq Nos(m[u])
        /\ v # y => Nos(q[v]) \subseteq Nos(p[v]) /\ Nos(n[v]) \subseteq Nos(m[v])
    OBVIOUS
  <2> QED
    BY <2>1, <2>2, <2>3
<1> QED
  BY <1>1 DEF Apart, Distinct

\* The wire after something new waits.
LEMMA WireFree ==
  ASSUME WireOK, UsesOK, wire' = wire, worldstates' = worldstates, maps' = maps, NEW z,
         \A d \in Clients : z \notin LineNos(wire[d])
  PROVE  /\ wire' \in [Clients -> Lines]
         /\ \A d \in Clients : LineOK(wire'[d], d, maps')
                               /\ LineNos(wire'[d]) \cap (Left("pos", {}) \cup {z}) = {}
         /\ \A v \in Buffers : worldstates'[v] = Cardinality(Uses(wire', v))
<1>1. /\ wire' \in [Clients -> Lines]
      /\ \A d \in Clients : LineOK(wire'[d], d, maps') /\ LineNos(wire'[d]) \cap Left("pos", {}) = {}
      /\ \A v \in Buffers : worldstates'[v] = Cardinality(Uses(wire', v))
  BY WireSame
<1>2. ASSUME NEW d \in Clients PROVE LineNos(wire'[d]) \cap (Left("pos", {}) \cup {z}) = {}
  BY <1>1
<1> QED
  BY <1>1, <1>2

\* A message waits for the world state.
LEMMA QueueStep ==
  ASSUME RelayInv, NEW c \in Clients, NEW x \in Entities, NEW r \in BOOLEAN, QueueMessage(c, x, r)
  PROVE  RelayInv'
<1> DEFINE it == Item(c, r)
           z == it.no
           T == Left("pos", {}) \cup {z}
<1>1. RestOK /\ WaitOK /\ WireOK /\ UsesOK
  BY DEF RelayInv
<1>2. /\ Unused # {} /\ c \in Here /\ ownernum(x) = c
      /\ clients' = clients /\ maps' = maps /\ owner' = owner /\ position' = position
      /\ worldstates' = worldstates /\ wire' = wire
      /\ reliablemessages' = (reliablemessages \/ r)
      /\ messages' = [messages EXCEPT ![x] = Append(messages[x], it)]
  BY DEF QueueMessage, OwnedBy
<1>3. /\ it \in Items /\ it.from = c /\ it.reliable = r /\ it.map = maps /\ ~it.excused
      /\ \A y \in Entities : z \notin Nos(position[y]) /\ z \notin Nos(messages[y])
      /\ \A d \in Clients : z \notin LineNos(wire[d])
  BY <1>1, <1>2, ItemIs
<1> HIDE DEF it
<1>4. RestOK' /\ Here' = Here /\ \A y : (ownernum(y))' = ownernum(y)
  BY <1>1, <1>2 DEF RestOK, Once, Here, ownernum
<1>5. position \in [Entities -> Seq(Items)] /\ messages \in [Entities -> Seq(Items)]
  BY <1>1 DEF WaitOK
<1>6. \A y \in Entities : Single(messages[y]) /\ Single(position[y]) /\ WaitFor(y)
  BY <1>1 DEF WaitOK, WaitFor, Apart, Distinct
<1> DEFINE old == messages[x]
           new == Append(old, it)
<1>7. old \in Seq(Items) /\ z \notin Nos(old) /\ Single(old)
  BY <1>3, <1>5, <1>6
<1> HIDE DEF old
<1>8. /\ new \in Seq(Items) /\ Nos(new) = Nos(old) \cup {z} /\ Single(new)
      /\ \A i \in DOMAIN new : (i \in DOMAIN old /\ new[i] = old[i]) \/ new[i] = it
  BY <1>3, <1>7, ItemAppended
<1> HIDE DEF new
<1>9. messages' \in [Entities -> Seq(Items)]
      /\ \A y \in Entities : messages'[y] = IF y = x THEN new ELSE messages[y]
  BY <1>2, <1>5, <1>8 DEF new, old
<1>10. \A y \in Entities : Nos(messages'[y]) \subseteq Nos(messages[y]) \cup {z} /\ Single(messages'[y])
  BY <1>6, <1>8, <1>9 DEF old
<1>11. ASSUME NEW y \in Entities PROVE (WaitFor(y))'
  <2>1. WaitFor(y)
    BY <1>6
  <2>2. (Owed(position[y], ownernum(y)))'
    BY <1>2, <1>4, <2>1 DEF WaitFor, Owed
  <2>3. CASE y # x
    <3>1. messages'[y] = messages[y]
      BY <1>9, <2>3
    <3>2. (Owed(messages[y], ownernum(y)))'
      BY <1>4, <2>1, <3>1 DEF WaitFor, Owed
    <3>3. ASSUME NEW i \in DOMAIN messages'[y]
          PROVE  /\ messages'[y][i].excused \/ messages'[y][i].map = maps'
                 /\ messages'[y][i].excused => ~messages'[y][i].reliable
                 /\ messages'[y][i].reliable => reliablemessages'
      BY <1>2, <2>1, <3>1 DEF WaitFor
    <3> QED
      BY <2>2, <3>2, <3>3 DEF WaitFor
  <2>4. CASE y = x
    <3>1. messages'[y] = new /\ messages[y] = old
      BY <1>9, <2>4 DEF old
    <3>2. (Owed(messages[y], ownernum(y)))'
      <4>1. ASSUME NEW i \in DOMAIN new PROVE new[i].excused \/ (new[i].from = c /\ c \in Here)
        <5>1. \A k \in DOMAIN old : old[k].excused \/ (old[k].from = c /\ c \in Here)
          BY <1>2, <2>1, <2>4, <3>1 DEF WaitFor, Owed
        <5> QED
          BY <1>2, <1>3, <1>8, <5>1
      <4> QED
        BY <1>2, <1>4, <2>4, <3>1, <4>1 DEF Owed
    <3>3. ASSUME NEW i \in DOMAIN new
          PROVE  /\ new[i].excused \/ new[i].map = maps
                 /\ new[i].excused => ~new[i].reliable
                 /\ new[i].reliable => reliablemessages \/ r
      <4>1. \A k \in DOMAIN old : /\ old[k].excused \/ old[k].map = maps
                                  /\ old[k].excused => ~old[k].reliable
                                  /\ old[k].reliable => reliablemessages
        BY <2>1, <3>1 DEF WaitFor
      <4> QED
        BY <1>3, <1>8, <4>1
    <3> QED
      BY <1>2, <2>2, <3>1, <3>2, <3>3 DEF WaitFor
  <2> QED
    BY <2>3, <2>4
<1>12. WaitOK'
  <2>1. Apart(position, messages)
    BY <1>1 DEF WaitOK
  <2>2. Apart(position', messages')
    <3>1. \A y \in Entities : z \notin Nos(position[y]) /\ z \notin Nos(messages[y])
                              /\ Single(position'[y]) /\ Single(messages'[y])
      BY <1>2, <1>3, <1>6, <1>10
    <3>2. \A y \in Entities : y # x => Nos(position'[y]) \subseteq Nos(position[y])
                                       /\ Nos(messages'[y]) \subseteq Nos(messages[y])
      BY <1>2, <1>9
    <3>3. Nos(position'[x]) \subseteq Nos(position[x]) /\ Nos(messages'[x]) \subseteq Nos(messages[x]) \cup {z}
      BY <1>2, <1>10
    <3> HIDE DEF z
    <3>4. OneNew(x, z, position, messages, position', messages')
      BY <3>1, <3>2, <3>3, Zenon DEF OneNew
    <3> QED
      BY <2>1, <3>4, NumberNew
  <2> QED
    BY <1>2, <1>5, <1>9, <1>11, <2>2 DEF WaitOK, WaitFor
<1>13. (Left("pos", {}))' \subseteq T
  <2>1. ASSUME NEW e, e \in (Left("pos", {}))' PROVE e \in T
    <3>1. PICK y \in Entities : e \in Nos(position'[y]) \/ e \in Nos(messages'[y])
      BY <2>1 DEF Left
    <3>2. e \in Nos(position[y]) \/ e \in Nos(messages[y]) \/ e = z
      BY <1>2, <1>10, <3>1
    <3> QED
      BY <3>2 DEF Left
  <2> QED
    BY <2>1
<1>14. /\ wire' \in [Clients -> Lines]
       /\ \A e \in Clients : LineOK(wire'[e], e, maps') /\ LineNos(wire'[e]) \cap T = {}
       /\ \A v \in Buffers : worldstates'[v] = Cardinality(Uses(wire', v))
  <2>1. \A d \in Clients : z \notin LineNos(wire[d])
    BY <1>3
  <2> HIDE DEF z
  <2> QED
    BY <1>1, <1>2, <2>1, WireFree
<1> HIDE DEF T
<1> QED
  BY <1>4, <1>12, <1>13, <1>14, Assembled

\* A position takes the place of another.
LEMMA PosStep ==
  ASSUME RelayInv, NEW c \in Clients, NEW x \in Entities, N_POS(c, x)
  PROVE  RelayInv'
<1> DEFINE it == Item(c, FALSE)
           z == it.no
           T == Left("pos", {}) \cup {z}
<1>1. RestOK /\ WaitOK /\ WireOK /\ UsesOK
  BY DEF RelayInv
<1>2. /\ Unused # {} /\ c \in Here /\ ownernum(x) = c
      /\ clients' = clients /\ maps' = maps /\ owner' = owner /\ messages' = messages
      /\ worldstates' = worldstates /\ wire' = wire /\ reliablemessages' = reliablemessages
      /\ position' = [position EXCEPT ![x] = <<it>>]
  BY DEF N_POS, OwnedBy
<1>3. /\ it \in Items /\ it.from = c
      /\ \A y \in Entities : z \notin Nos(position[y]) /\ z \notin Nos(messages[y])
      /\ \A d \in Clients : z \notin LineNos(wire[d])
  <2>1. FALSE \in BOOLEAN
    OBVIOUS
  <2> HIDE DEF it
  <2>2. PICK r \in BOOLEAN : it = Item(c, r)
    BY <2>1 DEF it
  <2> QED
    BY <1>1, <1>2, <2>2, ItemIs
<1> HIDE DEF it
<1>4. RestOK' /\ Here' = Here /\ \A y : (ownernum(y))' = ownernum(y)
  BY <1>1, <1>2 DEF RestOK, Once, Here, ownernum
<1>5. position \in [Entities -> Seq(Items)] /\ messages \in [Entities -> Seq(Items)]
  BY <1>1 DEF WaitOK
<1>6. \A y \in Entities : Single(messages[y]) /\ Single(position[y]) /\ WaitFor(y)
  BY <1>1 DEF WaitOK, WaitFor, Apart, Distinct
<1> DEFINE new == <<it>>
<1>7. new \in Seq(Items) /\ DOMAIN new = {1} /\ new[1] = it
  BY <1>3
<1> HIDE DEF new
<1>8. Nos(new) = {z} /\ Single(new)
  BY <1>7 DEF Nos, Single
<1>9. position' \in [Entities -> Seq(Items)]
      /\ \A y \in Entities : position'[y] = IF y = x THEN new ELSE position[y]
  BY <1>2, <1>5, <1>7 DEF new
<1>10. \A y \in Entities : Nos(position'[y]) \subseteq Nos(position[y]) \cup {z} /\ Single(position'[y])
  BY <1>6, <1>8, <1>9
<1>11. ASSUME NEW y \in Entities PROVE (WaitFor(y))'
  <2>1. WaitFor(y)
    BY <1>6
  <2>2. (Owed(position[y], ownernum(y)))'
    <3>1. CASE y # x
      <4>1. position'[y] = position[y]
        BY <1>9, <3>1
      <4> QED
        BY <1>4, <2>1, <4>1 DEF WaitFor, Owed
    <3>2. CASE y = x
      <4>1. position'[y] = new /\ ownernum(y) = c
        BY <1>2, <1>9, <3>2
      <4> QED
        BY <1>2, <1>3, <1>4, <1>7, <4>1 DEF Owed
    <3> QED
      BY <3>1, <3>2
  <2> QED
    BY <1>2, <1>4, <2>1, <2>2 DEF WaitFor, Owed
<1>12. WaitOK'
  <2>1. Apart(position, messages)
    BY <1>1 DEF WaitOK
  <2>2. Apart(position', messages')
    <3>1. \A y \in Entities : z \notin Nos(position[y]) /\ z \notin Nos(messages[y])
                              /\ Single(position'[y]) /\ Single(messages'[y])
      BY <1>2, <1>3, <1>6, <1>10
    <3>2. \A y \in Entities : y # x => Nos(position'[y]) \subseteq Nos(position[y])
                                       /\ Nos(messages'[y]) \subseteq Nos(messages[y])
      BY <1>2, <1>9
    <3>3. Nos(position'[x]) \subseteq Nos(position[x]) \cup {z} /\ Nos(messages'[x]) \subseteq Nos(messages[x])
      BY <1>2, <1>10
    <3> HIDE DEF z
    <3>4. OneNew(x, z, position, messages, position', messages')
      BY <3>1, <3>2, <3>3, Zenon DEF OneNew
    <3> QED
      BY <2>1, <3>4, NumberNew
  <2> QED
    BY <1>2, <1>5, <1>9, <1>11, <2>2 DEF WaitOK, WaitFor
<1>13. (Left("pos", {}))' \subseteq T
  <2>1. ASSUME NEW e, e \in (Left("pos", {}))' PROVE e \in T
    <3>1. PICK y \in Entities : e \in Nos(position'[y]) \/ e \in Nos(messages'[y])
      BY <2>1 DEF Left
    <3>2. e \in Nos(position[y]) \/ e \in Nos(messages[y]) \/ e = z
      BY <1>2, <1>10, <3>1
    <3> QED
      BY <3>2 DEF Left
  <2> QED
    BY <2>1
<1>14. /\ wire' \in [Clients -> Lines]
       /\ \A e \in Clients : LineOK(wire'[e], e, maps') /\ LineNos(wire'[e]) \cap T = {}
       /\ \A v \in Buffers : worldstates'[v] = Cardinality(Uses(wire', v))
  <2>1. \A d \in Clients : z \notin LineNos(wire[d])
    BY <1>3
  <2> HIDE DEF z
  <2> QED
    BY <1>1, <1>2, <2>1, WireFree
<1> HIDE DEF T
<1> QED
  BY <1>4, <1>12, <1>13, <1>14, Assembled

\* A position goes to the others in a packet of its own.
LEMMA FlushStep ==
  ASSUME RelayInv, NEW c \in Clients, NEW x \in Entities, flushclientposition(c, x)
  PROVE  RelayInv'
<1> DEFINE items == position[x]
           R == Here \ (zombies \cup {c})
           T == Left("pos", {}) \ Nos(items)
<1>1. RestOK /\ WaitOK /\ WireOK /\ UsesOK
  BY DEF RelayInv
<1>2. /\ c \in Here /\ ownernum(x) = c
      /\ clients' = clients /\ maps' = maps /\ owner' = owner /\ messages' = messages
      /\ worldstates' = worldstates /\ reliablemessages' = reliablemessages
      /\ position' = [position EXCEPT ![x] = <<>>]
      /\ wire' = [d \in Clients |->
            IF d \in R THEN [wire[d] EXCEPT !.pos = @ \cup {PosPacket(NoBuffer, items)}] ELSE wire[d]]
  BY DEF flushclientposition, OwnedBy, PosPacket
<1> HIDE DEF R
<1>3. RestOK' /\ Here' = Here /\ \A y : (ownernum(y))' = ownernum(y)
  BY <1>1, <1>2 DEF RestOK, Once, Here, ownernum
<1>4. position \in [Entities -> Seq(Items)] /\ messages \in [Entities -> Seq(Items)]
  BY <1>1 DEF WaitOK
<1>5. \A y \in Entities : Single(messages[y]) /\ Single(position[y]) /\ WaitFor(y)
  BY <1>1 DEF WaitOK, WaitFor, Apart, Distinct
<1>6. position' \in [Entities -> Seq(Items)]
      /\ \A y \in Entities : position'[y] = IF y = x THEN <<>> ELSE position[y]
  BY <1>2, <1>4, Nothing
<1>7. \A y \in Entities : Nos(position'[y]) \subseteq Nos(position[y]) /\ Single(position'[y])
  BY <1>5, <1>6, Nothing
<1>8. ASSUME NEW y \in Entities PROVE (WaitFor(y))'
  <2>1. WaitFor(y)
    BY <1>5
  <2>2. (Owed(position[y], ownernum(y)))'
    <3>1. DOMAIN <<>> = {}
      OBVIOUS
    <3> QED
      BY <1>3, <1>6, <2>1, <3>1 DEF WaitFor, Owed
  <2> QED
    BY <1>2, <1>3, <2>1, <2>2 DEF WaitFor, Owed
<1>9. Apart(position, messages)
  BY <1>1 DEF WaitOK
<1>10. WaitOK'
  <2>1. \A y \in Entities : /\ Nos(position'[y]) \subseteq Nos(position[y]) /\ Single(position'[y])
                            /\ Nos(messages'[y]) \subseteq Nos(messages[y]) /\ Single(messages'[y])
    BY <1>2, <1>5, <1>7
  <2>2. Apart(position', messages')
    BY <1>9, <2>1, NumbersKept
  <2> QED
    BY <1>2, <1>4, <1>6, <1>8, <2>2 DEF WaitOK, WaitFor
<1>11. (Left("pos", {}))' \subseteq T
  <2>1. ASSUME NEW e, e \in (Left("pos", {}))' PROVE e \in T
    <3>1. PICK y \in Entities : e \in Nos(position'[y]) \/ e \in Nos(messages'[y])
      BY <2>1 DEF Left
    <3>2. CASE e \in Nos(position'[y])
      <4>1. y # x /\ e \in Nos(position[y])
        BY <1>6, <3>2, Nothing
      <4>2. e \notin Nos(items)
        BY <1>9, <4>1 DEF Apart, Distinct
      <4> QED
        BY <4>1, <4>2, LeftHas
    <3>3. CASE e \in Nos(messages'[y])
      <4>1. e \in Nos(messages[y])
        BY <1>2, <3>3
      <4>2. e \notin Nos(items)
        BY <1>9, <4>1 DEF Apart
      <4> QED
        BY <4>1, <4>2, LeftHas
    <3> QED
      BY <3>1, <3>2, <3>3
  <2> QED
    BY <2>1
<1>12. items \in Seq(Items) /\ NoBuffer \in Nat
  BY <1>4 DEF NoBuffer
<1>13. \A d \in Clients : wire[d] \in Lines /\ LineOK(wire[d], d, maps) /\ LineNos(wire[d]) \cap Left("pos", {}) = {}
  BY <1>1 DEF WireOK, LinesOK
<1>14. ASSUME NEW d \in Clients
       PROVE  LineOK(wire'[d], d, maps) /\ LineNos(wire'[d]) \cap T = {} /\ SameUses(wire'[d], wire[d])
  <2>1. CASE d \notin R
    <3>1. wire'[d] = wire[d]
      BY <1>2, <2>1
    <3> QED
      BY <1>13, <3>1 DEF SameUses
  <2>2. CASE d \in R
    <3> DEFINE line == wire[d]
               new == wire'[d]
               p == PosPacket(NoBuffer, items)
    <3>1. NotFrom(items, d)
      <4>1. d # c
        BY <2>2 DEF R
      <4> QED
        BY <1>2, <1>5, <4>1 DEF WaitFor, Owed, NotFrom
    <3>2. new = [line EXCEPT !.pos = @ \cup {PosPacket(NoBuffer, items)}] /\ LineOK(line, d, maps)
      BY <1>2, <1>13, <2>2
    <3>3. p.items = items /\ p.ws = NoBuffer
      BY DEF PosPacket
    <3>4. LineNos(line) \cap Left("pos", {}) = {}
      BY <1>13
    <3> HIDE DEF line, new, items
    <3>5. LineOK(new, d, maps) /\ OneMore(new, line, p)
      BY <1>12, <3>1, <3>2, PosGained
    <3> HIDE DEF p
    <3>6. LineNos(new) = LineNos(line) \cup Nos(items)
      <4>1. LineNos(new) = LineNos(line) \cup Nos(p.items)
        BY <3>5, Gained
      <4> QED
        BY <3>3, <4>1
    <3>7. SameUses(new, line)
      <4> SUFFICES ASSUME NEW v \in Buffers PROVE {q \in All(new) : q.ws = v} = {q \in All(line) : q.ws = v}
        BY DEF SameUses
      <4>1. v # NoBuffer
        BY RelayAssumption DEF Buffers, NoBuffer
      <4> QED
        BY <3>3, <3>5, <4>1 DEF OneMore
    <3>8. LineNos(new) \cap T = {}
      BY <3>4, <3>6
    <3> QED
      BY <3>5, <3>7, <3>8 DEF new, line
  <2> QED
    BY <2>1, <2>2
<1> HIDE DEF T, items
<1>15. wire' \in [Clients -> Lines]
  <2>1. \A d \in Clients : wire'[d] \in Lines
    BY <1>14 DEF LineOK
  <2>2. wire' = [d \in Clients |-> wire'[d]]
    BY <1>2
  <2> QED
    BY <2>1, <2>2
<1>16. \A v \in Buffers : worldstates'[v] = Cardinality(Uses(wire', v))
  <2> SUFFICES ASSUME NEW v \in Buffers PROVE worldstates'[v] = Cardinality(Uses(wire', v))
    OBVIOUS
  <2>1. Uses(wire', v) = Uses(wire, v)
    BY <1>14, UsesSame DEF SameUses
  <2> QED
    BY <1>1, <1>2, <2>1 DEF UsesOK
<1>17. \A d \in Clients : LineOK(wire'[d], d, maps') /\ LineNos(wire'[d]) \cap T = {}
  BY <1>2, <1>14
<1> QED
  BY <1>3, <1>10, <1>11, <1>15, <1>16, <1>17, Assembled

\* Nothing happens.
LEMMA StutterStep ==
  ASSUME RelayInv, UNCHANGED relayvars
  PROVE  RelayInv'
<1>1. RestOK /\ WaitOK /\ WireOK /\ UsesOK
  BY DEF RelayInv
<1>2. UNCHANGED <<clients, owner, position, messages, reliablemessages, maps, wire, worldstates>>
  BY DEF relayvars
<1> DEFINE T == Left("pos", {})
<1>3. RestOK' /\ WaitOK' /\ (Left("pos", {}))' = T
  BY <1>1, <1>2, WaitSame
<1>4. /\ wire' \in [Clients -> Lines]
      /\ \A e \in Clients : LineOK(wire'[e], e, maps') /\ LineNos(wire'[e]) \cap T = {}
      /\ \A v \in Buffers : worldstates'[v] = Cardinality(Uses(wire', v))
  BY <1>1, <1>2, WireSame
<1>5. (Left("pos", {}))' \subseteq T
  BY <1>3
<1> HIDE DEF T
<1> QED
  BY <1>3, <1>4, <1>5, Assembled

\* Every handler of the relay preserves the conjunction.
LEMMA RelayStep ==
  ASSUME RelayInv, [RelayNext]_relayvars
  PROVE  RelayInv'
<1>1. CASE sendpackets
  BY <1>1, SendStep
<1>2. CASE changemapByVote
  BY <1>2, VoteStep
<1>3. CASE changemapByOthers
  BY <1>3, OthersStep
<1>4. ASSUME NEW c \in Clients, connected(c) PROVE RelayInv'
  BY <1>4, ConnectedStep
<1>5. ASSUME NEW c \in Clients, GiveUp(c) PROVE RelayInv'
  BY <1>5, GiveUpStep
<1>6. ASSUME NEW c \in Clients, disconnected(c) PROVE RelayInv'
  BY <1>6, DisconnectedStep
<1>7. ASSUME NEW c \in Clients, Release(c) PROVE RelayInv'
  BY <1>7, ReleaseStep
<1>8. ASSUME NEW c \in Clients, NEW x \in Entities, NEW reliable \in BOOLEAN, QueueMessage(c, x, reliable)
      PROVE  RelayInv'
  BY <1>8, QueueStep
<1>9. ASSUME NEW c \in Clients, NEW x \in Entities, N_POS(c, x) PROVE RelayInv'
  BY <1>9, PosStep
<1>10. ASSUME NEW c \in Clients, NEW x \in Entities, flushclientposition(c, x) PROVE RelayInv'
  BY <1>10, FlushStep
<1>11. ASSUME NEW c \in Clients, NEW b \in Bots, shiftai(b, c) PROVE RelayInv'
  BY <1>11, ShiftaiStep
<1>12. CASE UNCHANGED relayvars
  BY <1>12, StutterStep
<1> QED
  BY <1>1, <1>2, <1>3, <1>4, <1>5, <1>6, <1>7, <1>8, <1>9, <1>10, <1>11, <1>12 DEF RelayNext, Handler

\* What waits, what is on its way and the uses of the buffers agree in every state.
THEOREM RelayInvariance == RelaySpec => []RelayInv
<1>1. RelayInit => RelayInv
  BY InitOK
<1>2. RelayInv /\ [RelayNext]_relayvars => RelayInv'
  BY RelayStep
<1> QED
  BY <1>1, <1>2, PTL DEF RelaySpec

-----------------------------------------------------------------------------
(***************************************************************************)
(* What the relay promises.                                                *)
(***************************************************************************)
\* The uses of a buffer are the packets that point into it (cleanworldstate).
THEOREM UsesArePacketsAlways == RelaySpec => []UsesArePackets
<1>1. RelayInv => UsesArePackets
  BY DEF RelayInv, UsesOK, Uses, UsesArePackets
<1> QED
  BY <1>1, RelayInvariance, PTL

\* Nobody is told after a change of maps by a vote what was said before it
\* (checkvotes and vote call sendpackets before changemap).
THEOREM ToldInTimeAlways == RelaySpec => []ToldInTime
<1>1. ASSUME RelayInv PROVE ToldInTime
  <2>1. Here \subseteq Clients
    BY <1>1 DEF RelayInv, RestOK, Here, ToSet
  <2>2. \A c \in Clients : InOrder(wire[c].msg, maps)
    BY <1>1 DEF RelayInv, WireOK, LinesOK, LineOK
  <2>3. ASSUME NEW c \in Here, NEW i \in DOMAIN wire[c].msg, NEW j \in DOMAIN wire[c].msg, i < j,
               NEW n \in ToSet(wire[c].msg[j].items)
        PROVE  n.excused \/ n.map >= wire[c].msg[i].map
    <3>1. PICK k \in DOMAIN wire[c].msg[j].items : n = wire[c].msg[j].items[k]
      BY DEF ToSet
    <3> QED
      BY <2>1, <2>2, <2>3, <3>1 DEF InOrder
  <2> QED
    BY <2>3 DEF ToldInTime
<1> QED
  BY <1>1, RelayInvariance, PTL

\* t[k] is what the first k packets of s bring.
ComingTrace(t, s, n) == t[0] = <<>> /\ \A j \in 1..n : t[j] = t[j - 1] \o s[j].items

\* What comes to a client, packet by packet.
LEMMA ComingSteps ==
  ASSUME NEW c, NEW n \in Nat, NEW s \in Seq(Messages), s = wire[c].msg, DOMAIN s = 1..n
  PROVE  \E t \in [0..n -> Seq(Items)] : t[n] = Coming(c) /\ ComingTrace(t, s, n)
<1> DEFINE W == Seq(Items)
           G == [p \in W \X (1..n) |-> p[1] \o s[p[2]].items]
           Loop(j) == j = [u \in SUBSET DOMAIN s |->
                             IF u = {} THEN <<>> ELSE j[u \ {Max(u)}] \o s[Max(u)].items]
           j == CHOOSE j : Loop(j)
<1>1. Coming(c) = j[1..n]
  BY DEF FoldLeft, MapThenFoldSet, Coming
<1>2. \A i \in 1..n : s[i].items \in W
  <2>1. \A i \in 1..n : s[i] \in Messages
    OBVIOUS
  <2> QED
    BY <2>1 DEF Messages
<1>3. \A a \in W, i \in 1..n : a \o s[i].items \in W
  <2> SUFFICES ASSUME NEW a \in W, NEW i \in 1..n PROVE a \o s[i].items \in W
    OBVIOUS
  <2> DEFINE b == s[i].items
  <2>1. b \in Seq(Items) /\ a \in Seq(Items)
    BY <1>2
  <2> HIDE DEF b
  <2>2. a \o b \in Seq(Items)
    BY <2>1, Joined
  <2> QED
    BY <2>2 DEF b
<1>4. <<>> \in W
  OBVIOUS
<1> HIDE DEF W
<1>5. G \in [W \X (1..n) -> W] /\ \A a \in W, i \in 1..n : G[<<a, i>>] = a \o s[i].items
  BY <1>3
<1> HIDE DEF G
<1>6. PICK it \in [SUBSET (1..n) -> W] : Folds(it, <<>>, G, n)
  BY <1>4, <1>5, FoldExists
<1>7. Loop(it)
  <2>1. ASSUME NEW u \in SUBSET (1..n), u # {} PROVE it[u] = it[u \ {Max(u)}] \o s[Max(u)].items
    <3>1. Max(u) \in 1..n /\ it[u \ {Max(u)}] \in W
      BY <2>1, MaxIs
    <3> QED
      BY <1>5, <1>6, <2>1, <3>1 DEF Folds
  <2>2. it[{}] = <<>>
    BY <1>6 DEF Folds
  <2>3. it = [u \in SUBSET (1..n) |-> it[u]]
    OBVIOUS
  <2> QED
    BY <2>1, <2>2, <2>3
<1>8. Loop(j)
  BY <1>7
<1> HIDE DEF j, Loop
<1>9. Obeys(j, <<>>, G, n, W)
  <2>1. ASSUME NEW u \in SUBSET (1..n), u # {}, j[u \ {Max(u)}] \in W
        PROVE  j[u] = G[<<j[u \ {Max(u)}], Max(u)>>]
    <3>1. Max(u) \in 1..n
      BY <2>1, MaxIs
    <3> QED
      BY <1>5, <1>8, <2>1, <3>1 DEF Loop
  <2>2. j[{}] = <<>>
    BY <1>8 DEF Loop
  <2> QED
    BY <2>1, <2>2 DEF Obeys
<1>10. PICK t \in [0..n -> W] : t[n] = j[1..n] /\ Traces(t, <<>>, G, n)
  BY <1>4, <1>5, <1>9, FoldSteps
<1>11. ASSUME NEW i \in 1..n PROVE t[i] = t[i - 1] \o s[i].items
  <2>1. t[i - 1] \in W
    OBVIOUS
  <2> QED
    BY <1>5, <1>10, <2>1 DEF Traces
<1>12. t[0] = <<>>
  BY <1>10 DEF Traces
<1> QED
  BY <1>1, <1>10, <1>11, <1>12 DEF ComingTrace, W

\* Nothing comes to a client twice.
LEMMA ComingOnce ==
  ASSUME NEW c, NEW m, LineOK(wire[c], c, m)
  PROVE  Coming(c) \in Seq(Items) /\ Single(Coming(c))
<1> DEFINE s == wire[c].msg
           n == Len(s)
           In(k) == UNION {Nos(s[i].items) : i \in 1..k}
<1>1. s \in Seq(Messages) /\ InOrder(s, m)
  BY DEF LineOK, Lines
<1>2. s = wire[c].msg
  OBVIOUS
<1> HIDE DEF s
<1>3. n \in Nat /\ DOMAIN s = 1..n
  BY <1>1
<1> HIDE DEF n
<1>4. PICK t \in [0..n -> Seq(Items)] : t[n] = Coming(c) /\ ComingTrace(t, s, n)
  BY <1>1, <1>2, <1>3, ComingSteps
<1> DEFINE P == {k \in 0..n : Single(t[k]) /\ Nos(t[k]) \subseteq In(k)}
<1>5. 0 \in P
  <2>1. t[0] = <<>> /\ 0 \in 0..n
    BY <1>3, <1>4 DEF ComingTrace
  <2> HIDE DEF In
  <2> QED
    BY <2>1, Nothing
<1>6. ASSUME NEW k \in 0..(n - 1), k \in P PROVE k + 1 \in P
  <2> DEFINE l == k + 1
             b == t[k]
             p == s[l].items
  <2>1. l \in 1..n /\ l \in 0..n /\ l - 1 = k /\ k \in 0..n /\ l \notin 1..k
    BY <1>3
  <2>2. s[l] \in Messages
    BY <1>1, <1>3, <2>1
  <2>3. b \in Seq(Items) /\ p \in Seq(Items) /\ Single(p) /\ Single(b) /\ Nos(b) \subseteq In(k)
    <3>1. p \in Seq(Items)
      BY <2>2 DEF Messages
    <3>2. Single(p)
      BY <1>1, <1>3, <2>1 DEF InOrder
    <3>3. Single(b) /\ Nos(b) \subseteq In(k)
      BY <1>6
    <3>4. b \in Seq(Items)
      BY <2>1
    <3> QED
      BY <3>1, <3>2, <3>3, <3>4
  <2>4. t[l] = b \o p
    BY <1>4, <2>1 DEF ComingTrace
  <2>5. Nos(b) \cap Nos(p) = {}
    <3>1. \A i \in 1..k : i \in DOMAIN s /\ l \in DOMAIN s /\ i # l
      BY <1>3, <2>1
    <3>2. \A i \in 1..k : Nos(s[i].items) \cap Nos(p) = {}
      BY <1>1, <3>1 DEF InOrder
    <3> QED
      BY <2>3, <3>2
  <2>6. In(k) \subseteq In(l) /\ Nos(p) \subseteq In(l)
    <3>1. \A i \in 1..k : i \in 1..l
      BY <2>1
    <3>2. l \in 1..l
      BY <2>1
    <3> HIDE DEF l
    <3> QED
      BY <3>1, <3>2
  <2> HIDE DEF b, p, In, l
  <2>7. Single(b \o p) /\ Nos(b \o p) = Nos(b) \cup Nos(p)
    BY <2>3, <2>5, NosJoined
  <2>8. l \in P
    BY <2>1, <2>3, <2>4, <2>6, <2>7
  <2> QED
    BY <2>8 DEF l
<1> HIDE DEF P
<1>7. 0..n \subseteq P
  BY <1>3, <1>5, <1>6, Climb
<1>8. Single(t[n]) /\ t[n] \in Seq(Items)
  <2>1. n \in 0..n
    BY <1>3
  <2> QED
    BY <1>7, <2>1 DEF P
<1> QED
  BY <1>4, <1>8

\* Nobody is sent anything twice, or what it has said itself (addmessages,
\* sendmessages and flushclientposition).
THEOREM ToldOnceAlways == RelaySpec => []ToldOnce
<1>1. ASSUME RelayInv PROVE ToldOnce
  <2>1. RestOK /\ WaitOK /\ WireOK
    BY <1>1 DEF RelayInv
  <2>2. Here \subseteq Clients
    BY <2>1 DEF RestOK, Here, ToSet
  <2>3. ASSUME NEW c \in Clients PROVE Cardinality(ToSet(Coming(c))) = Len(Coming(c))
    <3> DEFINE s == Coming(c)
    <3>1. LineOK(wire[c], c, maps)
      BY <2>1 DEF WireOK, LinesOK
    <3>2. s \in Seq(Items) /\ Single(s)
      BY <3>1, ComingOnce
    <3> HIDE DEF s
    <3>3. Once(s)
      BY <3>2 DEF Once, Single
    <3>4. Cardinality(ToSet(s)) = Len(s)
      BY <3>2, <3>3, Counted
    <3> QED
      BY <3>4 DEF s
  <2>4. ASSUME NEW c \in Clients, NEW n \in OnWire(c) PROVE n \notin Waiting /\ (n.excused \/ n.from # c)
    <3>1. PICK p \in All(wire[c]) : n \in ToSet(p.items)
      BY DEF OnWire
    <3>2. PICK i \in DOMAIN p.items : n = p.items[i]
      BY <3>1 DEF ToSet
    <3>3. LineOK(wire[c], c, maps) /\ LineNos(wire[c]) \cap Left("pos", {}) = {}
      BY <2>1 DEF WireOK, LinesOK
    <3>4. n.excused \/ n.from # c
      BY <3>2, <3>3 DEF LineOK, NotFrom
    <3>5. n.no \in LineNos(wire[c])
      BY <3>2 DEF LineNos, Nos
    <3>6. n \notin Waiting
      <4> SUFFICES ASSUME n \in Waiting PROVE FALSE
        OBVIOUS
      <4>1. PICK x \in Entities : n \in ToSet(position[x]) \/ n \in ToSet(messages[x])
        BY DEF Waiting
      <4>2. n.no \in Nos(position[x]) \/ n.no \in Nos(messages[x])
        BY <4>1 DEF ToSet, Nos
      <4>3. n.no \in Left("pos", {})
        BY <4>2, LeftHas
      <4> QED
        BY <3>3, <3>5, <4>3
    <3> QED
      BY <3>4, <3>6
  <2> QED
    BY <2>2, <2>3, <2>4 DEF ToldOnce
<1> QED
  BY <1>1, RelayInvariance, PTL

\* What waits, but n, is on its way to all the others.
Passed(n, x, lines) == \A c \in Here \ zombies : x \in OwnedBy(c) \/ Reached(lines[c], n)

\* n still waits for x.
Still(n, x) == n.no \in Nos(messages'[x])

\* A message waits until it is on its way.
LEMMA ToldByStep ==
  ASSUME RelayInv, Handler, NEW x \in Entities, x \in Served, NEW n \in ToSet(messages[x])
  PROVE  Still(n, x) \/ Passed(n, x, wire')
<1>1. RestOK /\ WaitOK /\ WireOK /\ UsesOK
  BY DEF RelayInv
<1>2. messages[x] \in Seq(Items) /\ position \in [Entities -> Seq(Items)] /\ messages \in [Entities -> Seq(Items)]
  BY <1>1 DEF WaitOK
<1>3. n.no \in Nos(messages[x])
  BY DEF ToSet, Nos
<1>4. \A c \in Clients : x \in OwnedBy(c) <=> c = ownernum(x)
  BY DEF OwnedBy
<1>5. Here \subseteq Clients
  BY <1>1 DEF RestOK, Here, ToSet
<1>6. ASSUME NEW w \in Fresh PROVE Passed(n, x, World(w).wire) /\ WorldOK(w, World(w).wire, World(w).uses)
  <2>1. WorldOK(w, World(w).wire, World(w).uses)
    BY FreshIs, WorldIs
  <2>2. \A c \in Here \ zombies : c = ownernum(x) \/ Reached(World(w).wire[c], n)
    BY <2>1 DEF WorldOK
  <2> QED
    BY <1>4, <1>5, <2>1, <2>2 DEF Passed
<1>7. CASE sendpackets
  BY <1>6, <1>7 DEF sendpackets
<1>8. CASE changemapByVote
  <2>1. PICK w \in Fresh : wire' = Mapchange(World(w).wire)
    BY <1>8 DEF changemapByVote
  <2> DEFINE lines == World(w).wire
             T == Left("msg", Served)
  <2>2. lines \in [Clients -> Lines] /\ LinesOK(lines, T) /\ Passed(n, x, lines)
    BY <1>6 DEF WorldOK
  <2>3. maps \in Nat /\ maps' \in Nat /\ maps <= maps'
    BY <1>1, <1>8 DEF changemapByVote, RestOK
  <2>4. wire' = Mapchange(lines)
    BY <2>1
  <2> HIDE DEF lines, T
  <2>5. \A c \in Clients : \A k : Reached(lines[c], k) => Reached(wire'[c], k)
    BY <2>2, <2>3, <2>4, ChangedAll
  <2> QED
    BY <1>5, <2>2, <2>5 DEF Passed
<1>9. CASE changemapByOthers
  <2>1. messages'[x] = Moved(messages[x], maps') /\ maps' \in Nat
    BY <1>1, <1>9 DEF changemapByOthers, RestOK, Moved
  <2> DEFINE items == messages[x]
             m == maps'
  <2>2. items \in Seq(Items) /\ m \in Nat
    BY <1>2, <2>1
  <2> HIDE DEF items, m
  <2>3. Nos(Moved(items, m)) = Nos(items)
    BY <2>2, MovedIs
  <2> QED
    BY <1>3, <2>1, <2>3 DEF Still, items, m
<1>10. ASSUME NEW c \in Clients, connected(c) PROVE Still(n, x)
  <2>1. x # c
    <3>1. ownernum(c) = c
      BY DEF ownernum
    <3> QED
      BY <1>10, <3>1 DEF connected, Served
  <2> QED
    BY <1>2, <1>3, <1>10, <2>1 DEF connected, Still
<1>11. Nos(Excused(messages[x])) = Nos(messages[x])
  BY <1>2, ExcusedIs
<1>12. ASSUME NEW c \in Clients, disconnected(c) PROVE Still(n, x)
  BY <1>3, <1>11, <1>12 DEF disconnected, Still
<1>13. ASSUME NEW c \in Clients, NEW b \in Bots, shiftai(b, c) PROVE Still(n, x)
  <2>1. messages'[x] = messages[x] \/ messages'[x] = Excused(messages[x])
    BY <1>2, <1>13 DEF shiftai
  <2> QED
    BY <1>3, <1>11, <2>1 DEF Still
<1>14. ASSUME NEW c \in Clients, NEW y \in Entities, NEW r \in BOOLEAN, QueueMessage(c, y, r) PROVE Still(n, x)
  <2>1. messages'[x] = messages[x] \/ (messages'[x] = Append(messages[x], Item(c, r)))
    BY <1>2, <1>14 DEF QueueMessage
  <2>2. \A k \in DOMAIN messages[x] : /\ k \in DOMAIN Append(messages[x], Item(c, r))
                                      /\ Append(messages[x], Item(c, r))[k] = messages[x][k]
    <3> DEFINE s == messages[x]
               e == Item(c, r)
    <3>1. s \in Seq(Items)
      BY <1>2
    <3> HIDE DEF s, e
    <3>2. \A k \in DOMAIN s : k \in DOMAIN Append(s, e) /\ Append(s, e)[k] = s[k]
      BY <3>1
    <3> QED
      BY <3>2 DEF s, e
  <2> QED
    BY <1>3, <2>1, <2>2 DEF Still, Nos
<1>15. CASE messages' = messages
  BY <1>3, <1>15 DEF Still
<1>16. \A c \in Clients : GiveUp(c) \/ Release(c) => messages' = messages
  BY DEF GiveUp, Release
<1>17. \A c \in Clients, y \in Entities : N_POS(c, y) \/ flushclientposition(c, y) => messages' = messages
  BY DEF N_POS, flushclientposition
<1> QED
  BY <1>7, <1>8, <1>9, <1>10, <1>12, <1>13, <1>14, <1>15, <1>16, <1>17 DEF Handler

\* A message that waits no longer is on its way to all the others (the messages
\* of addmessages are sent before they are cleared).
THEOREM EverybodyIsToldAlways == RelaySpec => EverybodyIsTold
<1> DEFINE A == \A x \in Entities : \A n \in ToSet(messages[x]) :
                  ~n.excused /\ x \in Bots \cup ToSet(clients') /\ x \in Served =>
                      \/ \E k \in ToSet(messages'[x]) : k.no = n.no
                      \/ \A c \in Here \ zombies : x \in OwnedBy(c) \/ Reaches(n, c)'
<1>1. ASSUME RelayInv, RelayNext PROVE A
  <2> SUFFICES ASSUME NEW x \in Entities, NEW n \in ToSet(messages[x]), x \in Served
               PROVE  \/ \E k \in ToSet(messages'[x]) : k.no = n.no
                      \/ \A c \in Here \ zombies : x \in OwnedBy(c) \/ Reaches(n, c)'
    OBVIOUS
  <2>1. Still(n, x) \/ Passed(n, x, wire')
    BY <1>1, ToldByStep DEF RelayNext
  <2>2. ASSUME Still(n, x) PROVE \E k \in ToSet(messages'[x]) : k.no = n.no
    BY <2>2 DEF Still, Nos, ToSet
  <2>3. ASSUME Passed(n, x, wire') PROVE \A c \in Here \ zombies : x \in OwnedBy(c) \/ Reaches(n, c)'
    BY <2>3 DEF Passed, Reached, Reaches
  <2> QED
    BY <2>1, <2>2, <2>3
<1>2. RelayInv /\ [RelayNext]_relayvars => [A]_relayvars
  BY <1>1
<1> HIDE DEF A
<1>3. RelaySpec => [][A]_relayvars
  BY <1>2, RelayInvariance, PTL DEF RelaySpec
<1> QED
  BY <1>3 DEF A, EverybodyIsTold
=============================================================================
