---------------------------- MODULE Modes_proofs ----------------------------
(***************************************************************************)
(* The bases of capture are counted and told as they are, and the tokens   *)
(* of collect are bounded, for any number of clients, teams and bases.     *)
(***************************************************************************)
EXTENDS Modes, FiniteSetTheorems, WellFoundedInduction, TLAPS

-----------------------------------------------------------------------------
(***************************************************************************)
(* Sums over finite sets, whatever the order they are added in.  The fold  *)
(* that defines them is a recursive function on the subsets of the set.    *)
(***************************************************************************)
\* A set of naturals that is not empty has a least element.
LEMMA LeastNat == ASSUME NEW T \in SUBSET Nat, T # {} PROVE \E m \in T : \A n \in T : m <= n
<1> DEFINE R == OpToRel(<, Nat)
<1>1. IsWellFoundedOn(R, Nat)
  BY NatLessThanWellFounded
<1>2. \A x, y \in Nat : x < y => <<x, y>> \in R
  BY DEF OpToRel
<1> HIDE DEF R
<1>3. PICK m \in T : \A n \in T : ~ (<<n, m>> \in R)
  BY <1>1, WFMin
<1>4. ASSUME NEW n \in T PROVE m <= n
  <2>1. m \in Nat /\ n \in Nat /\ ~ (n < m)
    BY <1>2, <1>3
  <2> QED
    BY <2>1
<1> QED
  BY <1>4

\* P has every subset of K whose own proper subsets it has.
Inherits(P, K) == \A s \in SUBSET K : (\A t \in SUBSET s : t # s => t \in P) => s \in P

\* What holds of a set when it holds of all smaller ones holds of all sets.
LEMMA SetInduction ==
  ASSUME NEW K, IsFiniteSet(K), NEW P, Inherits(P, K)
  PROVE  SUBSET K \subseteq P
<1> SUFFICES ASSUME ~ (SUBSET K \subseteq P) PROVE FALSE
  OBVIOUS
<1> DEFINE T == {Cardinality(s) : s \in (SUBSET K) \ P}
<1>1. \A s \in SUBSET K : IsFiniteSet(s) /\ Cardinality(s) \in Nat
  BY FS_Subset, FS_CardinalityType
<1>2. T \in SUBSET Nat /\ T # {}
  BY <1>1
<1>3. PICK m \in T : \A n \in T : m <= n
  BY <1>2, LeastNat
<1>4. PICK s \in (SUBSET K) \ P : m = Cardinality(s)
  BY <1>3
<1>5. ASSUME NEW t \in SUBSET s, t # s PROVE t \in P
  <2>1. Cardinality(t) < m /\ t \in SUBSET K
    BY <1>1, <1>4, <1>5, FS_Subset
  <2>2. ~ (m <= Cardinality(t))
    BY <1>1, <1>4, <2>1
  <2> QED
    BY <1>3, <2>1, <2>2
<1> QED
  BY <1>4, <1>5 DEF Inherits

Pick(s) == CHOOSE x \in s : TRUE

\* it is the function that the library's fold is defined with.
Adds(it, f, K) == it = [s \in SUBSET K |-> IF s = {} THEN 0 ELSE f[Pick(s)] + it[s \ {Pick(s)}]]
Adder(f, K) == CHOOSE it : Adds(it, f, K)

\* The sum is such a function's value.
LEMMA SumIsAdder == ASSUME NEW f, NEW K PROVE Sum(f, K) = Adder(f, K)[K]
  BY DEF Sum, MapThenSumSet, MapThenFoldSet, Adds, Adder, Pick

\* A choice is one of the set.
LEMMA Picked == ASSUME NEW s, s # {} PROVE Pick(s) \in s
  BY DEF Pick

\* Two such functions agree where both are defined.
LEMMA AddsAlike ==
  ASSUME NEW f, NEW K, NEW L, NEW i, NEW j, Adds(i, f, K), Adds(j, f, L), IsFiniteSet(K)
  PROVE  \A s \in SUBSET (K \cap L) : i[s] = j[s]
<1> DEFINE P == {s \in SUBSET (K \cap L) : i[s] = j[s]}
<1>1. ASSUME NEW s \in SUBSET (K \cap L), \A t \in SUBSET s : t # s => t \in P PROVE s \in P
  <2>1. CASE s = {}
    BY <2>1 DEF Adds
  <2>2. CASE s # {}
    <3> DEFINE p == Pick(s)
    <3>1. p \in s
      BY <2>2, Picked
    <3>2. s \ {p} \in P
      BY <1>1, <3>1
    <3>3. i[s] = f[p] + i[s \ {p}] /\ j[s] = f[p] + j[s \ {p}]
      BY <2>2, <3>1 DEF Adds
    <3> QED
      BY <3>2, <3>3
  <2> QED
    BY <2>1, <2>2
<1>2. IsFiniteSet(K \cap L)
  BY FS_Intersection
<1>3. Inherits(P, K \cap L)
  BY <1>1 DEF Inherits
<1>4. SUBSET (K \cap L) \subseteq P
  BY <1>2, <1>3, SetInduction
<1> QED
  BY <1>4

\* There is such a function for every finite set.
LEMMA AdderAdds ==
  ASSUME NEW f, NEW K, IsFiniteSet(K)
  PROVE  Adds(Adder(f, K), f, K)
<1> DEFINE P == {s \in SUBSET K : Adds(Adder(f, s), f, s)}
<1>1. ASSUME NEW s \in SUBSET K, \A t \in SUBSET s : t # s => t \in P PROVE s \in P
  <2> DEFINE val(t) == Adder(f, t)[t]
             it == [t \in SUBSET s |-> IF t = {} THEN 0 ELSE f[Pick(t)] + val(t \ {Pick(t)})]
  <2>1. ASSUME NEW t \in SUBSET s, t # s PROVE it[t] = val(t)
    <3>1. Adds(Adder(f, t), f, t)
      BY <1>1, <2>1
    <3>2. CASE t = {}
      BY <3>1, <3>2 DEF Adds
    <3>3. CASE t # {}
      <4> DEFINE q == Pick(t)
                 r == t \ {q}
      <4>1. q \in t /\ r \in SUBSET s /\ r # s /\ r \in SUBSET (t \cap r)
        BY <3>3, Picked
      <4>2. Adds(Adder(f, r), f, r) /\ IsFiniteSet(t)
        BY <1>1, <4>1, FS_Subset
      <4>3. Adder(f, t)[r] = val(r)
        BY <3>1, <4>1, <4>2, AddsAlike
      <4>4. val(t) = f[q] + Adder(f, t)[r]
        BY <3>1, <3>3 DEF Adds
      <4> QED
        BY <3>3, <4>3, <4>4
    <3> QED
      BY <3>2, <3>3
  <2>2. Adds(it, f, s)
    <3>1. ASSUME NEW t \in SUBSET s, t # {} PROVE it[t \ {Pick(t)}] = val(t \ {Pick(t)})
      <4>1. Pick(t) \in t
        BY <3>1, Picked
      <4> QED
        BY <2>1, <4>1
    <3> HIDE DEF val
    <3>2. it = [t \in SUBSET s |-> IF t = {} THEN 0 ELSE f[Pick(t)] + it[t \ {Pick(t)}]]
      BY <3>1
    <3> QED
      BY <3>2 DEF Adds
  <2> HIDE DEF it
  <2>3. Adds(Adder(f, s), f, s)
    BY <2>2 DEF Adder
  <2> QED
    BY <2>3
<1>2. Inherits(P, K)
  BY <1>1 DEF Inherits
<1>3. SUBSET K \subseteq P
  BY <1>2, SetInduction
<1> QED
  BY <1>3

\* The sum of nothing is 0, that of more is what the sum of the others adds to.
LEMMA SumPick ==
  ASSUME NEW f, NEW K, IsFiniteSet(K)
  PROVE  /\ K = {} => Sum(f, K) = 0
         /\ K # {} => /\ Pick(K) \in K
                     /\ Sum(f, K) = f[Pick(K)] + Sum(f, K \ {Pick(K)})
<1> DEFINE p == Pick(K)
           r == K \ {p}
<1>1. Adds(Adder(f, K), f, K)
  BY AdderAdds
<1>2. CASE K = {}
  BY <1>1, <1>2, SumIsAdder DEF Adds
<1>3. CASE K # {}
  <2>1. p \in K /\ IsFiniteSet(r) /\ r \in SUBSET (K \cap r)
    BY <1>3, Picked, FS_Subset
  <2>2. Adds(Adder(f, r), f, r)
    BY <2>1, AdderAdds
  <2>3. Adder(f, K)[r] = Sum(f, r)
    BY <1>1, <2>1, <2>2, AddsAlike, SumIsAdder
  <2>4. Adder(f, K)[K] = f[p] + Adder(f, K)[r]
    BY <1>1, <1>3, <2>1 DEF Adds
  <2> QED
    BY <1>3, <2>1, <2>3, <2>4, SumIsAdder
<1> QED
  BY <1>2, <1>3

\* Naturals add up to a natural.
LEMMA SumNat ==
  ASSUME NEW f, NEW K, IsFiniteSet(K), \A k \in K : f[k] \in Nat
  PROVE  Sum(f, K) \in Nat
<1> DEFINE P == {s \in SUBSET K : Sum(f, s) \in Nat}
<1>1. ASSUME NEW s \in SUBSET K, \A t \in SUBSET s : t # s => t \in P PROVE s \in P
  <2>1. IsFiniteSet(s)
    BY FS_Subset
  <2>2. CASE s = {}
    <3>1. Sum(f, s) = 0
      BY <2>1, <2>2, SumPick
    <3> QED
      BY <3>1
  <2>3. CASE s # {}
    <3>1. Pick(s) \in s /\ Sum(f, s) = f[Pick(s)] + Sum(f, s \ {Pick(s)})
      BY <2>1, <2>3, SumPick
    <3>2. s \ {Pick(s)} \in P
      BY <1>1, <3>1
    <3> QED
      BY <3>1, <3>2
  <2> QED
    BY <2>2, <2>3
<1>2. Inherits(P, K)
  BY <1>1 DEF Inherits
<1>3. SUBSET K \subseteq P
  BY <1>2, SetInduction
<1> QED
  BY <1>3

\* The order of adding does not matter.
LEMMA SumInsert ==
  ASSUME NEW f, NEW K, IsFiniteSet(K), \A k \in K : f[k] \in Nat, NEW x \in K
  PROVE  Sum(f, K) = f[x] + Sum(f, K \ {x})
<1> DEFINE P == {s \in SUBSET K : \A y \in s : Sum(f, s) = f[y] + Sum(f, s \ {y})}
<1>1. ASSUME NEW s \in SUBSET K, \A t \in SUBSET s : t # s => t \in P PROVE s \in P
  <2>1. IsFiniteSet(s)
    BY FS_Subset
  <2> SUFFICES ASSUME NEW y \in s PROVE Sum(f, s) = f[y] + Sum(f, s \ {y})
    OBVIOUS
  <2> DEFINE p == Pick(s)
             r == s \ {p}
             q == s \ {y}
             b == r \ {y}
  <2>2. p \in s /\ Sum(f, s) = f[p] + Sum(f, r)
    BY <2>1, SumPick
  <2>3. CASE p = y
    BY <2>2, <2>3
  <2>4. CASE p # y
    <3>1. r \in P /\ q \in P
      BY <1>1, <2>2
    <3>2. b = q \ {p} /\ y \in r /\ p \in q
      BY <2>2, <2>4
    <3>3. Sum(f, r) = f[y] + Sum(f, b) /\ Sum(f, q) = f[p] + Sum(f, b)
      BY <3>1, <3>2
    <3>4. f[p] \in Nat /\ f[y] \in Nat /\ Sum(f, b) \in Nat
      <4>1. IsFiniteSet(b) /\ b \subseteq K
        BY <2>1, FS_Subset
      <4> QED
        BY <2>2, <4>1, SumNat
    <3> QED
      BY <2>2, <3>3, <3>4
  <2> QED
    BY <2>3, <2>4
<1>2. Inherits(P, K)
  BY <1>1 DEF Inherits
<1>3. SUBSET K \subseteq P
  BY <1>2, SetInduction
<1> QED
  BY <1>3

\* Sums of functions that agree are equal.
LEMMA SumSame ==
  ASSUME NEW f, NEW g, NEW K, IsFiniteSet(K), \A k \in K : f[k] = g[k]
  PROVE  Sum(f, K) = Sum(g, K)
<1> DEFINE P == {s \in SUBSET K : Sum(f, s) = Sum(g, s)}
<1>1. ASSUME NEW s \in SUBSET K, \A t \in SUBSET s : t # s => t \in P PROVE s \in P
  <2>1. IsFiniteSet(s)
    BY FS_Subset
  <2>2. CASE s = {}
    BY <2>1, <2>2, SumPick
  <2>3. CASE s # {}
    <3> DEFINE p == Pick(s)
    <3>1. /\ p \in s /\ Sum(f, s) = f[p] + Sum(f, s \ {p})
          /\ Sum(g, s) = g[p] + Sum(g, s \ {p})
      BY <2>1, <2>3, SumPick
    <3>2. s \ {p} \in P
      BY <1>1, <3>1
    <3> QED
      BY <3>1, <3>2
  <2> QED
    BY <2>2, <2>3
<1>2. Inherits(P, K)
  BY <1>1 DEF Inherits
<1>3. SUBSET K \subseteq P
  BY <1>2, SetInduction
<1> QED
  BY <1>3

\* The sum over a set is that over a part and that over the rest.
LEMMA SumSplit ==
  ASSUME NEW f, NEW K, IsFiniteSet(K), \A k \in K : f[k] \in Nat, NEW A
  PROVE  Sum(f, K) = Sum(f, K \cap A) + Sum(f, K \ A)
<1> DEFINE P == {s \in SUBSET K : Sum(f, s) = Sum(f, s \cap A) + Sum(f, s \ A)}
<1>1. ASSUME NEW s \in SUBSET K, \A t \in SUBSET s : t # s => t \in P PROVE s \in P
  <2>1. IsFiniteSet(s)
    BY FS_Subset
  <2>2. CASE s = {}
    <3>1. s \cap A = {} /\ s \ A = {} /\ Sum(f, {}) = 0
      BY <2>1, <2>2, SumPick
    <3>2. Sum(f, s) = 0 /\ Sum(f, s \cap A) = 0 /\ Sum(f, s \ A) = 0
      BY <2>2, <3>1
    <3> QED
      BY <3>2
  <2>3. CASE s # {}
    <3>1. PICK p \in s : TRUE
      BY <2>3
    <3> DEFINE r == s \ {p}
    <3>2. Sum(f, r) = Sum(f, r \cap A) + Sum(f, r \ A)
      BY <1>1, <3>1
    <3>3. Sum(f, s) = f[p] + Sum(f, r)
      BY <2>1, SumInsert
    <3>4. /\ IsFiniteSet(s \cap A) /\ IsFiniteSet(s \ A)
          /\ IsFiniteSet(r \cap A) /\ IsFiniteSet(r \ A)
      BY <2>1, FS_Subset
    <3>5. f[p] \in Nat /\ Sum(f, r \cap A) \in Nat /\ Sum(f, r \ A) \in Nat
      BY <3>4, SumNat
    <3>6. CASE p \in A
      <4>1. (s \cap A) \ {p} = r \cap A /\ s \ A = r \ A /\ p \in s \cap A
        BY <3>6
      <4>2. Sum(f, s \cap A) = f[p] + Sum(f, r \cap A)
        BY <3>4, <4>1, SumInsert
      <4>3. Sum(f, s \ A) = Sum(f, r \ A)
        BY <4>1
      <4>4. f[p] + (Sum(f, r \cap A) + Sum(f, r \ A)) = (f[p] + Sum(f, r \cap A)) + Sum(f, r \ A)
        BY <3>5
      <4>5. Sum(f, s) = Sum(f, s \cap A) + Sum(f, s \ A)
        BY <3>2, <3>3, <4>2, <4>3, <4>4
      <4> QED
        BY <4>5
    <3>7. CASE p \notin A
      <4>1. (s \ A) \ {p} = r \ A /\ s \cap A = r \cap A /\ p \in s \ A
        BY <3>7
      <4>2. Sum(f, s \ A) = f[p] + Sum(f, r \ A)
        BY <3>4, <4>1, SumInsert
      <4>3. Sum(f, s \cap A) = Sum(f, r \cap A)
        BY <4>1
      <4>4. f[p] + (Sum(f, r \cap A) + Sum(f, r \ A)) = Sum(f, r \cap A) + (f[p] + Sum(f, r \ A))
        BY <3>5
      <4>5. Sum(f, s) = Sum(f, s \cap A) + Sum(f, s \ A)
        BY <3>2, <3>3, <4>2, <4>3, <4>4
      <4> QED
        BY <4>5
    <3> QED
      BY <3>6, <3>7
  <2> QED
    BY <2>2, <2>3
<1>2. Inherits(P, K)
  BY <1>1 DEF Inherits
<1>3. SUBSET K \subseteq P
  BY <1>2, SetInduction
<1> QED
  BY <1>3

\* Adding to one term adds to the sum.
LEMMA SumMore ==
  ASSUME NEW f, NEW g, NEW K, IsFiniteSet(K), NEW x \in K, NEW n \in Nat,
         \A k \in K : f[k] \in Nat /\ g[k] = f[k] + IF k = x THEN n ELSE 0
  PROVE  Sum(g, K) = Sum(f, K) + n
<1>1. \A k \in K : f[k] \in Nat /\ g[k] \in Nat
  OBVIOUS
<1>2. Sum(f, K) = f[x] + Sum(f, K \ {x}) /\ Sum(g, K) = g[x] + Sum(g, K \ {x})
  BY <1>1, SumInsert
<1>3. IsFiniteSet(K \ {x})
  BY FS_Subset
<1>4. \A k \in K \ {x} : f[k] = g[k]
  OBVIOUS
<1>5. Sum(f, K \ {x}) = Sum(g, K \ {x})
  BY <1>3, <1>4, SumSame
<1>6. Sum(f, K \ {x}) \in Nat
  BY <1>1, <1>3, SumNat
<1>7. g[x] = f[x] + n /\ f[x] \in Nat
  OBVIOUS
<1> QED
  BY <1>2, <1>5, <1>6, <1>7

-----------------------------------------------------------------------------
(***************************************************************************)
(* The inductive invariant.                                                *)
(***************************************************************************)
Player ==
    [state : {"dead", "alive", "spectator"}, team : Teams, at : Bases \cup {Nowhere},
     gameclip : BOOLEAN, tokens : 0..TokenLimit]
Infos == [Clients -> Player \cup {Gone}]

TypeInv ==
    /\ ci \in Infos /\ mode \in {"capture", "collect"} /\ over \in BOOLEAN
    /\ interm \in BOOLEAN /\ (interm => over) /\ DOMAIN bases \subseteq Bases

\* What is true of a base whatever the clients do: it is told, and nobody takes
\* from himself.
Base ==
    [owner : Teams \cup {NoTeam}, enemy : Teams \cup {NoTeam}, owners : Nat, enemies : Nat, converted : Int,
     told : [owner : Teams \cup {NoTeam}, enemy : Teams \cup {NoTeam}, converted : Int]]
BaseOK(b) ==
    /\ b \in Base /\ b.told = Seen(b)
    /\ b.owner = NoTeam \/ b.owner # b.enemy

\* The players of a team in a base when the clients are as in rs.
Stand(rs, i, team) ==
    {c \in Clients : rs[c].state = "alive" /\ rs[c].team = team /\ Spot(rs[c]) = {i}}

Count(rs, i) == [team \in Teams |-> Cardinality(Stand(rs, i, team))]

\* Nobody is counted in base i who is not there, but for those in gs; n is how
\* many of each team are.
BaseFits(b, i, n, gs) ==
    /\ b.owner = NoTeam \/ <<i, b.owner>> \in gs \/ b.owners <= n[b.owner]
    /\ b.enemy = NoTeam \/ <<i, b.enemy>> \in gs \/ b.enemies <= n[b.enemy]

BasesOK(bs, rs, gs) ==
    \A i \in DOMAIN bs : BaseOK(bs[i]) /\ (~interm => BaseFits(bs[i], i, Count(rs, i), gs))

\* There are tokens in collect only.
Counted == [Kinds -> Nat]
TokensOK ==
    /\ tokens \in [Droppers -> Counted]
    /\ mode = "capture" => tokens = NoTokens
    /\ TokensBounded

\* The conjunction that every step preserves.
IInv == TypeInv /\ BasesOK(bases, ci, ghosts) /\ TokensOK

\* The constants.
LEMMA Constants ==
    /\ NoTeam \notin Teams /\ Nowhere \notin Bases /\ Visited \subseteq Bases
    /\ TokenLimit \in Nat \ {0} /\ UnownedTokenLimit \in Nat \ {0}
    /\ Clients \cap Teams = {} /\ Unowned \notin Clients /\ Unowned \notin Teams
    /\ IsFiniteSet(Clients) /\ IsFiniteSet(Teams)
  BY ModesAssumption

\* A client is gone or a player.
LEMMA Slots ==
  ASSUME NEW r \in Player \cup {Gone}
  PROVE  /\ r.state # "gone" <=> r \in Player
         /\ r.state = "gone" <=> r = Gone
<1>1. CASE r \in Player
  <2>1. r.state \in {"dead", "alive", "spectator"}
    BY <1>1 DEF Player
  <2>2. Gone.state = "gone"
    BY DEF Gone
  <2> QED
    BY <1>1, <2>1, <2>2
<1>2. CASE r = Gone
  <2>1. \A s \in Player : s.state \in {"dead", "alive", "spectator"}
    BY DEF Player
  <2>2. Gone.state = "gone"
    BY DEF Gone
  <2> QED
    BY <1>2, <2>1, <2>2
<1> QED
  BY <1>1, <1>2

\* Who lives is a player, and who is not gone.
LEMMA Living ==
  ASSUME TypeInv, NEW c \in Clients
  PROVE  /\ c \in Alive <=> ci[c].state = "alive"
         /\ c \in Here <=> ci[c] \in Player
         /\ c \in Alive => c \in Here
         /\ c \notin Here => ci[c] = Gone
<1>1. ci[c] \in Player \cup {Gone}
  BY DEF TypeInv, Infos
<1> QED
  BY <1>1, Slots DEF Alive, Here

-----------------------------------------------------------------------------
(***************************************************************************)
(* Tokens.                                                                 *)
(***************************************************************************)
\* There are finitely many kinds of tokens.
LEMMA KindsFinite == IsFiniteSet(Kinds)
<1> DEFINE f == [p \in Teams \X BOOLEAN |-> [team |-> p[1], carried |-> p[2]]]
<1>1. IsFiniteSet(BOOLEAN)
  <2>1. IsFiniteSet({FALSE}) /\ BOOLEAN = {FALSE} \cup {TRUE}
    BY FS_Singleton
  <2>2. IsFiniteSet({FALSE} \cup {TRUE})
    BY <2>1, FS_AddElement
  <2> QED
    BY <2>1, <2>2
<1>2. IsFiniteSet(Teams \X BOOLEAN)
  BY <1>1, Constants, FS_Product
<1>3. f \in [Teams \X BOOLEAN -> Kinds]
  BY DEF Kinds
<1>4. ASSUME NEW k \in Kinds PROVE \E p \in Teams \X BOOLEAN : f[p] = k
  <2>1. <<k.team, k.carried>> \in Teams \X BOOLEAN /\ k = [team |-> k.team, carried |-> k.carried]
    BY DEF Kinds
  <2>2. f[<<k.team, k.carried>>] = k
    BY <2>1
  <2> QED
    BY <2>1, <2>2
<1>5. f \in Surjection(Teams \X BOOLEAN, Kinds)
  BY <1>3, <1>4 DEF Surjection
<1> QED
  BY <1>2, <1>5, FS_Surjection

\* Min of a pair of numbers.
LEMMA MinOfTwo ==
  ASSUME NEW m \in Nat, NEW n \in Nat
  PROVE  Min({m, n}) \in Nat /\ Min({m, n}) <= m /\ Min({m, n}) <= n
<1>1. \E x \in {m, n} : \A y \in {m, n} : x <= y
  <2>1. CASE m <= n
    BY <2>1
  <2>2. CASE ~(m <= n)
    BY <2>2
  <2> QED
    BY <2>1, <2>2
<1>2. Min({m, n}) \in {m, n} /\ \A y \in {m, n} : Min({m, n}) <= y
  BY <1>1 DEF Min
<1> QED
  BY <1>2

\* A count of kinds adds up to a natural.
LEMMA CountNat ==
  ASSUME NEW f \in Counted, NEW K \in SUBSET Kinds
  PROVE  IsFiniteSet(K) /\ Sum(f, K) \in Nat
<1>1. IsFiniteSet(K)
  BY KindsFinite, FS_Subset
<1>2. \A k \in K : f[k] \in Nat
  BY DEF Counted
<1> QED
  BY <1>1, <1>2, SumNat

\* Trimming leaves the other kinds as they are and at most n of those it trims.
LEMMA TrimmedIs ==
  ASSUME NEW f \in Counted, NEW K \in SUBSET Kinds, NEW n \in Nat, NEW g \in Trimmed(f, K, n)
  PROVE  /\ g \in Counted /\ \A k \in Kinds \ K : g[k] = f[k]
         /\ Sum(g, K) \in Nat /\ Sum(g, K) <= n
<1> DEFINE m == Max({f[k] : k \in Kinds})
<1>1. /\ g \in [Kinds -> 0..m]
      /\ \A k \in Kinds : k \notin K => g[k] = f[k]
      /\ Sum(g, K) = Min({n, Sum(f, K)})
  BY DEF Trimmed
<1>2. \A x \in 0..m : x \in Nat
  <2> HIDE DEF m
  <2> QED
    OBVIOUS
<1>3. g \in Counted
  <2> HIDE DEF m
  <2> QED
    BY <1>1, <1>2 DEF Counted
<1>4. Sum(f, K) \in Nat
  BY CountNat
<1> QED
  BY <1>1, <1>3, <1>4, MinOfTwo

\* Adding n tokens of a kind adds n to every sum with it ...
LEMMA MoreInAll ==
  ASSUME NEW f, NEW g, NEW x \in Kinds, NEW n \in Nat, NEW K \in SUBSET Kinds, x \in K,
         \A k \in Kinds : f[k] \in Nat /\ g[k] = f[k] + IF k = x THEN n ELSE 0
  PROVE  Sum(g, K) = Sum(f, K) + n
<1>1. IsFiniteSet(K)
  BY KindsFinite, FS_Subset
<1>2. \A k \in K : f[k] \in Nat /\ g[k] = f[k] + IF k = x THEN n ELSE 0
  OBVIOUS
<1> QED
  BY <1>1, <1>2, SumMore

\* ... and nothing to the others.
LEMMA NoMoreElsewhere ==
  ASSUME NEW f, NEW g, NEW x \in Kinds, NEW n \in Nat, NEW K \in SUBSET Kinds, x \notin K,
         \A k \in Kinds : f[k] \in Nat /\ g[k] = f[k] + IF k = x THEN n ELSE 0
  PROVE  Sum(g, K) = Sum(f, K)
<1>1. IsFiniteSet(K)
  BY KindsFinite, FS_Subset
<1>2. \A k \in K : f[k] = g[k]
  OBVIOUS
<1>3. Sum(f, K) = Sum(g, K)
  BY <1>1, <1>2, SumSame
<1> QED
  BY <1>3

\* The sum over all kinds, by the friendly one and the others.
LEMMA ByFriends ==
  ASSUME NEW f \in Counted, NEW team \in Teams
  PROVE  /\ Friendly(team) \in SUBSET Kinds /\ (Kinds \ Friendly(team)) \in SUBSET Kinds
         /\ Sum(f, Kinds) = Sum(f, Friendly(team)) + Sum(f, Kinds \ Friendly(team))
<1>1. Friendly(team) \in SUBSET Kinds
  BY DEF Friendly, Kinds
<1>2. Kinds \cap Friendly(team) = Friendly(team)
  BY <1>1
<1>3. \A k \in Kinds : f[k] \in Nat
  BY DEF Counted
<1>4. Sum(f, Kinds) = Sum(f, Kinds \cap Friendly(team)) + Sum(f, Kinds \ Friendly(team))
  BY <1>3, KindsFinite, SumSplit
<1> QED
  BY <1>1, <1>2, <1>4

\* What a player has dropped stays within its two limits.
LEMMA DroppedFits ==
  ASSUME NEW e \in Counted, NEW team \in Teams, NEW carried \in 0..TokenLimit,
         NEW f \in Trimmed(e, Friendly(team), TokenLimit - 1),
         NEW g \in Trimmed(f, Kinds \ Friendly(team), TokenLimit - carried)
  PROVE  LET h == Add(Add(g, team, FALSE, 1), team, TRUE, carried)
         IN  h \in Counted /\ Sum(h, Kinds) <= 2 * TokenLimit
<1> DEFINE F == Friendly(team)
           N == Kinds \ Friendly(team)
           a == Add(g, team, FALSE, 1)
           h == Add(a, team, TRUE, carried)
<1>1. /\ TokenLimit \in Nat /\ TokenLimit - 1 \in Nat /\ carried \in Nat /\ carried <= TokenLimit
      /\ TokenLimit - carried \in Nat
  BY Constants
<1>2. F \in SUBSET Kinds /\ N \in SUBSET Kinds
  BY ByFriends
<1>3. f \in Counted /\ Sum(f, F) \in Nat /\ Sum(f, F) <= TokenLimit - 1
  BY <1>1, <1>2, TrimmedIs
<1>4. /\ g \in Counted /\ \A k \in Kinds \ N : g[k] = f[k]
      /\ Sum(g, N) \in Nat /\ Sum(g, N) <= TokenLimit - carried
  BY <1>1, <1>2, <1>3, TrimmedIs
<1>5. Sum(g, F) = Sum(f, F)
  <2>1. \A k \in F : g[k] = f[k]
    BY <1>2, <1>4
  <2>2. IsFiniteSet(F)
    BY <1>2, <1>3, CountNat
  <2> QED
    BY <2>1, <2>2, SumSame
<1> DEFINE x == [team |-> team, carried |-> FALSE]
           y == [team |-> team, carried |-> TRUE]
<1>6. /\ x \in Kinds /\ y \in Kinds /\ x \in F /\ x \notin N
      /\ y \notin F /\ y \in N
  <2>1. x # y
    <3>1. y.carried # x.carried
      OBVIOUS
    <3> QED
      BY <3>1
  <2> QED
    BY <2>1 DEF Friendly, Kinds
<1>7. a \in Counted /\ Sum(a, F) = Sum(g, F) + 1 /\ Sum(a, N) = Sum(g, N)
  <2>1. a = [g EXCEPT ![x] = g[x] + 1]
    BY DEF Add
  <2> HIDE DEF a, x, y, h, F, N
  <2>2. a \in Counted /\ \A k \in Kinds : g[k] \in Nat /\ a[k] = g[k] + IF k = x THEN 1 ELSE 0
    BY <1>4, <1>6, <2>1 DEF Counted
  <2>3. x \in Kinds /\ F \in SUBSET Kinds /\ N \in SUBSET Kinds /\ x \in F /\ x \notin N
    BY <1>2, <1>6
  <2>4. Sum(a, F) = Sum(g, F) + 1
    BY <2>2, <2>3, MoreInAll
  <2>5. Sum(a, N) = Sum(g, N)
    BY <2>2, <2>3, NoMoreElsewhere
  <2> QED
    BY <2>2, <2>4, <2>5
<1>8. h \in Counted /\ Sum(h, F) = Sum(a, F) /\ Sum(h, N) = Sum(a, N) + carried
  <2>1. h = [a EXCEPT ![y] = a[y] + carried]
    BY DEF Add
  <2> HIDE DEF a, h, y, F, N
  <2>2. h \in Counted /\ \A k \in Kinds : a[k] \in Nat /\ h[k] = a[k] + IF k = y THEN carried ELSE 0
    BY <1>1, <1>6, <1>7, <2>1 DEF Counted
  <2>3. Sum(h, N) = Sum(a, N) + carried
    BY <1>1, <1>2, <1>6, <2>2, MoreInAll
  <2>4. Sum(h, F) = Sum(a, F)
    BY <1>2, <1>6, <2>2, NoMoreElsewhere
  <2> QED
    BY <2>2, <2>3, <2>4
<1>9. Sum(h, Kinds) = Sum(h, F) + Sum(h, N)
  BY <1>8, ByFriends
<1>10. Sum(h, Kinds) <= 2 * TokenLimit
  <2> HIDE DEF a, h, F, N
  <2> QED
    BY <1>1, <1>3, <1>4, <1>5, <1>7, <1>8, <1>9
<1> QED
  BY <1>8, <1>10

\* Tokens within their limits.
LEMMA LimitsAre ==
  ASSUME TokensOK
  PROVE  /\ \A d \in Droppers : tokens[d] \in Counted
         /\ \A c \in Clients : Sum(tokens[c], Kinds) <= IF c \in Here THEN 2 * TokenLimit ELSE 0
         /\ \A base \in Teams : Sum(tokens[base], Kinds) <= TokenLimit
         /\ Sum(tokens[Unowned], Kinds) <= 2 * UnownedTokenLimit
  BY DEF TokensOK, TokensBounded

\* Those of one dropper change; it is here if it is a client that has some.
LEMMA TokensFit ==
  ASSUME TokensOK, mode = "collect", mode' = mode, NEW d \in Droppers, NEW f \in Counted,
         tokens' = [tokens EXCEPT ![d] = f], Here \subseteq Here',
         d \in Clients => d \in Here' /\ Sum(f, Kinds) <= 2 * TokenLimit,
         d \in Teams => Sum(f, Kinds) <= TokenLimit,
         d = Unowned => Sum(f, Kinds) <= 2 * UnownedTokenLimit
  PROVE  TokensOK'
<1>1. tokens \in [Droppers -> Counted]
  BY DEF TokensOK
<1>2. tokens' \in [Droppers -> Counted] /\ tokens'[d] = f /\ \A e \in Droppers : e # d => tokens'[e] = tokens[e]
  BY <1>1
<1>3. \A e \in Clients \cup Teams \cup {Unowned} : e \in Droppers
  BY DEF Droppers
<1>4. ASSUME NEW c \in Clients PROVE Sum(tokens'[c], Kinds) <= IF c \in Here' THEN 2 * TokenLimit ELSE 0
  <2>1. CASE c = d
    BY <1>2, <2>1
  <2>2. CASE c # d
    <3>1. tokens'[c] = tokens[c] /\ Sum(tokens[c], Kinds) \in Nat
      BY <1>2, <1>3, <2>2, LimitsAre, CountNat
    <3>2. Sum(tokens[c], Kinds) <= IF c \in Here THEN 2 * TokenLimit ELSE 0
      BY LimitsAre
    <3>3. TokenLimit \in Nat
      BY Constants
    <3>4. CASE c \in Here
      BY <3>1, <3>2, <3>4
    <3>5. CASE c \notin Here
      BY <3>1, <3>2, <3>3, <3>5
    <3> QED
      BY <3>4, <3>5
  <2> QED
    BY <2>1, <2>2
<1>5. ASSUME NEW base \in Teams PROVE Sum(tokens'[base], Kinds) <= TokenLimit
  BY <1>2, <1>3, LimitsAre
<1>6. Sum(tokens'[Unowned], Kinds) <= 2 * UnownedTokenLimit
  BY <1>2, <1>3, LimitsAre
<1> QED
  BY <1>2, <1>4, <1>5, <1>6 DEF TokensOK, TokensBounded

\* No tokens are none in all.
LEMMA NoneAddsUp == Sum(None, Kinds) = 0
<1>0. None \in Counted /\ \A k \in Kinds : None[k] = 0
  BY DEF None, Counted
<1> DEFINE P == {s \in SUBSET Kinds : Sum(None, s) = 0}
<1>1. ASSUME NEW s \in SUBSET Kinds, \A t \in SUBSET s : t # s => t \in P PROVE s \in P
  <2>1. IsFiniteSet(s)
    BY KindsFinite, FS_Subset
  <2>2. CASE s = {}
    BY <2>1, <2>2, SumPick
  <2>3. CASE s # {}
    <3>1. Pick(s) \in s /\ Sum(None, s) = None[Pick(s)] + Sum(None, s \ {Pick(s)})
      BY <2>1, <2>3, SumPick
    <3>2. Sum(None, s \ {Pick(s)}) = 0
      BY <1>1, <3>1
    <3>3. None[Pick(s)] = 0
      BY <1>0, <3>1
    <3> QED
      BY <3>1, <3>2, <3>3
  <2> QED
    BY <2>2, <2>3
<1>2. Inherits(P, Kinds)
  BY <1>1 DEF Inherits
<1>3. SUBSET Kinds \subseteq P
  BY <1>2, KindsFinite, SetInduction
<1> QED
  BY <1>3

\* No tokens lie anywhere.
LEMMA NoneFits == tokens = NoTokens => TokensOK
<1> SUFFICES ASSUME tokens = NoTokens PROVE TokensOK
  OBVIOUS
<1>1. None \in Counted /\ \A k \in Kinds : None[k] = 0
  BY DEF None, Counted
<1>2. Sum(None, Kinds) = 0
  BY NoneAddsUp
<1>3. \A d \in Droppers : NoTokens[d] = None
  BY DEF NoTokens
<1>4. NoTokens \in [Droppers -> Counted]
  BY <1>1 DEF NoTokens
<1>5. \A d \in Droppers : Sum(tokens[d], Kinds) = 0
  BY <1>2, <1>3
<1>6. \A e \in Clients \cup Teams \cup {Unowned} : e \in Droppers
  BY DEF Droppers
<1>7. TokenLimit \in Nat /\ UnownedTokenLimit \in Nat
  BY Constants
<1>8. \A c \in Clients : Sum(tokens[c], Kinds) <= IF c \in Here THEN 2 * TokenLimit ELSE 0
  BY <1>5, <1>6, <1>7
<1>9. \A base \in Teams : Sum(tokens[base], Kinds) <= TokenLimit
  BY <1>5, <1>6, <1>7
<1>10. Sum(tokens[Unowned], Kinds) <= 2 * UnownedTokenLimit
  BY <1>5, <1>6, <1>7
<1> QED
  BY <1>4, <1>8, <1>9, <1>10 DEF TokensOK, TokensBounded

\* ... after a step.
LEMMA NoneFit == tokens' = NoTokens => TokensOK'
<1>1. (tokens = NoTokens)' => TokensOK'
  BY NoneFits, PTL
<1>2. NoTokens' = NoTokens
  BY DEF NoTokens
<1> QED
  BY <1>1, <1>2

\* The tokens stay and nobody leaves.
LEMMA SameTokens ==
  ASSUME TokensOK, tokens' = tokens, mode' = mode, Here \subseteq Here'
  PROVE  TokensOK'
<1>1. CASE tokens = NoTokens
  BY <1>1, NoneFit
<1>2. CASE tokens # NoTokens
  <2>1. ASSUME NEW c \in Clients PROVE Sum(tokens'[c], Kinds) <= IF c \in Here' THEN 2 * TokenLimit ELSE 0
    <3>1. tokens[c] \in Counted
      BY LimitsAre DEF Droppers
    <3>2. Sum(tokens[c], Kinds) \in Nat /\ TokenLimit \in Nat
      BY <3>1, CountNat, Constants
    <3>3. Sum(tokens[c], Kinds) <= IF c \in Here THEN 2 * TokenLimit ELSE 0
      BY LimitsAre
    <3>4. CASE c \in Here
      BY <3>3, <3>4
    <3>5. CASE c \notin Here
      BY <3>2, <3>3, <3>5
    <3> QED
      BY <3>4, <3>5
  <2>2. \A base \in Teams : Sum(tokens'[base], Kinds) <= TokenLimit
    BY LimitsAre
  <2>3. Sum(tokens'[Unowned], Kinds) <= 2 * UnownedTokenLimit
    BY LimitsAre
  <2>4. tokens' \in [Droppers -> Counted] /\ mode' # "capture"
    BY <1>2 DEF TokensOK
  <2> QED
    BY <2>1, <2>2, <2>3, <2>4 DEF TokensOK, TokensBounded
<1> QED
  BY <1>1, <1>2

\* droptokens
LEMMA droptokensHolds ==
  ASSUME TypeInv, TokensOK, NEW c \in Clients, c \in Alive, NEW penalty \in BOOLEAN,
         droptokens(c, penalty), mode' = mode, Here \subseteq Here'
  PROVE  TokensOK'
<1>1. CASE mode # "collect" \/ notgotbases
  BY <1>1, SameTokens DEF droptokens
<1>2. CASE ~(mode # "collect" \/ notgotbases)
  <2> DEFINE team == ci[c].team
             carried == IF penalty THEN 0 ELSE ci[c].tokens
  <2>1. PICK f \in Trimmed(tokens[c], Friendly(team), TokenLimit - 1) :
        \E g \in Trimmed(f, Kinds \ Friendly(team), TokenLimit - carried) :
           tokens' = [tokens EXCEPT ![c] = Add(Add(g, team, FALSE, 1), team, TRUE, carried)]
    BY <1>2 DEF droptokens
  <2>2. PICK g \in Trimmed(f, Kinds \ Friendly(team), TokenLimit - carried) :
           tokens' = [tokens EXCEPT ![c] = Add(Add(g, team, FALSE, 1), team, TRUE, carried)]
    BY <2>1
  <2>3. ci[c] \in Player /\ c \in Here
    BY Living
  <2>4. team \in Teams /\ carried \in 0..TokenLimit
    <3>1. ci[c].team \in Teams /\ ci[c].tokens \in 0..TokenLimit /\ 0 \in 0..TokenLimit
      BY <2>3, Constants DEF Player
    <3> QED
      BY <3>1
  <2>5. tokens[c] \in Counted /\ c \in Droppers
    BY LimitsAre DEF Droppers
  <2> DEFINE h == Add(Add(g, team, FALSE, 1), team, TRUE, carried)
  <2> HIDE DEF team, carried
  <2>6. h \in Counted /\ Sum(h, Kinds) <= 2 * TokenLimit
    BY <2>1, <2>2, <2>4, <2>5, DroppedFits
  <2>7. tokens' = [tokens EXCEPT ![c] = h]
    BY <2>2
  <2>8. c \notin Teams /\ c # Unowned
    BY Constants
  <2> HIDE DEF h
  <2> QED
    BY <1>2, <2>3, <2>5, <2>6, <2>7, <2>8, TokensFit
<1> QED
  BY <1>1, <1>2

\* clientdisconnect: the tokens of a client become nobody's.
LEMMA DisownedHolds ==
  ASSUME TypeInv, TokensOK, NEW c \in Clients, c \in Here, Disowned(c), mode' = mode, Here' = Here \ {c}
  PROVE  TokensOK'
<1> DEFINE team == ci[c].team
           f == [k \in Kinds |-> tokens[Unowned][k] + tokens[c][k]]
           F == Friendly(team)
           N == Kinds \ Friendly(team)
           U == UnownedTokenLimit
<1>1. PICK g \in Trimmed(f, F, U) : \E h \in Trimmed(g, N, U) :
         tokens' = [tokens EXCEPT ![c] = None, ![Unowned] = h]
  BY DEF Disowned
<1>2. PICK h \in Trimmed(g, N, U) : tokens' = [tokens EXCEPT ![c] = None, ![Unowned] = h]
  BY <1>1
<1>3. team \in Teams /\ U \in Nat
  <2>1. ci[c] \in Player
    BY Living
  <2> QED
    BY <2>1, Constants DEF Player
<1>4. tokens[c] \in Counted /\ tokens[Unowned] \in Counted /\ c \in Droppers /\ Unowned \in Droppers /\ c # Unowned
  BY LimitsAre, Constants DEF Droppers
<1>5. f \in Counted
  BY <1>4 DEF Counted
<1> HIDE DEF f, team, U
<1>6. F \in SUBSET Kinds /\ N \in SUBSET Kinds
  BY <1>3, <1>5, ByFriends
<1> HIDE DEF F, N
<1>7. g \in Counted /\ Sum(g, F) \in Nat /\ Sum(g, F) <= U
  BY <1>1, <1>3, <1>5, <1>6, TrimmedIs
<1>8. h \in Counted /\ (\A k \in Kinds \ N : h[k] = g[k]) /\ Sum(h, N) \in Nat /\ Sum(h, N) <= U
  BY <1>2, <1>3, <1>6, <1>7, TrimmedIs
<1>9. Sum(h, F) = Sum(g, F)
  <2>1. \A k \in F : h[k] = g[k]
    BY <1>6, <1>8 DEF N, F
  <2>2. IsFiniteSet(F)
    BY <1>6, <1>7, CountNat
  <2> QED
    BY <2>1, <2>2, SumSame
<1>10. Sum(h, Kinds) <= 2 * U
  <2>1. Sum(h, Kinds) = Sum(h, F) + Sum(h, N)
    BY <1>3, <1>8, ByFriends DEF F, N
  <2> QED
    BY <1>3, <1>7, <1>8, <1>9, <2>1
<1>11. /\ tokens' \in [Droppers -> Counted] /\ tokens'[c] = None /\ tokens'[Unowned] = h
       /\ \A d \in Droppers : d \notin {c, Unowned} => tokens'[d] = tokens[d]
  <2>1. None \in Counted /\ tokens \in [Droppers -> Counted]
    BY DEF None, Counted, TokensOK
  <2> QED
    BY <1>2, <1>4, <1>8, <2>1
<1>12. CASE mode = "capture"
  <2>1. tokens = NoTokens /\ f = [k \in Kinds |-> 0]
    <3>1. tokens = NoTokens
      BY <1>12 DEF TokensOK
    <3>2. tokens[c] = None /\ tokens[Unowned] = None
      BY <1>4, <3>1 DEF NoTokens
    <3> QED
      BY <3>1, <3>2 DEF f, None
  <2>2. \A k \in Kinds : g[k] = 0 /\ h[k] = 0
    <3>1. \A k \in Kinds : f[k] = 0
      BY <2>1
    <3>2. \A k \in Kinds : g[k] <= f[k] /\ h[k] <= g[k]
      BY <1>1, <1>2 DEF Trimmed
    <3>3. \A k \in Kinds : g[k] \in Nat /\ h[k] \in Nat
      BY <1>7, <1>8 DEF Counted
    <3> QED
      BY <3>1, <3>2, <3>3
  <2>3. h = None
    BY <1>8, <2>2 DEF None, Counted
  <2>4. \A d \in Droppers : tokens'[d] = None
    BY <1>11, <2>1, <2>3 DEF NoTokens
  <2>5. tokens' = NoTokens
    BY <1>11, <2>4 DEF NoTokens
  <2> QED
    BY <2>5, NoneFit
<1>13. CASE mode # "capture"
  <2>1. Sum(None, Kinds) <= 0
    BY NoneAddsUp
  <2>2. ASSUME NEW e \in Clients PROVE Sum(tokens'[e], Kinds) <= IF e \in Here' THEN 2 * TokenLimit ELSE 0
    <3>1. CASE e = c
      BY <1>11, <2>1, <3>1
    <3>2. CASE e # c
      <4>1. e \in Droppers /\ e \notin {c, Unowned} /\ (e \in Here' <=> e \in Here)
        BY <3>2, Constants DEF Droppers
      <4> QED
        BY <1>11, <4>1, LimitsAre
    <3> QED
      BY <3>1, <3>2
  <2>3. ASSUME NEW base \in Teams PROVE Sum(tokens'[base], Kinds) <= TokenLimit
    <3>1. base \in Droppers /\ base \notin {c, Unowned}
      BY Constants DEF Droppers
    <3> QED
      BY <1>11, <3>1, LimitsAre
  <2>4. Sum(tokens'[Unowned], Kinds) <= 2 * UnownedTokenLimit
    BY <1>10, <1>11 DEF U
  <2> QED
    BY <1>11, <1>13, <2>2, <2>3, <2>4 DEF TokensOK, TokensBounded
<1> QED
  BY <1>12, <1>13

-----------------------------------------------------------------------------
(***************************************************************************)
(* One base.                                                               *)
(***************************************************************************)
Counts == [Teams -> Nat]

\* What is in the record of a base.
LEMMA BaseFields ==
  ASSUME NEW b, BaseOK(b)
  PROVE  /\ b = [owner |-> b.owner, enemy |-> b.enemy, owners |-> b.owners, enemies |-> b.enemies,
                 converted |-> b.converted, told |-> Seen(b)]
         /\ b.owner \in Teams \cup {NoTeam} /\ b.enemy \in Teams \cup {NoTeam}
         /\ b.owners \in Nat /\ b.enemies \in Nat /\ b.converted \in Int
         /\ b.owner = NoTeam \/ b.owner # b.enemy
  BY DEF BaseOK, Base

\* A base that has been told is as it should be.
LEMMA ToldOK ==
  ASSUME NEW b \in Base, b.owner = NoTeam \/ b.owner # b.enemy
  PROVE  /\ BaseOK(Told(b))
         /\ Told(b).owner = b.owner /\ Told(b).enemy = b.enemy
         /\ Told(b).owners = b.owners /\ Told(b).enemies = b.enemies
  BY DEF Told, Seen, BaseOK, Base

\* enter: one more of the team is there.
LEMMA EnterFits ==
  ASSUME NEW b, BaseOK(b), NEW team \in Teams
  PROVE  /\ BaseOK(enter(b, team))
         /\ \A i, gs : \A m, n \in Counts :
               /\ BaseFits(b, i, m, gs)
               /\ n = [m EXCEPT ![team] = m[team] + 1]
               => BaseFits(enter(b, team), i, n, gs)
<1> DEFINE e == enter(b, team)
<1>1. /\ b \in Base /\ b.told = Seen(b) /\ (b.owner = NoTeam \/ b.owner # b.enemy)
      /\ b.owner \in Teams \cup {NoTeam} /\ b.enemy \in Teams \cup {NoTeam} /\ b.owners \in Nat /\ b.enemies \in Nat
  BY BaseFields DEF BaseOK
<1>2. CASE b.owner = team
  <2>1. e = [b EXCEPT !.owners = b.owners + 1]
    BY <1>2 DEF enter
  <2> HIDE DEF e
  <2>2. e.owner = b.owner /\ e.enemy = b.enemy /\ e.owners = b.owners + 1 /\ e.enemies = b.enemies
    BY <1>1, <2>1 DEF Base
  <2>3. BaseOK(e)
    BY <1>1, <2>1 DEF BaseOK, Base, Seen
  <2>4. ASSUME NEW i, NEW gs, NEW m \in Counts, NEW n \in Counts,
               BaseFits(b, i, m, gs), n = [m EXCEPT ![team] = m[team] + 1]
        PROVE  BaseFits(e, i, n, gs)
    <3>1. n[team] = m[team] + 1 /\ m[team] \in Nat /\ \A t \in Teams : t # team => n[t] = m[t]
      BY <2>4 DEF Counts
    <3> QED
      BY <1>1, <1>2, <2>2, <2>4, <3>1 DEF BaseFits
  <2> QED
    BY <2>3, <2>4 DEF e
<1>3. CASE b.owner # team /\ b.enemies = 0
  <2> DEFINE d == [b EXCEPT !.enemy = team, !.enemies = 1, !.converted = IF b.enemy = team THEN b.converted ELSE 0]
  <2>1. e = Told(d)
    BY <1>3 DEF enter
  <2>2. d \in Base /\ d.owner = b.owner /\ d.enemy = team /\ d.owners = b.owners /\ d.enemies = 1
    <3> DEFINE v == IF b.enemy = team THEN b.converted ELSE 0
    <3>1. v \in Int
      BY <1>1 DEF Base
    <3>2. d = [b EXCEPT !.enemy = team, !.enemies = 1, !.converted = v]
      OBVIOUS
    <3> HIDE DEF v, d
    <3> QED
      BY <1>1, <3>1, <3>2 DEF Base
  <2> HIDE DEF e, d
  <2>3. BaseOK(e) /\ e.owner = b.owner /\ e.enemy = team /\ e.owners = b.owners /\ e.enemies = 1
    BY <1>3, <2>1, <2>2, ToldOK
  <2>4. ASSUME NEW i, NEW gs, NEW m \in Counts, NEW n \in Counts,
               BaseFits(b, i, m, gs), n = [m EXCEPT ![team] = m[team] + 1]
        PROVE  BaseFits(e, i, n, gs)
    <3>1. n[team] = m[team] + 1 /\ m[team] \in Nat /\ \A t \in Teams : t # team => n[t] = m[t]
      BY <2>4 DEF Counts
    <3> QED
      BY <1>1, <1>3, <2>3, <2>4, <3>1 DEF BaseFits
  <2> QED
    BY <2>3, <2>4 DEF e
<1>4. CASE b.owner # team /\ b.enemies # 0
  <2>1. e = [b EXCEPT !.enemies = IF b.enemy = team THEN b.enemies + 1 ELSE b.enemies]
    BY <1>4 DEF enter
  <2> HIDE DEF e
  <2>2. /\ e.owner = b.owner /\ e.enemy = b.enemy /\ e.owners = b.owners
        /\ e.enemies = IF b.enemy = team THEN b.enemies + 1 ELSE b.enemies
    BY <1>1, <2>1 DEF Base
  <2>3. BaseOK(e)
    BY <1>1, <2>1 DEF BaseOK, Base, Seen
  <2>4. ASSUME NEW i, NEW gs, NEW m \in Counts, NEW n \in Counts,
               BaseFits(b, i, m, gs), n = [m EXCEPT ![team] = m[team] + 1]
        PROVE  BaseFits(e, i, n, gs)
    <3>1. n[team] = m[team] + 1 /\ m[team] \in Nat /\ \A t \in Teams : t # team => n[t] = m[t]
      BY <2>4 DEF Counts
    <3> QED
      BY <1>1, <1>4, <2>2, <2>4, <3>1 DEF BaseFits
  <2> QED
    BY <2>3, <2>4 DEF e
<1> QED
  BY <1>2, <1>3, <1>4

\* leave: one of the team is not there any more.
LEMMA LeaveFits ==
  ASSUME NEW b, BaseOK(b), NEW team \in Teams
  PROVE  /\ BaseOK(leave(b, team))
         /\ \A i, gs : \A m, n \in Counts :
               /\ BaseFits(b, i, m, gs)
               /\ m = [n EXCEPT ![team] = n[team] + 1]
               => BaseFits(leave(b, team), i, n, gs)
<1> DEFINE e == leave(b, team)
<1>1. /\ b \in Base /\ b.told = Seen(b) /\ (b.owner = NoTeam \/ b.owner # b.enemy)
      /\ b.owner \in Teams \cup {NoTeam} /\ b.enemy \in Teams \cup {NoTeam} /\ b.owners \in Nat /\ b.enemies \in Nat
      /\ team # NoTeam
  BY BaseFields, Constants DEF BaseOK
<1>2. CASE b.owner = team /\ b.owners > 0
  <2>1. e = [b EXCEPT !.owners = b.owners - 1]
    BY <1>2 DEF leave
  <2> HIDE DEF e
  <2>2. e.owner = b.owner /\ e.enemy = b.enemy /\ e.owners = b.owners - 1 /\ e.enemies = b.enemies
    BY <1>1, <2>1 DEF Base
  <2>3. BaseOK(e)
    BY <1>1, <1>2, <2>1 DEF BaseOK, Base, Seen
  <2>4. ASSUME NEW i, NEW gs, NEW m \in Counts, NEW n \in Counts,
               BaseFits(b, i, m, gs), m = [n EXCEPT ![team] = n[team] + 1]
        PROVE  BaseFits(e, i, n, gs)
    <3>1. m[team] = n[team] + 1 /\ n[team] \in Nat /\ \A t \in Teams : t # team => n[t] = m[t]
      BY <2>4 DEF Counts
    <3> QED
      BY <1>1, <1>2, <2>2, <2>4, <3>1 DEF BaseFits
  <2> QED
    BY <2>3, <2>4 DEF e
<1>3. CASE ~(b.owner = team /\ b.owners > 0) /\ b.enemy = team /\ b.enemies > 0
  <2> DEFINE d == [b EXCEPT !.enemies = b.enemies - 1]
  <2>1. (e = Told([b EXCEPT !.enemies = 0]) /\ b.enemies - 1 = 0) \/ e = d
    BY <1>1, <1>3 DEF leave
  <2>2. d \in Base /\ d.owner = b.owner /\ d.enemy = b.enemy /\ d.owners = b.owners /\ d.enemies = b.enemies - 1
    BY <1>1, <1>3 DEF Base
  <2>3. e = Told(d) \/ e = d
    BY <2>1
  <2>4. Seen(d) = Seen(b) /\ d.told = b.told
    BY <1>1 DEF Seen, Base
  <2> HIDE DEF e, d
  <2>5. BaseOK(d)
    BY <1>1, <2>2, <2>4 DEF BaseOK
  <2>6. BaseOK(e) /\ e.owner = b.owner /\ e.enemy = b.enemy /\ e.owners = b.owners /\ e.enemies = b.enemies - 1
    <3>1. CASE e = d
      BY <2>2, <2>5, <3>1
    <3>2. CASE e = Told(d)
      BY <1>1, <2>2, <3>2, ToldOK
    <3> QED
      BY <2>3, <3>1, <3>2
  <2>7. ASSUME NEW i, NEW gs, NEW m \in Counts, NEW n \in Counts,
               BaseFits(b, i, m, gs), m = [n EXCEPT ![team] = n[team] + 1]
        PROVE  BaseFits(e, i, n, gs)
    <3>1. m[team] = n[team] + 1 /\ n[team] \in Nat /\ \A t \in Teams : t # team => n[t] = m[t]
      BY <2>7 DEF Counts
    <3> QED
      BY <1>1, <1>3, <2>6, <2>7, <3>1 DEF BaseFits
  <2> QED
    BY <2>6, <2>7 DEF e
<1>4. CASE ~(b.owner = team /\ b.owners > 0) /\ ~(b.enemy = team /\ b.enemies > 0)
  <2>1. e = b
    BY <1>1, <1>4 DEF leave
  <2> HIDE DEF e
  <2>2. ASSUME NEW i, NEW gs, NEW m \in Counts, NEW n \in Counts,
               BaseFits(b, i, m, gs), m = [n EXCEPT ![team] = n[team] + 1]
        PROVE  BaseFits(e, i, n, gs)
    <3>1. m[team] = n[team] + 1 /\ n[team] \in Nat /\ \A t \in Teams : t # team => n[t] = m[t]
      BY <2>2 DEF Counts
    <3> QED
      BY <1>1, <1>4, <2>1, <2>2, <3>1 DEF BaseFits
  <2> QED
    BY <2>1, <2>2 DEF e
<1> QED
  BY <1>2, <1>3, <1>4

\* The rest of what happens to a base counts nobody more than once.
LEMMA SameFits ==
  ASSUME NEW b, NEW i, NEW n, NEW m, NEW gs, NEW fs, BaseFits(b, i, n, gs), gs \subseteq fs, m = n
  PROVE  BaseFits(b, i, m, fs)
  BY DEF BaseFits

\* stealbase: all of the team who are in the base count.
LEMMA StealFits ==
  ASSUME NEW b, BaseOK(b), NEW i, NEW team \in Teams, IsFiniteSet(In(i, team))
  PROVE  /\ BaseOK(stealbase(b, i, team))
         /\ \A gs : \A n \in Counts :
               /\ BaseFits(b, i, n, gs)
               /\ steal(b, team) => <<i, team>> \in gs \/ Cardinality(In(i, team)) <= n[team]
               => BaseFits(stealbase(b, i, team), i, n, gs)
<1> DEFINE e == stealbase(b, i, team)
           v == IF b.enemy = team THEN b.converted ELSE 0
           d == [b EXCEPT !.enemy = team, !.enemies = Cardinality(In(i, team)), !.converted = v]
<1>1. /\ b \in Base /\ (b.owner = NoTeam \/ b.owner # b.enemy) /\ v \in Int
      /\ Cardinality(In(i, team)) \in Nat
  BY FS_CardinalityType DEF BaseOK, Base
<1>2. CASE ~steal(b, team)
  <2>1. e = b
    BY <1>2 DEF stealbase
  <2> HIDE DEF e
  <2> QED
    BY <2>1 DEF e
<1>3. CASE steal(b, team)
  <2>1. e = Told(d)
    BY <1>3 DEF stealbase
  <2>2. d \in Base /\ d.owner = b.owner /\ d.enemy = team /\ d.owners = b.owners
        /\ d.enemies = Cardinality(In(i, team))
    <3> HIDE DEF v
    <3> QED
      BY <1>1 DEF Base
  <2>3. b.owner # team
    BY <1>3 DEF steal
  <2> HIDE DEF e, d
  <2>4. /\ BaseOK(e) /\ e.owner = b.owner /\ e.enemy = team /\ e.owners = b.owners
        /\ e.enemies = Cardinality(In(i, team))
    BY <2>1, <2>2, <2>3, ToldOK
  <2>5. ASSUME NEW gs, NEW n \in Counts, BaseFits(b, i, n, gs),
               <<i, team>> \in gs \/ Cardinality(In(i, team)) <= n[team]
        PROVE  BaseFits(e, i, n, gs)
    BY <2>4, <2>5 DEF BaseFits
  <2> QED
    BY <1>3, <2>4, <2>5 DEF e
<1> QED
  BY <1>2, <1>3

\* update: a base that is taken has those who took it as owners.
LEMMA UpdatedFits ==
  ASSUME NEW b, BaseOK(b)
  PROVE  /\ BaseOK(Updated(b))
         /\ \A i, n, gs : BaseFits(b, i, n, gs) => BaseFits(Updated(b), i, n, gs)
<1> DEFINE o == occupy(b)
           done == b.converted + Units(b)
<1>1. /\ b \in Base /\ (b.owner = NoTeam \/ b.owner # b.enemy) /\ b.told = Seen(b)
      /\ b.owner \in Teams \cup {NoTeam} /\ b.enemy \in Teams \cup {NoTeam} /\ b.owners \in Nat /\ b.enemies \in Nat
      /\ done \in Int
  BY BaseFields DEF BaseOK, Units
<1>2. /\ \A d \in Base : /\ noenemy(d) \in Base /\ noenemy(d).owner = d.owner /\ noenemy(d).owners = d.owners
                         /\ noenemy(d).enemy = NoTeam
  <2> SUFFICES ASSUME NEW d \in Base
               PROVE  /\ noenemy(d) \in Base /\ noenemy(d).owner = d.owner
                      /\ noenemy(d).owners = d.owners /\ noenemy(d).enemy = NoTeam
    OBVIOUS
  <2>1. NoTeam \in Teams \cup {NoTeam} /\ 0 \in Nat /\ 0 \in Int
    OBVIOUS
  <2> QED
    BY <2>1 DEF Base, noenemy
<1>3. ASSUME b.enemy # NoTeam
      PROVE  /\ o \in Base /\ (o.owner = NoTeam \/ o.owner # o.enemy)
             /\ \A i, n, gs : BaseFits(b, i, n, gs) => BaseFits(o, i, n, gs)
  <2>1. CASE o = noenemy(b)
    <3> HIDE DEF o
    <3> QED
      BY <1>1, <1>2, <1>3, <2>1, Constants DEF BaseFits
  <2>2. CASE o = [b EXCEPT !.converted = done]
    <3> HIDE DEF o, done
    <3>1. o \in Base /\ o.owner = b.owner /\ o.enemy = b.enemy /\ o.owners = b.owners /\ o.enemies = b.enemies
      BY <1>1, <2>2 DEF Base
    <3> QED
      BY <1>1, <3>1 DEF BaseFits
  <2>3. CASE o = [b EXCEPT !.owner = NoTeam, !.converted = 0]
    <3> HIDE DEF o
    <3>1. o \in Base /\ o.owner = NoTeam /\ o.enemy = b.enemy /\ o.enemies = b.enemies
      <4>1. NoTeam \in Teams \cup {NoTeam} /\ 0 \in Int
        OBVIOUS
      <4> QED
        BY <1>1, <2>3, <4>1 DEF Base
    <3> QED
      BY <1>1, <3>1 DEF BaseFits
  <2>4. CASE o = noenemy([b EXCEPT !.owner = b.enemy, !.owners = b.enemies])
    <3> DEFINE d == [b EXCEPT !.owner = b.enemy, !.owners = b.enemies]
    <3>1. d \in Base /\ d.owner = b.enemy /\ d.owners = b.enemies
      BY <1>1 DEF Base
    <3> HIDE DEF o, d
    <3>2. o \in Base /\ o.owner = b.enemy /\ o.owners = b.enemies /\ o.enemy = NoTeam
      BY <1>2, <2>4, <3>1 DEF d
    <3> QED
      BY <1>1, <1>3, <3>2 DEF BaseFits
  <2>5. \/ o = noenemy(b) \/ o = [b EXCEPT !.converted = done]
        \/ o = [b EXCEPT !.owner = NoTeam, !.converted = 0]
        \/ o = noenemy([b EXCEPT !.owner = b.enemy, !.owners = b.enemies])
    <3> HIDE DEF done
    <3> QED
      BY DEF occupy, done
  <2> QED
    BY <2>1, <2>2, <2>3, <2>4, <2>5
<1>4. ASSUME NEW d \in Base, d.owner = NoTeam \/ d.owner # d.enemy
      PROVE  BaseOK(Told(d)) /\ \A i, n, gs : BaseFits(d, i, n, gs) => BaseFits(Told(d), i, n, gs)
  BY <1>4, ToldOK DEF BaseFits
<1> HIDE DEF o, done
<1>5. CASE b.enemy = NoTeam
  <2>1. Updated(b) = b
    BY <1>5 DEF Updated
  <2> QED
    BY <2>1
<1>6. CASE b.enemy # NoTeam /\ (b.owners = 0 \/ b.enemies = 0)
  <2>1. Updated(b) = Told(o)
    BY <1>6 DEF Updated, o
  <2> QED
    BY <1>3, <1>4, <1>6, <2>1
<1>7. CASE b.enemy # NoTeam /\ ~(b.owners = 0 \/ b.enemies = 0)
  <2>1. Updated(b) = Told(b)
    BY <1>7 DEF Updated
  <2> QED
    BY <1>1, <1>4, <2>1
<1> QED
  BY <1>5, <1>6, <1>7

\* parsebases: only the players of the first team count.
LEMMA PeopledFits ==
  ASSUME NEW i, NEW first \in Teams \cup {NoTeam}
  PROVE  /\ BaseOK(Peopled(i, first))
         /\ \A gs : BaseFits(Peopled(i, first), i, Count(ci, i), gs)
<1>1. NewBase \in Base /\ NewBase.owner = NoTeam /\ NewBase.enemy = NoTeam /\ BaseOK(NewBase)
  BY DEF NewBase, Base, BaseOK, Seen
<1>2. CASE over \/ first = NoTeam
  <2>1. Peopled(i, first) = NewBase
    BY <1>2 DEF Peopled
  <2> QED
    BY <1>1, <2>1 DEF BaseFits
<1>3. CASE ~over /\ first # NoTeam
  <2> DEFINE d == [NewBase EXCEPT !.enemy = first, !.enemies = Cardinality(Standing(i, first))]
  <2>1. Peopled(i, first) = Told(d)
    BY <1>3 DEF Peopled
  <2>2. Standing(i, first) = Stand(ci, i, first)
    BY DEF Standing, Stand, Alive
  <2>3. Cardinality(Standing(i, first)) \in Nat
    <3>1. Standing(i, first) \in SUBSET Clients
      BY DEF Standing, Alive
    <3> QED
      BY <3>1, Constants, FS_Subset, FS_CardinalityType
  <2>4. d \in Base /\ d.owner = NoTeam /\ d.enemy = first /\ d.enemies = Cardinality(Standing(i, first))
    BY <1>1, <2>3 DEF Base
  <2> HIDE DEF d
  <2>5. /\ BaseOK(Told(d)) /\ Told(d).owner = NoTeam /\ Told(d).enemy = first
        /\ Told(d).enemies = Cardinality(Stand(ci, i, first))
    BY <2>2, <2>4, ToldOK
  <2>6. Count(ci, i)[first] = Cardinality(Stand(ci, i, first))
    BY <1>3 DEF Count
  <2>7. Cardinality(Stand(ci, i, first)) <= Cardinality(Stand(ci, i, first))
    BY <2>2, <2>3
  <2> QED
    BY <2>1, <2>5, <2>6, <2>7 DEF BaseFits
<1> QED
  BY <1>2, <1>3

-----------------------------------------------------------------------------
(***************************************************************************)
(* The bases when a client moves.                                          *)
(***************************************************************************)
\* A client is at one place at most, and there alive.
LEMMA SpotIs ==
  ASSUME NEW r, NEW i
  PROVE  /\ i \in Spot(r) <=> Spot(r) = {i}
         /\ Spot(r) = {} \/ Spot(r) = {r.at}
         /\ Spot(r) # {} => r.state = "alive"
  BY DEF Spot

\* The counts are numbers.
LEMMA CountType ==
  ASSUME NEW rs, NEW i
  PROVE  /\ Count(rs, i) \in Counts
         /\ \A team \in Teams : /\ IsFiniteSet(Stand(rs, i, team))
                                /\ Count(rs, i)[team] = Cardinality(Stand(rs, i, team))
<1>1. \A team : Stand(rs, i, team) \in SUBSET Clients
  BY DEF Stand
<1>2. \A team : IsFiniteSet(Stand(rs, i, team)) /\ Cardinality(Stand(rs, i, team)) \in Nat
  BY <1>1, Constants, FS_Subset, FS_CardinalityType
<1> QED
  BY <1>2 DEF Count, Counts

\* One client more stands in a base.
LEMMA CountOneMore ==
  ASSUME NEW rs, NEW ss, NEW c \in Clients, \A d \in Clients : d # c => rs[d] = ss[d],
         NEW i, i \in Spot(rs[c]), i \notin Spot(ss[c]), NEW team \in Teams, rs[c].team = team
  PROVE  Count(rs, i) = [Count(ss, i) EXCEPT ![team] = Count(ss, i)[team] + 1]
<1>1. Spot(rs[c]) = {i} /\ rs[c].state = "alive" /\ Spot(ss[c]) # {i}
  BY SpotIs
<1>2. Stand(rs, i, team) = Stand(ss, i, team) \cup {c} /\ c \notin Stand(ss, i, team)
  BY <1>1 DEF Stand
<1>3. \A t \in Teams : t # team => Stand(rs, i, t) = Stand(ss, i, t)
  BY <1>1 DEF Stand
<1>4. Cardinality(Stand(rs, i, team)) = Cardinality(Stand(ss, i, team)) + 1
  <2>1. IsFiniteSet(Stand(ss, i, team))
    BY CountType
  <2> DEFINE S == Stand(ss, i, team)
  <2> HIDE DEF S
  <2>2. IsFiniteSet(S) /\ c \notin S /\ Stand(rs, i, team) = S \cup {c}
    BY <1>2, <2>1 DEF S
  <2>3. Cardinality(S \cup {c}) = Cardinality(S) + 1
    BY <2>2, FS_AddElement
  <2> QED
    BY <2>2, <2>3 DEF S
<1>5. \A t \in Teams : Count(rs, i)[t] = [Count(ss, i) EXCEPT ![team] = Count(ss, i)[team] + 1][t]
  BY <1>3, <1>4, CountType DEF Counts
<1> QED
  BY <1>5, CountType DEF Counts

\* Nobody comes or goes in a base.
LEMMA CountSame ==
  ASSUME NEW rs, NEW ss, NEW c \in Clients, \A d \in Clients : d # c => rs[d] = ss[d],
         NEW i, i \in Spot(rs[c]) <=> i \in Spot(ss[c]), i \in Spot(rs[c]) => rs[c].team = ss[c].team
  PROVE  Count(rs, i) = Count(ss, i)
<1>1. Spot(rs[c]) = {i} <=> Spot(ss[c]) = {i}
  BY SpotIs
<1>2. Spot(rs[c]) = {i} => rs[c].state = "alive" /\ ss[c].state = "alive" /\ rs[c].team = ss[c].team
  BY <1>1, SpotIs
<1>3. \A t : Stand(rs, i, t) = Stand(ss, i, t)
  BY <1>1, <1>2 DEF Stand
<1> QED
  BY <1>3 DEF Count

\* No team has less players in a base, but for the team of who leaves it.
LEMMA CountGrows ==
  ASSUME NEW rs, NEW ss, NEW c \in Clients, \A d \in Clients : d # c => rs[d] = ss[d],
         NEW team \in Teams, NEW t \in Teams,
         Spot(rs[c]) # {} => rs[c].team = team, Spot(ss[c]) # {} => ss[c].team = team,
         NEW i, NEW fs, i \in Spot(rs[c]) \ Spot(ss[c]) => <<i, team>> \in fs
  PROVE  <<i, t>> \in fs \/ Count(rs, i)[t] <= Count(ss, i)[t]
<1>1. CASE i \in Spot(rs[c]) \ Spot(ss[c]) /\ t = team
  BY <1>1
<1>2. CASE ~(i \in Spot(rs[c]) \ Spot(ss[c]) /\ t = team)
  <2>1. Stand(rs, i, t) \in SUBSET Stand(ss, i, t)
    <3> SUFFICES ASSUME NEW d \in Stand(rs, i, t) PROVE d \in Stand(ss, i, t)
      OBVIOUS
    <3>1. d \in Clients /\ rs[d].state = "alive" /\ rs[d].team = t /\ Spot(rs[d]) = {i}
      BY DEF Stand
    <3>2. CASE d # c
      BY <3>1, <3>2 DEF Stand
    <3>3. CASE d = c
      <4>1. t = team /\ i \in Spot(ss[c])
        BY <1>2, <3>1, <3>3
      <4>2. Spot(ss[c]) = {i} /\ ss[c].state = "alive" /\ ss[c].team = t
        BY <4>1, SpotIs
      <4> QED
        BY <3>3, <4>2 DEF Stand
    <3> QED
      BY <3>2, <3>3
  <2>2. IsFiniteSet(Stand(ss, i, t))
    BY CountType
  <2>3. Cardinality(Stand(rs, i, t)) <= Cardinality(Stand(ss, i, t))
    BY <2>1, <2>2, FS_Subset
  <2> QED
    BY <2>3, CountType
<1> QED
  BY <1>1, <1>2

\* movebases keeps the counts when the client moves as it says.  When the time is
\* up the counts stay, and who leaves has to be remembered.
LEMMA Moves ==
  ASSUME interm \in BOOLEAN, interm => over, NEW rs, NEW ss, NEW c \in Clients, \A d \in Clients : d # c => rs[d] = ss[d],
         NEW team \in Teams,
         Spot(rs[c]) # {} => rs[c].team = team, Spot(ss[c]) # {} => ss[c].team = team,
         NEW bs, NEW gs, NEW fs, gs \subseteq fs, BasesOK(bs, rs, gs),
         \A i \in DOMAIN bs : (~over /\ i \in Spot(rs[c]) /\ i \in Spot(ss[c]) /\ steal(bs[i], team)) =>
               <<i, team>> \in fs \/ Cardinality(In(i, team)) <= Count(ss, i)[team],
         \A i \in DOMAIN bs : (over /\ ~interm /\ i \in Spot(rs[c]) \ Spot(ss[c])) => <<i, team>> \in fs
  PROVE  /\ DOMAIN movebases(bs, team, Spot(rs[c]), Spot(ss[c])) = DOMAIN bs
         /\ BasesOK(movebases(bs, team, Spot(rs[c]), Spot(ss[c])), ss, fs)
<1> DEFINE from == Spot(rs[c])
           to == Spot(ss[c])
           new == movebases(bs, team, from, to)
<1>1. CASE over
  <2>1. new = bs
    BY <1>1 DEF movebases
  <2> HIDE DEF new, from, to
  <2>2. ASSUME NEW i \in DOMAIN bs, ~interm PROVE BaseFits(bs[i], i, Count(ss, i), fs)
    <3>1. BaseOK(bs[i]) /\ BaseFits(bs[i], i, Count(rs, i), gs)
      BY <2>2 DEF BasesOK
    <3>2. BaseFits(bs[i], i, Count(rs, i), fs)
      BY <3>1, SameFits
    <3>3. Count(rs, i) \in Counts /\ Count(ss, i) \in Counts
      BY CountType
    <3>4. bs[i].owner \in Teams \cup {NoTeam} /\ bs[i].enemy \in Teams \cup {NoTeam}
          /\ bs[i].owners \in Nat /\ bs[i].enemies \in Nat
      BY <3>1, BaseFields
    <3>5. \A t \in Teams : <<i, t>> \in fs \/ Count(rs, i)[t] <= Count(ss, i)[t]
      BY <1>1, <2>2, <3>3, CountGrows
    <3>6. \A t \in Teams : Count(rs, i)[t] \in Nat /\ Count(ss, i)[t] \in Nat
      BY <3>3 DEF Counts
    <3> QED
      BY <3>2, <3>4, <3>5, <3>6 DEF BaseFits
  <2>3. BasesOK(bs, ss, fs)
    BY <2>2 DEF BasesOK
  <2> QED
    BY <2>1, <2>3 DEF new, from, to
<1>2. CASE ~over
  <2>1. new = [i \in DOMAIN bs |->
                 CASE i \in from \ to       -> leave(bs[i], team)
                   [] i \in to \ from       -> enter(bs[i], team)
                   [] i \in from \cap to    -> stealbase(bs[i], i, team)
                   [] i \notin from \cup to -> bs[i]]
    BY <1>2 DEF movebases
  <2>2. DOMAIN new = DOMAIN bs
    BY <2>1
  <2> HIDE DEF new, from, to
  <2>3. ASSUME NEW i \in DOMAIN bs PROVE BaseOK(new[i]) /\ BaseFits(new[i], i, Count(ss, i), fs)
    <3>1. BaseOK(bs[i]) /\ BaseFits(bs[i], i, Count(rs, i), gs)
      BY <1>2 DEF BasesOK
    <3>2. BaseFits(bs[i], i, Count(rs, i), fs)
      BY <3>1, SameFits
    <3>3. Count(rs, i) \in Counts /\ Count(ss, i) \in Counts
      BY CountType
    <3>4. CASE i \in from \ to
      <4>1. new[i] = leave(bs[i], team)
        BY <2>1, <3>4
      <4>2. Count(rs, i) = [Count(ss, i) EXCEPT ![team] = Count(ss, i)[team] + 1]
        <5>1. i \in Spot(rs[c]) /\ i \notin Spot(ss[c]) /\ rs[c].team = team
          BY <3>4 DEF from, to
        <5> QED
          BY <5>1, CountOneMore
      <4>3. /\ BaseOK(leave(bs[i], team))
            /\ \A j, hs : \A m, n \in Counts :
                  BaseFits(bs[i], j, m, hs) /\ m = [n EXCEPT ![team] = n[team] + 1] => BaseFits(leave(bs[i], team), j, n, hs)
        BY <3>1, LeaveFits
      <4>4. BaseFits(leave(bs[i], team), i, Count(ss, i), fs)
        BY <3>2, <3>3, <4>2, <4>3
      <4> QED
        BY <4>1, <4>3, <4>4
    <3>5. CASE i \in to \ from
      <4>1. new[i] = enter(bs[i], team)
        BY <2>1, <3>5
      <4>2. Count(ss, i) = [Count(rs, i) EXCEPT ![team] = Count(rs, i)[team] + 1]
        <5>1. i \in Spot(ss[c]) /\ i \notin Spot(rs[c]) /\ ss[c].team = team
          BY <3>5 DEF from, to
        <5>2. \A d \in Clients : d # c => ss[d] = rs[d]
          OBVIOUS
        <5> QED
          BY <5>1, <5>2, CountOneMore
      <4>3. /\ BaseOK(enter(bs[i], team))
            /\ \A j, hs : \A m, n \in Counts :
                  BaseFits(bs[i], j, m, hs) /\ n = [m EXCEPT ![team] = m[team] + 1] => BaseFits(enter(bs[i], team), j, n, hs)
        BY <3>1, EnterFits
      <4>4. BaseFits(enter(bs[i], team), i, Count(ss, i), fs)
        BY <3>2, <3>3, <4>2, <4>3
      <4> QED
        BY <4>1, <4>3, <4>4
    <3>6. CASE i \in from \cap to
      <4>1. new[i] = stealbase(bs[i], i, team)
        BY <2>1, <3>6
      <4>2. i \in Spot(rs[c]) /\ i \in Spot(ss[c]) /\ rs[c].team = ss[c].team
        BY <3>6 DEF from, to
      <4>3. Count(rs, i) = Count(ss, i)
        BY <4>2, CountSame
      <4>4. IsFiniteSet(In(i, team))
        <5>1. In(i, team) \in SUBSET Clients
          BY DEF In, Alive
        <5> QED
          BY <5>1, Constants, FS_Subset
      <4>5. steal(bs[i], team) => <<i, team>> \in fs \/ Cardinality(In(i, team)) <= Count(ss, i)[team]
        BY <1>2, <4>2
      <4>6. BaseFits(bs[i], i, Count(ss, i), fs)
        BY <3>2, <4>3
      <4> QED
        BY <3>1, <3>3, <4>1, <4>4, <4>5, <4>6, StealFits
    <3>7. CASE i \notin from \cup to
      <4>1. new[i] = bs[i]
        BY <2>1, <3>7
      <4>2. i \notin Spot(rs[c]) /\ i \notin Spot(ss[c])
        BY <3>7 DEF from, to
      <4>3. Count(rs, i) = Count(ss, i)
        BY <4>2, CountSame
      <4> QED
        BY <3>1, <3>2, <4>1, <4>3
    <3> QED
      BY <3>4, <3>5, <3>6, <3>7
  <2>4. BasesOK(new, ss, fs)
    BY <2>2, <2>3 DEF BasesOK
  <2> QED
    BY <2>2, <2>4 DEF new, from, to
<1> QED
  BY <1>1, <1>2

\* A client leaves its base without a word, and is remembered as a ghost.
LEMMA Forgets ==
  ASSUME NEW ss, NEW c \in Clients, \A d \in Clients : d # c => ci[d] = ss[d],
         NEW fs, Spot(ss[c]) = {}, BasesOK(bases, ci, ghosts), fs = ghosts \cup Forgotten(c, {})
  PROVE  BasesOK(bases, ss, fs)
<1>1. ASSUME NEW i \in DOMAIN bases, ~interm PROVE BaseFits(bases[i], i, Count(ss, i), fs)
  <2>1. BaseOK(bases[i]) /\ BaseFits(bases[i], i, Count(ci, i), ghosts)
    BY <1>1 DEF BasesOK
  <2>2. BaseFits(bases[i], i, Count(ci, i), fs)
    BY <2>1, SameFits
  <2>3. CASE i \notin Spot(ci[c])
    <3>1. Count(ci, i) = Count(ss, i)
      <4>1. Spot(ci[c]) # {i} /\ Spot(ss[c]) # {i}
        BY <2>3, SpotIs
      <4>2. \A t \in Teams : Stand(ci, i, t) = Stand(ss, i, t)
        BY <4>1 DEF Stand
      <4> QED
        BY <4>2 DEF Count
    <3> QED
      BY <2>2, <3>1
  <2>4. CASE i \in Spot(ci[c])
    <3>1. <<i, ci[c].team>> \in fs
      BY <2>4 DEF Forgotten
    <3>2. \A t \in Teams : t # ci[c].team => Stand(ci, i, t) = Stand(ss, i, t)
      BY <2>4, SpotIs DEF Stand
    <3>3. \A t \in Teams : t # ci[c].team => Count(ci, i)[t] = Count(ss, i)[t]
      BY <3>2 DEF Count
    <3>4. bases[i].owner \in Teams \cup {NoTeam} /\ bases[i].enemy \in Teams \cup {NoTeam}
      BY <2>1, BaseFields
    <3> QED
      BY <2>2, <3>1, <3>3, <3>4 DEF BaseFits
  <2> QED
    BY <2>3, <2>4
<1> QED
  BY <1>1 DEF BasesOK

-----------------------------------------------------------------------------
(***************************************************************************)
(* Steps.                                                                  *)
(***************************************************************************)
\* A client that starts anew counts nowhere.
LEMMA Anew ==
  ASSUME NEW state \in {"dead", "spectator"}, NEW team \in Teams
  PROVE  Client(state, team) \in Player /\ Spot(Client(state, team)) = {} /\ Client(state, team).team = team
  BY Constants DEF Client, Player, Spot

\* Whoever is gone is nowhere.
LEMMA GoneNowhere == Spot(Gone) = {}
  BY DEF Spot, Gone

\* The clients after one of them has changed.
LEMMA OneChanges ==
  ASSUME TypeInv, NEW c \in Clients, NEW r \in Player \cup {Gone}, ci' = [ci EXCEPT ![c] = r]
  PROVE  /\ ci' \in Infos /\ ci'[c] = r /\ \A d \in Clients : d # c => ci[d] = ci'[d]
         /\ r \in Player => Here \subseteq Here'
         /\ r = Gone => Here' = Here \ {c}
<1>1. ci \in Infos
  BY DEF TypeInv
<1>2. ci' \in Infos /\ ci'[c] = r /\ \A d \in Clients : d # c => ci[d] = ci'[d]
  BY <1>1 DEF Infos
<1>3. r.state # "gone" <=> r \in Player
  BY Slots
<1>4. r.state = "gone" <=> r = Gone
  BY Slots
<1>5. ASSUME r \in Player PROVE Here \subseteq Here'
  BY <1>2, <1>3, <1>5 DEF Here
<1>6. ASSUME r = Gone PROVE Here' = Here \ {c}
  BY <1>2, <1>4, <1>6 DEF Here
<1> QED
  BY <1>2, <1>5, <1>6

\* The bases in the next state, when no intermission begins by the step.
LEMMA BasesNext ==
  ASSUME interm' = interm, BasesOK(bases', ci', ghosts')
  PROVE  BasesOK(bases, ci, ghosts)'
  BY DEF BasesOK

\* A step that puts r in the place of c, moves it out of its base or into one,
\* and leaves the match as it is.
LEMMA MovesHold ==
  ASSUME IInv, NEW c \in Clients, NEW r \in Player \cup {Gone}, ci' = [ci EXCEPT ![c] = r],
         NEW team \in Teams, Spot(ci[c]) # {} => ci[c].team = team, Spot(r) # {} => r.team = team,
         bases' = movebases(bases, team, Spot(ci[c]), Spot(r)), ghosts \subseteq ghosts', UNCHANGED match,
         \A i \in DOMAIN bases : (~over /\ i \in Spot(ci[c]) /\ i \in Spot(r) /\ steal(bases[i], team)) =>
               <<i, team>> \in ghosts' \/ Cardinality(In(i, team)) <= Count(ci', i)[team],
         \A i \in DOMAIN bases : (over /\ ~interm /\ i \in Spot(ci[c]) \ Spot(r)) => <<i, team>> \in ghosts',
         TokensOK'
  PROVE  IInv'
<1>1. ci' \in Infos /\ ci'[c] = r /\ \A d \in Clients : d # c => ci[d] = ci'[d]
  BY OneChanges DEF IInv
<1>2. DOMAIN bases' = DOMAIN bases /\ BasesOK(bases', ci', ghosts')
  <2> DEFINE ss == ci'
             fs == ghosts'
             bs == bases
             rs == ci
             gs == ghosts
  <2>1. /\ \A d \in Clients : d # c => rs[d] = ss[d]
        /\ Spot(rs[c]) # {} => rs[c].team = team
        /\ Spot(ss[c]) # {} => ss[c].team = team
        /\ gs \subseteq fs /\ BasesOK(bs, rs, gs)
        /\ \A i \in DOMAIN bs : (~over /\ i \in Spot(rs[c]) /\ i \in Spot(ss[c]) /\ steal(bs[i], team)) =>
               <<i, team>> \in fs \/ Cardinality(In(i, team)) <= Count(ss, i)[team]
        /\ \A i \in DOMAIN bs : (over /\ ~interm /\ i \in Spot(rs[c]) \ Spot(ss[c])) => <<i, team>> \in fs
        /\ interm \in BOOLEAN /\ (interm => over)
    BY <1>1 DEF IInv, TypeInv
  <2>2. bases' = movebases(bs, team, Spot(rs[c]), Spot(ss[c]))
    BY <1>1
  <2> HIDE DEF ss, fs, bs, rs, gs
  <2>3. /\ DOMAIN movebases(bs, team, Spot(rs[c]), Spot(ss[c])) = DOMAIN bs
        /\ BasesOK(movebases(bs, team, Spot(rs[c]), Spot(ss[c])), ss, fs)
    BY <2>1, Moves
  <2> QED
    BY <2>2, <2>3 DEF ss, fs, bs
<1>3. TypeInv'
  BY <1>1, <1>2 DEF IInv, TypeInv, match
<1>4. BasesOK(bases, ci, ghosts)'
  BY <1>2, BasesNext DEF match
<1> QED
  BY <1>3, <1>4 DEF IInv

\* One that moves no base and nobody between bases.
LEMMA QuietHolds ==
  ASSUME IInv, ci' \in Infos, bases' = bases, ghosts \subseteq ghosts', mode' = mode,
         over' \in BOOLEAN, interm' \in BOOLEAN, interm => interm', interm' => over',
         \A c \in Clients : Spot(ci'[c]) = Spot(ci[c]) /\ (Spot(ci[c]) # {} => ci'[c].team = ci[c].team),
         TokensOK'
  PROVE  IInv'
<1>1. ASSUME NEW i PROVE Count(ci', i) = Count(ci, i)
  <2>1. ASSUME NEW c \in Clients, Spot(ci[c]) = {i} PROVE ci'[c].state = "alive" /\ ci[c].state = "alive" /\ ci'[c].team = ci[c].team
    BY <2>1, SpotIs
  <2>2. \A t \in Teams : Stand(ci', i, t) = Stand(ci, i, t)
    BY <2>1 DEF Stand
  <2> QED
    BY <2>2 DEF Count
<1>2. BasesOK(bases, ci, ghosts)'
  <2>1. ASSUME NEW i \in DOMAIN bases, ~interm' PROVE BaseFits(bases[i], i, Count(ci', i), ghosts')
    <3>1. BaseFits(bases[i], i, Count(ci, i), ghosts)
      BY <2>1 DEF IInv, BasesOK
    <3> QED
      BY <1>1, <3>1 DEF BaseFits
  <2>2. \A i \in DOMAIN bases : BaseOK(bases[i])
    BY DEF IInv, BasesOK
  <2> QED
    BY <2>1, <2>2 DEF BasesOK
<1>3. TypeInv'
  BY DEF IInv, TypeInv
<1> QED
  BY <1>2, <1>3 DEF IInv

\* Init
LEMMA InitInv == Init => IInv
<1> SUFFICES ASSUME Init PROVE IInv
  OBVIOUS
<1>1. DOMAIN bases = {}
  BY DEF Init
<1>2. TypeInv
  BY <1>1 DEF Init, TypeInv, Infos
<1>3. BasesOK(bases, ci, ghosts)
  BY <1>1 DEF BasesOK
<1>4. TokensOK
  BY NoneFits DEF Init
<1> QED
  BY <1>2, <1>3, <1>4 DEF IInv

\* update of capture: bases are taken.
LEMMA updateCaptureHolds == ASSUME IInv, updateCapture PROVE IInv'
<1>1. /\ UNCHANGED <<mode, ci, tokens, ghosts>> /\ ~over /\ over' \in BOOLEAN /\ interm' = over'
      /\ bases' = [i \in DOMAIN bases |-> Updated(bases[i])]
  BY DEF updateCapture, AllOwned
<1>2. DOMAIN bases' = DOMAIN bases
  BY <1>1
<1>3. ASSUME NEW i \in DOMAIN bases PROVE BaseOK(bases'[i]) /\ BaseFits(bases'[i], i, Count(ci, i), ghosts)
  <2>1. BaseOK(bases[i]) /\ BaseFits(bases[i], i, Count(ci, i), ghosts)
    BY <1>1 DEF IInv, TypeInv, BasesOK
  <2>2. bases'[i] = Updated(bases[i])
    BY <1>1
  <2>3. BaseOK(Updated(bases[i])) /\ \A j, n, gs : BaseFits(bases[i], j, n, gs) => BaseFits(Updated(bases[i]), j, n, gs)
    BY <2>1, UpdatedFits
  <2> QED
    BY <2>1, <2>2, <2>3
<1>4. BasesOK(bases, ci, ghosts)'
  BY <1>1, <1>2, <1>3 DEF BasesOK
<1>5. TypeInv'
  BY <1>1, <1>2 DEF IInv, TypeInv
<1>6. Here' = Here
  BY <1>1 DEF Here
<1>7. TokensOK'
  BY <1>1, <1>6, SameTokens DEF IInv
<1> QED
  BY <1>4, <1>5, <1>7 DEF IInv

\* TimeUp
LEMMA TimeUpHolds == ASSUME IInv, TimeUp PROVE IInv'
<1>1. UNCHANGED <<mode, ci, bases, tokens, ghosts, interm>> /\ over' = TRUE
  BY DEF TimeUp
<1>2. TokensOK'
  BY <1>1, SameTokens DEF IInv, Here
<1> QED
  BY <1>1, <1>2, QuietHolds DEF IInv, TypeInv

\* checkintermission: the match goes on with the bases as they are, or ends.
LEMMA checkintermissionHolds == ASSUME IInv, checkintermission PROVE IInv'
<1>1. /\ UNCHANGED <<mode, ci, bases, tokens, ghosts>> /\ ~interm
      /\ over' \in BOOLEAN /\ interm' = over'
  BY DEF checkintermission
<1>2. TokensOK'
  BY <1>1, SameTokens DEF IInv, Here
<1> QED
  BY <1>1, <1>2, QuietHolds DEF IInv, TypeInv

\* A new base has nobody in it.
LEMMA NewFits == BaseOK(NewBase) /\ \A i, n, gs : BaseFits(NewBase, i, n, gs)
<1>1. NewBase \in Base /\ NewBase.owner = NoTeam /\ NewBase.enemy = NoTeam /\ BaseOK(NewBase)
  BY DEF NewBase, Base, BaseOK, Seen
<1> QED
  BY <1>1 DEF BaseFits

\* The bases of a map.
LEMMA NewBasesAre ==
  ASSUME NEW m, NEW new \in NewBases(m)
  PROVE  DOMAIN new \subseteq Bases /\ \A i \in DOMAIN new : new[i] = NewBase
  BY DEF NewBases

\* changemap
LEMMA changemapHolds == ASSUME IInv, changemap PROVE IInv'
<1>1. /\ mode' \in {"capture", "collect"} /\ over' = FALSE /\ interm' = FALSE /\ tokens' = NoTokens
      /\ bases' = <<>> \/ bases' \in NewBases(mode')
  BY DEF changemap
<1>2. DOMAIN bases' \subseteq Bases /\ \A i \in DOMAIN bases' : bases'[i] = NewBase
  <2>1. CASE bases' = <<>>
    <3>1. DOMAIN bases' = {}
      BY <2>1
    <3> QED
      BY <3>1
  <2>2. CASE bases' \in NewBases(mode')
    BY <2>2, NewBasesAre
  <2> QED
    BY <1>1, <2>1, <2>2
<1>3. ci' \in Infos
  <2>1. ASSUME NEW c \in Clients, c \in Here PROVE ci[c].team \in Teams
    <3>1. ci[c] \in Player
      BY <2>1, Living DEF IInv
    <3> QED
      BY <3>1 DEF Player
  <2>2. ASSUME NEW c \in Clients, c \in Here
        PROVE  Client(IF ci[c].state = "spectator" THEN "spectator" ELSE "dead", ci[c].team) \in Player
    BY <2>1, <2>2, Anew
  <2>3. ci' = [c \in Clients |-> IF c \notin Here THEN Gone
              ELSE Client(IF ci[c].state = "spectator" THEN "spectator" ELSE "dead", ci[c].team)]
    BY DEF changemap
  <2> QED
    BY <2>2, <2>3 DEF Infos
<1>4. TypeInv'
  BY <1>1, <1>2, <1>3 DEF TypeInv
<1>5. BasesOK(bases, ci, ghosts)'
  BY <1>2, NewFits DEF BasesOK
<1>6. TokensOK'
  BY <1>1, NoneFit
<1> QED
  BY <1>4, <1>5, <1>6 DEF IInv

\* parsebases
LEMMA parsebasesHolds == ASSUME IInv, NEW c \in Clients, parsebases(c) PROVE IInv'
<1>1. UNCHANGED <<mode, ci, tokens, over, interm, ghosts>>
  BY DEF parsebases
<1>2. PICK new \in NewBases(mode) :
         bases' \in {[i \in DOMAIN new |-> Peopled(i, first[i])] : first \in FirstIn(DOMAIN new)}
  BY DEF parsebases
<1>3. PICK first \in FirstIn(DOMAIN new) : bases' = [i \in DOMAIN new |-> Peopled(i, first[i])]
  BY <1>2
<1>4. DOMAIN bases' = DOMAIN new /\ DOMAIN new \subseteq Bases
  BY <1>2, <1>3, NewBasesAre
<1>5. first \in [DOMAIN new -> Teams \cup {NoTeam}]
  BY DEF FirstIn
<1>6. ASSUME NEW i \in DOMAIN bases'
      PROVE  BaseOK(bases'[i]) /\ BaseFits(bases'[i], i, Count(ci, i), ghosts)
  <2>1. bases'[i] = Peopled(i, first[i]) /\ first[i] \in Teams \cup {NoTeam}
    BY <1>3, <1>4, <1>5
  <2> QED
    BY <2>1, PeopledFits
<1>7. BasesOK(bases', ci', ghosts')
  BY <1>1, <1>6 DEF BasesOK
<1>8. TokensOK'
  BY <1>1, SameTokens DEF IInv, Here
<1>9. TypeInv'
  BY <1>1, <1>4 DEF IInv, TypeInv
<1> QED
  BY <1>1, <1>7, <1>8, <1>9, BasesNext DEF IInv

\* N_POS
LEMMA MoveHolds == ASSUME IInv, NEW c \in Clients, Move(c) PROVE IInv'
<1>1. PICK at \in Visited \cup {Nowhere}, clip \in BOOLEAN :
          LET r == [ci[c] EXCEPT !.at = at, !.gameclip = clip] IN
          /\ ci' = [ci EXCEPT ![c] = r]
          /\ bases' = movebases(bases, r.team, Spot(ci[c]), Spot(r))
          /\ IF over THEN Forget(Uncounted(c, Spot(r)))
             ELSE ghosts' = ghosts \cup IF at \in Spot(ci[c]) /\ ~clip THEN Clipped(c) ELSE {}
  BY DEF Move
<1> DEFINE r == [ci[c] EXCEPT !.at = at, !.gameclip = clip]
           team == ci[c].team
<1>2. ci[c] \in Player /\ ci[c].state = "alive" /\ TypeInv
  BY Living DEF Move, IInv
<1>3. r \in Player /\ r.team = team /\ r.state = "alive" /\ r.at = at /\ r.gameclip = clip /\ team \in Teams
  BY <1>2, Constants DEF Player
<1>4. ci' = [ci EXCEPT ![c] = r] /\ bases' = movebases(bases, team, Spot(ci[c]), Spot(r))
  BY <1>1, <1>3
<1>5. UNCHANGED <<match, tokens>>
  BY DEF Move
<1>11. ASSUME NEW i \in DOMAIN bases, over /\ ~interm /\ i \in Spot(ci[c]) \ Spot(r) PROVE <<i, team>> \in ghosts'
  BY <1>1, <1>11 DEF Forget, Uncounted, Forgotten
<1>9. ghosts \subseteq ghosts'
  BY <1>1 DEF Forget
<1> HIDE DEF r
<1>6. /\ ci' \in Infos /\ ci'[c] = r /\ (\A d \in Clients : d # c => ci[d] = ci'[d]) /\ Here \subseteq Here'
  BY <1>2, <1>3, <1>4, OneChanges
<1>7. TokensOK'
  BY <1>5, <1>6, SameTokens DEF IInv, match
<1>8. ASSUME NEW i \in DOMAIN bases, ~over, i \in Spot(ci[c]), i \in Spot(r), steal(bases[i], team)
      PROVE  <<i, team>> \in ghosts' \/ Cardinality(In(i, team)) <= Count(ci', i)[team]
  <2>1. at = i /\ ~clip
    BY <1>3, <1>8 DEF Spot
  <2>2. ghosts' = ghosts \cup Clipped(c)
    BY <1>1, <1>8, <2>1
  <2>3. CASE \E d \in In(i, team) : ci[d].gameclip
    BY <1>8, <2>2, <2>3 DEF Clipped
  <2>4. CASE ~ \E d \in In(i, team) : ci[d].gameclip
    <3>1. ASSUME NEW d \in In(i, team) PROVE d \in Stand(ci', i, team)
      <4>1. d \in Clients /\ ci[d].state = "alive" /\ ci[d].team = team /\ ci[d].at = i /\ ~ci[d].gameclip
        BY <2>4, <3>1 DEF In, Alive
      <4>2. CASE d = c
        BY <1>3, <1>6, <1>8, <4>1, <4>2, SpotIs DEF Stand
      <4>3. CASE d # c
        <5>1. ci'[d] = ci[d] /\ Spot(ci[d]) = {i}
          BY <1>6, <4>1, <4>3 DEF Spot
        <5> QED
          BY <4>1, <5>1 DEF Stand
      <4> QED
        BY <4>2, <4>3
    <3>2. Cardinality(In(i, team)) <= Cardinality(Stand(ci', i, team))
      <4>1. IsFiniteSet(Stand(ci', i, team)) /\ In(i, team) \in SUBSET Stand(ci', i, team)
        BY <1>3, <3>1, CountType
      <4> QED
        BY <4>1, FS_Subset
    <3> QED
      BY <1>3, <3>2 DEF Count
  <2> QED
    BY <2>3, <2>4
<1> HIDE DEF team
<1>10. ci[c].team = team
  BY DEF team
<1> QED
  BY <1>3, <1>4, <1>5, <1>7, <1>8, <1>9, <1>10, <1>11, MovesHold

\* Who plays has a team.
LEMMA TeamIs == ASSUME IInv, NEW c \in Here PROVE c \in Clients /\ ci[c] \in Player /\ ci[c].team \in Teams
<1>1. c \in Clients /\ TypeInv
  BY DEF Here, IInv
<1>2. ci[c] \in Player
  BY <1>1, Living
<1> QED
  BY <1>1, <1>2 DEF Player

\* A client leaves its base as leavegame and died tell it.
LEMMA LeavesHold ==
  ASSUME IInv, NEW c \in Here, NEW r \in Player \cup {Gone}, Spot(r) = {}, ci' = [ci EXCEPT ![c] = r],
         bases' = LeftBases(c), Forget(Uncounted(c, {})), UNCHANGED match, TokensOK'
  PROVE  IInv'
<1>1. c \in Clients /\ ci[c].team \in Teams
  BY TeamIs
<1>2. bases' = movebases(bases, ci[c].team, Spot(ci[c]), Spot(r))
  BY DEF LeftBases
<1>3. Spot(r) # {} => r.team = ci[c].team
  OBVIOUS
<1>4. \A i \in DOMAIN bases : (~over /\ i \in Spot(ci[c]) /\ i \in Spot(r) /\ steal(bases[i], ci[c].team)) =>
               <<i, ci[c].team>> \in ghosts' \/ Cardinality(In(i, ci[c].team)) <= Count(ci', i)[ci[c].team]
  OBVIOUS
<1>6. /\ ghosts \subseteq ghosts'
      /\ \A i \in DOMAIN bases : (over /\ ~interm /\ i \in Spot(ci[c]) \ Spot(r)) => <<i, ci[c].team>> \in ghosts'
  BY DEF Forget, Uncounted, Forgotten
<1> DEFINE team == ci[c].team
<1> HIDE DEF team
<1>5. /\ team \in Teams /\ ci[c].team = team /\ bases' = movebases(bases, team, Spot(ci[c]), Spot(r))
      /\ Spot(r) # {} => r.team = team
      /\ \A i \in DOMAIN bases : (~over /\ i \in Spot(ci[c]) /\ i \in Spot(r) /\ steal(bases[i], team)) =>
               <<i, team>> \in ghosts' \/ Cardinality(In(i, team)) <= Count(ci', i)[team]
      /\ \A i \in DOMAIN bases : (over /\ ~interm /\ i \in Spot(ci[c]) \ Spot(r)) => <<i, team>> \in ghosts'
  BY <1>1, <1>2, <1>3, <1>4, <1>6 DEF team
<1> QED
  BY <1>1, <1>5, <1>6, MovesHold

\* N_SPAWN
LEMMA SpawnHolds == ASSUME IInv, NEW c \in Clients, Spawn(c) PROVE IInv'
<1>1. PICK at \in Visited \cup {Nowhere} :
          LET r == [ci[c] EXCEPT !.state = "alive", !.at = at] IN
          ci' = [ci EXCEPT ![c] = r] /\ bases' = movebases(bases, r.team, {}, Spot(r))
  BY DEF Spawn
<1> DEFINE r == [ci[c] EXCEPT !.state = "alive", !.at = at]
           team == ci[c].team
<1>2. c \in Here /\ ci[c].state = "dead" /\ UNCHANGED <<match, tokens, ghosts>>
  BY DEF Spawn
<1>3. ci[c] \in Player /\ team \in Teams /\ TypeInv
  BY <1>2, TeamIs DEF IInv
<1>4. r \in Player /\ r.team = team
  BY <1>3, Constants DEF Player
<1>5. Spot(ci[c]) = {}
  BY <1>2 DEF Spot
<1>6. ci' = [ci EXCEPT ![c] = r] /\ bases' = movebases(bases, team, Spot(ci[c]), Spot(r))
  BY <1>1, <1>4, <1>5
<1> HIDE DEF r
<1>7. Here \subseteq Here'
  BY <1>3, <1>4, <1>6, OneChanges
<1>8. TokensOK'
  BY <1>2, <1>7, SameTokens DEF IInv, match
<1>9. ci[c].team = team
  OBVIOUS
<1> HIDE DEF team
<1>10. \A i \in DOMAIN bases : (~over /\ i \in Spot(ci[c]) /\ i \in Spot(r) /\ steal(bases[i], team)) =>
               <<i, team>> \in ghosts' \/ Cardinality(In(i, team)) <= Count(ci', i)[team]
  BY <1>5
<1>11. \A i \in DOMAIN bases : (over /\ ~interm /\ i \in Spot(ci[c]) \ Spot(r)) => <<i, team>> \in ghosts'
  BY <1>5
<1> QED
  BY <1>2, <1>3, <1>4, <1>6, <1>8, <1>9, <1>10, <1>11, MovesHold

\* dodamage and suicide
LEMMA DieHolds == ASSUME IInv, NEW c \in Clients, Die(c) PROVE IInv'
<1> DEFINE r == Client("dead", ci[c].team)
<1>1. /\ c \in Alive /\ bases' = LeftBases(c) /\ ci' = [ci EXCEPT ![c] = r]
      /\ UNCHANGED match /\ Forget(Uncounted(c, {})) /\ TypeInv /\ TokensOK
  BY DEF Die, IInv
<1>2. PICK penalty \in BOOLEAN : droptokens(c, penalty)
  BY DEF Die
<1>3. c \in Here
  BY <1>1, Living
<1>4. r \in Player /\ Spot(r) = {}
  BY <1>3, TeamIs, Anew
<1> HIDE DEF r
<1>5. Here \subseteq Here'
  BY <1>1, <1>4, OneChanges
<1>6. TokensOK'
  BY <1>1, <1>2, <1>5, droptokensHolds DEF match
<1> QED
  BY <1>1, <1>3, <1>4, <1>6, LeavesHold

\* forcespectator and N_SPECTATOR
LEMMA SpectateHolds == ASSUME IInv, NEW c \in Clients, Spectate(c) PROVE IInv'
<1> DEFINE r == Client("spectator", ci[c].team)
<1>1. /\ c \in Here /\ bases' = LeftBases(c) /\ ci' = [ci EXCEPT ![c] = r]
      /\ UNCHANGED match /\ Forget(Uncounted(c, {})) /\ TypeInv /\ TokensOK
      /\ tokens' = tokens \/ (c \in Alive /\ droptokens(c, TRUE))
  BY DEF Spectate, IInv
<1>2. r \in Player /\ Spot(r) = {}
  BY <1>1, TeamIs, Anew
<1> HIDE DEF r
<1>3. Here \subseteq Here'
  BY <1>1, <1>2, OneChanges
<1>4. TokensOK'
  <2>1. CASE tokens' = tokens
    BY <1>1, <1>3, <2>1, SameTokens DEF match
  <2>2. CASE c \in Alive /\ droptokens(c, TRUE)
    <3>1. \E penalty \in BOOLEAN : droptokens(c, penalty)
      BY <2>2
    <3> QED
      BY <1>1, <1>3, <2>2, <3>1, droptokensHolds DEF match
  <2> QED
    BY <1>1, <2>1, <2>2
<1> QED
  BY <1>1, <1>2, <1>4, LeavesHold

\* The bases are not told.
LEMMA ForgetsHolds ==
  ASSUME IInv, NEW c \in Clients, NEW r \in Player \cup {Gone}, Spot(r) = {}, ci' = [ci EXCEPT ![c] = r],
         bases' = bases, ghosts' = ghosts \cup Forgotten(c, {}), UNCHANGED match, TokensOK'
  PROVE  IInv'
<1>1. ci' \in Infos /\ ci'[c] = r /\ \A d \in Clients : d # c => ci[d] = ci'[d]
  BY OneChanges DEF IInv
<1> DEFINE ss == ci'
           fs == ghosts'
<1>2. Spot(ss[c]) = {} /\ fs = ghosts \cup Forgotten(c, {}) /\ BasesOK(bases, ci, ghosts)
      /\ \A d \in Clients : d # c => ci[d] = ss[d]
  BY <1>1 DEF IInv
<1> HIDE DEF ss, fs
<1>3. BasesOK(bases, ss, fs)
  BY <1>2, Forgets
<1>4. BasesOK(bases', ci', ghosts')
  BY <1>3 DEF ss, fs
<1>5. TypeInv'
  BY <1>1 DEF IInv, TypeInv, match
<1> QED
  BY <1>4, <1>5, BasesNext DEF IInv, match

\* unspectate
LEMMA UnspectateHolds == ASSUME IInv, NEW c \in Clients, Unspectate(c) PROVE IInv'
<1> DEFINE r == Client("dead", ci[c].team)
<1>1. /\ c \in Here /\ bases' = bases /\ ci' = [ci EXCEPT ![c] = r] /\ tokens' = tokens
      /\ UNCHANGED match /\ ghosts' = ghosts \cup Forgotten(c, {}) /\ TypeInv /\ TokensOK
  BY DEF Unspectate, Forget, IInv
<1>2. r \in Player /\ Spot(r) = {}
  BY <1>1, TeamIs, Anew
<1> HIDE DEF r
<1>3. Here \subseteq Here'
  BY <1>1, <1>2, OneChanges
<1>4. TokensOK'
  BY <1>1, <1>3, SameTokens DEF match
<1> QED
  BY <1>1, <1>2, <1>4, ForgetsHolds

\* clientdisconnect
LEMMA clientdisconnectHolds == ASSUME IInv, NEW c \in Clients, clientdisconnect(c) PROVE IInv'
<1>1. /\ c \in Here /\ bases' = LeftBases(c) /\ ci' = [ci EXCEPT ![c] = Gone] /\ Disowned(c)
      /\ UNCHANGED match /\ Forget(Uncounted(c, {})) /\ TypeInv /\ TokensOK
  BY DEF clientdisconnect, IInv
<1>2. Here' = Here \ {c}
  BY <1>1, OneChanges
<1>3. TokensOK'
  BY <1>1, <1>2, DisownedHolds DEF match
<1> QED
  BY <1>1, <1>3, GoneNowhere, LeavesHold

\* N_SWITCHTEAM and N_SETTEAM
LEMMA SwitchTeamHolds == ASSUME IInv, NEW c \in Clients, NEW team \in Teams, SwitchTeam(c, team) PROVE IInv'
<1>1. /\ c \in Here /\ bases' = LeftBases(c) /\ UNCHANGED match /\ Forget(Uncounted(c, {})) /\ TypeInv /\ TokensOK
  BY DEF SwitchTeam, IInv
<1>2. CASE c \in Alive
  <2> DEFINE r == Client("dead", team)
  <2>1. droptokens(c, TRUE) /\ ci' = [ci EXCEPT ![c] = r]
    BY <1>2 DEF SwitchTeam
  <2>2. r \in Player /\ Spot(r) = {}
    BY Anew
  <2> HIDE DEF r
  <2>3. Here \subseteq Here'
    BY <1>1, <2>1, <2>2, OneChanges
  <2>4. \E penalty \in BOOLEAN : droptokens(c, penalty)
    BY <2>1
  <2>5. TokensOK'
    BY <1>1, <1>2, <2>3, <2>4, droptokensHolds DEF match
  <2> QED
    BY <1>1, <2>1, <2>2, <2>5, LeavesHold
<1>3. CASE c \notin Alive
  <2> DEFINE r == [ci[c] EXCEPT !.team = team]
  <2>1. tokens' = tokens /\ ci' = [ci EXCEPT ![c] = r]
    BY <1>3 DEF SwitchTeam
  <2>2. ci[c] \in Player /\ ci[c].state # "alive"
    BY <1>1, <1>3, TeamIs, Living
  <2>3. r \in Player /\ r.state # "alive"
    BY <2>2 DEF Player
  <2> HIDE DEF r
  <2>4. Spot(r) = {}
    BY <2>3 DEF Spot
  <2>5. Here \subseteq Here'
    BY <1>1, <2>1, <2>3, OneChanges
  <2>6. TokensOK'
    BY <1>1, <2>1, <2>5, SameTokens DEF match
  <2> QED
    BY <1>1, <2>1, <2>3, <2>4, <2>6, LeavesHold
<1> QED
  BY <1>2, <1>3

\* changeteam: out of the old team's count and into the new one's.
LEMMA changeteamHolds == ASSUME IInv, NEW c \in Clients, NEW team \in Teams, changeteam(c, team) PROVE IInv'
<1> DEFINE r == [ci[c] EXCEPT !.team = team]
           was == ci[c].team
           q == Client("dead", was)
           rs == [ci EXCEPT ![c] = q]
           left == LeftBases(c)
<1>1. /\ c \in Here /\ ci' = [ci EXCEPT ![c] = r] /\ bases' = movebases(left, team, {}, Spot(ci[c]))
      /\ UNCHANGED <<match, tokens>> /\ Forget(Uncounted(c, {})) /\ TypeInv /\ TokensOK
  BY DEF changeteam, IInv
<1>2. ci[c] \in Player /\ was \in Teams
  BY <1>1, TeamIs
<1>3. q \in Player /\ Spot(q) = {}
  BY <1>2, Anew
<1>4. r \in Player /\ Spot(r) = Spot(ci[c]) /\ r.team = team
  BY <1>2 DEF Player, Spot
<1>5. rs[c] = q /\ \A d \in Clients : d # c => ci[d] = rs[d]
  BY DEF TypeInv, Infos, IInv
<1>6. left = movebases(bases, was, Spot(ci[c]), Spot(rs[c]))
  BY <1>3, <1>5 DEF LeftBases
<1>7. ci' \in Infos /\ ci'[c] = r /\ (\A d \in Clients : d # c => ci[d] = ci'[d]) /\ Here \subseteq Here'
  BY <1>1, <1>4, OneChanges
<1>8. bases' = movebases(left, team, Spot(rs[c]), Spot(ci'[c]))
  BY <1>1, <1>3, <1>4, <1>5, <1>7
<1>13. /\ ghosts \subseteq ghosts'
       /\ \A i \in DOMAIN bases : (over /\ ~interm /\ i \in Spot(ci[c])) => <<i, was>> \in ghosts'
       /\ interm \in BOOLEAN /\ (interm => over)
  BY <1>1 DEF Forget, Uncounted, Forgotten, TypeInv
<1>9. DOMAIN left = DOMAIN bases /\ BasesOK(left, rs, ghosts')
  <2> DEFINE os == ci
             bs == bases
             gs == ghosts
             fs == ghosts'
  <2>1. /\ \A d \in Clients : d # c => os[d] = rs[d]
        /\ Spot(os[c]) # {} => os[c].team = was
        /\ Spot(rs[c]) # {} => rs[c].team = was
        /\ gs \subseteq fs /\ BasesOK(bs, os, gs)
        /\ \A i \in DOMAIN bs : (~over /\ i \in Spot(os[c]) /\ i \in Spot(rs[c]) /\ steal(bs[i], was)) =>
               <<i, was>> \in fs \/ Cardinality(In(i, was)) <= Count(rs, i)[was]
        /\ \A i \in DOMAIN bs : (over /\ ~interm /\ i \in Spot(os[c]) \ Spot(rs[c])) => <<i, was>> \in fs
        /\ interm \in BOOLEAN /\ (interm => over)
    BY <1>3, <1>5, <1>13 DEF IInv
  <2>2. left = movebases(bs, was, Spot(os[c]), Spot(rs[c]))
    BY <1>6
  <2> HIDE DEF os, bs, gs, fs, rs, left, was
  <2>3. /\ DOMAIN movebases(bs, was, Spot(os[c]), Spot(rs[c])) = DOMAIN bs
        /\ BasesOK(movebases(bs, was, Spot(os[c]), Spot(rs[c])), rs, fs)
    BY <1>2, <2>1, Moves
  <2> QED
    BY <2>2, <2>3 DEF bs, fs
<1>10. DOMAIN bases' = DOMAIN left /\ BasesOK(bases', ci', ghosts')
  <2> DEFINE ss == ci'
             gs == ghosts'
             bs == left
  <2>1. /\ \A d \in Clients : d # c => rs[d] = ss[d]
        /\ Spot(rs[c]) # {} => rs[c].team = team
        /\ Spot(ss[c]) # {} => ss[c].team = team
        /\ gs \subseteq gs /\ BasesOK(bs, rs, gs)
        /\ \A i \in DOMAIN bs : (~over /\ i \in Spot(rs[c]) /\ i \in Spot(ss[c]) /\ steal(bs[i], team)) =>
               <<i, team>> \in gs \/ Cardinality(In(i, team)) <= Count(ss, i)[team]
        /\ \A i \in DOMAIN bs : (over /\ ~interm /\ i \in Spot(rs[c]) \ Spot(ss[c])) => <<i, team>> \in gs
        /\ interm \in BOOLEAN /\ (interm => over)
    BY <1>3, <1>4, <1>5, <1>7, <1>9, <1>13
  <2>2. bases' = movebases(bs, team, Spot(rs[c]), Spot(ss[c]))
    BY <1>8
  <2> HIDE DEF ss, gs, rs, bs
  <2>3. /\ DOMAIN movebases(bs, team, Spot(rs[c]), Spot(ss[c])) = DOMAIN bs
        /\ BasesOK(movebases(bs, team, Spot(rs[c]), Spot(ss[c])), ss, gs)
    BY <2>1, Moves
  <2> QED
    BY <1>1, <2>2, <2>3 DEF ss, gs, bs
<1> HIDE DEF left, rs, r
<1>11. TypeInv'
  BY <1>1, <1>7, <1>9, <1>10 DEF IInv, TypeInv, match
<1>12. TokensOK'
  BY <1>1, <1>7, SameTokens DEF match
<1> QED
  BY <1>1, <1>10, <1>11, <1>12, BasesNext DEF IInv, match


\* A client that lives carries another number of tokens; all else about it stays.
LEMMA CarriesHolds ==
  ASSUME IInv, NEW c \in Clients, c \in Alive, NEW n \in 0..TokenLimit, ci' = [ci EXCEPT ![c].tokens = n],
         UNCHANGED <<mode, bases, tokens, ghosts>>,
         over' \in BOOLEAN, interm' \in BOOLEAN, interm => interm', interm' => over'
  PROVE  IInv'
<1> DEFINE r == [ci[c] EXCEPT !.tokens = n]
<1>1. TypeInv /\ TokensOK /\ c \in Here
  BY Living DEF IInv
<1>2. ci[c] \in Player
  BY <1>1, TeamIs
<1>3. r \in Player /\ Spot(r) = Spot(ci[c]) /\ r.team = ci[c].team
  BY <1>2 DEF Player, Spot
<1>4. ci' = [ci EXCEPT ![c] = r]
  OBVIOUS
<1> HIDE DEF r
<1>5. ci' \in Infos /\ ci'[c] = r /\ (\A d \in Clients : d # c => ci[d] = ci'[d]) /\ Here \subseteq Here'
  BY <1>1, <1>3, <1>4, OneChanges
<1>6. TokensOK'
  BY <1>1, <1>5, SameTokens
<1>7. \A d \in Clients : Spot(ci'[d]) = Spot(ci[d]) /\ (Spot(ci[d]) # {} => ci'[d].team = ci[d].team)
  BY <1>3, <1>5
<1> QED
  BY <1>5, <1>6, <1>7, QuietHolds

\* taketoken
LEMMA taketokenHolds == ASSUME IInv, NEW c \in Clients, taketoken(c) PROVE IInv'
<1> DEFINE n == ci[c].tokens + 1
<1>1. /\ c \in Alive /\ ci[c].tokens < TokenLimit /\ ci' = [ci EXCEPT ![c].tokens = n]
      /\ UNCHANGED <<mode, bases, tokens, ghosts, over, interm>>
      /\ over \in BOOLEAN /\ interm \in BOOLEAN /\ (interm => over)
  BY DEF taketoken, match, IInv, TypeInv
<1>2. c \in Here
  BY <1>1, Living DEF IInv
<1>3. ci[c].tokens \in 0..TokenLimit
  BY <1>2, TeamIs DEF Player
<1>4. n \in 0..TokenLimit
  BY <1>1, <1>3, Constants
<1> HIDE DEF n
<1> QED
  BY <1>1, <1>4, CarriesHolds

\* deposittokens of a client that carries some
LEMMA DepositHolds == ASSUME IInv, NEW c \in Clients, NEW base, Deposit(c, base) PROVE IInv'
<1> DEFINE n == 0
<1>1. /\ c \in Alive /\ ci' = [ci EXCEPT ![c].tokens = n]
      /\ UNCHANGED <<mode, bases, tokens, ghosts>>
  BY DEF Deposit
<1>2. over' \in BOOLEAN /\ interm' \in BOOLEAN /\ (interm => interm') /\ (interm' => over')
  BY DEF Deposit, IInv, TypeInv
<1>3. n \in 0..TokenLimit
  BY Constants
<1> HIDE DEF n
<1> QED
  BY <1>1, <1>2, <1>3, CarriesHolds

\* A step that changes tokens only.
LEMMA TokensOnly ==
  ASSUME IInv, UNCHANGED <<match, ci, bases, ghosts>>, TokensOK'
  PROVE  IInv'
<1>1. ci' = ci /\ bases' = bases /\ ghosts' = ghosts /\ mode' = mode /\ over' = over /\ interm' = interm
  BY DEF match
<1>2. ci' \in Infos /\ over' \in BOOLEAN /\ interm' \in BOOLEAN /\ (interm => over)
  BY <1>1 DEF IInv, TypeInv
<1> QED
  BY <1>1, <1>2, QuietHolds

\* deposittokens of a client without any
LEMMA StealHolds == ASSUME IInv, NEW c \in Clients, NEW base \in Teams, Steal(c, base) PROVE IInv'
<1> DEFINE team == ci[c].team
           x == [team |-> team, carried |-> FALSE]
           e == tokens[base]
           f == Add(e, team, FALSE, 1)
<1>1. /\ mode = "collect" /\ c \in Alive /\ Sum(e, Kinds) < TokenLimit
      /\ tokens' = [tokens EXCEPT ![base] = f] /\ UNCHANGED <<match, ci, bases, ghosts>>
  BY DEF Steal
<1>2. c \in Here /\ TypeInv /\ TokensOK
  BY <1>1, Living DEF IInv
<1>3. x \in Kinds
  BY <1>2, TeamIs DEF Kinds
<1>4. base \in Droppers /\ base \notin Clients /\ base # Unowned
  BY Constants DEF Droppers
<1>5. e \in Counted
  BY <1>2, <1>4, LimitsAre
<1>6. f = [e EXCEPT ![x] = e[x] + 1]
  BY DEF Add
<1> HIDE DEF x, e, f, team
<1>7. f \in Counted /\ \A k \in Kinds : e[k] \in Nat /\ f[k] = e[k] + IF k = x THEN 1 ELSE 0
  BY <1>3, <1>5, <1>6 DEF Counted
<1>8. Sum(f, Kinds) = Sum(e, Kinds) + 1
  BY <1>3, <1>7, MoreInAll
<1>9. Sum(e, Kinds) \in Nat /\ TokenLimit \in Nat
  BY <1>5, CountNat, Constants
<1>10. Sum(f, Kinds) <= TokenLimit
  BY <1>1, <1>8, <1>9
<1>11. mode' = mode /\ Here \subseteq Here'
  BY <1>1 DEF match, Here
<1>12. TokensOK'
  BY <1>1, <1>2, <1>4, <1>7, <1>10, <1>11, TokensFit
<1> QED
  BY <1>1, <1>12, TokensOnly

\* update: a token disappears.
LEMMA ExpireHolds == ASSUME IInv, NEW d \in Droppers, NEW x \in Kinds, Expire(d, x) PROVE IInv'
<1> DEFINE e == tokens[d]
           f == [e EXCEPT ![x] = e[x] - 1]
<1>1. e[x] > 0 /\ tokens' = [tokens EXCEPT ![d] = f] /\ UNCHANGED <<match, ci, bases, ghosts>>
  BY DEF Expire
<1>2. TypeInv /\ TokensOK
  BY DEF IInv
<1>3. e \in Counted
  BY <1>2, LimitsAre
<1>4. mode = "collect"
  <2>1. CASE mode = "capture"
    <3>1. e = None
      BY <1>2, <2>1 DEF TokensOK, NoTokens
    <3>2. e[x] = 0
      BY <3>1 DEF None
    <3> QED
      BY <1>1, <3>2
  <2> QED
    BY <1>2, <2>1 DEF TypeInv
<1> HIDE DEF e
<1>5. f \in Counted /\ \A k \in Kinds : f[k] \in Nat /\ e[k] = f[k] + IF k = x THEN 1 ELSE 0
  <2>1. e[x] - 1 \in Nat /\ e[x] \in Nat
    BY <1>1, <1>3 DEF Counted
  <2>2. f \in Counted /\ f[x] = e[x] - 1 /\ \A k \in Kinds : k # x => f[k] = e[k]
    BY <1>3, <2>1 DEF Counted
  <2>3. \A k \in Kinds : f[k] \in Nat
    BY <2>2 DEF Counted
  <2> HIDE DEF f
  <2> QED
    BY <2>1, <2>2, <2>3
<1> HIDE DEF f
<1>6. Sum(e, Kinds) = Sum(f, Kinds) + 1
  BY <1>5, MoreInAll
<1>7. Sum(f, Kinds) \in Nat
  BY <1>5, CountNat
<1>8. Sum(f, Kinds) <= Sum(e, Kinds) /\ Sum(e, Kinds) \in Nat /\ ~ (Sum(e, Kinds) <= 0)
  BY <1>6, <1>7
<1>9. TokenLimit \in Nat /\ UnownedTokenLimit \in Nat
  BY Constants
<1>10. d \in Clients => d \in Here /\ Sum(f, Kinds) <= 2 * TokenLimit
  <2> SUFFICES ASSUME d \in Clients PROVE d \in Here /\ Sum(f, Kinds) <= 2 * TokenLimit
    OBVIOUS
  <2>1. Sum(e, Kinds) <= IF d \in Here THEN 2 * TokenLimit ELSE 0
    BY <1>2, LimitsAre DEF e
  <2>2. d \in Here
    BY <1>8, <2>1
  <2>3. Sum(e, Kinds) <= 2 * TokenLimit
    BY <2>1, <2>2
  <2> QED
    BY <1>7, <1>8, <1>9, <2>2, <2>3
<1>11. d \in Teams => Sum(f, Kinds) <= TokenLimit
  <2>1. d \in Teams => Sum(e, Kinds) <= TokenLimit
    BY <1>2, LimitsAre DEF e
  <2> QED
    BY <1>7, <1>8, <1>9, <2>1
<1>12. d = Unowned => Sum(f, Kinds) <= 2 * UnownedTokenLimit
  <2>1. d = Unowned => Sum(e, Kinds) <= 2 * UnownedTokenLimit
    BY <1>2, LimitsAre DEF e
  <2> QED
    BY <1>7, <1>8, <1>9, <2>1
<1>13. mode' = mode /\ Here' = Here
  BY <1>1 DEF match, Here
<1>14. TokensOK'
  BY <1>1, <1>2, <1>4, <1>5, <1>10, <1>11, <1>12, <1>13, TokensFit
<1> QED
  BY <1>1, <1>14, TokensOnly

\* connected: a client that is in no base yet
LEMMA connectedHolds == ASSUME IInv, NEW c \in Clients, NEW team \in Teams, connected(c, team) PROVE IInv'
<1>1. c \notin Here /\ UNCHANGED <<match, bases, tokens, ghosts>>
  BY DEF connected
<1>2. PICK state \in {"dead", "spectator"} : ci' = [ci EXCEPT ![c] = Client(state, team)]
  BY DEF connected
<1> DEFINE r == Client(state, team)
<1>3. r \in Player /\ Spot(r) = {}
  BY Anew
<1>4. TypeInv /\ TokensOK /\ ci' = [ci EXCEPT ![c] = r]
  BY <1>2 DEF IInv
<1> HIDE DEF r
<1>5. ci' \in Infos /\ ci'[c] = r /\ (\A d \in Clients : d # c => ci[d] = ci'[d]) /\ Here \subseteq Here'
  BY <1>3, <1>4, OneChanges
<1>6. Spot(ci[c]) = {}
  BY <1>1, <1>4, Living, GoneNowhere
<1>7. /\ mode' = mode /\ over' = over /\ over \in BOOLEAN
      /\ interm' = interm /\ interm \in BOOLEAN /\ (interm => over)
  BY <1>1, <1>4 DEF match, TypeInv
<1>8. TokensOK'
  BY <1>1, <1>4, <1>5, <1>7, SameTokens
<1>9. \A d \in Clients : Spot(ci'[d]) = Spot(ci[d]) /\ (Spot(ci[d]) # {} => ci'[d].team = ci[d].team)
  BY <1>3, <1>5, <1>6
<1> QED
  BY <1>1, <1>5, <1>7, <1>8, <1>9, QuietHolds

\* Every step keeps the invariant.
LEMMA NextInv == IInv /\ [Next]_vars => IInv'
<1> SUFFICES ASSUME IInv, [Next]_vars PROVE IInv'
  OBVIOUS
<1>1. CASE updateCapture
  BY <1>1, updateCaptureHolds
<1>2. CASE TimeUp \/ checkintermission
  BY <1>2, TimeUpHolds, checkintermissionHolds
<1>3. CASE changemap
  BY <1>3, changemapHolds
<1>4. CASE \E d \in Droppers, k \in Kinds : Expire(d, k)
  BY <1>4, ExpireHolds
<1>5. ASSUME NEW c \in Clients, Move(c) \/ taketoken(c) \/ parsebases(c) \/ Spawn(c) \/ Die(c) PROVE IInv'
  BY <1>5, MoveHolds, taketokenHolds, parsebasesHolds, SpawnHolds, DieHolds
<1>6. ASSUME NEW c \in Clients, Spectate(c) \/ Unspectate(c) \/ clientdisconnect(c) PROVE IInv'
  BY <1>6, SpectateHolds, UnspectateHolds, clientdisconnectHolds
<1>7. ASSUME NEW c \in Clients, NEW team \in Teams,
             \/ Deposit(c, team) \/ Steal(c, team)
             \/ connected(c, team) \/ changeteam(c, team) \/ SwitchTeam(c, team)
      PROVE  IInv'
  BY <1>7, DepositHolds, StealHolds, connectedHolds, changeteamHolds, SwitchTeamHolds
<1>8. CASE UNCHANGED vars
  <2>1. UNCHANGED <<match, ci, bases, ghosts>> /\ tokens' = tokens /\ mode' = mode /\ Here \subseteq Here'
    BY <1>8 DEF vars, match, Here
  <2>2. TokensOK'
    BY <2>1, SameTokens DEF IInv
  <2> QED
    BY <2>1, <2>2, TokensOnly
<1> QED
  BY <1>1, <1>2, <1>3, <1>4, <1>5, <1>6, <1>7, <1>8 DEF Next

-----------------------------------------------------------------------------
(***************************************************************************)
(* The theorems.                                                           *)
(***************************************************************************)
\* The invariant holds in every reachable state.
THEOREM Invariance == Spec => []IInv
  BY InitInv, NextInv, PTL DEF Spec

\* The invariant is enough for who is counted in a base.
LEMMA CountsAreReal == IInv => NoPhantoms
<1> SUFFICES ASSUME IInv, ~interm, NEW i \in DOMAIN bases
    PROVE  /\ bases[i].owner = NoTeam \/ <<i, bases[i].owner>> \in ghosts
                \/ bases[i].owners <= Cardinality(Standing(i, bases[i].owner))
           /\ bases[i].enemy = NoTeam \/ <<i, bases[i].enemy>> \in ghosts
                \/ bases[i].enemies <= Cardinality(Standing(i, bases[i].enemy))
  BY DEF NoPhantoms
<1>1. BaseOK(bases[i]) /\ BaseFits(bases[i], i, Count(ci, i), ghosts)
  BY DEF IInv, BasesOK
<1>2. bases[i].owner \in Teams \cup {NoTeam} /\ bases[i].enemy \in Teams \cup {NoTeam}
  BY <1>1, BaseFields
<1>3. \A team : Standing(i, team) = Stand(ci, i, team)
  BY DEF Standing, Stand, Alive
<1>4. \A team \in Teams : Count(ci, i)[team] = Cardinality(Standing(i, team))
  BY <1>3, CountType
<1> QED
  BY <1>1, <1>2, <1>4 DEF BaseFits

\* movebases, in whatever handler it is called from, leaves nobody counted in a
\* base who is not standing in it, unless the code forgot him there; an overtime goes
\* on with who was forgotten when the time was up.
THEOREM NobodyHoldsFromAfar == Spec => []NoPhantoms
  BY Invariance, CountsAreReal, PTL

\* Every change of who owns a base, who takes it and how far is sent by sendbaseinfo.
THEOREM BasesAreTold == Spec => []BasesTold
<1>1. IInv => BasesTold
  BY DEF IInv, BasesOK, BaseOK, BasesTold
<1> QED
  BY <1>1, Invariance, PTL

\* droptokens, deposittokens and leavegame keep what lies around within the limits.
THEOREM TokensAreBounded == Spec => []TokensBounded
<1>1. IInv => TokensBounded
  BY DEF IInv, TokensOK
<1> QED
  BY <1>1, Invariance, PTL
=============================================================================
