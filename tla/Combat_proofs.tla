---------------------------- MODULE Combat_proofs ----------------------------
(***************************************************************************)
(* The lives of Combat: shots, hits and spawns are of the lives they were  *)
(* meant for, nobody dies twice in one, and no explosion is lost, for any  *)
(* number of clients and events.                                           *)
(***************************************************************************)
EXTENDS Combat, FiniteSetTheorems, WellFoundedInduction, TLAPS

-----------------------------------------------------------------------------
(***************************************************************************)
(* Folds.  The library's FoldLeft is a recursive function on the sets of   *)
(* indices; that it exists, and that it takes one element after the other, *)
(* follows by induction on the length of the sequence.                     *)
(***************************************************************************)
\* A set of naturals that is not empty has a least element.
LEMMA LeastNat == ASSUME NEW T \in SUBSET Nat, T # {} PROVE \E m \in T : \A n \in T : m <= n
<1> DEFINE R == OpToRel(<, Nat)
<1>1. IsWellFoundedOn(R, Nat)
  BY NatLessThanWellFounded, Zenon
<1>2. \A x, y \in Nat : x < y => <<x, y>> \in R
  BY DEF OpToRel
<1> HIDE DEF R
<1>3. PICK m \in T : \A n \in T : ~ (<<n, m>> \in R)
  BY <1>1, WFMin
<1>4. ASSUME NEW n \in T PROVE m <= n
  <2>1. m \in Nat /\ n \in Nat /\ ~ (n < m)
    BY <1>2, <1>3
  <2> QED
    BY <2>1
<1> QED
  BY <1>4

\* What holds of 0 and is passed on holds of every number up to n.
LEMMA Climb ==
  ASSUME NEW n \in Nat, NEW P, 0 \in P, \A k \in 0..(n - 1) : k \in P => k + 1 \in P
  PROVE  0..n \subseteq P
<1> SUFFICES ASSUME ~ (0..n \subseteq P) PROVE FALSE
  OBVIOUS
<1> DEFINE T == {k \in 0..n : ~ (k \in P)}
<1>1. T \in SUBSET Nat /\ T # {}
  OBVIOUS
<1>2. PICK m \in T : \A k \in T : m <= k
  BY <1>1, LeastNat
<1>3. m \in 0..n /\ ~ (m \in P) /\ m # 0
  BY <1>2
<1>4. m - 1 \in 0..(n - 1) /\ m - 1 + 1 = m
  BY <1>3
<1>5. m - 1 \in P
  <2>1. ~ (m <= m - 1) /\ m - 1 \in 0..n
    BY <1>3, <1>4
  <2> QED
    BY <1>2, <2>1
<1> QED
  BY <1>3, <1>4, <1>5

\* The greatest of a set of indices.
LEMMA MaxIs ==
  ASSUME NEW n \in Nat, NEW s \in SUBSET (1..n), s # {}
  PROVE  Max(s) \in s /\ \A x \in s : x <= Max(s)
<1> DEFINE T == {m \in Nat : \A x \in s : x <= m}
<1>1. T \in SUBSET Nat /\ n \in T
  OBVIOUS
<1>2. PICK m \in T : \A k \in T : m <= k
  BY <1>1, LeastNat
<1>3. m \in Nat /\ \A x \in s : x <= m /\ x \in Nat /\ x >= 1
  BY <1>2
<1>4. m \in s
  <2> SUFFICES ASSUME ~ (m \in s) PROVE FALSE
    OBVIOUS
  <2>1. ASSUME NEW x \in s PROVE x <= m - 1 /\ m - 1 \in Nat
    <3>1. x # m
      BY <2>1
    <3> QED
      BY <1>3, <3>1
  <2>2. m - 1 \in T
    BY <2>1
  <2>3. ~ (m <= m - 1)
    BY <1>3
  <2> QED
    BY <1>2, <2>2, <2>3
<1>5. \E x \in s : \A y \in s : x >= y
  BY <1>3, <1>4
<1> QED
  BY <1>3, <1>5 DEF Max

\* it is the function that FoldLeft is defined with.
Folds(it, base, G, n) ==
    \A s \in SUBSET (1..n) : it[s] = IF s = {} THEN base ELSE G[<<it[s \ {Max(s)}], Max(s)>>]

\* There is such a function.
LEMMA FoldExists ==
  ASSUME NEW W, NEW base \in W, NEW n \in Nat, NEW G \in [W \X (1..n) -> W]
  PROVE  \E it \in [SUBSET (1..n) -> W] : Folds(it, base, G, n)
<1> DEFINE P == {m \in 0..n : \E it \in [SUBSET (1..m) -> W] : Folds(it, base, G, m)}
<1>1. 0 \in P
  <2> DEFINE it == [s \in SUBSET (1..0) |-> base]
  <2>1. \A s \in SUBSET (1..0) : s = {}
    OBVIOUS
  <2>2. it \in [SUBSET (1..0) -> W] /\ Folds(it, base, G, 0)
    BY <2>1 DEF Folds
  <2> QED
    BY <2>2
<1>2. ASSUME NEW m \in 0..(n - 1), m \in P PROVE m + 1 \in P
  <2>1. PICK i \in [SUBSET (1..m) -> W] : Folds(i, base, G, m)
    BY <1>2
  <2> DEFINE k == m + 1
             j == [s \in SUBSET (1..k) |-> IF k \in s THEN G[<<i[s \ {k}], k>>] ELSE i[s]]
  <2>2. k \in 1..n /\ m \in Nat /\ k \in Nat /\ k = m + 1
    BY <1>2
  <2>8. ASSUME NEW s \in SUBSET (1..k), k \in s PROVE Max(s) = k
    <3>1. Max(s) \in s /\ k <= Max(s)
      BY <2>2, <2>8, MaxIs
    <3>2. Max(s) \in 1..k
      BY <3>1
    <3> QED
      BY <2>2, <3>1, <3>2
  <2> HIDE DEF k
  <2>3. ASSUME NEW s \in SUBSET (1..k)
        PROVE  /\ s \ {k} \in SUBSET (1..m)
               /\ ~ (k \in s) => s \in SUBSET (1..m)
    BY <2>2
  <2>4. j \in [SUBSET (1..k) -> W]
    <3>1. ASSUME NEW s \in SUBSET (1..k) PROVE (IF k \in s THEN G[<<i[s \ {k}], k>>] ELSE i[s]) \in W
      <4>1. CASE k \in s
        <5>1. i[s \ {k}] \in W
          BY <2>3
        <5> QED
          BY <2>2, <4>1, <5>1
      <4>2. CASE ~ (k \in s)
        BY <2>3, <4>2
      <4> QED
        BY <4>1, <4>2
    <3> QED
      BY <3>1
  <2>5. ASSUME NEW s \in SUBSET (1..k)
        PROVE  j[s] = IF s = {} THEN base ELSE G[<<j[s \ {Max(s)}], Max(s)>>]
    <3>1. CASE k \in s
      <4>2. Max(s) = k
        BY <3>1, <2>8
      <4>3. j[s \ {k}] = i[s \ {k}] /\ j[s] = G[<<i[s \ {k}], k>>]
        BY <3>1
      <4> QED
        BY <3>1, <4>2, <4>3
    <3>2. CASE ~ (k \in s)
      <4>1. s \in SUBSET (1..m) /\ j[s] = i[s]
        BY <2>3, <3>2
      <4>2. i[s] = IF s = {} THEN base ELSE G[<<i[s \ {Max(s)}], Max(s)>>]
        BY <2>1, <4>1 DEF Folds
      <4>3. j[s \ {Max(s)}] = i[s \ {Max(s)}]
        BY <3>2
      <4> QED
        BY <4>1, <4>2, <4>3
    <3> QED
      BY <3>1, <3>2
  <2> HIDE DEF j
  <2>6. Folds(j, base, G, k)
    BY <2>5 DEF Folds
  <2>7. k \in 0..n
    BY <2>2
  <2> QED
    BY <2>2, <2>4, <2>6, <2>7
<1> HIDE DEF P
<1>3. 0..n \subseteq P
  BY <1>1, <1>2, Climb
<1>4. n \in P
  BY <1>3
<1> QED
  BY <1>4 DEF P

\* The greatest of the first k indices is k.
LEMMA Intervals ==
  ASSUME NEW n \in Nat, NEW k \in 1..n
  PROVE  /\ 1..k \in SUBSET (1..n) /\ 1..k # {} /\ Max(1..k) = k
         /\ (1..k) \ {k} = 1..(k - 1) /\ k - 1 \in 0..(n - 1)
<1>1. 1..k \in SUBSET (1..n) /\ 1..k # {} /\ k \in 1..k
  OBVIOUS
<1>2. Max(1..k) \in 1..k /\ k <= Max(1..k)
  BY <1>1, MaxIs
<1>3. (1..k) \ {k} = 1..(k - 1) /\ k - 1 \in 0..(n - 1)
  OBVIOUS
<1> QED
  BY <1>1, <1>2, <1>3

\* A function that does on sets of indices what G does takes one element after
\* the other.
Obeys(j, base, G, n, W) ==
    /\ j[{}] = base
    /\ \A u \in SUBSET (1..n) :
          u # {} /\ j[u \ {Max(u)}] \in W => j[u] = G[<<j[u \ {Max(u)}], Max(u)>>]

\* t[k] is what the first k elements make of base.
Traces(t, base, G, n) == t[0] = base /\ \A k \in 1..n : t[k] = G[<<t[k - 1], k>>]

\* What j makes of the indices of a sequence it makes step by step.
LEMMA FoldSteps ==
  ASSUME NEW W, NEW base \in W, NEW n \in Nat, NEW G \in [W \X (1..n) -> W],
         NEW j, Obeys(j, base, G, n, W)
  PROVE  \E t \in [0..n -> W] : t[n] = j[1..n] /\ Traces(t, base, G, n)
<1>1. j[1..0] = base
  <2>1. 1..0 = {}
    OBVIOUS
  <2> QED
    BY <2>1 DEF Obeys
<1>2. ASSUME NEW k \in 1..n, j[1..(k - 1)] \in W
      PROVE  j[1..k] = G[<<j[1..(k - 1)], k>>] /\ j[1..k] \in W
  <2>1. 1..k \in SUBSET (1..n) /\ 1..k # {} /\ Max(1..k) = k /\ (1..k) \ {k} = 1..(k - 1)
    BY Intervals
  <2>2. j[1..k] = G[<<j[1..(k - 1)], k>>]
    BY <1>2, <2>1 DEF Obeys
  <2> QED
    BY <1>2, <2>2
<1> DEFINE P == {k \in 0..n : j[1..k] \in W}
<1>3. 0 \in P
  BY <1>1
<1>4. ASSUME NEW k \in 0..(n - 1), k \in P PROVE k + 1 \in P
  <2>1. k + 1 \in 1..n /\ k + 1 - 1 = k /\ k + 1 \in 0..n
    OBVIOUS
  <2> DEFINE m == k + 1
  <2>2. m \in 1..n /\ j[1..(m - 1)] \in W
    BY <1>4, <2>1
  <2> HIDE DEF m
  <2>3. j[1..m] \in W
    BY <1>2, <2>2
  <2> QED
    BY <2>1, <2>3 DEF m
<1>5. 0..n \subseteq P
  BY <1>3, <1>4, Climb
<1> DEFINE t == [k \in 0..n |-> j[1..k]]
<1>6. t \in [0..n -> W] /\ t[0] = base /\ t[n] = j[1..n]
  BY <1>1, <1>5
<1>7. ASSUME NEW k \in 1..n PROVE t[k] = G[<<t[k - 1], k>>]
  <2>1. k \in 0..n /\ k - 1 \in 0..n
    OBVIOUS
  <2>2. j[1..(k - 1)] \in W
    BY <1>5, <2>1
  <2> QED
    BY <1>2, <2>1, <2>2
<1> QED
  BY <1>6, <1>7 DEF Traces

-----------------------------------------------------------------------------
(***************************************************************************)
(* Only.                                                                   *)
(***************************************************************************)
OnlyOne(t, x, S) == IF x \in S THEN Append(t, x) ELSE t

OnlyTrace(t, s, S) ==
    t[0] = <<>> /\ \A k \in 1..Len(s) : t[k] = OnlyOne(t[k - 1], s[k], S)

\* Only takes one element after the other.
LEMMA OnlySteps ==
  ASSUME NEW E, NEW s \in Seq(E), NEW S
  PROVE  \E t \in [0..Len(s) -> Seq(E)] : t[Len(s)] = Only(s, S) /\ OnlyTrace(t, s, S)
<1> DEFINE n == Len(s)
           W == Seq(E)
           base == <<>>
           G == [p \in W \X (1..n) |-> OnlyOne(p[1], s[p[2]], S)]
           Loop(j) == j = [u \in SUBSET DOMAIN s |->
                             IF u = {} THEN base ELSE OnlyOne(j[u \ {Max(u)}], s[Max(u)], S)]
           j == CHOOSE j : Loop(j)
<1>1. n \in Nat /\ DOMAIN s = 1..n /\ base \in W
  OBVIOUS
<1>2. \A w \in W, k \in 1..n : OnlyOne(w, s[k], S) \in W
  BY DEF OnlyOne
<1>3. Only(s, S) = j[DOMAIN s]
  BY DEF Only, FoldLeft, MapThenFoldSet, OnlyOne
<1> HIDE DEF W, n, base
<1>4. G \in [W \X (1..n) -> W] /\ \A w \in W, k \in 1..n : G[<<w, k>>] = OnlyOne(w, s[k], S)
  BY <1>2
<1> HIDE DEF G
<1>5. PICK it \in [SUBSET (1..n) -> W] : Folds(it, base, G, n)
  BY <1>1, <1>4, FoldExists
<1>6. Loop(it)
  <2>1. ASSUME NEW u \in SUBSET (1..n), u # {} PROVE it[u] = OnlyOne(it[u \ {Max(u)}], s[Max(u)], S)
    <3>1. Max(u) \in 1..n /\ it[u \ {Max(u)}] \in W
      BY <1>1, <2>1, MaxIs
    <3> QED
      BY <1>4, <1>5, <2>1, <3>1 DEF Folds
  <2>2. it[{}] = base
    BY <1>5 DEF Folds
  <2>3. it = [u \in SUBSET (1..n) |-> it[u]]
    OBVIOUS
  <2> QED
    BY <1>1, <2>1, <2>2, <2>3
<1>7. Loop(j)
  BY <1>6
<1> HIDE DEF j, Loop
<1>8. Obeys(j, base, G, n, W)
  <2>1. ASSUME NEW u \in SUBSET (1..n), u # {}, j[u \ {Max(u)}] \in W
        PROVE  j[u] = G[<<j[u \ {Max(u)}], Max(u)>>]
    <3>1. Max(u) \in 1..n
      BY <1>1, <2>1, MaxIs
    <3> QED
      BY <1>1, <1>4, <1>7, <2>1, <3>1 DEF Loop
  <2>2. j[{}] = base
    BY <1>1, <1>7 DEF Loop
  <2> QED
    BY <2>1, <2>2 DEF Obeys
<1>9. PICK t \in [0..n -> W] : t[n] = j[1..n] /\ Traces(t, base, G, n)
  BY <1>1, <1>4, <1>8, FoldSteps
<1>10. \A k \in 1..n : t[k] = OnlyOne(t[k - 1], s[k], S)
  <2>1. ASSUME NEW k \in 1..n PROVE t[k] = OnlyOne(t[k - 1], s[k], S)
    <3>1. t[k - 1] \in W
      BY <1>1
    <3> QED
      BY <1>4, <1>9, <3>1 DEF Traces
  <2> QED
    BY <2>1
<1>11. t[0] = base /\ t[n] = Only(s, S)
  BY <1>1, <1>3, <1>9 DEF Traces
<1> QED
  BY <1>9, <1>10, <1>11 DEF W, n, base, OnlyTrace

-----------------------------------------------------------------------------
(***************************************************************************)
(* The inductive invariant.                                                *)
(***************************************************************************)
Life == [cn : Cns, who : Nat, match : Nat, n : Nat \ {0}, seq : 0..(LifeSequences - 1)]

\* Events whose hits are aimed at lives of the set L.
Blows(L) == [target : L, damage : Damages]

Events(L) ==
    [kind : {"shot"}, gun : {"gun"}, millis : Nat, hits : Seq(Blows(L)), own : Life]
    \cup [kind : {"shot"}, gun : {"launcher"}, millis : Nat, id : Ids, own : Life]
    \cup [kind : {"explode"}, millis : Nat, id : Ids, hits : Seq(Blows(L))]
    \cup [kind : {"suicide"}]

States == {"alive", "dead", "spectator"}

Record(L) ==
    [state : States, lifesequence : Nat, lastspawn : BOOLEAN, health : Nat,
     lastdeath : Nat, deadflush : Nat, lastevent : Nat, events : Seq(Events(L)),
     projectiles : Seq(Ids), deaths : Int, lived : Int, flying : Int, promised : Int,
     life : Life \cup {NoLife}]

Happening ==
    [kind : {"hit"}, aimed : Life, met : Life \cup {NoLife}]
    \cup [kind : {"shot"}, own : Life, met : Life \cup {NoLife}, state : States]
    \cup [kind : {"spawn"}, answered : Life, met : Life \cup {NoLife}]

TypeInv ==
    /\ clients \in Seq(Cns) /\ ci \in [Cns -> Record(lives)]
    /\ gamemillis \in Nat /\ who \in [Cns -> Nat] /\ match \in Nat
    /\ plays \in [Cns -> Life \cup {NoLife}] /\ answers \in [Cns -> Seq(Life)]
    /\ lives \in SUBSET Life /\ happened \in SUBSET Happening

\* How many explosions wait in a queue.
Explosions(events) == Cardinality({i \in DOMAIN events : events[i].kind = "explode"})

\* The counts of a client agree, and it knows the life it lives.
Sound(r) ==
    /\ r.deaths + (IF r.state = "alive" THEN 1 ELSE 0) <= r.lived
    /\ Len(r.projectiles) <= r.flying
    /\ r.life # NoLife => r.life.seq = r.lifesequence
    /\ r.state = "alive" => r.life # NoLife

RecordOK(r) == Sound(r) /\ r.promised = Explosions(r.events)

\* l is an earlier life than m, of the same client, or m: from one life to the
\* next lifesequence goes on by one and starts anew at most once.
Precedes(l, m) ==
    /\ m # NoLife /\ l.n <= m.n /\ (l.n = m.n => l = m)
    /\ \/ l.seq + (m.n - l.n) = m.seq
       \/ l.seq + (m.n - l.n) = m.seq + LifeSequences

\* The life of a client is of its slot's occupant.
LivesOK ==
    \A c \in Connected : ci[c].life # NoLife =>
        /\ ci[c].life.cn = c /\ ci[c].life.who = who[c]
        /\ ci[c].life.match <= match /\ ci[c].life.n <= MaxSpawns

\* What the clients have heard of are lives of earlier occupants or earlier lives.
HeardOK ==
    \A l \in lives :
        /\ l.who <= who[l.cn] /\ l.match <= match
        /\ l.cn \in Connected /\ l.who = who[l.cn] => Precedes(l, ci[l.cn].life)

\* The answers on their way are to lives that have not begun, one after the other.
AnswersOK ==
    \A c \in Cns :
        /\ c \in Connected \/ answers[c] = <<>>
        /\ \A i \in 1..Len(answers[c]) :
              /\ answers[c][i].cn = c /\ answers[c][i].who = who[c] /\ answers[c][i].match <= match
              /\ answers[c][i] \notin lives /\ Precedes(answers[c][i], ci[c].life)
              /\ \A j \in 1..(i - 1) : answers[c][j].n < answers[c][i].n

\* own is the present life of c if it has begun and is of the same match.
Ours(own, c) ==
    /\ own.cn = c /\ own.match <= match
    /\ (own \in lives /\ ci[c].life # NoLife /\ own.match = ci[c].life.match) => own = ci[c].life

PlaysOK ==
    \A c \in Cns : plays[c] # NoLife => c \in Connected /\ Ours(plays[c], c)

\* The shots of a queue of c.
Aimed(events, c) ==
    \A i \in 1..Len(events) : events[i].kind = "shot" => Ours(events[i].own, c)

ShotsOK == \A c \in Cns : Aimed(ci[c].events, c)

HappenedOK == SpawnsAnswerTheLast /\ HitsMeetTheirLife /\ ShotsOfThisLife

IInv ==
    /\ TypeInv /\ \A c \in Cns : RecordOK(ci[c])
    /\ LivesOK /\ HeardOK /\ AnswersOK /\ PlaysOK /\ ShotsOK /\ HappenedOK

-----------------------------------------------------------------------------
(***************************************************************************)
(* What the operations do to a client's state.                             *)
(***************************************************************************)
\* The same life and the same queue.
SameLife(r, s) ==
    /\ s.life = r.life /\ s.lifesequence = r.lifesequence
    /\ s.events = r.events /\ s.promised = r.promised

\* The constants are numbers.
LEMMA Constants ==
  /\ Damages \subseteq Nat /\ LifeSequences \in Nat \ {0} /\ ProjectileSlots \in Nat \ {0}
  /\ DeathMillis \in Nat \ {0} /\ MaxHealth \in Nat \ {0} /\ EventSlots \in Nat
  /\ MaxSpawns \in Nat \ {0} /\ MaxSpawns < LifeSequences /\ GameLimit \in Nat
  BY CombatAssumption

\* No explosion waits in an empty queue.
LEMMA NoExplosions == Explosions(<<>>) = 0
<1>1. {i \in DOMAIN <<>> : <<>>[i].kind = "explode"} = {}
  OBVIOUS
<1> QED
  BY <1>1, FS_EmptySet DEF Explosions

\* A new client state is sound.
LEMMA FreshIs ==
  ASSUME NEW L, NEW seq \in Nat
  PROVE  /\ Fresh(seq) \in Record(L) /\ RecordOK(Fresh(seq))
         /\ Fresh(seq).life = NoLife /\ Fresh(seq).events = <<>> /\ Fresh(seq).state = "dead"
         /\ Fresh(seq).lifesequence = seq
<1>1. Fresh(seq) \in Record(L)
  BY Constants DEF Fresh, Record, States
<1>2. RecordOK(Fresh(seq))
  BY NoExplosions DEF Fresh, Sound, RecordOK
<1> QED
  BY <1>1, <1>2 DEF Fresh

\* Who spawns again forgets nothing of its life.
LEMMA RespawnIs ==
  ASSUME NEW L, NEW r \in Record(L), Sound(r)
  PROVE  /\ respawn(r) \in Record(L) /\ Sound(respawn(r)) /\ SameLife(r, respawn(r))
         /\ respawn(r).state = r.state /\ respawn(r).lived = r.lived
<1>1. respawn(r) \in Record(L)
  BY Constants DEF respawn, Record
<1>2. respawn(r).state = r.state /\ respawn(r).deaths = r.deaths /\ respawn(r).lived = r.lived
      /\ respawn(r).projectiles = r.projectiles /\ respawn(r).flying = r.flying
      /\ respawn(r).promised = r.promised /\ respawn(r).events = r.events
      /\ respawn(r).life = r.life /\ respawn(r).lifesequence = r.lifesequence
  BY DEF respawn, Record
<1> QED
  BY <1>1, <1>2 DEF Sound, SameLife

\* Who kills itself dies once.
LEMMA SuicideIs ==
  ASSUME NEW L, NEW r \in Record(L), Sound(r), NEW now \in Nat
  PROVE  /\ suicide(r, now) \in Record(L) /\ Sound(suicide(r, now)) /\ SameLife(r, suicide(r, now))
         /\ suicide(r, now).state # "alive"
<1> DEFINE k == [r EXCEPT !.state = "dead", !.lastdeath = now, !.deaths = @ + 1]
<1>1. CASE r.state = "alive"
  <2>0. r.deaths + 1 \in Int
    BY DEF Record
  <2>1. k \in Record(L)
    BY <2>0 DEF Record, States
  <2>2. /\ k.state = "dead" /\ k.deaths = r.deaths + 1 /\ k.lived = r.lived
        /\ k.projectiles = r.projectiles /\ k.flying = r.flying /\ k.promised = r.promised
        /\ k.events = r.events /\ k.life = r.life /\ k.lifesequence = r.lifesequence
    BY DEF Record
  <2>3. suicide(r, now) = respawn(k)
    BY <1>1 DEF suicide
  <2>4. r.deaths \in Int /\ r.lived \in Int /\ r.deaths + 1 <= r.lived
    BY <1>1 DEF Sound, Record
  <2> HIDE DEF k
  <2>5. Sound(k)
    BY <2>2, <2>4 DEF Sound
  <2> QED
    BY <2>1, <2>2, <2>3, <2>5, RespawnIs DEF SameLife
<1>2. CASE r.state # "alive"
  BY <1>2 DEF suicide, SameLife
<1> QED
  BY <1>1, <1>2

\* The living are hurt, or die once.
LEMMA DodamageIs ==
  ASSUME NEW L, NEW r \in Record(L), Sound(r), r.state = "alive", NEW damage \in Nat, NEW now \in Nat
  PROVE  /\ dodamage(r, damage, now) \in Record(L) /\ Sound(dodamage(r, damage, now))
         /\ SameLife(r, dodamage(r, damage, now))
<1>1. CASE r.health > damage
  <2> DEFINE k == [r EXCEPT !.health = @ - damage]
  <2>1. r.health \in Nat /\ r.health - damage \in Nat
    BY <1>1 DEF Record
  <2>2. k \in Record(L)
    BY <2>1 DEF Record
  <2>3. /\ k.state = r.state /\ k.deaths = r.deaths /\ k.lived = r.lived
        /\ k.projectiles = r.projectiles /\ k.flying = r.flying /\ k.promised = r.promised
        /\ k.events = r.events /\ k.life = r.life /\ k.lifesequence = r.lifesequence
    BY DEF Record
  <2>4. dodamage(r, damage, now) = k
    BY <1>1 DEF dodamage
  <2> HIDE DEF k
  <2> QED
    BY <2>2, <2>3, <2>4 DEF Sound, SameLife
<1>2. CASE ~ (r.health > damage)
  <2> DEFINE k == Died(r, now)
  <2>1. now + DeathMillis \in Nat /\ r.deaths + 1 \in Int
    BY Constants DEF Record
  <2>2. k \in Record(L)
    BY <2>1 DEF Died, Record, States
  <2>3. /\ k.state = "dead" /\ k.deaths = r.deaths + 1 /\ k.lived = r.lived
        /\ k.projectiles = r.projectiles /\ k.flying = r.flying /\ k.promised = r.promised
        /\ k.events = r.events /\ k.life = r.life /\ k.lifesequence = r.lifesequence
    BY DEF Died, Record
  <2>4. dodamage(r, damage, now) = k
    BY <1>2 DEF dodamage
  <2>5. r.deaths \in Int /\ r.lived \in Int /\ r.deaths + 1 <= r.lived
    BY DEF Sound, Record
  <2> HIDE DEF k
  <2> QED
    BY <2>2, <2>3, <2>4, <2>5 DEF Sound, SameLife
<1> QED
  BY <1>1, <1>2

\* A projectile more is launched, and at most one more is remembered.
LEMMA LaunchedIs ==
  ASSUME NEW L, NEW r \in Record(L), Sound(r), NEW id \in Ids
  PROVE  Launched(r, id) \in Record(L) /\ Sound(Launched(r, id)) /\ SameLife(r, Launched(r, id))
<1> DEFINE p == IF Len(r.projectiles) >= ProjectileSlots THEN <<id>> ELSE Append(r.projectiles, id)
           k == [r EXCEPT !.projectiles = p, !.flying = @ + 1]
<1>1. r.projectiles \in Seq(Ids) /\ r.flying \in Int
  BY DEF Record
<1>2. /\ p \in Seq(Ids) /\ Len(p) \in Nat /\ Len(r.projectiles) \in Nat
      /\ Len(p) <= Len(r.projectiles) + 1
  BY <1>1
<1>3. Launched(r, id) = k
  BY DEF Launched
<1> HIDE DEF p
<1>4. k \in Record(L)
  <2>1. r.flying + 1 \in Int
    BY <1>1
  <2> QED
    BY <1>2, <2>1 DEF Record
<1>5. /\ k.state = r.state /\ k.deaths = r.deaths /\ k.lived = r.lived
      /\ k.projectiles = p /\ k.flying = r.flying + 1 /\ k.promised = r.promised
      /\ k.events = r.events /\ k.life = r.life /\ k.lifesequence = r.lifesequence
  BY DEF Record
<1> HIDE DEF k
<1>6. Len(p) <= r.flying + 1
  BY <1>1, <1>2 DEF Sound
<1> QED
  BY <1>3, <1>4, <1>5, <1>6 DEF Sound, SameLife

\* A projectile that is found is forgotten.
LEMMA LandedIs ==
  ASSUME NEW L, NEW r \in Record(L), Sound(r), NEW id \in Range(r.projectiles)
  PROVE  Landed(r, id) \in Record(L) /\ Sound(Landed(r, id)) /\ SameLife(r, Landed(r, id))
<1> DEFINE p == r.projectiles
           i == SelectInSeq(p, LAMBDA x : x = id)
           q == [p EXCEPT ![i] = p[Len(p)]]
           f == Front(q)
           k == [r EXCEPT !.projectiles = f, !.flying = @ - 1]
<1>1. p \in Seq(Ids) /\ r.flying \in Int /\ Len(p) <= r.flying
  BY DEF Record, Sound
<1>2. Len(p) \in Nat /\ Len(p) >= 1
  BY <1>1 DEF Range
<1>3. Landed(r, id) = k
  BY DEF Landed
<1> HIDE DEF i
<1>4. q \in Seq(Ids) /\ Len(q) = Len(p)
  <2>1. p[Len(p)] \in Ids /\ p \in [1..Len(p) -> Ids]
    BY <1>1, <1>2
  <2>2. q \in [1..Len(p) -> Ids]
    BY <2>1
  <2> HIDE DEF q
  <2> QED
    BY <1>2, <2>2
<1> HIDE DEF q, p
<1>5. f \in Seq(Ids) /\ Len(f) = Len(p) - 1
  BY <1>2, <1>4 DEF Front
<1> HIDE DEF f
<1>6. k \in Record(L)
  <2>1. r.flying - 1 \in Int
    BY <1>1
  <2> QED
    BY <1>5, <2>1 DEF Record
<1>7. /\ k.state = r.state /\ k.deaths = r.deaths /\ k.lived = r.lived
      /\ k.projectiles = f /\ k.flying = r.flying - 1 /\ k.promised = r.promised
      /\ k.events = r.events /\ k.life = r.life /\ k.lifesequence = r.lifesequence
  BY DEF Record
<1> HIDE DEF k
<1>8. Len(f) <= r.flying - 1
  BY <1>1, <1>2, <1>5
<1> QED
  BY <1>3, <1>6, <1>7, <1>8 DEF Sound, SameLife

\* A new map ends all lives and empties the queue.
LEMMA MapchangeIs ==
  ASSUME NEW L, NEW r \in Record(L), RecordOK(r)
  PROVE  /\ mapchange(r) \in Record(L) /\ RecordOK(mapchange(r))
         /\ mapchange(r).life = r.life /\ mapchange(r).lifesequence = r.lifesequence
         /\ mapchange(r).events = <<>> /\ mapchange(r).state # "alive"
<1> DEFINE b == respawn(r)
           state == IF b.state = "spectator" THEN b.state ELSE "dead"
           none == <<>>
           zero == 0
           h == [b EXCEPT !.state = state, !.lastdeath = zero, !.lastevent = zero, !.events = none]
           k == [h EXCEPT !.projectiles = none, !.deaths = zero, !.lived = zero, !.flying = zero,
                          !.promised = zero]
<1>1. b \in Record(L) /\ b.life = r.life /\ b.lifesequence = r.lifesequence /\ Sound(b)
  BY RespawnIs DEF SameLife, RecordOK
<1>2. mapchange(r) = k
  BY DEF mapchange
<1>3. state \in States /\ state # "alive"
  BY DEF States
<1>4. none \in Seq(Events(L)) /\ none \in Seq(Ids) /\ zero \in Nat /\ zero \in Int
  OBVIOUS
<1> HIDE DEF b, state, none, zero
<1>5. /\ h \in Record(L) /\ h.state = state /\ h.events = none
      /\ h.life = b.life /\ h.lifesequence = b.lifesequence
  BY <1>1, <1>3, <1>4 DEF Record
<1> HIDE DEF h
<1>6. /\ k \in Record(L)
      /\ k.state = h.state /\ k.deaths = zero /\ k.lived = zero /\ k.projectiles = none
      /\ k.flying = zero /\ k.promised = zero /\ k.events = h.events
      /\ k.life = h.life /\ k.lifesequence = h.lifesequence
  BY <1>4, <1>5 DEF Record
<1> HIDE DEF k
<1>7. RecordOK(k)
  BY <1>1, <1>3, <1>5, <1>6, NoExplosions DEF RecordOK, Sound, none, zero
<1> QED
  BY <1>1, <1>2, <1>3, <1>5, <1>6, <1>7 DEF none

\* The life that follows m for the occupant w of c.
NextLife(m, seq, c, w, mt) == [cn |-> c, who |-> w, match |-> mt, n |-> m.n + 1, seq |-> (seq + 1) % LifeSequences]

\* A new life takes the place of the last one.
LEMMA SendspawnIs ==
  ASSUME NEW L, NEW r \in Record(L), RecordOK(r),
         NEW c \in Cns, NEW w \in Nat, NEW mt \in Nat
  PROVE  /\ sendspawn(r, c, w, mt) \in Record(L) /\ RecordOK(sendspawn(r, c, w, mt))
         /\ sendspawn(r, c, w, mt).events = r.events /\ sendspawn(r, c, w, mt).state = r.state
         /\ sendspawn(r, c, w, mt).life = NextLife(r.life, r.lifesequence, c, w, mt)
         /\ NextLife(r.life, r.lifesequence, c, w, mt) \in Life
<1> DEFINE seq == (r.lifesequence + 1) % LifeSequences
           life == [cn |-> c, who |-> w, match |-> mt, n |-> r.life.n + 1, seq |-> seq]
           k == [r EXCEPT !.lifesequence = seq, !.lastspawn = TRUE, !.life = life]
<1>1. r.lifesequence \in Nat /\ r.life.n \in Nat
  <2>1. r.lifesequence \in Nat /\ r.life \in Life \cup {NoLife}
    BY DEF Record
  <2> QED
    BY <2>1 DEF Life, NoLife
<1>2. seq \in 0..(LifeSequences - 1)
  BY <1>1, Constants
<1>3. r.life.n + 1 \in Nat \ {0}
  BY <1>1
<1> HIDE DEF seq
<1>4. life \in Life /\ life.seq = seq
  BY <1>2, <1>3 DEF Life
<1>5. life # NoLife
  BY <1>3 DEF NoLife
<1>6. sendspawn(r, c, w, mt) = k /\ life = NextLife(r.life, r.lifesequence, c, w, mt)
  BY DEF sendspawn, NextLife, seq
<1>7. seq \in Nat
  BY <1>2, Constants
<1> HIDE DEF life
<1>8. k \in Record(L)
  BY <1>4, <1>7 DEF Record
<1>9. /\ k.state = r.state /\ k.deaths = r.deaths /\ k.lived = r.lived
      /\ k.projectiles = r.projectiles /\ k.flying = r.flying /\ k.promised = r.promised
      /\ k.events = r.events /\ k.life = life /\ k.lifesequence = seq
  BY DEF Record
<1> HIDE DEF k
<1>10. RecordOK(k)
  BY <1>4, <1>5, <1>9 DEF RecordOK, Sound
<1> QED
  BY <1>4, <1>6, <1>8, <1>9, <1>10

-----------------------------------------------------------------------------
(***************************************************************************)
(* Queues of events.                                                       *)
(***************************************************************************)
\* Whether e is an explosion.
One(e) == IF e.kind = "explode" THEN 1 ELSE 0

\* One explosion more in the queue, or none.
LEMMA ExplosionsAppend ==
  ASSUME NEW E, NEW q \in Seq(E), NEW e \in E
  PROVE  Explosions(Append(q, e)) = Explosions(q) + One(e) /\ Explosions(q) \in Nat
<1> DEFINE n == Len(q)
           m == n + 1
           A == {i \in 1..n : q[i].kind = "explode"}
           s == Append(q, e)
           B == {i \in 1..m : s[i].kind = "explode"}
<1>1. n \in Nat /\ IsFiniteSet(1..n) /\ ~ (m \in A)
  BY FS_Interval
<1>2. IsFiniteSet(A) /\ Cardinality(A) \in Nat
  <2>1. A \in SUBSET (1..n)
    OBVIOUS
  <2> QED
    BY <1>1, <2>1, FS_Subset, FS_CardinalityType
<1>3. Explosions(q) = Cardinality(A) /\ Explosions(s) = Cardinality(B)
  <2>1. DOMAIN q = 1..n /\ DOMAIN s = 1..m
    OBVIOUS
  <2> HIDE DEF s, n, m
  <2> QED
    BY <2>1 DEF Explosions
<1>4. s[m] = e /\ \A i \in 1..n : s[i] = q[i] /\ i \in 1..m /\ i # m
  OBVIOUS
<1>5. CASE e.kind = "explode"
  <2>1. B = A \cup {m}
    BY <1>1, <1>4, <1>5
  <2>2. Cardinality(A \cup {m}) = Cardinality(A) + 1
    BY <1>1, <1>2, FS_AddElement
  <2> QED
    BY <1>2, <1>3, <1>5, <2>1, <2>2 DEF One
<1>6. CASE e.kind # "explode"
  <2>1. B = A
    BY <1>1, <1>4, <1>6
  <2>2. One(e) = 0
    BY <1>6 DEF One
  <2> HIDE DEF A, B
  <2> QED
    BY <1>2, <1>3, <2>1, <2>2
<1> QED
  BY <1>5, <1>6

\* How many explosions wait behind the first k events.
Waiting(q, k) == Cardinality({i \in (k + 1)..Len(q) : q[i].kind = "explode"})

\* One that stops waiting is counted once.
LEMMA WaitingSteps ==
  ASSUME NEW E, NEW q \in Seq(E), NEW k \in 1..Len(q)
  PROVE  Waiting(q, k - 1) = Waiting(q, k) + One(q[k]) /\ Waiting(q, k) \in Nat
<1> DEFINE n == Len(q)
           A == {i \in (k + 1)..n : q[i].kind = "explode"}
           B == {i \in k..n : q[i].kind = "explode"}
<1>1. n \in Nat /\ IsFiniteSet((k + 1)..n) /\ ~ (k \in A) /\ k - 1 + 1 = k
  BY FS_Interval
<1>2. IsFiniteSet(A) /\ Cardinality(A) \in Nat
  <2>1. A \in SUBSET ((k + 1)..n)
    OBVIOUS
  <2> QED
    BY <1>1, <2>1, FS_Subset, FS_CardinalityType
<1>3. Waiting(q, k) = Cardinality(A) /\ Waiting(q, k - 1) = Cardinality(B)
  BY <1>1 DEF Waiting
<1>4. k \in k..n /\ \A i \in k..n : i # k => i \in (k + 1)..n
  BY <1>1
<1>5. CASE q[k].kind = "explode"
  <2>1. B = A \cup {k}
    BY <1>1, <1>4, <1>5
  <2>2. Cardinality(A \cup {k}) = Cardinality(A) + 1
    BY <1>1, <1>2, FS_AddElement
  <2> QED
    BY <1>2, <1>3, <1>5, <2>1, <2>2 DEF One
<1>6. CASE q[k].kind # "explode"
  <2>1. B = A
    BY <1>1, <1>4, <1>6
  <2>2. One(q[k]) = 0
    BY <1>6 DEF One
  <2> HIDE DEF A, B
  <2> QED
    BY <1>2, <1>3, <2>1, <2>2
<1> QED
  BY <1>5, <1>6

\* The rest of the queue holds those that wait behind its beginning.
LEMMA WaitingRest ==
  ASSUME NEW E, NEW q \in Seq(E), NEW k \in 0..Len(q)
  PROVE  Explosions(SubSeq(q, k + 1, Len(q))) = Waiting(q, k) /\ Waiting(q, 0) = Explosions(q)
<1> DEFINE n == Len(q)
           s == SubSeq(q, k + 1, n)
           A == {i \in (k + 1)..n : q[i].kind = "explode"}
           B == {i \in 1..(n - k) : s[i].kind = "explode"}
           f == [i \in A |-> i - k]
<1>1. n \in Nat /\ k \in Nat /\ IsFiniteSet((k + 1)..n)
  BY FS_Interval
<1>2. Len(s) = n - k /\ DOMAIN s = 1..(n - k) /\ \A i \in 1..(n - k) : s[i] = q[i + k]
  BY <1>1
<1>3. IsFiniteSet(A)
  <2>1. A \in SUBSET ((k + 1)..n)
    OBVIOUS
  <2> QED
    BY <1>1, <2>1, FS_Subset
<1> HIDE DEF s
<1>4. f \in [A -> B]
  <2>1. ASSUME NEW i \in A PROVE i - k \in B
    <3>1. i - k \in 1..(n - k) /\ i - k + k = i
      BY <1>1
    <3> QED
      BY <1>2, <3>1
  <2> QED
    BY <2>1
<1>5. \A i, j \in A : f[i] = f[j] => i = j
  BY <1>1
<1>6. ASSUME NEW j \in B PROVE \E i \in A : f[i] = j
  <2>1. j + k \in (k + 1)..n /\ j + k - k = j
    BY <1>1
  <2>2. j + k \in A
    BY <1>2, <2>1
  <2> QED
    BY <2>1, <2>2
<1>7. f \in Bijection(A, B)
  BY <1>4, <1>5, <1>6 DEF Bijection, Injection, Surjection, IsInjective
<1>8. Cardinality(B) = Cardinality(A)
  BY <1>3, <1>7, FS_Bijection DEF ExistsBijection
<1>9. Explosions(s) = Cardinality(B) /\ Waiting(q, k) = Cardinality(A)
  BY <1>2 DEF Explosions, Waiting
<1>10. Waiting(q, 0) = Explosions(q)
  <2>1. DOMAIN q = (0 + 1)..n
    BY <1>1
  <2> QED
    BY <2>1 DEF Explosions, Waiting
<1> QED
  BY <1>8, <1>9, <1>10 DEF s

\* Only takes what is in the set, and all of it.
LEMMA OnlyMembers ==
  ASSUME NEW E, NEW s \in Seq(E), NEW S
  PROVE  Only(s, S) \in Seq(E) /\ Range(Only(s, S)) = S \cap Range(s)
<1> DEFINE n == Len(s)
           Prefix(k) == {s[i] : i \in 1..k}
<1>1. PICK t \in [0..n -> Seq(E)] : t[n] = Only(s, S) /\ OnlyTrace(t, s, S)
  BY OnlySteps
<1> DEFINE P == {k \in 0..n : Range(t[k]) = S \cap Prefix(k)}
<1>2. n \in Nat /\ DOMAIN s = 1..n
  OBVIOUS
<1> HIDE DEF n
<1>3. 0 \in P
  <2>1. Range(<<>>) = {} /\ Prefix(0) = {}
    BY DEF Range
  <2> QED
    BY <1>1, <1>2, <2>1 DEF OnlyTrace
<1>4. ASSUME NEW k \in 0..(n - 1), k \in P PROVE k + 1 \in P
  <2> DEFINE m == k + 1
             x == s[m]
             u == t[k]
  <2>1. m \in 1..n /\ m \in 0..n /\ m - 1 = k /\ k \in 0..n /\ 1..m = (1..k) \cup {m}
    BY <1>2
  <2>2. u \in Seq(E) /\ x \in E /\ t[m] = OnlyOne(u, x, S) /\ Prefix(m) = Prefix(k) \cup {x}
    <3>1. u \in Seq(E) /\ Prefix(m) = Prefix(k) \cup {x}
      BY <2>1
    <3>2. x \in E
      BY <1>2, <2>1
    <3>3. t[m] = OnlyOne(t[m - 1], s[m], S)
      BY <1>1, <2>1 DEF n, OnlyTrace
    <3> QED
      BY <2>1, <3>1, <3>2, <3>3
  <2>3. Range(u) = S \cap Prefix(k)
    BY <1>4
  <2>4. Range(Append(u, x)) = Range(u) \cup {x}
    <3> DEFINE a == Append(u, x)
               l == Len(u)
    <3>3. u \in Seq(E) /\ x \in E
      BY <2>2
    <3> HIDE DEF u, x
    <3>4. l \in Nat /\ DOMAIN u = 1..l /\ DOMAIN a = 1..(l + 1)
      BY <3>3
    <3>5. 1..(l + 1) = (1..l) \cup {l + 1}
      BY <3>4
    <3>1. l \in Nat /\ DOMAIN u = 1..l /\ DOMAIN a = (1..l) \cup {l + 1}
      BY <3>4, <3>5
    <3>2. a[l + 1] = x /\ \A i \in 1..l : a[i] = u[i]
      BY <2>2
    <3> HIDE DEF a, l
    <3> QED
      BY <3>1, <3>2 DEF Range, a
  <2> HIDE DEF m, x, u, Prefix
  <2>5. Range(t[m]) = S \cap Prefix(m)
    BY <2>2, <2>3, <2>4 DEF OnlyOne
  <2> QED
    BY <2>1, <2>5 DEF m
<1> HIDE DEF P
<1>5. 0..n \subseteq P
  BY <1>2, <1>3, <1>4, Climb
<1>6. n \in P /\ t[n] \in Seq(E)
  BY <1>1, <1>2, <1>5
<1> QED
  BY <1>1, <1>2, <1>6 DEF P, Range

\* Explosions are kept when all that is keepable is.
LEMMA OnlyExplosions ==
  ASSUME NEW E, NEW s \in Seq(E)
  PROVE  Explosions(Only(s, {e \in Range(s) : keepable(e)})) = Explosions(s)
<1> DEFINE n == Len(s)
           S == {e \in Range(s) : keepable(e)}
<1>1. PICK t \in [0..n -> Seq(E)] : t[n] = Only(s, S) /\ OnlyTrace(t, s, S)
  BY OnlySteps
<1> DEFINE P == {k \in 0..n : Explosions(t[k]) + Waiting(s, k) = Explosions(s)}
<1>2. n \in Nat /\ DOMAIN s = 1..n
  OBVIOUS
<1>3. Waiting(s, 0) = Explosions(s) /\ Explosions(s) \in Int
  <2>1. DOMAIN s \in SUBSET (1..n) /\ IsFiniteSet(1..n)
    BY <1>2, FS_Interval
  <2>2. {i \in DOMAIN s : s[i].kind = "explode"} \in SUBSET (1..n)
    BY <2>1
  <2>3. Explosions(s) \in Nat
    BY <2>1, <2>2, FS_Subset, FS_CardinalityType DEF Explosions
  <2>4. 0 \in 0..Len(s)
    BY <1>2
  <2> QED
    BY <2>3, <2>4, WaitingRest
<1>4. 0 \in P
  BY <1>1, <1>2, <1>3, NoExplosions DEF OnlyTrace
<1>5. ASSUME NEW k \in 0..(n - 1), k \in P PROVE k + 1 \in P
  <2> DEFINE m == k + 1
             x == s[m]
             u == t[k]
  <2>1. m \in 1..n /\ m \in 0..n /\ m - 1 = k /\ k \in 0..n
    BY <1>2
  <2>2. u \in Seq(E) /\ x \in E /\ x \in Range(s) /\ t[m] = OnlyOne(u, x, S)
    <3>1. u \in Seq(E) /\ x \in E /\ x \in Range(s)
      BY <1>2, <2>1 DEF Range
    <3>2. t[m] = OnlyOne(t[m - 1], s[m], S)
      BY <1>1, <2>1 DEF OnlyTrace
    <3> QED
      BY <2>1, <3>1, <3>2
  <2>3. Explosions(u) + Waiting(s, k) = Explosions(s)
    BY <1>5
  <2>4. Waiting(s, k) = Waiting(s, m) + One(x) /\ Waiting(s, m) \in Nat
    BY <2>1, WaitingSteps
  <2>5. Explosions(Append(u, x)) = Explosions(u) + One(x) /\ Explosions(u) \in Nat
    BY <2>2, ExplosionsAppend
  <2>6. Explosions(t[m]) = Explosions(u) + One(x) /\ One(x) \in Nat
    <3>1. CASE x.kind = "explode"
      BY <2>2, <2>5, <3>1 DEF OnlyOne, keepable, One
    <3>2. CASE x.kind # "explode"
      <4>1. t[m] = u /\ One(x) = 0
        BY <2>2, <3>2 DEF OnlyOne, keepable, One
      <4> QED
        BY <2>5, <4>1
    <3> QED
      BY <3>1, <3>2
  <2> HIDE DEF m, x, u
  <2>7. Explosions(t[m]) + Waiting(s, m) = Explosions(s)
    BY <1>3, <2>3, <2>4, <2>5, <2>6
  <2> QED
    BY <2>1, <2>7 DEF m
<1> HIDE DEF P
<1>6. n \in P
  <2>1. 0..n \subseteq P
    BY <1>2, <1>4, <1>5, Climb
  <2> QED
    BY <1>2, <2>1
<1>7. Waiting(s, n) = 0
  <2>1. (n + 1)..n = {}
    BY <1>2
  <2> QED
    BY <2>1, FS_EmptySet DEF Waiting
<1>8. Explosions(t[n]) \in Int
  <2>1. t[n] \in Seq(E)
    BY <1>1, <1>2
  <2> DEFINE l == Len(t[n])
  <2>2. l \in Nat /\ DOMAIN t[n] = 1..l
    BY <2>1
  <2>3. {i \in DOMAIN t[n] : t[n][i].kind = "explode"} \in SUBSET (1..l) /\ IsFiniteSet(1..l)
    BY <2>2, FS_Interval
  <2> QED
    BY <2>3, FS_Subset, FS_CardinalityType DEF Explosions
<1> QED
  BY <1>1, <1>3, <1>6, <1>7, <1>8 DEF P

\* A spawn empties the queue of all but explosions.
LEMMA ClearedIs ==
  ASSUME NEW L, NEW r \in Record(L), RecordOK(r)
  PROVE  /\ cleartimedevents(r) \in Record(L) /\ RecordOK(cleartimedevents(r))
         /\ cleartimedevents(r).life = r.life /\ cleartimedevents(r).state = r.state
         /\ cleartimedevents(r).lifesequence = r.lifesequence
         /\ \A i \in 1..Len(cleartimedevents(r).events) :
               cleartimedevents(r).events[i].kind = "explode"
<1> DEFINE q == Only(r.events, {e \in Range(r.events) : keepable(e)})
           k == [r EXCEPT !.events = q]
<1>1. r.events \in Seq(Events(L))
  BY DEF Record
<1>2. /\ q \in Seq(Events(L)) /\ Explosions(q) = Explosions(r.events)
      /\ Range(q) = {e \in Range(r.events) : keepable(e)} \cap Range(r.events)
  BY <1>1, OnlyMembers, OnlyExplosions
<1>3. ASSUME NEW i \in 1..Len(q) PROVE q[i].kind = "explode"
  <2> HIDE DEF q
  <2>1. q[i] \in Range(q)
    BY <1>2 DEF Range
  <2> QED
    BY <1>2, <2>1 DEF keepable
<1>4. cleartimedevents(r) = k
  BY DEF cleartimedevents
<1> HIDE DEF q
<1>5. k \in Record(L)
  BY <1>2 DEF Record
<1>6. /\ k.state = r.state /\ k.deaths = r.deaths /\ k.lived = r.lived
      /\ k.projectiles = r.projectiles /\ k.flying = r.flying /\ k.promised = r.promised
      /\ k.events = q /\ k.life = r.life /\ k.lifesequence = r.lifesequence
  BY DEF Record
<1> HIDE DEF k
<1> QED
  BY <1>2, <1>3, <1>4, <1>5, <1>6 DEF RecordOK, Sound

\* An event joins the end of the queue, or is lost when there is no room.
LEMMA QueuedIs ==
  ASSUME NEW L, NEW r \in Record(L), RecordOK(r), NEW e \in Events(L)
  PROVE  /\ Queued(r, e) \in Record(L) /\ RecordOK(Queued(r, e))
         /\ Queued(r, e).life = r.life
         /\ Queued(r, e).events = r.events \/ Queued(r, e).events = Append(r.events, e)
<1>1. CASE r.state = "spectator" \/ Len(r.events) > EventSlots
  BY <1>1 DEF Queued
<1>2. CASE ~ (r.state = "spectator" \/ Len(r.events) > EventSlots)
  <2> DEFINE q == Append(r.events, e)
             p == IF e.kind = "explode" THEN r.promised + 1 ELSE r.promised
             k == [r EXCEPT !.events = q, !.promised = p]
  <2>1. r.events \in Seq(Events(L)) /\ r.promised \in Int /\ r.promised = Explosions(r.events)
    BY DEF Record, RecordOK
  <2>2. q \in Seq(Events(L)) /\ p \in Int
    BY <2>1
  <2>3. p = Explosions(q)
    BY <2>1, ExplosionsAppend DEF One
  <2>4. Queued(r, e) = k
    BY <1>2 DEF Queued
  <2> HIDE DEF q, p
  <2>5. k \in Record(L)
    BY <2>2 DEF Record
  <2>6. /\ k.state = r.state /\ k.deaths = r.deaths /\ k.lived = r.lived
        /\ k.projectiles = r.projectiles /\ k.flying = r.flying /\ k.promised = p
        /\ k.events = q /\ k.life = r.life /\ k.lifesequence = r.lifesequence
    BY DEF Record
  <2> HIDE DEF k
  <2> QED
    BY <2>3, <2>4, <2>5, <2>6 DEF RecordOK, Sound, q
<1> QED
  BY <1>1, <1>2

\* Whether e is due.
Ripe(e, millis) == e.kind = "suicide" \/ e.millis <= millis

\* Some of the events of a queue are due, and none behind one that is not.
LEMMA DueIs ==
  ASSUME NEW L, NEW q \in Seq(Events(L)), NEW millis \in Nat
  PROVE  Due(q, millis) \in 0..Len(q)
<1> DEFINE n == Len(q)
           T == {k \in 0..n : k = n \/ ~ Ripe(q[k + 1], millis)}
<1>1. n \in Nat /\ T \in SUBSET Nat /\ n \in T
  OBVIOUS
<1>2. PICK m \in T : \A k \in T : m <= k
  BY <1>1, LeastNat
<1>3. ASSUME NEW i \in 1..m PROVE Ripe(q[i], millis)
  <2>1. i - 1 \in 0..n /\ i - 1 # n /\ ~ (m <= i - 1) /\ i - 1 + 1 = i
    BY <1>1, <1>2
  <2>2. ~ (i - 1 \in T)
    BY <1>2, <2>1
  <2> QED
    BY <2>1, <2>2
<1>4. m = n \/ ~ Ripe(q[m + 1], millis)
  BY <1>2
<1>5. m = n \/ (q[m + 1].kind # "suicide" /\ q[m + 1].millis > millis)
  <2> SUFFICES ASSUME m # n PROVE q[m + 1].kind # "suicide" /\ q[m + 1].millis > millis
    OBVIOUS
  <2>1. m + 1 \in 1..n
    BY <1>1, <1>2
  <2>2. q[m + 1] \in Events(L)
    BY <2>1
  <2> DEFINE e == q[m + 1]
  <2>3. e.kind # "suicide" /\ ~ (e.millis <= millis)
    BY <1>4 DEF Ripe
  <2> HIDE DEF e
  <2>4. e.millis \in Nat
    BY <2>2, <2>3 DEF Events, e
  <2>5. e.millis > millis
    BY <2>3, <2>4
  <2> QED
    BY <2>3, <2>5 DEF e
<1>6. \E k \in 0..Len(q) :
         /\ \A i \in 1..k : q[i].kind = "suicide" \/ q[i].millis <= millis
         /\ k = Len(q) \/ (q[k + 1].kind # "suicide" /\ q[k + 1].millis > millis)
  BY <1>2, <1>3, <1>5 DEF Ripe
<1> QED
  BY <1>6 DEF Due

\* The hits that count of an explosion are some of its hits.
LEMMA OnceIs ==
  ASSUME NEW B, NEW hits \in Seq(B)
  PROVE  OncePerTarget(hits) \in Seq(B)
<1> DEFINE n == Len(hits)
           first == {i \in DOMAIN hits :
                        \A j \in 1..(i - 1) : hits[j].target.cn # hits[i].target.cn}
           Upto(m) == {j \in first : j <= m}
           Nth(i, k) == Cardinality(Upto(i)) = k
           size == Cardinality(first)
<1>1. n \in Nat /\ DOMAIN hits = 1..n
  OBVIOUS
<1>2. OncePerTarget(hits) = [k \in 1..size |-> hits[CHOOSE i \in first : Nth(i, k)]]
  BY DEF OncePerTarget
<1>3. first \in SUBSET (1..n) /\ IsFiniteSet(1..n)
  BY <1>1, FS_Interval
<1> HIDE DEF first, n
<1>9. n \in Nat /\ \A j \in first : j \in Nat /\ 1 <= j /\ j <= n /\ j \in 1..n
  BY <1>1, <1>3
<1>4. size \in Nat
  BY <1>3, FS_Subset, FS_CardinalityType
<1>5. \A m \in 0..n : IsFiniteSet(Upto(m)) /\ Cardinality(Upto(m)) \in Nat
  <2>1. ASSUME NEW m \in 0..n PROVE IsFiniteSet(Upto(m)) /\ Cardinality(Upto(m)) \in Nat
    <3>1. Upto(m) \in SUBSET (1..n)
      BY <1>3
    <3> QED
      BY <1>3, <3>1, FS_Subset, FS_CardinalityType
  <2> QED
    BY <2>1
<1>6. ASSUME NEW k \in 1..size PROVE \E i \in first : Nth(i, k)
  <2> DEFINE T == {m \in 0..n : Cardinality(Upto(m)) >= k}
  <2>1. T \in SUBSET Nat /\ n \in T
    <3>1. Upto(n) = first
      BY <1>9
    <3> HIDE DEF Upto
    <3>2. Cardinality(Upto(n)) >= k /\ n \in 0..n
      BY <1>1, <1>4, <3>1
    <3> QED
      BY <1>1, <3>2
  <2>2. PICK m \in T : \A l \in T : m <= l
    BY <2>1, LeastNat
  <2>3. m \in 0..n /\ m # 0 /\ Cardinality(Upto(m)) >= k
    <3>1. Upto(0) = {}
      BY <1>9
    <3>2. Cardinality(Upto(0)) = 0
      BY <3>1, FS_EmptySet
    <3> HIDE DEF Upto
    <3>3. ~ (0 >= k)
      BY <1>4
    <3> QED
      BY <2>2, <3>2, <3>3
  <2>4. m - 1 \in 0..n /\ m \in 1..n /\ ~ (m <= m - 1) /\ m - 1 < m
    BY <1>1, <2>3
  <2>9. m \in Nat
    BY <2>4
  <2>5. ~ (Cardinality(Upto(m - 1)) >= k)
    <3> HIDE DEF Upto
    <3> QED
      BY <2>2, <2>4
  <2>6. CASE ~ (m \in first)
    <3>1. \A j \in first : j <= m <=> j <= m - 1
      BY <1>9, <2>6, <2>9
    <3>2. Upto(m) = Upto(m - 1)
      BY <3>1
    <3> HIDE DEF Upto
    <3> QED
      BY <2>3, <2>5, <3>2
  <2>7. CASE m \in first
    <3>5. m <= m /\ \A j \in first : j <= m <=> j <= m - 1 \/ j = m
      BY <1>9, <2>9
    <3>1. Upto(m) = Upto(m - 1) \cup {m} /\ ~ (m \in Upto(m - 1))
      BY <2>4, <2>7, <3>5
    <3>2. IsFiniteSet(Upto(m - 1)) /\ Cardinality(Upto(m - 1)) \in Nat
      BY <1>5, <2>4
    <3> HIDE DEF Upto
    <3>3. Cardinality(Upto(m)) = Cardinality(Upto(m - 1)) + 1
      BY <3>1, <3>2, FS_AddElement
    <3>4. Cardinality(Upto(m)) = k
      BY <1>4, <2>3, <2>5, <3>2, <3>3
    <3> QED
      BY <2>7, <3>4
  <2> QED
    BY <2>6, <2>7
<1> HIDE DEF Nth
<1>7. ASSUME NEW k \in 1..size PROVE hits[CHOOSE i \in first : Nth(i, k)] \in B
  <2>1. (CHOOSE i \in first : Nth(i, k)) \in first
    BY <1>6
  <2> DEFINE i == CHOOSE i \in first : Nth(i, k)
  <2>2. i \in DOMAIN hits
    BY <1>1, <1>3, <2>1
  <2> HIDE DEF i
  <2>3. hits[i] \in B
    BY <2>2
  <2> QED
    BY <2>3 DEF i
<1> HIDE DEF size
<1>8. [k \in 1..size |-> hits[CHOOSE i \in first : Nth(i, k)]] \in [1..size -> B]
  BY <1>7
<1> QED
  BY <1>2, <1>4, <1>8

-----------------------------------------------------------------------------
(***************************************************************************)
(* What events do to the world: clients keep their lives, and what happens *)
(* is as it should be.                                                     *)
(***************************************************************************)
Worlds == [ci : [Cns -> Record(lives)], happened : SUBSET Happening]

\* What the safety properties ask of h.
Fit(h) ==
    /\ h.kind = "spawn" => h.answered = h.met
    /\ h.kind = "hit" /\ h.aimed.who = h.met.who => h.aimed = h.met
    /\ (/\ h.kind = "shot" /\ h.state = "alive"
        /\ h.own \in lives /\ h.own.match = h.met.match) => h.own = h.met

\* Everybody lives the life it had when the step began.
Lasting(r, c) == Sound(r) /\ r.life = ci[c].life /\ r.lifesequence = ci[c].lifesequence

Sane(w) ==
    /\ w \in Worlds
    /\ \A d \in Cns : Lasting(w.ci[d], d)
    /\ \A h \in w.happened : Fit(h)

\* The queues and what they promise are as they were.
SameQueues(v, w) ==
    \A d \in Cns : v.ci[d].events = w.ci[d].events /\ v.ci[d].promised = w.ci[d].promised

\* w with the client state r for c, and with h happened.
Put(w, c, r) == [w EXCEPT !.ci[c] = r]
Tell(w, h) == [w EXCEPT !.happened = @ \cup {h}]

\* A client state that lasts may be put in its place.
LEMMA PutIs ==
  ASSUME NEW w, Sane(w), NEW c \in Cns, NEW r \in Record(lives), Lasting(r, c)
  PROVE  /\ Sane(Put(w, c, r)) /\ Put(w, c, r).ci[c] = r
         /\ \A d \in Cns : d # c => Put(w, c, r).ci[d] = w.ci[d]
<1> DEFINE f == [w.ci EXCEPT ![c] = r]
           v == [w EXCEPT !.ci = f]
<1>1. w \in Worlds /\ w.ci \in [Cns -> Record(lives)]
  BY DEF Sane, Worlds
<1>2. Put(w, c, r) = v
  BY <1>1 DEF Put
<1>3. f \in [Cns -> Record(lives)] /\ f[c] = r /\ \A d \in Cns : d # c => f[d] = w.ci[d]
  BY <1>1
<1> HIDE DEF f
<1>4. v \in Worlds /\ v.ci = f /\ v.happened = w.happened
  BY <1>1, <1>3 DEF Worlds
<1> HIDE DEF v
<1>5. Sane(v)
  <2>1. ASSUME NEW d \in Cns PROVE Lasting(v.ci[d], d)
    BY <1>3, <1>4 DEF Sane
  <2> QED
    BY <1>4, <2>1 DEF Sane
<1> QED
  BY <1>2, <1>3, <1>4, <1>5

\* What fits may happen.
LEMMA TellIs ==
  ASSUME NEW w, Sane(w), NEW h \in Happening, Fit(h)
  PROVE  Sane(Tell(w, h)) /\ SameQueues(Tell(w, h), w) /\ Tell(w, h).ci = w.ci
<1>1. Tell(w, h) \in Worlds /\ Tell(w, h).ci = w.ci /\ Tell(w, h).happened = w.happened \cup {h}
  BY DEF Sane, Worlds, Tell
<1> QED
  BY <1>1 DEF Sane, SameQueues

\* A life that lifesequence is of is the present one, unless its occupant has left.
LEMMA SeqTells ==
  ASSUME NEW l \in Life, NEW m \in Life, Precedes(l, m), l.seq = m.seq, m.n <= MaxSpawns
  PROVE  l = m
<1>1. /\ l.n \in Nat \ {0} /\ m.n \in Nat \ {0} /\ l.seq \in Int /\ m.seq \in Int
      /\ MaxSpawns \in Nat /\ LifeSequences \in Nat /\ MaxSpawns < LifeSequences
  BY Constants DEF Life
<1>2. \/ l.seq + (m.n - l.n) = m.seq
      \/ l.seq + (m.n - l.n) = m.seq + LifeSequences
  BY DEF Precedes
<1>3. l.n = m.n
  BY <1>1, <1>2
<1> QED
  BY <1>3 DEF Precedes

\* A hit is of the life that was aimed at.
LEMMA HitIs ==
  ASSUME IInv, NEW w, Sane(w), NEW h \in Blows(lives), NEW now \in Nat
  PROVE  Sane(Hit(w, h, now)) /\ SameQueues(Hit(w, h, now), w)
<1> DEFINE l == h.target
           c == l.cn
           r == w.ci[c]
           k == dodamage(r, h.damage, now)
           e == [kind |-> "hit", aimed |-> l, met |-> r.life]
<1>1. CASE ~ Meets(w, h)
  BY <1>1 DEF Hit, SameQueues
<1>2. CASE Meets(w, h)
  <2>1. l \in lives /\ l \in Life /\ h.damage \in Nat /\ c \in Cns
    BY Constants DEF IInv, TypeInv, Blows, Life
  <2>2. r \in Record(lives) /\ Lasting(r, c) /\ r.state = "alive" /\ l.seq = r.lifesequence
        /\ c \in Connected
    BY <1>2, <2>1 DEF Sane, Worlds, Meets
  <2>3. r.life \in Life /\ r.life = ci[c].life /\ r.life.seq = l.seq
    BY <2>2 DEF Lasting, Sound, Record
  <2>4. r.life.who = who[c] /\ r.life.n <= MaxSpawns /\ ci[c].life # NoLife
    BY <2>1, <2>2, <2>3 DEF IInv, LivesOK, Lasting, Sound
  <2>5. e \in Happening
    BY <2>1, <2>3 DEF Happening
  <2>6. l.who = r.life.who => l = r.life
    <3>1. l.who = r.life.who => Precedes(l, r.life)
      BY <2>1, <2>2, <2>3, <2>4 DEF IInv, HeardOK
    <3> QED
      BY <2>1, <2>3, <2>4, <3>1, SeqTells
  <2>7. Fit(e)
    BY <2>6 DEF Fit
  <2>8. k \in Record(lives) /\ Sound(k) /\ SameLife(r, k)
    BY <2>1, <2>2, DodamageIs DEF Lasting
  <2>9. Lasting(k, c)
    BY <2>2, <2>8 DEF Lasting, SameLife
  <2>10. Hit(w, h, now) = Tell(Put(w, c, k), e)
    <3> DEFINE f == [w.ci EXCEPT ![c] = k]
               g == w.happened \cup {e}
               v == [w EXCEPT !.ci = f]
    <3>1. w \in Worlds
      BY DEF Sane
    <3>2. Hit(w, h, now) = [ci |-> f, happened |-> g]
      BY <1>2 DEF Hit
    <3>3. Put(w, c, k) = v
      BY <3>1 DEF Put, Worlds
    <3> HIDE DEF f
    <3>4. v = [ci |-> f, happened |-> w.happened]
      BY <3>1 DEF Worlds
    <3> HIDE DEF v
    <3>6. v.happened \cup {e} = g
      BY <3>4
    <3> HIDE DEF g, e
    <3>7. Tell(v, e) = [v EXCEPT !.happened = g]
      BY <3>6 DEF Tell
    <3>5. Tell(v, e) = [ci |-> f, happened |-> g]
      BY <3>4, <3>7
    <3> QED
      BY <3>2, <3>3, <3>5
  <2> HIDE DEF k, e, r
  <2>11. Sane(Put(w, c, k)) /\ SameQueues(Put(w, c, k), w)
    <3>1. /\ Sane(Put(w, c, k)) /\ Put(w, c, k).ci[c] = k
          /\ \A d \in Cns : d # c => Put(w, c, k).ci[d] = w.ci[d]
      BY <2>1, <2>8, <2>9, PutIs
    <3>2. k.events = w.ci[c].events /\ k.promised = w.ci[c].promised
      BY <2>8 DEF SameLife, r
    <3> QED
      BY <3>1, <3>2 DEF SameQueues
  <2>12. Sane(Tell(Put(w, c, k), e)) /\ SameQueues(Tell(Put(w, c, k), e), Put(w, c, k))
    BY <2>5, <2>7, <2>11, TellIs
  <2> QED
    BY <2>10, <2>11, <2>12 DEF SameQueues
<1> QED
  BY <1>1, <1>2

\* All hits of an event are.
LEMMA HitsIs ==
  ASSUME IInv, NEW w, Sane(w), NEW hits \in Seq(Blows(lives)), NEW now \in Nat
  PROVE  Sane(Hits(w, hits, now)) /\ SameQueues(Hits(w, hits, now), w)
<1> DEFINE n == Len(hits)
           W == {v \in Worlds : Sane(v) /\ SameQueues(v, w)}
           G == [p \in W \X (1..n) |-> Hit(p[1], hits[p[2]], now)]
           Loop(j) == j = [u \in SUBSET DOMAIN hits |->
                             IF u = {} THEN w ELSE Hit(j[u \ {Max(u)}], hits[Max(u)], now)]
           j == CHOOSE j : Loop(j)
<1>1. n \in Nat /\ DOMAIN hits = 1..n /\ w \in W
  BY DEF Sane, SameQueues
<1>2. ASSUME NEW v \in W, NEW k \in 1..n PROVE Hit(v, hits[k], now) \in W
  <2>1. hits[k] \in Blows(lives)
    BY <1>1
  <2>2. Sane(Hit(v, hits[k], now)) /\ SameQueues(Hit(v, hits[k], now), v)
    BY <2>1, HitIs
  <2> QED
    BY <2>2 DEF SameQueues, Sane
<1>3. Hits(w, hits, now) = j[DOMAIN hits]
  BY DEF Hits, FoldLeft, MapThenFoldSet
<1> HIDE DEF W, n
<1>4. G \in [W \X (1..n) -> W] /\ \A v \in W, k \in 1..n : G[<<v, k>>] = Hit(v, hits[k], now)
  BY <1>2
<1> HIDE DEF G
<1>5. PICK it \in [SUBSET (1..n) -> W] : Folds(it, w, G, n)
  BY <1>1, <1>4, FoldExists
<1>6. Loop(it)
  <2>1. ASSUME NEW u \in SUBSET (1..n), u # {}
        PROVE  it[u] = Hit(it[u \ {Max(u)}], hits[Max(u)], now)
    <3>1. Max(u) \in 1..n /\ it[u \ {Max(u)}] \in W
      BY <1>1, <2>1, MaxIs
    <3> QED
      BY <1>4, <1>5, <2>1, <3>1 DEF Folds
  <2>2. it[{}] = w
    BY <1>5 DEF Folds
  <2>3. it = [u \in SUBSET (1..n) |-> it[u]]
    OBVIOUS
  <2> QED
    BY <1>1, <2>1, <2>2, <2>3
<1>7. Loop(j)
  BY <1>6
<1> HIDE DEF j, Loop
<1>8. Obeys(j, w, G, n, W)
  <2>1. ASSUME NEW u \in SUBSET (1..n), u # {}, j[u \ {Max(u)}] \in W
        PROVE  j[u] = G[<<j[u \ {Max(u)}], Max(u)>>]
    <3>1. Max(u) \in 1..n
      BY <1>1, <2>1, MaxIs
    <3> QED
      BY <1>1, <1>4, <1>7, <2>1, <3>1 DEF Loop
  <2>2. j[{}] = w
    BY <1>1, <1>7 DEF Loop
  <2> QED
    BY <2>1, <2>2 DEF Obeys
<1>9. PICK t \in [0..n -> W] : t[n] = j[1..n] /\ Traces(t, w, G, n)
  BY <1>1, <1>4, <1>8, FoldSteps
<1>10. t[n] \in W /\ Hits(w, hits, now) = t[n]
  BY <1>1, <1>3, <1>9
<1> QED
  BY <1>10 DEF W

\* A shot that counts is of the present life of who is alive.
LEMMA ShoteventIs ==
  ASSUME IInv, NEW w, Sane(w), NEW c \in Cns, NEW e \in Events(lives), e.kind = "shot",
         Ours(e.own, c), NEW now \in Nat
  PROVE  Sane(shotevent(w, c, e, now)) /\ SameQueues(shotevent(w, c, e, now), w)
<1> DEFINE r == w.ci[c]
           h == [kind |-> "shot", own |-> e.own, met |-> r.life, state |-> r.state]
           v == Tell(w, h)
           k == Launched(v.ci[c], e.id)
<1>1. CASE ~ isalive(r, now)
  BY <1>1 DEF shotevent, SameQueues
<1>2. CASE isalive(r, now)
  <2>1. r \in Record(lives) /\ Lasting(r, c)
    BY DEF Sane, Worlds
  <2>2. e.own \in Life
    BY DEF Events
  <2>3. r.life \in Life \cup {NoLife} /\ r.state \in States /\ r.life = ci[c].life
        /\ (r.state = "alive" => r.life # NoLife)
    BY <2>1 DEF Record, Lasting, Sound
  <2>4. h \in Happening
    BY <2>2, <2>3 DEF Happening
  <2>5. Fit(h)
    BY <2>3 DEF Fit, Ours
  <2> HIDE DEF h
  <2>6. Sane(v) /\ SameQueues(v, w) /\ v.ci = w.ci
    BY <2>4, <2>5, TellIs
  <2>7. shotevent(w, c, e, now) = IF e.gun = "launcher" THEN Put(v, c, k) ELSE Hits(v, e.hits, now)
    BY <1>2 DEF shotevent, Tell, Put, h
  <2> HIDE DEF v
  <2>8. CASE e.gun = "launcher"
    <3>1. e.id \in Ids
      BY <2>8 DEF Events
    <3>2. v.ci[c] = r
      BY <2>6
    <3>3. k \in Record(lives) /\ Sound(k) /\ SameLife(r, k)
      BY <2>1, <3>1, <3>2, LaunchedIs DEF Lasting
    <3> HIDE DEF k
    <3>4. Lasting(k, c)
      BY <2>1, <3>3 DEF Lasting, SameLife
    <3>5. /\ Sane(Put(v, c, k)) /\ Put(v, c, k).ci[c] = k
          /\ \A d \in Cns : d # c => Put(v, c, k).ci[d] = v.ci[d]
      BY <2>6, <3>3, <3>4, PutIs
    <3>6. k.events = r.events /\ k.promised = r.promised
      BY <3>3 DEF SameLife
    <3> QED
      BY <2>6, <2>7, <2>8, <3>5, <3>6 DEF SameQueues
  <2>9. CASE e.gun # "launcher"
    <3>1. e.hits \in Seq(Blows(lives))
      BY <2>9 DEF Events
    <3>2. Sane(Hits(v, e.hits, now)) /\ SameQueues(Hits(v, e.hits, now), v)
      BY <2>6, <3>1, HitsIs
    <3> QED
      BY <2>6, <2>7, <2>9, <3>2 DEF SameQueues
  <2> QED
    BY <2>8, <2>9
<1> QED
  BY <1>1, <1>2

\* An explosion takes its projectile away and hits.
LEMMA ExplodeeventIs ==
  ASSUME IInv, NEW w, Sane(w), NEW c \in Cns, NEW e \in Events(lives), e.kind = "explode",
         NEW now \in Nat
  PROVE  Sane(explodeevent(w, c, e, now)) /\ SameQueues(explodeevent(w, c, e, now), w)
<1> DEFINE r == w.ci[c]
           k == Landed(r, e.id)
           v == Put(w, c, k)
           o == OncePerTarget(e.hits)
<1>1. CASE ~ (e.id \in Range(r.projectiles))
  BY <1>1 DEF explodeevent, SameQueues
<1>2. CASE e.id \in Range(r.projectiles)
  <2>1. r \in Record(lives) /\ Lasting(r, c)
    BY DEF Sane, Worlds
  <2>2. e.hits \in Seq(Blows(lives))
    BY DEF Events
  <2>3. o \in Seq(Blows(lives))
    BY <2>2, OnceIs
  <2>4. k \in Record(lives) /\ Sound(k) /\ SameLife(r, k)
    BY <1>2, <2>1, LandedIs DEF Lasting
  <2>5. explodeevent(w, c, e, now) = Hits(v, o, now)
    BY <1>2 DEF explodeevent, Put
  <2> HIDE DEF k, o
  <2>6. Lasting(k, c)
    BY <2>1, <2>4 DEF Lasting, SameLife
  <2>7. /\ Sane(v) /\ v.ci[c] = k
        /\ \A d \in Cns : d # c => v.ci[d] = w.ci[d]
    BY <2>4, <2>6, PutIs
  <2>8. k.events = r.events /\ k.promised = r.promised
    BY <2>4 DEF SameLife
  <2> HIDE DEF v
  <2>9. SameQueues(v, w)
    BY <2>7, <2>8 DEF SameQueues
  <2>10. Sane(Hits(v, o, now)) /\ SameQueues(Hits(v, o, now), v)
    BY <2>3, <2>7, HitsIs
  <2> QED
    BY <2>5, <2>9, <2>10 DEF SameQueues
<1> QED
  BY <1>1, <1>2

\* The queues are as they were and e of c counts no more.
Flushed(v, w, c, e) ==
    /\ \A d \in Cns : v.ci[d].events = w.ci[d].events
    /\ \A d \in Cns : d # c => v.ci[d].promised = w.ci[d].promised
    /\ v.ci[c].promised = w.ci[c].promised - One(e)

\* An event is counted down, whether it is dropped or not.
LEMMA FlushIs ==
  ASSUME IInv, NEW w, Sane(w), NEW c \in Cns, NEW e \in Events(lives),
         e.kind = "shot" => Ours(e.own, c), NEW now \in Nat
  PROVE  Sane(flush(w, c, e, now)) /\ Flushed(flush(w, c, e, now), w, c, e)
<1> DEFINE r == w.ci[c]
<1>1. r \in Record(lives) /\ Lasting(r, c) /\ w \in Worlds
  BY DEF Sane, Worlds
<1>2. r.promised \in Int /\ One(e) \in Int
  BY <1>1 DEF Record, One
<1>3. CASE e.kind = "suicide"
  <2> DEFINE k == suicide(r, now)
  <2>1. k \in Record(lives) /\ Sound(k) /\ SameLife(r, k)
    BY <1>1, SuicideIs DEF Lasting
  <2>2. flush(w, c, e, now) = Put(w, c, k)
    BY <1>3 DEF flush, Put
  <2> HIDE DEF k
  <2>3. Lasting(k, c)
    BY <1>1, <2>1 DEF Lasting, SameLife
  <2>4. /\ Sane(Put(w, c, k)) /\ Put(w, c, k).ci[c] = k
        /\ \A d \in Cns : d # c => Put(w, c, k).ci[d] = w.ci[d]
    BY <2>1, <2>3, PutIs
  <2>5. k.events = r.events /\ k.promised = r.promised - One(e)
    BY <1>2, <1>3, <2>1 DEF SameLife, One
  <2> QED
    BY <2>2, <2>4, <2>5 DEF Flushed
<1>4. CASE e.kind # "suicide"
  <2> DEFINE p == r.promised - One(e)
             k == [r EXCEPT !.promised = p]
             l == [k EXCEPT !.lastevent = e.millis]
             u == Put(w, c, k)
             v == Put(u, c, l)
  <2>1. p \in Int /\ e.millis \in Nat /\ (e.kind = "shot" \/ e.kind = "explode")
    BY <1>2, <1>4 DEF Events
  <2>2. p = IF e.kind = "explode" THEN r.promised - 1 ELSE r.promised
    BY <1>2 DEF One
  <2>3. u = [w EXCEPT !.ci[c].promised = IF e.kind = "explode" THEN @ - 1 ELSE @]
    BY <2>2 DEF Put
  <2> HIDE DEF p
  <2>4. /\ k \in Record(lives) /\ k.promised = p /\ k.events = r.events
        /\ Sound(k) /\ k.life = r.life /\ k.lifesequence = r.lifesequence
    <3>1. k \in Record(lives)
      BY <1>1, <2>1 DEF Record
    <3>2. /\ k.state = r.state /\ k.deaths = r.deaths /\ k.lived = r.lived
          /\ k.projectiles = r.projectiles /\ k.flying = r.flying /\ k.promised = p
          /\ k.events = r.events /\ k.life = r.life /\ k.lifesequence = r.lifesequence
      BY <1>1 DEF Record
    <3> HIDE DEF k
    <3> QED
      BY <1>1, <3>1, <3>2 DEF Lasting, Sound
  <2> HIDE DEF k
  <2>5. /\ l \in Record(lives) /\ l.promised = p /\ l.events = r.events
        /\ Sound(l) /\ l.life = r.life /\ l.lifesequence = r.lifesequence
    <3>1. l \in Record(lives)
      BY <2>1, <2>4 DEF Record
    <3>2. /\ l.state = k.state /\ l.deaths = k.deaths /\ l.lived = k.lived
          /\ l.projectiles = k.projectiles /\ l.flying = k.flying /\ l.promised = k.promised
          /\ l.events = k.events /\ l.life = k.life /\ l.lifesequence = k.lifesequence
      BY <2>4 DEF Record
    <3> HIDE DEF l
    <3> QED
      BY <2>4, <3>1, <3>2 DEF Sound
  <2> HIDE DEF l
  <2>6. Sane(u) /\ u.ci[c] = k /\ \A d \in Cns : d # c => u.ci[d] = w.ci[d]
    <3>1. Lasting(k, c)
      BY <1>1, <2>4 DEF Lasting
    <3> QED
      BY <2>4, <3>1, PutIs
  <2>7. v = [u EXCEPT !.ci[c].lastevent = e.millis]
    BY <2>6 DEF Put, l
  <2>8. flush(w, c, e, now) =
           IF e.millis < r.lastevent THEN u
           ELSE IF e.kind = "shot" THEN shotevent(v, c, e, now) ELSE explodeevent(v, c, e, now)
    BY <1>4, <2>3, <2>7 DEF flush
  <2> HIDE DEF u
  <2>9. Sane(v) /\ v.ci[c] = l /\ \A d \in Cns : d # c => v.ci[d] = u.ci[d]
    <3>1. Lasting(l, c)
      BY <1>1, <2>5 DEF Lasting
    <3> QED
      BY <2>5, <2>6, <3>1, PutIs
  <2> HIDE DEF v
  <2>10. Flushed(u, w, c, e) /\ Flushed(v, w, c, e)
    BY <2>4, <2>5, <2>6, <2>9 DEF Flushed, p
  <2>11. ASSUME NEW x, Sane(x) /\ SameQueues(x, v), flush(w, c, e, now) = x
         PROVE  Sane(flush(w, c, e, now)) /\ Flushed(flush(w, c, e, now), w, c, e)
    BY <2>10, <2>11 DEF SameQueues, Flushed
  <2>12. CASE e.millis < r.lastevent
    BY <2>6, <2>8, <2>10, <2>12
  <2>13. CASE ~ (e.millis < r.lastevent) /\ e.kind = "shot"
    BY <2>8, <2>9, <2>11, <2>13, ShoteventIs
  <2>14. CASE ~ (e.millis < r.lastevent) /\ e.kind = "explode"
    BY <2>8, <2>9, <2>11, <2>14, ExplodeeventIs
  <2> QED
    BY <2>1, <2>12, <2>13, <2>14
<1> QED
  BY <1>3, <1>4

\* The world is sane and the queues are in order.
Whole(w) == Sane(w) /\ \A d \in Cns : RecordOK(w.ci[d]) /\ Aimed(w.ci[d].events, d)

\* The events of c that are due leave its queue, one after the other.
LEMMA FlusheventsIs ==
  ASSUME IInv, NEW w, Whole(w), NEW c \in Cns, NEW millis \in Nat, NEW now \in Nat
  PROVE  Whole(flushevents(w, c, millis, now))
<1> DEFINE q == w.ci[c].events
           n == Due(q, millis)
           s == SubSeq(q, 1, n)
           rest == SubSeq(q, n + 1, Len(q))
           W == {v \in Worlds : Sane(v)}
           G == [p \in W \X (1..n) |-> flush(p[1], c, s[p[2]], now)]
           Loop(j) == j = [u \in SUBSET DOMAIN s |->
                             IF u = {} THEN w ELSE flush(j[u \ {Max(u)}], c, s[Max(u)], now)]
           j == CHOOSE j : Loop(j)
<1>1. /\ Sane(w) /\ w \in Worlds /\ w \in W /\ w.ci[c] \in Record(lives)
      /\ q \in Seq(Events(lives)) /\ Aimed(q, c)
      /\ w.ci[c].promised = Explosions(q) /\ w.ci[c].promised \in Int
  BY DEF Whole, Sane, Worlds, Record, RecordOK
<1>2. n \in 0..Len(q) /\ n \in Nat /\ Len(q) \in Nat /\ n <= Len(q)
  <2>1. n \in 0..Len(q)
    BY <1>1, DueIs
  <2> QED
    BY <1>1, <2>1
<1> HIDE DEF n
<1>3. DOMAIN s = 1..n /\ \A i \in 1..n : s[i] = q[i] /\ i \in 1..Len(q)
  <2>1. q \in Seq(Events(lives))
    BY <1>1
  <2> HIDE DEF q
  <2>2. Len(s) = n /\ \A i \in 1..n : s[i] = q[i]
    BY <1>2, <2>1
  <2>3. DOMAIN s = 1..Len(s)
    BY <1>2, <2>1
  <2> HIDE DEF s
  <2> QED
    BY <1>2, <2>2, <2>3
<1> HIDE DEF s
<1>4. ASSUME NEW v \in W, NEW k \in 1..n
      PROVE  flush(v, c, s[k], now) \in W /\ Flushed(flush(v, c, s[k], now), v, c, q[k])
  <2>1. s[k] = q[k] /\ q[k] \in Events(lives)
    BY <1>1, <1>3
  <2>2. q[k].kind = "shot" => Ours(q[k].own, c)
    BY <1>1, <1>3 DEF Aimed
  <2> HIDE DEF q
  <2>3. Sane(flush(v, c, q[k], now)) /\ Flushed(flush(v, c, q[k], now), v, c, q[k])
    BY <2>1, <2>2, FlushIs
  <2> QED
    BY <2>1, <2>3 DEF Sane
<1>5. flushevents(w, c, millis, now) = [j[DOMAIN s] EXCEPT !.ci[c].events = rest]
  BY DEF flushevents, FoldLeft, MapThenFoldSet, n, s
<1> HIDE DEF W, rest, q
<1>6. G \in [W \X (1..n) -> W] /\ \A v \in W, k \in 1..n : G[<<v, k>>] = flush(v, c, s[k], now)
  BY <1>4
<1> HIDE DEF G
<1>7. PICK it \in [SUBSET (1..n) -> W] : Folds(it, w, G, n)
  BY <1>1, <1>2, <1>6, FoldExists
<1>8. Loop(it)
  <2>1. ASSUME NEW u \in SUBSET (1..n), u # {}
        PROVE  it[u] = flush(it[u \ {Max(u)}], c, s[Max(u)], now)
    <3>1. Max(u) \in 1..n /\ it[u \ {Max(u)}] \in W
      BY <1>2, <2>1, MaxIs
    <3> QED
      BY <1>6, <1>7, <2>1, <3>1 DEF Folds
  <2>2. it[{}] = w
    BY <1>7 DEF Folds
  <2>3. it = [u \in SUBSET (1..n) |-> it[u]]
    OBVIOUS
  <2> QED
    BY <1>3, <2>1, <2>2, <2>3
<1>9. Loop(j)
  BY <1>8
<1> HIDE DEF j, Loop
<1>10. Obeys(j, w, G, n, W)
  <2>1. ASSUME NEW u \in SUBSET (1..n), u # {}, j[u \ {Max(u)}] \in W
        PROVE  j[u] = G[<<j[u \ {Max(u)}], Max(u)>>]
    <3>1. Max(u) \in 1..n
      BY <1>2, <2>1, MaxIs
    <3> QED
      BY <1>3, <1>6, <1>9, <2>1, <3>1 DEF Loop
  <2>2. j[{}] = w
    BY <1>3, <1>9 DEF Loop
  <2> QED
    BY <2>1, <2>2 DEF Obeys
<1>11. PICK t \in [0..n -> W] : t[n] = j[1..n] /\ Traces(t, w, G, n)
  BY <1>1, <1>2, <1>6, <1>10, FoldSteps
<1> DEFINE Kept(k) ==
             /\ \A d \in Cns : t[k].ci[d].events = w.ci[d].events
             /\ \A d \in Cns : d # c => t[k].ci[d].promised = w.ci[d].promised
             /\ t[k].ci[c].promised = Waiting(q, k)
           P == {k \in 0..n : Kept(k)}
<1>12. 0 \in P
  <2>1. Waiting(q, 0) = Explosions(q)
    <3>1. 0 \in 0..Len(q)
      BY <1>1
    <3> QED
      BY <1>1, <3>1, WaitingRest
  <2> QED
    BY <1>1, <1>2, <1>11, <2>1 DEF Traces
<1>13. ASSUME NEW k \in 0..(n - 1), k \in P PROVE k + 1 \in P
  <2> DEFINE m == k + 1
  <2>1. m \in 1..n /\ m \in 0..n /\ m - 1 = k /\ k \in 0..n /\ m \in 1..Len(q)
    BY <1>2
  <2>2. t[m] = flush(t[k], c, s[m], now) /\ t[k] \in W
    <3>1. t[k] \in W
      BY <2>1
    <3> HIDE DEF m
    <3>2. t[m] = G[<<t[m - 1], m>>]
      BY <1>11, <2>1 DEF Traces
    <3> QED
      BY <1>6, <2>1, <3>1, <3>2
  <2>3. Flushed(t[m], t[k], c, q[m])
    BY <1>4, <2>1, <2>2
  <2>4. Waiting(q, k) = Waiting(q, m) + One(q[m]) /\ Waiting(q, m) \in Nat
    BY <1>1, <2>1, WaitingSteps
  <2>5. Kept(k)
    BY <1>13
  <2>6. One(q[m]) \in Int
    BY DEF One
  <2>7. Waiting(q, k) - One(q[m]) = Waiting(q, m)
    BY <2>4, <2>6
  <2> HIDE DEF m
  <2>8. Kept(m)
    BY <2>3, <2>5, <2>7 DEF Flushed
  <2> QED
    BY <2>1, <2>8 DEF m
<1>14. n \in P
  <2> HIDE DEF P
  <2>1. 0..n \subseteq P
    BY <1>2, <1>12, <1>13, Climb
  <2> QED
    BY <1>2, <2>1
<1> DEFINE v == t[n]
           r == v.ci[c]
           x == [r EXCEPT !.events = rest]
<1>15. /\ v \in W /\ flushevents(w, c, millis, now) = [v EXCEPT !.ci[c].events = rest]
       /\ Kept(n)
  BY <1>2, <1>3, <1>5, <1>11, <1>14
<1>16. rest \in Seq(Events(lives)) /\ Explosions(rest) = Waiting(q, n) /\ Aimed(rest, c)
  <2>1. rest \in Seq(Events(lives)) /\ Len(rest) = Len(q) - n
    BY <1>1, <1>2 DEF rest
  <2>2. Explosions(rest) = Waiting(q, n)
    BY <1>1, <1>2, WaitingRest DEF rest
  <2>3. ASSUME NEW i \in 1..Len(rest) PROVE rest[i].kind = "shot" => Ours(rest[i].own, c)
    <3>1. i + n \in 1..Len(q)
      BY <1>1, <1>2, <2>1
    <3>2. rest[i] = q[i + n]
      BY <1>1, <1>2, <2>1 DEF rest
    <3> QED
      BY <1>1, <3>1, <3>2 DEF Aimed
  <2> QED
    BY <2>1, <2>2, <2>3 DEF Aimed
<1>17. r \in Record(lives) /\ Lasting(r, c) /\ Sane(v) /\ v \in Worlds
  BY <1>15 DEF W, Sane, Worlds
<1>18. /\ x \in Record(lives) /\ x.promised = r.promised /\ x.events = rest /\ Lasting(x, c)
  <2>1. x \in Record(lives)
    BY <1>16, <1>17 DEF Record
  <2>2. /\ x.state = r.state /\ x.deaths = r.deaths /\ x.lived = r.lived
        /\ x.projectiles = r.projectiles /\ x.flying = r.flying /\ x.promised = r.promised
        /\ x.events = rest /\ x.life = r.life /\ x.lifesequence = r.lifesequence
    BY <1>17 DEF Record
  <2> HIDE DEF x
  <2> QED
    BY <1>17, <2>1, <2>2 DEF Lasting, Sound
<1>19. [v EXCEPT !.ci[c].events = rest] = Put(v, c, x)
  BY DEF Put
<1> HIDE DEF x, v
<1>20. /\ Sane(Put(v, c, x)) /\ Put(v, c, x).ci[c] = x
       /\ \A d \in Cns : d # c => Put(v, c, x).ci[d] = v.ci[d]
  BY <1>17, <1>18, PutIs
<1> DEFINE y == Put(v, c, x)
<1> HIDE DEF y
<1>21. ASSUME NEW d \in Cns PROVE RecordOK(y.ci[d]) /\ Aimed(y.ci[d].events, d)
  <2>1. CASE d = c
    <3>1. y.ci[c] = x /\ x.promised = Waiting(q, n)
      BY <1>15, <1>18, <1>20 DEF y, v
    <3> QED
      BY <2>1, <3>1, <1>16, <1>18 DEF RecordOK, Lasting
  <2>2. CASE d # c
    <3>1. /\ y.ci[d] = v.ci[d] /\ v.ci[d].events = w.ci[d].events
          /\ v.ci[d].promised = w.ci[d].promised
      BY <1>15, <1>20, <2>2 DEF y, v
    <3>2. Sound(v.ci[d]) /\ RecordOK(w.ci[d]) /\ Aimed(w.ci[d].events, d)
      BY <1>17 DEF Sane, Lasting, Whole
    <3> QED
      BY <3>1, <3>2 DEF RecordOK
  <2> QED
    BY <2>1, <2>2
<1> QED
  BY <1>15, <1>19, <1>20, <1>21 DEF Whole, y

\* The world as a step finds it.
LEMMA WorldIs == IInv => Whole(World)
<1> SUFFICES ASSUME IInv PROVE Whole(World)
  OBVIOUS
<1>1. World \in Worlds /\ World.ci = ci /\ World.happened = {}
  BY DEF IInv, TypeInv, World, Worlds
<1> QED
  BY <1>1 DEF IInv, ShotsOK, Whole, Sane, Lasting, RecordOK

\* The events of all clients that are due leave their queues.
LEMMA ProcesseventsIs ==
  ASSUME IInv, NEW now \in Nat
  PROVE  Whole(processevents(now))
<1> DEFINE n == Len(clients)
           w == World
           W == {v \in Worlds : Whole(v)}
           G == [p \in W \X (1..n) |-> flushevents(p[1], clients[p[2]], now, now)]
           Loop(j) == j = [u \in SUBSET DOMAIN clients |->
                             IF u = {} THEN w
                             ELSE flushevents(j[u \ {Max(u)}], clients[Max(u)], now, now)]
           j == CHOOSE j : Loop(j)
<1>1. n \in Nat /\ DOMAIN clients = 1..n /\ w \in W /\ \A k \in 1..n : clients[k] \in Cns
  BY WorldIs DEF Whole, Sane, IInv, TypeInv
<1>2. ASSUME NEW v \in W, NEW k \in 1..n PROVE flushevents(v, clients[k], now, now) \in W
  BY <1>1, FlusheventsIs DEF Whole, Sane
<1>3. processevents(now) = j[DOMAIN clients]
  BY DEF processevents, FoldLeft, MapThenFoldSet
<1> HIDE DEF W, n, w
<1>4. /\ G \in [W \X (1..n) -> W]
      /\ \A v \in W, k \in 1..n : G[<<v, k>>] = flushevents(v, clients[k], now, now)
  BY <1>2
<1> HIDE DEF G
<1>5. PICK it \in [SUBSET (1..n) -> W] : Folds(it, w, G, n)
  BY <1>1, <1>4, FoldExists
<1>6. Loop(it)
  <2>1. ASSUME NEW u \in SUBSET (1..n), u # {}
        PROVE  it[u] = flushevents(it[u \ {Max(u)}], clients[Max(u)], now, now)
    <3>1. Max(u) \in 1..n /\ it[u \ {Max(u)}] \in W
      BY <1>1, <2>1, MaxIs
    <3> QED
      BY <1>4, <1>5, <2>1, <3>1 DEF Folds
  <2>2. it[{}] = w
    BY <1>5 DEF Folds
  <2>3. it = [u \in SUBSET (1..n) |-> it[u]]
    OBVIOUS
  <2> QED
    BY <1>1, <2>1, <2>2, <2>3
<1>7. Loop(j)
  BY <1>6
<1> HIDE DEF j, Loop
<1>8. Obeys(j, w, G, n, W)
  <2>1. ASSUME NEW u \in SUBSET (1..n), u # {}, j[u \ {Max(u)}] \in W
        PROVE  j[u] = G[<<j[u \ {Max(u)}], Max(u)>>]
    <3>1. Max(u) \in 1..n
      BY <1>1, <2>1, MaxIs
    <3> QED
      BY <1>1, <1>4, <1>7, <2>1, <3>1 DEF Loop
  <2>2. j[{}] = w
    BY <1>1, <1>7 DEF Loop
  <2> QED
    BY <2>1, <2>2 DEF Obeys
<1>9. PICK t \in [0..n -> W] : t[n] = j[1..n] /\ Traces(t, w, G, n)
  BY <1>1, <1>4, <1>8, FoldSteps
<1>10. t[n] \in W /\ processevents(now) = t[n]
  BY <1>1, <1>3, <1>9
<1> QED
  BY <1>10 DEF W

-----------------------------------------------------------------------------
(***************************************************************************)
(* Steps.                                                                  *)
(***************************************************************************)
\* What the runs check of what happened is that it fits.
LEMMA Fits == (\A h \in happened : Fit(h)) <=> HappenedOK
  BY DEF Fit, HappenedOK, SpawnsAnswerTheLast, HitsMeetTheirLife, ShotsOfThisLife

\* A step in which nobody gets a new life, and some may leave.
Onward ==
    /\ UNCHANGED <<who, match, lives>> /\ gamemillis' \in Nat
    /\ clients' \in Seq(Cns) /\ Connected' \subseteq Connected
    /\ ci' \in [Cns -> Record(lives)] /\ happened' \in SUBSET Happening
    /\ plays' \in [Cns -> Life \cup {NoLife}] /\ answers' \in [Cns -> Seq(Life)]
    /\ \A c \in Cns :
          /\ RecordOK(ci'[c])
          /\ \/ ci'[c].life = ci[c].life /\ Aimed(ci'[c].events, c)
             \/ c \notin Connected' /\ ci'[c].events = <<>>
          /\ plays'[c] = NoLife \/ (plays'[c] = plays[c] /\ c \in Connected')
          /\ answers'[c] = <<>> \/ (answers'[c] = answers[c] /\ c \in Connected')
    /\ \A h \in happened' : Fit(h)

\* A step in which nobody gets a new life keeps the invariant.
LEMMA OnwardKeeps == IInv /\ Onward => IInv'
<1> SUFFICES ASSUME IInv, Onward PROVE IInv'
  OBVIOUS
<1>1. TypeInv'
  BY DEF IInv, TypeInv, Onward
<1>2. (\A c \in Cns : RecordOK(ci[c]))'
  BY DEF Onward
<1>3. ASSUME NEW c \in Connected' PROVE c \in Cns /\ c \in Connected /\ ci'[c].life = ci[c].life
  <2>1. Connected \subseteq Cns
    BY DEF IInv, TypeInv, Connected, Range
  <2> QED
    BY <1>3, <2>1 DEF Onward
<1>4. LivesOK'
  BY <1>3 DEF IInv, LivesOK, Onward
<1>5. HeardOK'
  BY <1>3 DEF IInv, HeardOK, Onward
<1>6. AnswersOK'
  <2>1. ASSUME NEW c \in Cns
        PROVE  /\ c \in Connected' \/ answers'[c] = <<>>
               /\ answers'[c] = <<>> \/ (answers'[c] = answers[c] /\ ci'[c].life = ci[c].life)
    BY <1>3 DEF Onward
  <2>2. ASSUME NEW c \in Cns, NEW i \in 1..Len(answers'[c])
        PROVE  /\ answers'[c] = answers[c] /\ ci'[c].life = ci[c].life /\ i \in 1..Len(answers[c])
               /\ who' = who /\ match' = match /\ lives' = lives
    <3>1. answers'[c] # <<>>
      BY <2>2
    <3> QED
      BY <2>1, <2>2, <3>1 DEF Onward
  <2>3. ASSUME NEW c \in Cns, NEW i \in 1..Len(answers'[c])
        PROVE  /\ answers'[c][i].cn = c /\ answers'[c][i].who = who'[c]
               /\ answers'[c][i].match <= match' /\ answers'[c][i] \notin lives'
               /\ Precedes(answers'[c][i], ci'[c].life)
               /\ \A j \in 1..(i - 1) : answers'[c][j].n < answers'[c][i].n
    BY <2>2 DEF IInv, AnswersOK
  <2> QED
    BY <2>1, <2>3 DEF AnswersOK
<1>7. ASSUME NEW own, NEW c \in Cns, Ours(own, c), ci'[c].life = ci[c].life PROVE Ours(own, c)'
  BY <1>7 DEF Ours, Onward
<1>8. PlaysOK'
  <2>1. ASSUME NEW c \in Cns, plays'[c] # NoLife PROVE c \in Connected' /\ Ours(plays[c], c)'
    <3>1. c \in Connected' /\ plays'[c] = plays[c] /\ Ours(plays[c], c)
      BY <2>1 DEF Onward, IInv, PlaysOK
    <3> QED
      BY <1>3, <1>7, <3>1
  <2> QED
    BY <2>1 DEF PlaysOK
<1>9. ShotsOK'
  <2>1. ASSUME NEW c \in Cns PROVE Aimed(ci[c].events, c)'
    <3>1. CASE ci'[c].life = ci[c].life /\ Aimed(ci'[c].events, c)
      BY <1>7, <3>1 DEF Aimed
    <3>2. CASE ci'[c].events = <<>>
      BY <3>2 DEF Aimed
    <3> QED
      BY <3>1, <3>2 DEF Onward
  <2> QED
    BY <2>1 DEF ShotsOK
<1>10. HappenedOK'
  <2>1. (\A h \in happened : Fit(h))'
    BY DEF Onward, Fit
  <2> QED
    BY <2>1, Fits, PTL
<1> QED
  BY <1>1, <1>2, <1>4, <1>5, <1>6, <1>8, <1>9, <1>10 DEF IInv

\* Nobody comes or goes.
LEMMA Stays ==
  ASSUME IInv, UNCHANGED <<clients, who, match, plays, answers, lives>>, happened' = {},
         gamemillis' \in Nat, ci' \in [Cns -> Record(lives)],
         \A c \in Cns : RecordOK(ci'[c]) /\ ci'[c].life = ci[c].life /\ Aimed(ci'[c].events, c)
  PROVE  IInv'
<1>1. clients' \in Seq(Cns) /\ Connected' = Connected
  BY DEF IInv, TypeInv, Connected
<1>2. plays' \in [Cns -> Life \cup {NoLife}] /\ answers' \in [Cns -> Seq(Life)]
  BY DEF IInv, TypeInv
<1>3. ASSUME NEW c \in Cns
      PROVE  /\ plays'[c] = NoLife \/ (plays'[c] = plays[c] /\ c \in Connected')
             /\ answers'[c] = <<>> \/ (answers'[c] = answers[c] /\ c \in Connected')
  BY <1>1 DEF IInv, PlaysOK, AnswersOK
<1>4. Onward
  BY <1>1, <1>2, <1>3 DEF Onward
<1> QED
  BY <1>4, OnwardKeeps

\* One client's state changes.
LEMMA OneChanges ==
  ASSUME IInv, UNCHANGED <<clients, gamemillis, who, match, plays, answers, lives>>, happened' = {},
         NEW c \in Cns, NEW r \in Record(lives), ci' = [ci EXCEPT ![c] = r],
         RecordOK(r), r.life = ci[c].life, Aimed(r.events, c)
  PROVE  IInv'
<1>1. ci \in [Cns -> Record(lives)] /\ gamemillis' \in Nat
  BY DEF IInv, TypeInv
<1>2. ci' \in [Cns -> Record(lives)] /\ ci'[c] = r /\ \A d \in Cns : d # c => ci'[d] = ci[d]
  BY <1>1
<1>3. ASSUME NEW d \in Cns
      PROVE  RecordOK(ci'[d]) /\ ci'[d].life = ci[d].life /\ Aimed(ci'[d].events, d)
  BY <1>2 DEF IInv, ShotsOK
<1> QED
  BY <1>1, <1>2, <1>3, Stays

\* An event that arrives waits in the queue of its sender.
LEMMA ArriveKeeps ==
  ASSUME IInv, NEW c \in Cns, NEW e \in Events(lives), e.kind = "shot" => Ours(e.own, c),
         Arrive(c, e)
  PROVE  IInv'
<1> DEFINE r == ci[c]
           k == Queued(r, e)
<1>1. r \in Record(lives) /\ RecordOK(r) /\ Aimed(r.events, c) /\ r.events \in Seq(Events(lives))
  BY DEF IInv, TypeInv, ShotsOK, Record
<1>2. /\ k \in Record(lives) /\ RecordOK(k) /\ k.life = r.life
      /\ k.events = r.events \/ k.events = Append(r.events, e)
  BY <1>1, QueuedIs
<1>3. Aimed(Append(r.events, e), c)
  BY <1>1 DEF Aimed
<1>4. /\ UNCHANGED <<clients, gamemillis, who, match, plays, answers, lives>> /\ happened' = {}
      /\ ci' = [ci EXCEPT ![c] = k]
  BY DEF Arrive
<1> HIDE DEF k
<1> QED
  BY <1>1, <1>2, <1>3, <1>4, OneChanges

\* Messages aim at lives the clients have heard of.
LEMMA AllHitsAre == AllHits \subseteq Seq(Blows(lives))
<1>1. ASSUME NEW hits \in AllHits PROVE hits \in Seq(Blows(lives))
  <2>1. PICK m \in 0..MaxHits : hits \in [1..m -> Blows(lives)]
    BY DEF AllHits, BoundedSeq, SeqOf, Blows
  <2>2. m \in Nat
    BY CombatAssumption
  <2> QED
    BY <2>1, <2>2
<1> QED
  BY <1>1

\* N_SHOOT: the shot is of the life its sender plays.
LEMMA ShootKeeps == ASSUME IInv, NEW c \in Cns, Shoot(c) PROVE IInv'
<1> DEFINE own == plays[c]
<1>1. own \in Life /\ Ours(own, c)
  BY DEF Shoot, IInv, TypeInv, PlaysOK
<1>2. ASSUME NEW millis \in Stamps, NEW hits \in AllHits,
             Arrive(c, [kind |-> "shot", gun |-> "gun", millis |-> millis,
                        hits |-> hits, own |-> own])
      PROVE  IInv'
  <2> DEFINE e == [kind |-> "shot", gun |-> "gun", millis |-> millis, hits |-> hits, own |-> own]
  <2>1. millis \in Nat /\ hits \in Seq(Blows(lives))
    BY AllHitsAre DEF Stamps
  <2>2. e \in Events(lives) /\ e.own = own
    BY <1>1, <2>1 DEF Events
  <2> HIDE DEF e
  <2>3. Arrive(c, e)
    BY <1>2 DEF e
  <2> HIDE DEF own
  <2> QED
    BY <1>1, <2>2, <2>3, ArriveKeeps
<1>3. ASSUME NEW millis \in Stamps, NEW id \in Ids,
             Arrive(c, [kind |-> "shot", gun |-> "launcher", millis |-> millis,
                        id |-> id, own |-> own])
      PROVE  IInv'
  <2> DEFINE e == [kind |-> "shot", gun |-> "launcher", millis |-> millis, id |-> id, own |-> own]
  <2>1. millis \in Nat
    BY DEF Stamps
  <2>2. e \in Events(lives) /\ e.own = own
    BY <1>1, <2>1 DEF Events
  <2> HIDE DEF e
  <2>3. Arrive(c, e)
    BY <1>3 DEF e
  <2> HIDE DEF own
  <2> QED
    BY <1>1, <2>2, <2>3, ArriveKeeps
<1> QED
  BY <1>2, <1>3 DEF Shoot

\* N_EXPLODE: one explosion more is promised if there is room for it.
LEMMA ExplodeKeeps == ASSUME IInv, NEW c \in Cns, Explode(c) PROVE IInv'
<1>1. PICK millis \in Stamps, id \in Ids, hits \in AllHits :
         Arrive(c, [kind |-> "explode", millis |-> millis, id |-> id, hits |-> hits])
  BY DEF Explode
<1> DEFINE e == [kind |-> "explode", millis |-> millis, id |-> id, hits |-> hits]
<1>2. millis \in Nat /\ hits \in Seq(Blows(lives))
  BY AllHitsAre DEF Stamps
<1>3. e \in Events(lives) /\ e.kind # "shot"
  BY <1>2 DEF Events
<1> HIDE DEF e
<1>4. Arrive(c, e)
  BY <1>1 DEF e
<1> QED
  BY <1>3, <1>4, ArriveKeeps

\* N_SUICIDE waits in the queue like the shots.
LEMMA SuicideKeeps == ASSUME IInv, NEW c \in Cns, Suicide(c) PROVE IInv'
<1> DEFINE e == [kind |-> "suicide"]
<1>1. e \in Events(lives) /\ e.kind # "shot" /\ Arrive(c, e)
  BY DEF Events, Suicide
<1> HIDE DEF e
<1> QED
  BY <1>1, ArriveKeeps

\* The state of a client is altered, but not its life and its queue.
LEMMA AlterKeeps ==
  ASSUME IInv, NEW c \in Cns, NEW r \in Record(lives), Sound(r), SameLife(ci[c], r), Alter(c, r)
  PROVE  IInv'
<1>1. RecordOK(ci[c]) /\ Aimed(ci[c].events, c)
  BY DEF IInv, ShotsOK
<1>2. RecordOK(r) /\ r.life = ci[c].life /\ Aimed(r.events, c)
  BY <1>1 DEF RecordOK, SameLife
<1>3. /\ UNCHANGED <<clients, gamemillis, who, match, plays, answers, lives>> /\ happened' = {}
      /\ ci' = [ci EXCEPT ![c] = r]
  BY DEF Alter
<1> QED
  BY <1>2, <1>3, OneChanges

\* Who is made dead or a spectator is not alive.
LEMMA StateIs ==
  ASSUME NEW L, NEW r \in Record(L), Sound(r), NEW s \in {"dead", "spectator"}
  PROVE  LET k == [r EXCEPT !.state = s]
         IN  k \in Record(L) /\ Sound(k) /\ SameLife(r, k)
<1> DEFINE k == [r EXCEPT !.state = s]
<1>1. k \in Record(L)
  BY DEF Record, States
<1>2. /\ k.state = s /\ k.deaths = r.deaths /\ k.lived = r.lived
      /\ k.projectiles = r.projectiles /\ k.flying = r.flying /\ k.promised = r.promised
      /\ k.events = r.events /\ k.life = r.life /\ k.lifesequence = r.lifesequence
  BY DEF Record
<1>3. r.deaths \in Int /\ r.lived \in Int
  BY DEF Record
<1>4. r.deaths + 0 <= r.lived
  BY <1>3 DEF Sound
<1> HIDE DEF k
<1>5. Sound(k) /\ SameLife(r, k)
  BY <1>2, <1>4 DEF Sound, SameLife
<1> QED
  BY <1>1, <1>5 DEF k

\* A change of team kills who is alive.
LEMMA ChangeTeamKeeps == ASSUME IInv, NEW c \in Cns, ChangeTeam(c) PROVE IInv'
<1> DEFINE r == suicide(ci[c], gamemillis)
<1>1. ci[c] \in Record(lives) /\ Sound(ci[c]) /\ gamemillis \in Nat
  BY DEF IInv, TypeInv, RecordOK
<1>2. r \in Record(lives) /\ Sound(r) /\ SameLife(ci[c], r)
  BY <1>1, SuicideIs
<1>3. Alter(c, r)
  BY DEF ChangeTeam
<1> HIDE DEF r
<1> QED
  BY <1>2, <1>3, AlterKeeps

\* A spectator is not alive, whether it was killed or not.
LEMMA SpectateKeeps == ASSUME IInv, NEW c \in Cns, Spectate(c) PROVE IInv'
<1> DEFINE b == ci[c]
           s == "spectator"
           k == suicide(b, gamemillis)
           r == [k EXCEPT !.state = s]
           f == [b EXCEPT !.state = s]
<1>1. b \in Record(lives) /\ Sound(b) /\ gamemillis \in Nat /\ s \in {"dead", "spectator"}
  BY DEF IInv, TypeInv, RecordOK
<1>2. k \in Record(lives) /\ Sound(k) /\ SameLife(b, k)
  BY <1>1, SuicideIs
<1>3. Alter(c, r) \/ Alter(c, f)
  BY DEF Spectate
<1> HIDE DEF k, s
<1>4. r \in Record(lives) /\ Sound(r) /\ SameLife(k, r)
  BY <1>1, <1>2, StateIs
<1>5. f \in Record(lives) /\ Sound(f) /\ SameLife(b, f)
  BY <1>1, StateIs
<1> HIDE DEF r, f
<1>6. SameLife(b, r)
  BY <1>2, <1>4 DEF SameLife
<1> QED
  BY <1>3, <1>4, <1>5, <1>6, AlterKeeps

\* Who plays again is dead at first.
LEMMA unspectateKeeps == ASSUME IInv, NEW c \in Cns, unspectate(c) PROVE IInv'
<1> DEFINE b == ci[c]
           s == "dead"
           k == respawn(b)
           r == [k EXCEPT !.state = s]
<1>1. b \in Record(lives) /\ Sound(b) /\ s \in {"dead", "spectator"}
  BY DEF IInv, TypeInv, RecordOK
<1>2. k \in Record(lives) /\ Sound(k) /\ SameLife(b, k)
  BY <1>1, RespawnIs
<1>3. Alter(c, r)
  BY DEF unspectate
<1> HIDE DEF k, s
<1>4. r \in Record(lives) /\ Sound(r) /\ SameLife(k, r)
  BY <1>1, <1>2, StateIs
<1> HIDE DEF r
<1>5. SameLife(b, r)
  BY <1>2, <1>4 DEF SameLife
<1> QED
  BY <1>3, <1>4, <1>5, AlterKeeps

\* A kick that waits changes nothing yet.
LEMMA SuspectRunKeeps == ASSUME IInv, NEW c \in Cns, SuspectRun(c) PROVE IInv'
<1>1. UNCHANGED <<clients, ci, gamemillis, who, match, plays, answers, lives>> /\ happened' = {}
  BY DEF SuspectRun
<1>2. /\ gamemillis' \in Nat /\ ci' \in [Cns -> Record(lives)]
      /\ \A d \in Cns : RecordOK(ci'[d]) /\ ci'[d].life = ci[d].life /\ Aimed(ci'[d].events, d)
  BY <1>1 DEF IInv, TypeInv, ShotsOK
<1> QED
  BY <1>1, <1>2, Stays

\* Neither does the end of the game.
LEMMA IntermissionKeeps == ASSUME IInv, Intermission PROVE IInv'
<1>1. /\ UNCHANGED <<clients, ci, who, match, plays, answers, lives>> /\ happened' = {}
      /\ gamemillis' = GameLimit
  BY DEF Intermission
<1>2. /\ gamemillis' \in Nat /\ ci' \in [Cns -> Record(lives)]
      /\ \A d \in Cns : RecordOK(ci'[d]) /\ ci'[d].life = ci[d].life /\ Aimed(ci'[d].events, d)
  BY <1>1, Constants DEF IInv, TypeInv, ShotsOK
<1> QED
  BY <1>1, <1>2, Stays

\* The clients of S leave, and what was on its way to them with them.
LEMMA GoneIs ==
  ASSUME IInv, NEW S, Gone(S)
  PROVE  /\ clients' \in Seq(Cns) /\ Connected' = Connected \ S
         /\ plays' \in [Cns -> Life \cup {NoLife}] /\ answers' \in [Cns -> Seq(Life)]
         /\ \A c \in Cns :
               /\ plays'[c] = NoLife \/ (plays'[c] = plays[c] /\ c \in Connected')
               /\ answers'[c] = <<>> \/ (answers'[c] = answers[c] /\ c \in Connected')
<1>1. clients \in Seq(Cns) /\ Connected \subseteq Cns
  BY DEF IInv, TypeInv, Connected, Range
<1>2. clients' \in Seq(Cns) /\ Connected' = (Cns \ S) \cap Connected
  BY <1>1, OnlyMembers DEF Gone, Connected
<1>3. Connected' = Connected \ S
  BY <1>1, <1>2
<1>4. /\ plays' = [c \in Cns |-> IF c \in S THEN NoLife ELSE plays[c]]
      /\ answers' = [c \in Cns |-> IF c \in S THEN <<>> ELSE answers[c]]
  BY DEF Gone
<1>5. plays' \in [Cns -> Life \cup {NoLife}]
  BY <1>4 DEF IInv, TypeInv
<1>6. answers' \in [Cns -> Seq(Life)]
  BY <1>4 DEF IInv, TypeInv
<1>7. ASSUME NEW c \in Cns
      PROVE  /\ plays'[c] = NoLife \/ (plays'[c] = plays[c] /\ c \in Connected')
             /\ answers'[c] = <<>> \/ (answers'[c] = answers[c] /\ c \in Connected')
  <2>1. /\ c \in Connected \/ plays[c] = NoLife
        /\ c \in Connected \/ answers[c] = <<>>
    BY DEF IInv, PlaysOK, AnswersOK
  <2> QED
    BY <1>3, <1>4, <2>1
<1> QED
  BY <1>2, <1>3, <1>5, <1>6, <1>7

\* Nothing is known any more of who left.
LEMMA ForgottenIs ==
  ASSUME NEW f \in [Cns -> Record(lives)], NEW S, \A d \in Cns : RecordOK(f[d])
  PROVE  /\ Forgotten(f, S) \in [Cns -> Record(lives)]
         /\ \A d \in Cns :
               /\ RecordOK(Forgotten(f, S)[d])
               /\ d \in S => Forgotten(f, S)[d].events = <<>>
               /\ d \notin S => Forgotten(f, S)[d] = f[d]
<1> DEFINE z == Fresh(0)
<1>1. z \in Record(lives) /\ RecordOK(z) /\ z.events = <<>>
  BY FreshIs
<1>2. Forgotten(f, S) = [c \in Cns |-> IF c \in S THEN z ELSE f[c]]
  BY DEF Forgotten
<1> HIDE DEF z
<1> QED
  BY <1>1, <1>2

\* Nothing is left of who disconnects.
LEMMA clientdisconnectKeeps == ASSUME IInv, NEW c \in Cns, clientdisconnect(c) PROVE IInv'
<1> DEFINE S == {c}
<1>1. Gone(S) /\ ci' = Forgotten(ci, S) /\ happened' = {}
      /\ UNCHANGED <<gamemillis, who, match, lives>>
  BY DEF clientdisconnect
<1>2. ci \in [Cns -> Record(lives)] /\ gamemillis \in Nat
      /\ \A d \in Cns : RecordOK(ci[d]) /\ Aimed(ci[d].events, d)
  BY DEF IInv, TypeInv, ShotsOK
<1> HIDE DEF S
<1>3. /\ ci' \in [Cns -> Record(lives)]
      /\ \A d \in Cns :
            /\ RecordOK(ci'[d])
            /\ d \in S => ci'[d].events = <<>>
            /\ d \notin S => ci'[d] = ci[d]
  BY <1>1, <1>2, ForgottenIs
<1>4. /\ clients' \in Seq(Cns) /\ Connected' = Connected \ S
      /\ plays' \in [Cns -> Life \cup {NoLife}] /\ answers' \in [Cns -> Seq(Life)]
      /\ \A d \in Cns :
            /\ plays'[d] = NoLife \/ (plays'[d] = plays[d] /\ d \in Connected')
            /\ answers'[d] = <<>> \/ (answers'[d] = answers[d] /\ d \in Connected')
  BY <1>1, GoneIs
<1>5. Onward
  BY <1>1, <1>2, <1>3, <1>4 DEF Onward
<1> QED
  BY <1>5, OnwardKeeps

\* serverupdate handles the events that are due, then the kicks.
LEMMA serverupdateKeeps == ASSUME IInv, serverupdate PROVE IInv'
<1> DEFINE S == Range(kick_queue) \cap Connected
<1>1. PICK now \in Nat : now = gamemillis'
  <2>1. PICK curtime \in 0..1 : gamemillis' = gamemillis + curtime
    BY DEF serverupdate
  <2>2. gamemillis \in Nat
    BY DEF IInv, TypeInv
  <2> QED
    BY <2>1, <2>2
<1> DEFINE w == processevents(now)
<1>2. /\ Gone(S) /\ ci' = Forgotten(w.ci, S) /\ happened' = w.happened
      /\ UNCHANGED <<who, match, lives>> /\ gamemillis' \in Nat
  BY <1>1 DEF serverupdate
<1>3. Whole(w)
  BY ProcesseventsIs
<1> HIDE DEF w, S
<1>4. /\ w.ci \in [Cns -> Record(lives)] /\ w.happened \in SUBSET Happening
      /\ \A h \in w.happened : Fit(h)
      /\ \A d \in Cns :
            RecordOK(w.ci[d]) /\ w.ci[d].life = ci[d].life /\ Aimed(w.ci[d].events, d)
  BY <1>3 DEF Whole, Sane, Worlds, Lasting
<1>5. /\ ci' \in [Cns -> Record(lives)]
      /\ \A d \in Cns :
            /\ RecordOK(ci'[d])
            /\ d \in S => ci'[d].events = <<>>
            /\ d \notin S => ci'[d] = w.ci[d]
  <2> DEFINE f == w.ci
  <2>1. f \in [Cns -> Record(lives)] /\ \A d \in Cns : RecordOK(f[d])
    BY <1>4
  <2>2. ci' = Forgotten(f, S)
    BY <1>2
  <2> HIDE DEF f
  <2>3. /\ ci' \in [Cns -> Record(lives)]
        /\ \A d \in Cns :
              /\ RecordOK(ci'[d])
              /\ d \in S => ci'[d].events = <<>>
              /\ d \notin S => ci'[d] = f[d]
    BY <2>1, <2>2, ForgottenIs
  <2> QED
    BY <2>3 DEF f
<1>6. /\ clients' \in Seq(Cns) /\ Connected' = Connected \ S
      /\ plays' \in [Cns -> Life \cup {NoLife}] /\ answers' \in [Cns -> Seq(Life)]
      /\ \A d \in Cns :
            /\ plays'[d] = NoLife \/ (plays'[d] = plays[d] /\ d \in Connected')
            /\ answers'[d] = <<>> \/ (answers'[d] = answers[d] /\ d \in Connected')
  BY <1>2, GoneIs
<1>7. ASSUME NEW d \in Cns
      PROVE  \/ ci'[d].life = ci[d].life /\ Aimed(ci'[d].events, d)
             \/ d \notin Connected' /\ ci'[d].events = <<>>
  BY <1>4, <1>5, <1>6
<1>8. Onward
  BY <1>2, <1>4, <1>5, <1>6, <1>7 DEF Onward
<1> QED
  BY <1>8, OnwardKeeps

-----------------------------------------------------------------------------
(***************************************************************************)
(* New lives.                                                              *)
(***************************************************************************)
\* What precedes a life precedes the next one.
LEMMA NextFollows ==
  ASSUME NEW l \in Life, NEW m \in Life, Precedes(l, m), m.n < MaxSpawns,
         NEW c, NEW w, NEW mt
  PROVE  /\ Precedes(l, NextLife(m, m.seq, c, w, mt)) /\ l.n < NextLife(m, m.seq, c, w, mt).n
         /\ l # NextLife(m, m.seq, c, w, mt)
<1> DEFINE s == m.seq
           z == (s + 1) % LifeSequences
           x == NextLife(m, s, c, w, mt)
           d == m.n - l.n
<1>1. /\ l.n \in Nat \ {0} /\ m.n \in Nat \ {0} /\ l.seq \in 0..(LifeSequences - 1)
      /\ s \in 0..(LifeSequences - 1)
      /\ MaxSpawns \in Nat /\ LifeSequences \in Nat \ {0} /\ MaxSpawns < LifeSequences
  BY Constants DEF Life
<1>2. x.n = m.n + 1 /\ x.seq = z
  BY DEF NextLife
<1>3. z = IF s = LifeSequences - 1 THEN 0 ELSE s + 1
  BY <1>1
<1>4. l.n <= m.n /\ (l.seq + d = s \/ l.seq + d = s + LifeSequences)
  BY DEF Precedes
<1>5. x # NoLife
  BY <1>1, <1>2 DEF NoLife, NextLife
<1> HIDE DEF s, z, x
<1>6. l.n < x.n /\ l.n # x.n /\ x.n - l.n = d + 1
  BY <1>1, <1>2, <1>4
<1>7. l.seq + (d + 1) = x.seq \/ l.seq + (d + 1) = x.seq + LifeSequences
  <2>1. d \in Nat /\ d < LifeSequences - 1
    BY <1>1, <1>4
  <2> HIDE DEF d
  <2> QED
    BY <1>1, <1>2, <1>3, <1>4, <2>1
<1>8. l.n <= x.n
  BY <1>1, <1>2, <1>4
<1>9. Precedes(l, x)
  BY <1>5, <1>6, <1>7, <1>8 DEF Precedes
<1> QED
  BY <1>6, <1>9 DEF x, s

\* A step in which the clients of S get new lives.
Reborn(S) ==
    /\ UNCHANGED <<clients, who, lives>> /\ gamemillis' \in Nat
    /\ match' \in Nat /\ match <= match' /\ S \subseteq Connected
    /\ ci' \in [Cns -> Record(lives)] /\ happened' \in SUBSET Happening
    /\ plays' \in [Cns -> Life \cup {NoLife}] /\ answers' \in [Cns -> Seq(Life)]
    /\ \A c \in Cns : RecordOK(ci'[c]) /\ (plays'[c] = NoLife \/ plays'[c] = plays[c])
    /\ \A c \in Cns \ S :
          ci'[c].life = ci[c].life /\ answers'[c] = answers[c] /\ Aimed(ci'[c].events, c)
    /\ \A c \in S :
          /\ ci[c].life.n < MaxSpawns
          /\ ci'[c].life = NextLife(ci[c].life, ci[c].lifesequence, c, who[c], match')
          /\ ci'[c].life \in Life
          /\ answers'[c] = Append(answers[c], ci'[c].life)
          /\ \A i \in 1..Len(ci'[c].events) : ci'[c].events[i].kind = "explode"
          /\ plays'[c] = NoLife \/ match < match'
    /\ \A h \in happened' : Fit(h)

\* So does one in which some do: whatever precedes their lives precedes the new ones.
LEMMA RebornKeeps == ASSUME IInv, NEW S, Reborn(S) PROVE IInv'
<1>1. TypeInv'
  BY DEF IInv, TypeInv, Reborn
<1>2. (\A c \in Cns : RecordOK(ci[c]))'
  BY DEF Reborn
<1>3. /\ Connected' = Connected /\ Connected \subseteq Cns /\ S \subseteq Connected
      /\ who' = who /\ lives' = lives
  BY DEF IInv, TypeInv, Connected, Range, Reborn
<1>4. match \in Nat /\ match' \in Nat /\ match <= match' /\ MaxSpawns \in Nat
  BY Constants DEF IInv, TypeInv, Reborn
<1>5. ASSUME NEW c \in S
      PROVE  /\ ci'[c].life \in Life /\ ci'[c].life # NoLife
             /\ ci'[c].life.cn = c /\ ci'[c].life.who = who[c] /\ ci'[c].life.match = match'
             /\ ci'[c].life.n <= MaxSpawns
  <2>1. c \in Cns /\ ci[c] \in Record(lives)
    BY <1>3 DEF IInv, TypeInv
  <2>7. ci[c].life \in Life \cup {NoLife}
    BY <2>1 DEF Record
  <2>2. ci[c].life.n \in Nat /\ ci[c].life.n < MaxSpawns
    BY <2>7 DEF Life, NoLife, Reborn
  <2> DEFINE l == ci'[c].life
  <2>3. l \in Life /\ l = NextLife(ci[c].life, ci[c].lifesequence, c, who[c], match')
    BY DEF Reborn
  <2> HIDE DEF l
  <2>4. /\ l.cn = c /\ l.who = who[c] /\ l.match = match' /\ l.n = ci[c].life.n + 1
        /\ l.seq = (ci[c].lifesequence + 1) % LifeSequences
    BY <2>3 DEF NextLife
  <2>5. l # NoLife
    <3>1. DOMAIN l # DOMAIN NoLife
      BY <2>3 DEF Life, NoLife
    <3> QED
      BY <3>1
  <2>6. l.n <= MaxSpawns
    BY <1>4, <2>2, <2>4
  <2> QED
    BY <2>3, <2>4, <2>5, <2>6 DEF l
<1>6. ASSUME NEW c \in S, NEW l \in Life, Precedes(l, ci[c].life)
      PROVE  Precedes(l, ci'[c].life) /\ l.n < ci'[c].life.n /\ l # ci'[c].life
  <2>1. c \in Cns /\ ci[c] \in Record(lives) /\ Sound(ci[c])
    BY <1>3 DEF IInv, TypeInv, RecordOK
  <2>2. ci[c].life \in Life /\ ci[c].life.seq = ci[c].lifesequence
    BY <1>6, <2>1 DEF Record, Precedes, Sound
  <2>3. ci[c].life.n < MaxSpawns
    BY DEF Reborn
  <2>4. ci'[c].life = NextLife(ci[c].life, ci[c].life.seq, c, who[c], match')
    BY <2>2 DEF Reborn
  <2> QED
    BY <1>6, <2>2, <2>3, <2>4, NextFollows
<1>7. LivesOK'
  <2>1. ASSUME NEW c \in Connected', ci'[c].life # NoLife
        PROVE  /\ ci'[c].life.cn = c /\ ci'[c].life.who = who'[c]
               /\ ci'[c].life.match <= match' /\ ci'[c].life.n <= MaxSpawns
    <3>1. CASE c \in S
      BY <1>3, <1>4, <1>5, <3>1
    <3>2. CASE c \notin S
      <4>1. ci'[c].life = ci[c].life /\ c \in Connected /\ c \in Cns
        BY <1>3, <3>2 DEF Reborn
      <4>2. ci[c].life.match \in Nat
        BY <2>1, <4>1 DEF IInv, TypeInv, Record, Life
      <4> QED
        BY <1>3, <1>4, <2>1, <4>1, <4>2 DEF IInv, LivesOK
    <3> QED
      BY <3>1, <3>2
  <2> QED
    BY <2>1 DEF LivesOK
<1>8. HeardOK'
  <2>1. ASSUME NEW l \in lives
        PROVE  /\ l.who <= who[l.cn] /\ l.match <= match'
               /\ l.cn \in Connected /\ l.who = who[l.cn] => Precedes(l, ci'[l.cn].life)
    <3>1. /\ l.who <= who[l.cn] /\ l.match <= match /\ l.match \in Nat /\ l \in Life
          /\ l.cn \in Connected /\ l.who = who[l.cn] => Precedes(l, ci[l.cn].life)
      BY DEF IInv, TypeInv, HeardOK, Life
    <3>2. l.match <= match'
      BY <1>4, <3>1
    <3>3. ASSUME l.cn \in Connected, l.who = who[l.cn] PROVE Precedes(l, ci'[l.cn].life)
      <4>1. CASE l.cn \in S
        BY <1>6, <3>1, <3>3, <4>1
      <4>2. CASE l.cn \notin S
        BY <1>3, <3>1, <3>3, <4>2 DEF Reborn
      <4> QED
        BY <4>1, <4>2
    <3> QED
      BY <3>1, <3>2, <3>3
  <2> QED
    BY <1>3, <2>1 DEF HeardOK
<1>9. AnswersOK'
  <2>1. ASSUME NEW c \in Cns, NEW i \in 1..Len(answers[c])
        PROVE  /\ answers[c][i].cn = c /\ answers[c][i].who = who[c] /\ answers[c][i].match <= match'
               /\ answers[c][i] \notin lives /\ Precedes(answers[c][i], ci[c].life)
               /\ Precedes(answers[c][i], ci'[c].life)
               /\ c \in S => answers[c][i].n < ci'[c].life.n
               /\ \A j \in 1..(i - 1) : answers[c][j].n < answers[c][i].n
    <3> DEFINE a == answers[c][i]
    <3>1. a \in Life
      BY DEF IInv, TypeInv
    <3>2. /\ a.cn = c /\ a.who = who[c] /\ a.match <= match
          /\ a \notin lives /\ Precedes(a, ci[c].life)
          /\ \A j \in 1..(i - 1) : answers[c][j].n < a.n
      BY DEF IInv, AnswersOK
    <3> HIDE DEF a
    <3>3. a.match <= match'
      BY <1>4, <3>1, <3>2 DEF Life
    <3>4. Precedes(a, ci'[c].life) /\ (c \in S => a.n < ci'[c].life.n)
      <4>1. CASE c \in S
        BY <1>6, <3>1, <3>2, <4>1
      <4>2. CASE c \notin S
        BY <3>2, <4>2 DEF Reborn
      <4> QED
        BY <4>1, <4>2
    <3> QED
      BY <3>2, <3>3, <3>4 DEF a
  <2>2. ASSUME NEW c \in Cns, NEW i \in 1..Len(answers'[c])
        PROVE  /\ answers'[c][i].cn = c /\ answers'[c][i].who = who[c]
               /\ answers'[c][i].match <= match'
               /\ answers'[c][i] \notin lives /\ Precedes(answers'[c][i], ci'[c].life)
               /\ \A j \in 1..(i - 1) : answers'[c][j].n < answers'[c][i].n
    <3>1. CASE c \notin S
      <4>1. answers'[c] = answers[c]
        BY <3>1 DEF Reborn
      <4> QED
        BY <2>1, <4>1
    <3>2. CASE c \in S
      <4> DEFINE q == answers[c]
                 l == ci'[c].life
      <4>1. q \in Seq(Life) /\ answers'[c] = Append(q, l) /\ l \in Life
        BY <1>5, <3>2 DEF IInv, TypeInv, Reborn
      <4>2. Len(q) \in Nat /\ Len(answers'[c]) = Len(q) + 1
            /\ answers'[c][Len(q) + 1] = l /\ \A j \in 1..Len(q) : answers'[c][j] = q[j]
        BY <4>1
      <4>3. l.cn = c /\ l.who = who[c] /\ l.match = match'
        BY <1>5, <3>2
      <4>4. l \notin lives
        <5> SUFFICES ASSUME l \in lives PROVE FALSE
          OBVIOUS
        <5>1. Precedes(l, ci[c].life)
          BY <1>3, <3>2, <4>3 DEF IInv, HeardOK
        <5> QED
          BY <1>6, <3>2, <4>1, <5>1
      <4>5. Precedes(l, l)
        <5>1. l.seq \in Int /\ l.n \in Int /\ l # NoLife
          BY <1>5, <3>2, <4>1 DEF Life
        <5> HIDE DEF l
        <5> QED
          BY <5>1 DEF Precedes
      <4>6. CASE i = Len(q) + 1
        <5>1. i - 1 = Len(q)
          BY <4>2, <4>6
        <5>2. \A j \in 1..Len(q) : q[j].n < l.n
          BY <2>1, <3>2
        <5>3. match' <= match'
          BY <1>4
        <5> HIDE DEF q, l
        <5> QED
          BY <4>2, <4>3, <4>4, <4>5, <4>6, <5>1, <5>2, <5>3 DEF l
      <4>7. CASE i # Len(q) + 1
        <5>1. i \in 1..Len(q) /\ \A j \in 1..(i - 1) : j \in 1..Len(q)
          BY <4>2, <4>7
        <5>2. /\ q[i].cn = c /\ q[i].who = who[c] /\ q[i].match <= match'
              /\ q[i] \notin lives /\ Precedes(q[i], ci'[c].life)
              /\ \A j \in 1..(i - 1) : q[j].n < q[i].n
          BY <2>1, <5>1
        <5> HIDE DEF q, l
        <5> QED
          BY <4>2, <5>1, <5>2
      <4> QED
        BY <4>6, <4>7
    <3> QED
      BY <3>1, <3>2
  <2>3. ASSUME NEW c \in Cns PROVE c \in Connected' \/ answers'[c] = <<>>
    BY <1>3 DEF IInv, AnswersOK, Reborn
  <2> QED
    BY <1>3, <2>2, <2>3 DEF AnswersOK
<1>10. ASSUME NEW own \in Life, NEW c \in Cns \ S, Ours(own, c) PROVE Ours(own, c)'
  <2>1. ci'[c].life = ci[c].life /\ own.match \in Nat
    BY DEF Reborn, Life
  <2> QED
    BY <1>3, <1>4, <1>10, <2>1 DEF Ours
<1>11. PlaysOK'
  <2>1. ASSUME NEW c \in Cns, plays'[c] # NoLife PROVE c \in Connected' /\ Ours(plays[c], c)'
    <3> DEFINE own == plays[c]
    <3>1. plays'[c] = own /\ c \in Connected /\ Ours(own, c) /\ own \in Life
      BY <2>1 DEF Reborn, IInv, TypeInv, PlaysOK
    <3>2. CASE c \notin S
      BY <1>3, <1>10, <3>1, <3>2
    <3>3. CASE c \in S
      <4>1. match < match' /\ ci'[c].life.match = match' /\ own.match \in Nat /\ own.match <= match
            /\ own.cn = c
        BY <1>5, <2>1, <3>1, <3>3 DEF Reborn, Life, Ours
      <4> HIDE DEF own
      <4>2. own.match <= match' /\ own.match # ci'[c].life.match
        BY <1>4, <4>1
      <4> QED
        BY <1>3, <3>1, <4>1, <4>2 DEF Ours
    <3> QED
      BY <3>2, <3>3
  <2> QED
    BY <2>1 DEF PlaysOK
<1>12. ShotsOK'
  <2>1. ASSUME NEW c \in Cns, NEW i \in 1..Len(ci'[c].events), ci'[c].events[i].kind = "shot"
        PROVE  Ours(ci[c].events[i].own, c)'
    <3>1. c \notin S
      BY <2>1 DEF Reborn
    <3>2. Ours(ci'[c].events[i].own, c)
      BY <2>1, <3>1 DEF Reborn, Aimed
    <3> DEFINE e == ci'[c].events[i]
    <3>3. e \in Events(lives)
      BY DEF Reborn, Record
    <3>4. e.kind = "shot"
      BY <2>1
    <3> HIDE DEF e
    <3>5. e.own \in Life
      BY <3>3, <3>4 DEF Events
    <3> QED
      BY <1>10, <3>1, <3>2, <3>5 DEF e
  <2> QED
    BY <2>1 DEF ShotsOK, Aimed
<1>13. HappenedOK'
  <2>1. (\A h \in happened : Fit(h))'
    BY DEF Reborn, Fit
  <2> QED
    BY <2>1, Fits, PTL
<1> QED
  BY <1>1, <1>2, <1>7, <1>8, <1>9, <1>11, <1>12, <1>13 DEF IInv

\* The first life of a new occupant is no life anybody has heard of.
LEMMA ConnectKeeps == ASSUME IInv, NEW c \in Cns, Connect(c) PROVE IInv'
<1>1. /\ c \notin Connected /\ clients' = Append(clients, c) /\ who' = [who EXCEPT ![c] = @ + 1]
      /\ happened' = {} /\ UNCHANGED <<gamemillis, match, plays, lives>>
  BY DEF Connect
<1>2. PICK seq \in Memory, locked \in BOOLEAN :
         LET r == IF locked THEN [Fresh(seq) EXCEPT !.state = "spectator"]
                            ELSE sendspawn(Fresh(seq), c, who'[c], match)
         IN  /\ ci' = [ci EXCEPT ![c] = r]
             /\ answers' = [answers EXCEPT ![c] = IF locked THEN <<>> ELSE <<r.life>>]
  BY DEF Connect
<1> DEFINE f == Fresh(seq)
           none == <<>>
           spectator == [f EXCEPT !.state = "spectator"]
           w == who[c] + 1
           r == IF locked THEN spectator ELSE sendspawn(f, c, w, match)
           q == IF locked THEN none ELSE <<r.life>>
<1>3. /\ clients \in Seq(Cns) /\ ci \in [Cns -> Record(lives)] /\ gamemillis \in Nat
      /\ who \in [Cns -> Nat] /\ match \in Nat
      /\ plays \in [Cns -> Life \cup {NoLife}] /\ answers \in [Cns -> Seq(Life)]
      /\ lives \in SUBSET Life
  BY DEF IInv, TypeInv
<1>4. w \in Nat /\ who'[c] = w /\ who' \in [Cns -> Nat] /\ \A d \in Cns : d # c => who'[d] = who[d]
  BY <1>1, <1>3
<1>5. ci' = [ci EXCEPT ![c] = r] /\ answers' = [answers EXCEPT ![c] = q]
  BY <1>2, <1>4
<1>6. f \in Record(lives) /\ RecordOK(f) /\ f.life = NoLife /\ f.events = none /\ f.state = "dead"
  BY FreshIs, CombatAssumption
<1> HIDE DEF f, none, w
<1>7. /\ r \in Record(lives) /\ RecordOK(r) /\ r.events = none
      /\ locked => r.life = NoLife
      /\ ~ locked => /\ r.life \in Life /\ r.life.cn = c /\ r.life.who = w
                     /\ r.life.match = match /\ r.life.n = 1
  <2>1. CASE locked
    <3>1. r = spectator
      BY <2>1
    <3>2. spectator \in Record(lives) /\ Sound(spectator) /\ SameLife(f, spectator)
      BY <1>6, StateIs DEF RecordOK
    <3> HIDE DEF r, spectator
    <3> QED
      BY <1>6, <2>1, <3>1, <3>2 DEF RecordOK, SameLife
  <2>2. CASE ~ locked
    <3> DEFINE l == NextLife(f.life, f.lifesequence, c, w, match)
    <3>1. r = sendspawn(f, c, w, match)
      BY <2>2
    <3> HIDE DEF r
    <3>4. f.state # "alive" /\ f \in Record(lives) /\ RecordOK(f) /\ w \in Nat /\ match \in Nat
      BY <1>3, <1>4, <1>6
    <3>2. r \in Record(lives) /\ RecordOK(r) /\ r.events = f.events /\ r.life = l /\ l \in Life
      BY <3>1, <3>4, SendspawnIs
    <3>3. l.cn = c /\ l.who = w /\ l.match = match /\ l.n = 1
      BY <1>6 DEF NextLife, NoLife
    <3> QED
      BY <1>6, <2>2, <3>2, <3>3
  <2> QED
    BY <2>1, <2>2
<1>8. q \in Seq(Life)
  BY <1>7 DEF none
<1> HIDE DEF r
<1>9. /\ ci' \in [Cns -> Record(lives)] /\ ci'[c] = r /\ \A d \in Cns : d # c => ci'[d] = ci[d]
      /\ answers' \in [Cns -> Seq(Life)] /\ answers'[c] = q
      /\ \A d \in Cns : d # c => answers'[d] = answers[d]
  BY <1>3, <1>5, <1>7, <1>8
<1>10. clients' \in Seq(Cns) /\ Connected' = Connected \cup {c} /\ Connected \subseteq Cns
  <2> DEFINE s == clients
             a == Append(s, c)
             n == Len(s)
  <2>1. s \in Seq(Cns) /\ clients' = a
    BY <1>1, <1>3
  <2> HIDE DEF s
  <2>2. /\ n \in Nat /\ DOMAIN s = 1..n /\ DOMAIN a = (1..n) \cup {n + 1} /\ a \in Seq(Cns)
        /\ a[n + 1] = c /\ \A i \in 1..n : a[i] = s[i] /\ s[i] \in Cns
    BY <2>1
  <2> HIDE DEF a, n
  <2>3. Range(a) = Range(s) \cup {c} /\ Range(s) \subseteq Cns
    BY <2>2 DEF Range
  <2>4. Connected' = Range(a) /\ Connected = Range(s)
    BY <2>1 DEF Connected, s
  <2> QED
    BY <2>1, <2>2, <2>3, <2>4
<1>11. TypeInv'
  BY <1>1, <1>3, <1>4, <1>9, <1>10 DEF TypeInv
<1>12. (\A d \in Cns : RecordOK(ci[d]))'
  BY <1>7, <1>9 DEF IInv
<1>13. r.life # NoLife <=> ~ locked
  <2>1. r.life.n = 1 => r.life # NoLife
    BY DEF NoLife
  <2> QED
    BY <1>7, <2>1
<1>14. ASSUME NEW l \in lives, l.cn = c PROVE l.who # w /\ l.who <= w
  <2>1. l.who <= who[c] /\ l.who \in Nat /\ who[c] \in Nat /\ w = who[c] + 1
    BY <1>3, <1>14 DEF IInv, HeardOK, Life, w
  <2> QED
    BY <2>1
<1>15. LivesOK'
  <2>1. ASSUME NEW d \in Connected', ci'[d].life # NoLife
        PROVE  /\ ci'[d].life.cn = d /\ ci'[d].life.who = who'[d]
               /\ ci'[d].life.match <= match' /\ ci'[d].life.n <= MaxSpawns
    <3>1. CASE d = c
      <4>1. match <= match /\ 1 <= MaxSpawns
        BY <1>3, Constants
      <4>2. ~ locked
        BY <1>9, <1>13, <2>1, <3>1
      <4> QED
        BY <1>1, <1>4, <1>7, <1>9, <3>1, <4>1, <4>2
    <3>2. CASE d # c
      BY <1>1, <1>4, <1>9, <1>10, <2>1, <3>2 DEF IInv, LivesOK
    <3> QED
      BY <3>1, <3>2
  <2> QED
    BY <2>1 DEF LivesOK
<1>16. HeardOK'
  <2>1. ASSUME NEW l \in lives
        PROVE  /\ l.who <= who'[l.cn] /\ l.match <= match'
               /\ l.cn \in Connected' /\ l.who = who'[l.cn] => Precedes(l, ci'[l.cn].life)
    <3>1. /\ l.who <= who[l.cn] /\ l.match <= match /\ l \in Life /\ l.cn \in Cns
          /\ l.cn \in Connected /\ l.who = who[l.cn] => Precedes(l, ci[l.cn].life)
      BY <1>3 DEF IInv, HeardOK, Life
    <3>2. CASE l.cn = c
      BY <1>1, <1>4, <1>14, <3>1, <3>2
    <3>3. CASE l.cn # c
      BY <1>1, <1>4, <1>9, <1>10, <3>1, <3>3
    <3> QED
      BY <3>2, <3>3
  <2> QED
    BY <1>1, <2>1 DEF HeardOK
<1>17. AnswersOK'
  <2>1. ASSUME NEW d \in Cns, NEW i \in 1..Len(answers'[d])
        PROVE  /\ d \in Connected'
               /\ answers'[d][i].cn = d /\ answers'[d][i].who = who'[d]
               /\ answers'[d][i].match <= match'
               /\ answers'[d][i] \notin lives' /\ Precedes(answers'[d][i], ci'[d].life)
               /\ \A j \in 1..(i - 1) : answers'[d][j].n < answers'[d][i].n
    <3>1. CASE d = c
      <4>1. ~ locked
        BY <1>9, <2>1, <3>1 DEF none
      <4> DEFINE l == r.life
      <4>7. answers'[d] = <<l>> /\ ci'[d].life = l
        BY <1>9, <3>1, <4>1
      <4>8. i = 1
        BY <2>1, <4>7
      <4>2. answers'[d] = <<l>> /\ i = 1 /\ ci'[d].life = l /\ 1..(i - 1) = {}
        BY <4>7, <4>8
      <4>3. /\ l \in Life /\ l.cn = d /\ l.who = who'[d] /\ l.match = match' /\ match' <= match'
            /\ l # NoLife
        BY <1>1, <1>3, <1>4, <1>7, <1>13, <3>1, <4>1
      <4>4. l \notin lives
        BY <1>4, <1>14, <3>1, <4>3
      <4> HIDE DEF l
      <4>5. l.seq \in Int /\ l.n \in Int
        BY <4>3 DEF Life
      <4>6. Precedes(l, l)
        BY <4>3, <4>5 DEF Precedes
      <4> QED
        BY <1>1, <1>10, <3>1, <4>2, <4>3, <4>4, <4>6
    <3>2. CASE d # c
      <4>1. answers'[d] = answers[d] /\ ci'[d] = ci[d] /\ who'[d] = who[d]
        BY <1>4, <1>9, <3>2
      <4>2. d \in Connected
        <5>1. answers[d] # <<>>
          BY <2>1, <4>1
        <5> QED
          BY <5>1 DEF IInv, AnswersOK
      <4> QED
        BY <1>1, <1>10, <2>1, <4>1, <4>2 DEF IInv, AnswersOK
    <3> QED
      BY <3>1, <3>2
  <2>2. ASSUME NEW d \in Cns PROVE d \in Connected' \/ answers'[d] = <<>>
    <3>1. CASE d = c
      BY <1>10, <3>1
    <3>2. CASE d # c
      BY <1>9, <1>10, <3>2 DEF IInv, AnswersOK
    <3> QED
      BY <3>1, <3>2
  <2> QED
    BY <2>1, <2>2 DEF AnswersOK
<1>18. ASSUME NEW own, NEW d \in Cns, d # c, Ours(own, d) PROVE Ours(own, d)'
  BY <1>1, <1>9, <1>18 DEF Ours
<1>19. PlaysOK'
  <2>1. ASSUME NEW d \in Cns, plays'[d] # NoLife PROVE d \in Connected' /\ Ours(plays[d], d)'
    <3>1. d \in Connected /\ Ours(plays[d], d) /\ plays' = plays /\ d # c
      BY <1>1, <2>1 DEF IInv, PlaysOK
    <3> QED
      BY <1>10, <1>18, <3>1
  <2> QED
    BY <2>1 DEF PlaysOK
<1>20. ShotsOK'
  <2>1. ASSUME NEW d \in Cns PROVE Aimed(ci[d].events, d)'
    <3>1. CASE d = c
      <4>1. ci'[d].events = <<>>
        BY <1>7, <1>9, <3>1 DEF none
      <4> QED
        BY <4>1 DEF Aimed
    <3>2. CASE d # c
      <4>1. ci'[d] = ci[d] /\ Aimed(ci[d].events, d)
        BY <1>9, <3>2 DEF IInv, ShotsOK
      <4> QED
        BY <1>18, <3>2, <4>1 DEF Aimed
    <3> QED
      BY <3>1, <3>2
  <2> QED
    BY <2>1 DEF ShotsOK
<1>21. HappenedOK'
  BY <1>1 DEF HappenedOK, SpawnsAnswerTheLast, HitsMeetTheirLife, ShotsOfThisLife
<1> QED
  BY <1>11, <1>12, <1>15, <1>16, <1>17, <1>19, <1>20, <1>21 DEF IInv

\* N_TRYSPAWN handles what was shot before the death, clears the queue and begins
\* the next life.
LEMMA TrySpawnKeeps == ASSUME IInv, NEW c \in Cns, TrySpawn(c) PROVE IInv'
<1> DEFINE b == ci[c]
<1>1. /\ c \in Connected /\ plays' = [plays EXCEPT ![c] = NoLife]
      /\ UNCHANGED <<clients, gamemillis, who, match, lives>>
  BY DEF TrySpawn
<1>2. /\ clients \in Seq(Cns) /\ ci \in [Cns -> Record(lives)] /\ gamemillis \in Nat
      /\ who \in [Cns -> Nat] /\ match \in Nat
      /\ plays \in [Cns -> Life \cup {NoLife}] /\ answers \in [Cns -> Seq(Life)]
  BY DEF IInv, TypeInv
<1>3. plays' \in [Cns -> Life \cup {NoLife}] /\ plays'[c] = NoLife
      /\ \A d \in Cns : plays'[d] = NoLife \/ plays'[d] = plays[d]
  <2>1. plays' \in [Cns -> Life \cup {NoLife}] /\ plays'[c] = NoLife
    BY <1>1, <1>2
  <2>2. \A d \in Cns : d # c => plays'[d] = plays[d]
    BY <1>1, <1>2
  <2> QED
    BY <2>1, <2>2
<1>4. CASE b.state # "dead" \/ b.lastspawn
  <2>1. happened' = {} /\ UNCHANGED <<ci, answers>>
    BY <1>4 DEF TrySpawn
  <2>2. ASSUME NEW d \in Cns
        PROVE  /\ RecordOK(ci'[d]) /\ ci'[d].life = ci[d].life /\ Aimed(ci'[d].events, d)
               /\ answers'[d] = <<>> \/ (answers'[d] = answers[d] /\ d \in Connected')
               /\ plays'[d] = NoLife \/ (plays'[d] = plays[d] /\ d \in Connected')
    <3>1. /\ ci'[d] = ci[d] /\ answers'[d] = answers[d] /\ Connected' = Connected
          /\ d \in Connected \/ answers[d] = <<>>
          /\ d \in Connected \/ plays[d] = NoLife
          /\ RecordOK(ci[d]) /\ Aimed(ci[d].events, d)
      BY <1>1, <2>1 DEF IInv, ShotsOK, PlaysOK, AnswersOK, Connected
    <3> QED
      BY <1>3, <3>1
  <2>3. Onward
    BY <1>1, <1>2, <1>3, <2>1, <2>2 DEF Onward, Connected
  <2> QED
    BY <2>3, OnwardKeeps
<1>5. CASE ~ (b.state # "dead" \/ b.lastspawn)
  <2> DEFINE killed == b.deadflush > 0
             w == IF killed THEN flushevents(World, c, b.deadflush, gamemillis) ELSE World
             p == w.ci[c]
             r == IF killed THEN respawn(p) ELSE p
             k == cleartimedevents(r)
             s == sendspawn(k, c, who[c], match)
             S == {c}
  <2>1. /\ b.life.n < MaxSpawns /\ ci' = [w.ci EXCEPT ![c] = s] /\ happened' = w.happened
        /\ answers' = [answers EXCEPT ![c] = Append(@, s.life)]
    BY <1>5, Zenon DEF TrySpawn
  <2>2. Whole(w)
    <3>1. b.deadflush \in Nat
      BY <1>2 DEF Record
    <3>2. Whole(World)
      BY WorldIs
    <3> QED
      BY <1>2, <3>1, <3>2, FlusheventsIs
  <2> HIDE DEF w, killed
  <2>3. /\ w.ci \in [Cns -> Record(lives)] /\ w.happened \in SUBSET Happening
        /\ \A h \in w.happened : Fit(h)
        /\ \A d \in Cns : /\ RecordOK(w.ci[d]) /\ w.ci[d].life = ci[d].life
                          /\ w.ci[d].lifesequence = ci[d].lifesequence
                          /\ Aimed(w.ci[d].events, d)
    BY <2>2 DEF Whole, Sane, Worlds, Lasting
  <2>4. p \in Record(lives) /\ RecordOK(p) /\ p.life = b.life /\ p.lifesequence = b.lifesequence
    BY <2>3
  <2> HIDE DEF p
  <2>5. r \in Record(lives) /\ RecordOK(r) /\ r.life = b.life /\ r.lifesequence = b.lifesequence
    <3>1. CASE killed
      <4>1. r = respawn(p)
        BY <3>1
      <4> HIDE DEF r
      <4> QED
        BY <2>4, <4>1, RespawnIs DEF RecordOK, SameLife
    <3>2. CASE ~ killed
      BY <2>4, <3>2
    <3> QED
      BY <3>1, <3>2
  <2> HIDE DEF r
  <2>6. /\ k \in Record(lives) /\ RecordOK(k) /\ k.life = b.life
        /\ k.lifesequence = b.lifesequence
        /\ \A i \in 1..Len(k.events) : k.events[i].kind = "explode"
    BY <2>5, ClearedIs
  <2> HIDE DEF k
  <2>7. /\ s \in Record(lives) /\ RecordOK(s) /\ s.events = k.events
        /\ s.life = NextLife(b.life, b.lifesequence, c, who[c], match) /\ s.life \in Life
    <3>1. k \in Record(lives) /\ RecordOK(k) /\ who[c] \in Nat /\ match \in Nat
      BY <1>2, <2>6
    <3> DEFINE l == NextLife(k.life, k.lifesequence, c, who[c], match)
    <3>2. /\ s \in Record(lives) /\ RecordOK(s) /\ s.events = k.events /\ s.life = l /\ l \in Life
      BY <3>1, SendspawnIs
    <3> QED
      BY <2>6, <3>2
  <2> HIDE DEF s
  <2>8. /\ ci' \in [Cns -> Record(lives)] /\ ci'[c] = s /\ \A d \in Cns : d # c => ci'[d] = w.ci[d]
        /\ answers' \in [Cns -> Seq(Life)] /\ answers'[c] = Append(answers[c], s.life)
        /\ \A d \in Cns : d # c => answers'[d] = answers[d]
    <3>1. Append(answers[c], s.life) \in Seq(Life)
      BY <1>2, <2>7
    <3> QED
      BY <1>2, <2>1, <2>3, <2>7, <3>1
  <2>9. ASSUME NEW d \in Cns \ S
        PROVE  ci'[d].life = ci[d].life /\ answers'[d] = answers[d] /\ Aimed(ci'[d].events, d)
    BY <2>3, <2>8
  <2>10. ASSUME NEW d \in Cns PROVE RecordOK(ci'[d])
    BY <2>3, <2>7, <2>8
  <2>11. match <= match' /\ match' \in Nat /\ gamemillis' \in Nat /\ S \subseteq Connected
    BY <1>1, <1>2
  <2>12. ASSUME NEW d \in S
         PROVE  /\ ci[d].life.n < MaxSpawns
                /\ ci'[d].life = NextLife(ci[d].life, ci[d].lifesequence, d, who[d], match')
                /\ ci'[d].life \in Life
                /\ answers'[d] = Append(answers[d], ci'[d].life)
                /\ \A i \in 1..Len(ci'[d].events) : ci'[d].events[i].kind = "explode"
                /\ plays'[d] = NoLife
    BY <1>1, <1>3, <2>1, <2>6, <2>7, <2>8
  <2>14. happened' \in SUBSET Happening /\ \A h \in happened' : Fit(h)
    BY <2>1, <2>3
  <2> HIDE DEF S
  <2>13. Reborn(S)
    BY <1>1, <1>3, <2>8, <2>9, <2>10, <2>11, <2>12, <2>14 DEF Reborn
  <2> QED
    BY <2>13, RebornKeeps
<1> QED
  BY <1>4, <1>5

\* A new match begins new lives for all players, with empty queues.
LEMMA changemapKeeps == ASSUME IInv, changemap PROVE IInv'
<1> DEFINE mt == match + 1
           m == [c \in Cns |-> mapchange(ci[c])]
           s == [c \in Cns |-> IF m[c].state = "spectator" THEN m[c]
                               ELSE sendspawn(m[c], c, who[c], mt)]
           S == {c \in Connected : m[c].state # "spectator"}
<1>1. /\ match' = mt /\ gamemillis' = 0 /\ happened' = {} /\ UNCHANGED <<clients, who, plays, lives>>
      /\ \A c \in Connected : ci[c].life.n < MaxSpawns
  BY DEF changemap
<1>2. /\ clients \in Seq(Cns) /\ ci \in [Cns -> Record(lives)]
      /\ who \in [Cns -> Nat] /\ match \in Nat
      /\ plays \in [Cns -> Life \cup {NoLife}] /\ answers \in [Cns -> Seq(Life)]
  BY DEF IInv, TypeInv
<1>3. mt \in Nat /\ match < mt /\ match <= mt
  BY <1>2
<1>4. Connected \subseteq Cns
  BY <1>2 DEF Connected, Range
<1>5. /\ ci' = [c \in Cns |-> IF c \notin Connected THEN ci[c] ELSE s[c]]
      /\ answers' = [c \in Cns |-> IF c \in Connected /\ ci'[c].state # "spectator"
                                     THEN Append(answers[c], ci'[c].life) ELSE answers[c]]
  BY <1>1 DEF changemap
<1>6. ASSUME NEW c \in Cns
      PROVE  /\ m[c] \in Record(lives) /\ RecordOK(m[c]) /\ m[c].life = ci[c].life
             /\ m[c].lifesequence = ci[c].lifesequence /\ m[c].events = <<>>
             /\ m[c].state # "alive"
  <2> DEFINE r == ci[c]
             k == mapchange(r)
  <2>1. r \in Record(lives) /\ RecordOK(r)
    BY <1>2 DEF IInv
  <2>2. m[c] = k
    OBVIOUS
  <2> HIDE DEF m
  <2>3. /\ k \in Record(lives) /\ RecordOK(k) /\ k.life = r.life
        /\ k.lifesequence = r.lifesequence /\ k.events = <<>> /\ k.state # "alive"
    BY <2>1, MapchangeIs
  <2> QED
    BY <2>2, <2>3
<1> HIDE DEF m, mt
<1>7. ASSUME NEW c \in Cns
      PROVE  /\ s[c] \in Record(lives) /\ RecordOK(s[c]) /\ s[c].events = <<>>
             /\ s[c].state = m[c].state
             /\ m[c].state = "spectator" => s[c].life = ci[c].life
             /\ m[c].state # "spectator" =>
                   /\ s[c].life = NextLife(ci[c].life, ci[c].lifesequence, c, who[c], mt)
                   /\ s[c].life \in Life
  <2> DEFINE r == m[c]
             k == sendspawn(r, c, who[c], mt)
  <2>1. /\ r \in Record(lives) /\ RecordOK(r) /\ r.life = ci[c].life
        /\ r.lifesequence = ci[c].lifesequence /\ r.events = <<>> /\ r.state # "alive"
        /\ who[c] \in Nat /\ mt \in Nat
    BY <1>2, <1>3, <1>6
  <2>2. s[c] = IF r.state = "spectator" THEN r ELSE k
    OBVIOUS
  <2> HIDE DEF s, r
  <2>3. /\ k \in Record(lives) /\ RecordOK(k) /\ k.events = r.events /\ k.state = r.state
        /\ k.life = NextLife(r.life, r.lifesequence, c, who[c], mt)
        /\ NextLife(r.life, r.lifesequence, c, who[c], mt) \in Life
    <3> DEFINE o == who[c]
    <3>1. r \in Record(lives) /\ RecordOK(r) /\ o \in Nat /\ mt \in Nat
      BY <2>1
    <3> HIDE DEF o, k
    <3>2. k = sendspawn(r, c, o, mt)
      BY DEF k, o
    <3>3. /\ k \in Record(lives) /\ RecordOK(k) /\ k.events = r.events /\ k.state = r.state
          /\ k.life = NextLife(r.life, r.lifesequence, c, o, mt)
          /\ NextLife(r.life, r.lifesequence, c, o, mt) \in Life
      BY <3>1, <3>2, SendspawnIs
    <3> QED
      BY <3>3 DEF o
  <2> HIDE DEF k
  <2>4. CASE r.state = "spectator"
    BY <2>1, <2>2, <2>4 DEF r
  <2>5. CASE r.state # "spectator"
    BY <2>1, <2>2, <2>3, <2>5 DEF r
  <2> QED
    BY <2>4, <2>5
<1> HIDE DEF s
<1>8. /\ \A c \in Cns : c \in Connected => ci'[c] = s[c]
      /\ \A c \in Cns : c \notin Connected => ci'[c] = ci[c]
  BY <1>5
<1>9. ci' \in [Cns -> Record(lives)]
  <2>1. \A c \in Cns : (IF c \notin Connected THEN ci[c] ELSE s[c]) \in Record(lives)
    BY <1>2, <1>7
  <2> QED
    BY <1>5, <2>1
<1>10. ASSUME NEW c \in Cns PROVE RecordOK(ci'[c])
  BY <1>7, <1>8 DEF IInv
<1>11. ASSUME NEW c \in S
       PROVE  /\ c \in Cns /\ c \in Connected
              /\ ci'[c].life = NextLife(ci[c].life, ci[c].lifesequence, c, who[c], match')
              /\ ci'[c].life \in Life
              /\ answers'[c] = Append(answers[c], ci'[c].life)
              /\ ci'[c].events = <<>>
  <2>1. c \in Cns /\ c \in Connected /\ m[c].state # "spectator"
    BY <1>4
  <2>2. ci'[c] = s[c] /\ s[c].state # "spectator"
    BY <1>7, <1>8, <2>1
  <2>3. answers'[c] = Append(answers[c], ci'[c].life)
    BY <1>5, <2>1, <2>2
  <2> QED
    BY <1>1, <1>7, <2>1, <2>2, <2>3
<1>12. ASSUME NEW c \in Cns \ S
       PROVE  ci'[c].life = ci[c].life /\ answers'[c] = answers[c] /\ Aimed(ci'[c].events, c)
  <2>1. CASE c \in Connected
    <3>1. m[c].state = "spectator" /\ ci'[c] = s[c]
      BY <1>8, <2>1
    <3>2. s[c].state = "spectator" /\ s[c].life = ci[c].life /\ s[c].events = <<>>
      BY <1>7, <3>1
    <3>3. answers'[c] = answers[c]
      BY <1>5, <3>1, <3>2
    <3> QED
      BY <3>1, <3>2, <3>3 DEF Aimed
  <2>2. CASE c \notin Connected
    BY <1>5, <1>8, <2>2 DEF IInv, ShotsOK
  <2> QED
    BY <2>1, <2>2
<1>13. answers' \in [Cns -> Seq(Life)]
  <2> DEFINE f == [c \in Cns |-> IF c \in Connected /\ ci'[c].state # "spectator"
                                   THEN Append(answers[c], ci'[c].life) ELSE answers[c]]
  <2>1. ASSUME NEW c \in Cns PROVE answers'[c] \in Seq(Life)
    <3>1. CASE c \in S
      <4> DEFINE q == answers[c]
                 l == ci'[c].life
      <4>1. l \in Life /\ answers'[c] = Append(q, l) /\ q \in Seq(Life)
        BY <1>2, <1>11, <3>1
      <4> HIDE DEF q, l
      <4> QED
        BY <4>1
    <3>2. CASE c \notin S
      BY <1>2, <1>12, <3>2
    <3> QED
      BY <3>1, <3>2
  <2>2. answers' = [c \in Cns |-> answers'[c]]
    BY <1>5
  <2> QED
    BY <2>1, <2>2
<1>14. S \subseteq Connected
  OBVIOUS
<1> HIDE DEF S
<1>15. ASSUME NEW c \in S
       PROVE  /\ ci[c].life.n < MaxSpawns
              /\ \A i \in 1..Len(ci'[c].events) : ci'[c].events[i].kind = "explode"
  BY <1>1, <1>11
<1>16. gamemillis' \in Nat /\ match' \in Nat /\ match <= match' /\ match < match'
  BY <1>1, <1>3
<1>17. Reborn(S)
  BY <1>1, <1>2, <1>9, <1>10, <1>11, <1>12, <1>13, <1>14, <1>15, <1>16 DEF Reborn
<1> QED
  BY <1>17, RebornKeeps

\* A client state stays one when more lives are heard of.
LEMMA RecordGrows == ASSUME NEW L, NEW M, L \subseteq M PROVE Record(L) \subseteq Record(M)
<1>1. Seq(Blows(L)) \subseteq Seq(Blows(M))
  <2>1. Blows(L) \subseteq Blows(M)
    BY DEF Blows
  <2> HIDE DEF Blows
  <2> QED
    BY <2>1
<1>2. Events(L) \subseteq Events(M)
  <2> DEFINE A == Seq(Blows(L))
             B == Seq(Blows(M))
  <2>1. A \subseteq B
    BY <1>1
  <2> HIDE DEF A, B
  <2>2. /\ [kind : {"shot"}, gun : {"gun"}, millis : Nat, hits : A, own : Life]
             \subseteq [kind : {"shot"}, gun : {"gun"}, millis : Nat, hits : B, own : Life]
        /\ [kind : {"explode"}, millis : Nat, id : Ids, hits : A]
             \subseteq [kind : {"explode"}, millis : Nat, id : Ids, hits : B]
    BY <2>1
  <2> QED
    BY <2>2 DEF Events, A, B
<1>3. Seq(Events(L)) \subseteq Seq(Events(M))
  <2> DEFINE A == Events(L)
             B == Events(M)
  <2>1. A \subseteq B
    BY <1>2
  <2> HIDE DEF A, B
  <2>2. Seq(A) \subseteq Seq(B)
    BY <2>1
  <2> QED
    BY <2>2 DEF A, B
<1>4. ASSUME NEW r \in Record(L) PROVE r \in Record(M)
  <2> DEFINE A == Seq(Events(L))
             B == Seq(Events(M))
  <2>1. A \subseteq B
    BY <1>3
  <2> HIDE DEF A, B
  <2> QED
    BY <2>1 DEF Record, A, B
<1> QED
  BY <1>4

\* N_SPAWN: an answer that is accepted is the last one, and nothing older is on its way.
LEMMA SpawnKeeps == ASSUME IInv, NEW c \in Cns, Spawn(c) PROVE IInv'
<1> DEFINE q == answers[c]
           a == Head(q)
           b == ci[c]
           m == b.life
           M == lives'
           accepted == Accepted(b, a.seq)
<1>1. /\ q # <<>> /\ answers' = [answers EXCEPT ![c] = Tail(@)] /\ plays' = [plays EXCEPT ![c] = a]
      /\ UNCHANGED <<clients, gamemillis, who, match>>
  BY DEF Spawn
<1>2. /\ clients \in Seq(Cns) /\ ci \in [Cns -> Record(lives)] /\ gamemillis \in Nat
      /\ who \in [Cns -> Nat] /\ match \in Nat
      /\ plays \in [Cns -> Life \cup {NoLife}] /\ answers \in [Cns -> Seq(Life)]
      /\ lives \in SUBSET Life
  BY DEF IInv, TypeInv
<1>3. q \in Seq(Life) /\ Len(q) \in Nat /\ 1 \in 1..Len(q) /\ a = q[1] /\ a \in Life
  <2>1. q \in Seq(Life)
    BY <1>2
  <2> HIDE DEF q
  <2>2. Len(q) \in Nat /\ Len(q) # 0
    BY <1>1, <2>1
  <2> QED
    BY <2>1, <2>2
<1>4. \A i \in 1..Len(q) :
         /\ q[i].cn = c /\ q[i].who = who[c] /\ q[i].match <= match
         /\ q[i] \notin lives /\ Precedes(q[i], m)
         /\ \A j \in 1..(i - 1) : q[j].n < q[i].n
  BY DEF IInv, AnswersOK
<1>5. /\ a.cn = c /\ a.who = who[c] /\ a.match <= match /\ a \notin lives /\ Precedes(a, m)
      /\ c \in Connected
  <2>1. c \in Connected
    BY <1>1 DEF IInv, AnswersOK
  <2> HIDE DEF q, a, m
  <2> QED
    BY <1>3, <1>4, <2>1
<1>6. b \in Record(lives) /\ RecordOK(b) /\ m \in Life /\ m.seq = b.lifesequence
      /\ m.n <= MaxSpawns /\ m # NoLife
  <2>1. b \in Record(lives) /\ RecordOK(b)
    BY <1>2 DEF IInv
  <2>2. m \in Life /\ m # NoLife
    <3>1. m \in Life \cup {NoLife}
      BY <2>1 DEF Record
    <3> HIDE DEF m
    <3> QED
      BY <1>5, <3>1 DEF Precedes
  <2> QED
    BY <1>5, <2>1, <2>2 DEF IInv, LivesOK, RecordOK, Sound
<1> HIDE DEF q, a, accepted
<1>7. accepted => a = m /\ Len(q) = 1
  <2> SUFFICES ASSUME accepted PROVE a = m /\ Len(q) = 1
    OBVIOUS
  <2>1. a.seq = m.seq
    BY <1>6 DEF accepted, Accepted
  <2> HIDE DEF m
  <2>2. a = m
    BY <1>3, <1>5, <1>6, <2>1, SeqTells
  <2>3. ASSUME Len(q) # 1 PROVE FALSE
    <3>4. Len(q) \in Nat /\ Len(q) >= 1
      BY <1>3
    <3> DEFINE n == Len(q)
    <3> HIDE DEF n
    <3>5. n \in Nat /\ n >= 1 /\ n # 1
      BY <2>3, <3>4 DEF n
    <3>6. 2 \in 1..n /\ 1 \in 1..(2 - 1)
      BY <3>5
    <3>1. 2 \in 1..Len(q) /\ 1 \in 1..(2 - 1)
      BY <3>6 DEF n
    <3>2. q[1].n < q[2].n /\ q[2].n <= m.n /\ q[2] \in Life
      BY <1>3, <1>4, <3>1 DEF Precedes
    <3>3. m.n \in Nat /\ q[2].n \in Nat /\ q[1].n = m.n
      BY <1>3, <1>6, <2>2, <3>2 DEF Life
    <3> QED
      BY <3>2, <3>3
  <2> QED
    BY <2>2, <2>3
<1>8. IF accepted
        THEN /\ ci' = [ci EXCEPT ![c].state = "alive", ![c].lastspawn = FALSE, ![c].lived = @ + 1]
             /\ M = lives \cup {m}
             /\ happened' = {[kind |-> "spawn", answered |-> a, met |-> m]}
        ELSE happened' = {} /\ UNCHANGED <<ci, lives>>
  BY DEF Spawn, accepted, a, q
<1>9. /\ lives \subseteq M /\ M \in SUBSET Life
      /\ \A l \in M : l \in lives \/ (accepted /\ l = m)
  BY <1>2, <1>6, <1>8
<1>10. /\ ci' \in [Cns -> Record(M)]
       /\ \A d \in Cns : RecordOK(ci'[d]) /\ ci'[d].life = ci[d].life /\ ci'[d].events = ci[d].events
  <2>1. \A d \in Cns : ci[d] \in Record(M) /\ RecordOK(ci[d])
    BY <1>2, <1>9, RecordGrows DEF IInv
  <2>2. CASE accepted
    <3> DEFINE r == [b EXCEPT !.state = "alive", !.lastspawn = FALSE, !.lived = @ + 1]
    <3>1. b \in Record(M) /\ b.lived + 1 \in Int /\ b.lived \in Int /\ b.deaths \in Int
      BY <1>6, <2>1 DEF Record
    <3>2. r \in Record(M)
      BY <3>1 DEF Record, States
    <3>3. /\ r.state = "alive" /\ r.deaths = b.deaths /\ r.lived = b.lived + 1
          /\ r.projectiles = b.projectiles /\ r.flying = b.flying /\ r.promised = b.promised
          /\ r.events = b.events /\ r.life = b.life /\ r.lifesequence = b.lifesequence
      BY <3>1 DEF Record
    <3>4. ci' = [ci EXCEPT ![c] = r]
      BY <1>8, <2>2
    <3> HIDE DEF r
    <3>5. b.deaths + 1 <= b.lived + 1
      <4>1. b.deaths + (IF b.state = "alive" THEN 1 ELSE 0) <= b.lived
        BY <1>6 DEF RecordOK, Sound
      <4> QED
        BY <3>1, <4>1
    <3>6. RecordOK(r)
      BY <1>6, <3>3, <3>5 DEF RecordOK, Sound
    <3>7. ci'[c] = r /\ \A d \in Cns : d # c => ci'[d] = ci[d]
      BY <1>2, <3>4
    <3>8. ci' \in [Cns -> Record(M)]
      <4> HIDE DEF M
      <4>1. ci \in [Cns -> Record(M)]
        BY <1>2, <2>1
      <4> QED
        BY <3>2, <3>4, <4>1
    <3> QED
      BY <2>1, <3>3, <3>6, <3>7, <3>8
  <2>3. CASE ~ accepted
    <3>1. ci' = ci
      BY <1>8, <2>3
    <3> HIDE DEF M
    <3> QED
      BY <1>2, <2>1, <3>1
  <2> QED
    BY <2>2, <2>3
<1>11. answers' \in [Cns -> Seq(Life)] /\ answers'[c] = Tail(q)
       /\ \A d \in Cns : d # c => answers'[d] = answers[d]
  <2>1. Tail(q) \in Seq(Life)
    BY <1>1, <1>3
  <2> QED
    BY <1>1, <1>2, <2>1 DEF q
<1>12. /\ plays' \in [Cns -> Life \cup {NoLife}] /\ plays'[c] = a
       /\ \A d \in Cns : d # c => plays'[d] = plays[d]
  BY <1>1, <1>2, <1>3
<1>13. happened' \in SUBSET Happening
  <2> DEFINE e == [kind |-> "spawn", answered |-> a, met |-> m]
  <2>1. e \in Happening
    BY <1>3, <1>6 DEF Happening
  <2> HIDE DEF e
  <2>2. happened' = {e} \/ happened' = {}
    BY <1>8 DEF e
  <2> QED
    BY <2>1, <2>2
<1>14. TypeInv'
  BY <1>1, <1>2, <1>9, <1>10, <1>11, <1>12, <1>13 DEF TypeInv
<1>15. (\A d \in Cns : RecordOK(ci[d]))'
  BY <1>10
<1>16. Connected' = Connected /\ Connected \subseteq Cns /\ who' = who /\ match' = match
  BY <1>1, <1>2 DEF Connected, Range
<1>17. LivesOK'
  BY <1>10, <1>16 DEF IInv, LivesOK
<1>18. HeardOK'
  <2>1. ASSUME NEW l \in M
        PROVE  /\ l.who <= who[l.cn] /\ l.match <= match
               /\ l.cn \in Connected /\ l.who = who[l.cn] => Precedes(l, ci'[l.cn].life)
    <3>1. CASE l \in lives
      <4>1. /\ l.who <= who[l.cn] /\ l.match <= match /\ l.cn \in Cns
            /\ l.cn \in Connected /\ l.who = who[l.cn] => Precedes(l, ci[l.cn].life)
        BY <1>2, <3>1 DEF IInv, HeardOK, Life
      <4> QED
        BY <1>10, <4>1
    <3>2. CASE accepted /\ l = m
      <4>1. l = a
        BY <1>7, <3>2
      <4>2. who[c] <= who[c]
        BY <1>2
      <4> QED
        BY <1>5, <1>10, <4>1, <4>2
    <3> QED
      BY <1>9, <3>1, <3>2
  <2> QED
    BY <1>16, <2>1 DEF HeardOK
<1>19. AnswersOK'
  <2>1. ASSUME NEW d \in Cns, NEW i \in 1..Len(answers'[d])
        PROVE  /\ d \in Connected
               /\ answers'[d][i].cn = d /\ answers'[d][i].who = who[d]
               /\ answers'[d][i].match <= match
               /\ answers'[d][i] \notin M /\ Precedes(answers'[d][i], ci'[d].life)
               /\ \A j \in 1..(i - 1) : answers'[d][j].n < answers'[d][i].n
    <3>1. CASE d = c
      <4>1. Len(Tail(q)) = Len(q) - 1 /\ \A j \in 1..(Len(q) - 1) : Tail(q)[j] = q[j + 1]
        BY <1>1, <1>3
      <4>2. i \in 1..(Len(q) - 1) /\ i + 1 \in 1..Len(q) /\ Tail(q)[i] = q[i + 1]
        BY <1>3, <1>11, <2>1, <3>1, <4>1
      <4>7. Len(q) # 1
        <5> DEFINE n == Len(q)
        <5>1. n \in Nat /\ i \in 1..(n - 1)
          BY <1>3, <4>2
        <5> HIDE DEF n
        <5>2. n # 1
          BY <5>1
        <5> QED
          BY <5>2 DEF n
      <4>3. ~ accepted
        BY <1>7, <4>7
      <4>4. ASSUME NEW j \in 1..(i - 1) PROVE Tail(q)[j].n < Tail(q)[i].n
        <5>1. j \in 1..(Len(q) - 1) /\ j + 1 \in 1..(i + 1 - 1)
          BY <1>3, <4>2
        <5> QED
          BY <1>4, <4>1, <4>2, <5>1
      <4>5. M = lives /\ ci'[c].life = m
        BY <1>8, <1>10, <4>3
      <4> DEFINE x == q[i + 1]
      <4>6. x.cn = c /\ x.who = who[c] /\ x.match <= match /\ x \notin lives /\ Precedes(x, m)
        BY <1>4, <4>2
      <4> HIDE DEF M, m, x
      <4> QED
        BY <1>5, <1>11, <3>1, <4>2, <4>4, <4>5, <4>6 DEF x
    <3>2. CASE d # c
      <4> DEFINE p == answers[d]
                 x == p[i]
      <4>1. answers'[d] = p /\ ci'[d].life = ci[d].life
        BY <1>10, <1>11, <3>2
      <4>2. p # <<>> /\ i \in 1..Len(p)
        BY <2>1, <4>1
      <4>3. /\ d \in Connected /\ x.cn = d /\ x.who = who[d] /\ x.match <= match
            /\ x \notin lives /\ Precedes(x, ci[d].life)
            /\ \A j \in 1..(i - 1) : p[j].n < x.n
        BY <4>2 DEF IInv, AnswersOK
      <4> HIDE DEF p
      <4>4. x \notin M
        <5> HIDE DEF x
        <5> QED
          BY <1>5, <1>7, <1>9, <3>2, <4>3
      <4> QED
        BY <4>1, <4>3, <4>4
    <3> QED
      BY <3>1, <3>2
  <2>2. ASSUME NEW d \in Cns PROVE d \in Connected \/ answers'[d] = <<>>
    <3>1. CASE d = c
      BY <1>5, <3>1
    <3>2. CASE d # c
      BY <1>11, <3>2 DEF IInv, AnswersOK
    <3> QED
      BY <3>1, <3>2
  <2> QED
    BY <1>16, <2>1, <2>2 DEF AnswersOK
<1>20. ASSUME NEW own, NEW d \in Cns, Ours(own, d) PROVE Ours(own, d)'
  <2>1. own.cn = d /\ own.match <= match' /\ ci'[d].life = ci[d].life
    BY <1>10, <1>16, <1>20 DEF Ours
  <2>2. ASSUME own \in M, ci[d].life # NoLife, own.match = ci[d].life.match PROVE own = ci[d].life
    <3>1. CASE own \in lives
      BY <1>20, <2>2, <3>1 DEF Ours
    <3>2. CASE accepted /\ own = m
      <4>1. own.cn = c
        BY <1>5, <1>7, <3>2
      <4> QED
        BY <2>1, <3>2, <4>1
    <3> QED
      BY <1>9, <2>2, <3>1, <3>2
  <2> QED
    BY <2>1, <2>2 DEF Ours
<1>21. Ours(plays[c], c)'
  <2>1. a \in M => a = m
    BY <1>5, <1>7, <1>9
  <2>2. a.cn = c /\ a.match <= match' /\ ci'[c].life = m /\ plays'[c] = a
    BY <1>5, <1>10, <1>12, <1>16
  <2> QED
    BY <2>1, <2>2 DEF Ours
<1>22. PlaysOK'
  <2>1. ASSUME NEW d \in Cns, plays'[d] # NoLife PROVE d \in Connected' /\ Ours(plays[d], d)'
    <3>1. CASE d = c
      BY <1>5, <1>16, <1>21, <3>1
    <3>2. CASE d # c
      <4>1. d \in Connected /\ Ours(plays[d], d) /\ plays'[d] = plays[d]
        BY <1>12, <2>1, <3>2 DEF IInv, PlaysOK
      <4> QED
        BY <1>16, <1>20, <4>1
    <3> QED
      BY <3>1, <3>2
  <2> QED
    BY <2>1 DEF PlaysOK
<1>23. ShotsOK'
  <2>1. ASSUME NEW d \in Cns PROVE Aimed(ci[d].events, d)'
    <3>1. ci'[d].events = ci[d].events /\ Aimed(ci[d].events, d)
      BY <1>10 DEF IInv, ShotsOK
    <3> QED
      BY <1>20, <3>1 DEF Aimed
  <2> QED
    BY <2>1 DEF ShotsOK
<1>24. HappenedOK'
  <2>1. ASSUME NEW e \in happened' PROVE e.kind = "spawn" /\ e.answered = e.met
    <3>1. accepted /\ e = [kind |-> "spawn", answered |-> a, met |-> m]
      BY <1>8
    <3> QED
      BY <1>7, <3>1
  <2> QED
    BY <2>1 DEF HappenedOK, SpawnsAnswerTheLast, HitsMeetTheirLife, ShotsOfThisLife
<1> QED
  BY <1>14, <1>15, <1>17, <1>18, <1>19, <1>22, <1>23, <1>24 DEF IInv

-----------------------------------------------------------------------------
(***************************************************************************)
(* The theorems.                                                           *)
(***************************************************************************)
\* At first nobody is connected.
LEMMA InitKeeps == Init => IInv
<1> SUFFICES ASSUME Init PROVE IInv
  OBVIOUS
<1> DEFINE z == Fresh(0)
           none == <<>>
<1>1. /\ clients = none /\ ci = [c \in Cns |-> z] /\ gamemillis = 0
      /\ who = [c \in Cns |-> 0] /\ match = 0
      /\ plays = [c \in Cns |-> NoLife] /\ answers = [c \in Cns |-> none]
      /\ lives = {} /\ happened = {}
  BY DEF Init
<1>2. z \in Record(lives) /\ RecordOK(z) /\ z.events = none
  BY FreshIs
<1>3. none \in Seq(Cns) /\ none \in Seq(Life) /\ Range(none) = {} /\ Len(none) = 0
  BY DEF Range
<1> HIDE DEF z, none
<1>4. TypeInv
  BY <1>1, <1>2, <1>3 DEF TypeInv
<1>5. \A c \in Cns : RecordOK(ci[c]) /\ ci[c].events = none
  BY <1>1, <1>2
<1>6. LivesOK /\ HeardOK /\ PlaysOK
  BY <1>1, <1>3 DEF LivesOK, HeardOK, PlaysOK, Connected
<1>7. AnswersOK
  <2>1. ASSUME NEW c \in Cns PROVE answers[c] = none /\ 1..Len(answers[c]) = {}
    BY <1>1, <1>3
  <2> QED
    BY <2>1 DEF AnswersOK, none
<1>8. ShotsOK
  <2>1. 1..Len(none) = {}
    BY <1>3
  <2> QED
    BY <1>5, <2>1 DEF ShotsOK, Aimed
<1>9. HappenedOK
  BY <1>1 DEF HappenedOK, SpawnsAnswerTheLast, HitsMeetTheirLife, ShotsOfThisLife
<1> QED
  BY <1>4, <1>5, <1>6, <1>7, <1>8, <1>9 DEF IInv

\* Every step keeps the invariant.
LEMMA NextKeeps == IInv /\ [Next]_vars => IInv'
<1> SUFFICES ASSUME IInv, [Next]_vars PROVE IInv'
  OBVIOUS
<1>1. ASSUME NEW c \in Cns,
             \/ Connect(c) \/ clientdisconnect(c) \/ TrySpawn(c) \/ Spawn(c)
             \/ Shoot(c) \/ Explode(c) \/ Suicide(c)
             \/ ChangeTeam(c) \/ Spectate(c) \/ unspectate(c) \/ SuspectRun(c)
      PROVE  IInv'
  <2>1. CASE Connect(c) \/ clientdisconnect(c) \/ TrySpawn(c) \/ Spawn(c)
    BY <2>1, ConnectKeeps, clientdisconnectKeeps, TrySpawnKeeps, SpawnKeeps
  <2>2. CASE Shoot(c) \/ Explode(c) \/ Suicide(c)
    BY <2>2, ShootKeeps, ExplodeKeeps, SuicideKeeps
  <2>3. CASE ChangeTeam(c) \/ Spectate(c) \/ unspectate(c) \/ SuspectRun(c)
    BY <2>3, ChangeTeamKeeps, SpectateKeeps, unspectateKeeps, SuspectRunKeeps
  <2> QED
    BY <1>1, <2>1, <2>2, <2>3
<1>2. CASE changemap \/ serverupdate \/ Intermission
  BY <1>2, changemapKeeps, serverupdateKeeps, IntermissionKeeps
<1>3. CASE UNCHANGED vars
  <2>1. /\ clients' = clients /\ ci' = ci /\ gamemillis' = gamemillis /\ who' = who
        /\ match' = match /\ plays' = plays /\ answers' = answers /\ lives' = lives
        /\ happened' = happened
    BY <1>3 DEF vars
  <2>2. TypeInv' /\ (\A c \in Cns : RecordOK(ci[c]))' /\ LivesOK' /\ HeardOK'
    BY <2>1 DEF IInv, TypeInv, LivesOK, HeardOK, Connected
  <2>3. AnswersOK' /\ PlaysOK' /\ ShotsOK'
    <3>1. AnswersOK'
      BY <2>1 DEF IInv, AnswersOK, Connected
    <3>2. \A own, c : Ours(own, c) => Ours(own, c)'
      BY <2>1 DEF Ours
    <3>3. PlaysOK'
      BY <2>1, <3>2 DEF IInv, PlaysOK, Connected
    <3>4. ShotsOK'
      BY <2>1, <3>2 DEF IInv, ShotsOK, Aimed
    <3> QED
      BY <3>1, <3>3, <3>4
  <2>4. HappenedOK'
    BY <2>1 DEF IInv, HappenedOK, SpawnsAnswerTheLast, HitsMeetTheirLife, ShotsOfThisLife
  <2> QED
    BY <2>2, <2>3, <2>4 DEF IInv
<1> QED
  BY <1>1, <1>2, <1>3 DEF Next

\* Every state of the server and its clients is as IInv says.
THEOREM Invariance == Spec => []IInv
<1>1. Init => IInv
  BY InitKeeps
<1>2. IInv /\ [Next]_vars => IInv'
  BY NextKeeps
<1> QED
  BY <1>1, <1>2, PTL DEF Spec

\* Every life is begun by the answer to the latest spawn state, whatever else is on
\* its way (the checks of N_SPAWN).
THEOREM AnswersBeginTheLast == Spec => []SpawnsAnswerTheLast
<1>1. IInv => SpawnsAnswerTheLast
  BY DEF IInv, HappenedOK
<1> QED
  BY <1>1, Invariance, PTL

\* A hit hurts the life that was aimed at, unless its client has left (lifesequence).
THEOREM HitsAreAimed == Spec => []HitsMeetTheirLife
<1>1. IInv => HitsMeetTheirLife
  BY DEF IInv, HappenedOK
<1> QED
  BY <1>1, Invariance, PTL

\* What was shot in an earlier life of the match does not count (cleartimedevents).
THEOREM ShotsAreOfThisLife == Spec => []ShotsOfThisLife
<1>1. IInv => ShotsOfThisLife
  BY DEF IInv, HappenedOK
<1> QED
  BY <1>1, Invariance, PTL

\* The clients are among the slots.
LEMMA ConnectedAre == IInv => Connected \subseteq Cns
  BY DEF IInv, TypeInv, Connected, Range

\* Nobody dies twice in one life (dodamage, suicide).
THEOREM NobodyDiesTwice == Spec => []OneDeathPerLife
<1>1. IInv => OneDeathPerLife
  BY ConnectedAre DEF IInv, RecordOK, Sound, OneDeathPerLife
<1> QED
  BY <1>1, Invariance, PTL

\* Every explosion uses up a projectile that was launched (projectilestate).
THEOREM ExplosionsWereLaunched == Spec => []NoMoreExplosionsThanLaunched
<1>1. IInv => NoMoreExplosionsThanLaunched
  BY ConnectedAre DEF IInv, RecordOK, Sound, NoMoreExplosionsThanLaunched
<1> QED
  BY <1>1, Invariance, PTL

\* No explosion is lost in a match, even if its sender dies and spawns again (keepable).
THEOREM NoExplosionIsLost == Spec => []ExplosionsAreKept
<1>1. IInv => ExplosionsAreKept
  BY ConnectedAre DEF IInv, RecordOK, Explosions, ExplosionsAreKept
<1> QED
  BY <1>1, Invariance, PTL
=============================================================================
