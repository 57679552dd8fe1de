---------------------------- MODULE Lists_proofs ----------------------------
(***************************************************************************)
(* Theorems about the two components whose state is lists from the middle  *)
(* of which entries are taken: the bans and the bots.  The two share the   *)
(* lemmas about sequences and nothing else.                                *)
(*                                                                         *)
(* As long as the clock does not wrap around, a list that is sorted by     *)
(* insertion and expired at its head only is a set of bans that end on     *)
(* time, for any addresses and durations.                                  *)
(*                                                                         *)
(* However clients come, go, watch, gain and lose privileges, the list of  *)
(* the bots of a client and the owners that bots name are the same         *)
(* relation, and owners are connected.                                     *)
(***************************************************************************)
EXTENDS BanList, Bots, FiniteSetTheorems, SequenceTheorems, WellFoundedInduction, TLAPS

-----------------------------------------------------------------------------
(***************************************************************************)
(* Sequences without an element, with one more, or with a few less.        *)
(***************************************************************************)
\* One element less, the one at position i.
LEMMA Removed ==
  ASSUME NEW S, NEW s \in Seq(S), NEW i \in 1..Len(s)
  PROVE  /\ RemoveAt(s, i) \in Seq(S)
         /\ Len(RemoveAt(s, i)) = Len(s) - 1
         /\ \A j \in 1..Len(s) - 1 : RemoveAt(s, i)[j] = IF j < i THEN s[j] ELSE s[j + 1]
<1> DEFINE a == SubSeq(s, 1, i - 1)  b == SubSeq(s, i + 1, Len(s))
<1>1. Len(s) \in Nat /\ \A j \in 1..Len(s) : s[j] \in S
  OBVIOUS
<1>2. a \in Seq(S) /\ Len(a) = i - 1 /\ \A j \in 1..i - 1 : a[j] = s[j]
  BY <1>1, SubSeqProperties
<1>3. b \in Seq(S) /\ Len(b) = Len(s) - i /\ \A j \in 1..Len(s) - i : b[j] = s[i + j]
  BY <1>1, SubSeqProperties
<1>4. RemoveAt(s, i) = a \o b
  BY DEF RemoveAt
<1> HIDE DEF a, b
<1>5. /\ a \o b \in Seq(S) /\ Len(a \o b) = Len(a) + Len(b)
      /\ \A j \in 1..Len(a) + Len(b) :
            (a \o b)[j] = IF j <= Len(a) THEN a[j] ELSE b[j - Len(a)]
  BY <1>2, <1>3, ConcatProperties
<1>6. \A j \in i..Len(s) - 1 : b[j - (i - 1)] = s[j + 1]
  BY <1>1, <1>3
<1>7. Len(RemoveAt(s, i)) = Len(s) - 1 /\ RemoveAt(s, i) \in Seq(S)
  BY <1>1, <1>2, <1>3, <1>4, <1>5
<1>8. ASSUME NEW j \in 1..Len(s) - 1, j < i PROVE RemoveAt(s, i)[j] = s[j]
  BY <1>1, <1>2, <1>3, <1>4, <1>5, <1>8
<1>9. ASSUME NEW j \in 1..Len(s) - 1, ~(j < i) PROVE RemoveAt(s, i)[j] = s[j + 1]
  <2>1. j \in 1..Len(a) + Len(b) /\ ~(j <= Len(a)) /\ Len(a) = i - 1 /\ j \in i..Len(s) - 1
    BY <1>1, <1>2, <1>3, <1>9
  <2>2. (a \o b)[j] = b[j - (i - 1)]
    BY <1>5, <2>1
  <2> QED
    BY <1>4, <1>6, <2>1, <2>2
<1> QED
  BY <1>1, <1>7, <1>8, <1>9

-----------------------------------------------------------------------------
(***************************************************************************)
(* Bans.                                                                   *)
(***************************************************************************)
Half == Width \div 2

\* What is stored is when the ban should really end.
Exact ==
    \A i \in 1..Len(bannedips) :
        /\ bannedips[i].expire = bannedips[i].ends
        /\ bannedips[i].ends \in 0..Half - 1

\* The bans of the list, without their order.
Entries == {bannedips[i] : i \in 1..Len(bannedips)}

\* The conjunction that every step preserves.
BansInv == TypeOK /\ Exact /\ SortedByEnd /\ NoOverdueBan

\* A time that an int can hold is stored as it is.
LEMMA ToIntExact == \A n \in (-Half)..(Half - 1) : ToInt(n) = n
<1> SUFFICES ASSUME NEW n \in (-Half)..(Half - 1) PROVE ToInt(n) = n
  OBVIOUS
<1>1. Half \in Nat \ {0} /\ Width = 2 * Half
  BY WidthAssumption DEF Half
<1>2. n + Half \in 0..(Width - 1)
  BY <1>1
<1>3. \A m \in 0..(Width - 1) : m % Width = m
  BY WidthAssumption
<1> QED
  BY <1>1, <1>2, <1>3 DEF ToInt, Half

\* r is s with one element more, e at position i.
HasMore(r, S, s, i, e) ==
    /\ r \in Seq(S)
    /\ Len(r) = Len(s) + 1
    /\ \A j \in 1..Len(s) + 1 : r[j] = IF j < i THEN s[j] ELSE IF j = i THEN e ELSE s[j - 1]

\* What an insertion does.
LEMMA Inserted ==
  ASSUME NEW S, NEW s \in Seq(S), NEW e \in S, NEW i \in 1..Len(s) + 1,
         NEW r, r = InsertAt(s, i, e)
  PROVE  HasMore(r, S, s, i, e)
<1> DEFINE a == SubSeq(s, 1, i - 1)  b == SubSeq(s, i, Len(s))
<1>1. Len(s) \in Nat /\ \A j \in 1..Len(s) : s[j] \in S
  OBVIOUS
<1>2. a \in Seq(S) /\ Len(a) = i - 1 /\ \A j \in 1..i - 1 : a[j] = s[j]
  BY <1>1, SubSeqProperties
<1>3. b \in Seq(S) /\ Len(b) = Len(s) - i + 1 /\ \A j \in 1..Len(s) - i + 1 : b[j] = s[i + j - 1]
  BY <1>1, SubSeqProperties
<1> DEFINE c == a \o <<e>>
<1>4. c \in Seq(S) /\ Len(c) = i /\ \A j \in 1..i : c[j] = IF j < i THEN s[j] ELSE e
  BY <1>2
<1>5. r = c \o b
  BY DEF InsertAt
<1> HIDE DEF a, b, c
<1>6. /\ c \o b \in Seq(S) /\ Len(c \o b) = Len(c) + Len(b)
      /\ \A j \in 1..Len(c) + Len(b) :
            (c \o b)[j] = IF j <= Len(c) THEN c[j] ELSE b[j - Len(c)]
  BY <1>3, <1>4, ConcatProperties
<1>7. \A j \in (i + 1)..Len(s) + 1 : b[j - i] = s[j - 1]
  BY <1>1, <1>3
<1> QED
  BY <1>1, <1>3, <1>4, <1>5, <1>6, <1>7 DEF HasMore

\* The tail that is left when k elements are taken off.
LEMMA Suffix ==
  ASSUME NEW S, NEW s \in Seq(S), NEW k \in 0..Len(s)
  PROVE  /\ SubSeq(s, k + 1, Len(s)) \in Seq(S)
         /\ Len(SubSeq(s, k + 1, Len(s))) = Len(s) - k
         /\ \A j \in 1..Len(s) - k : SubSeq(s, k + 1, Len(s))[j] = s[k + j]
<1>1. Len(s) \in Nat /\ \A j \in 1..Len(s) : s[j] \in S
  OBVIOUS
<1> QED
  BY <1>1, SubSeqProperties

-----------------------------------------------------------------------------
\* The server starts with an empty list.
LEMMA BansStart == BansInit => BansInv
  BY WidthAssumption DEF BansInit, BansInv, TypeOK, Exact, SortedByEnd, NoOverdueBan, Ban

\* What the steps need to know of the constants and the clock.
LEMMA Bounds ==
  ASSUME NoWrap, TypeOK
  PROVE  /\ Half \in Nat /\ now \in Nat /\ now <= Horizon /\ Horizon \in Nat
         /\ MaxBans \in Nat /\ Half > 0 /\ Horizon < Half
         /\ \A d \in Durations : d \in 0..Half - 1 /\ Horizon + d < Half
  BY WidthAssumption DEF NoWrap, TypeOK, Half

\* A ban is inserted where it keeps the list sorted.
LEMMA AddHolds ==
  ASSUME BansInv, NoWrap, NEW ip \in Ips, NEW duration \in Durations, addban(ip, duration)
  PROVE  /\ BansInv' /\ now' = now
         /\ \E b \in Ban : /\ b.ip = ip /\ b.ends = now + duration
                          /\ Entries' = Entries \cup {b}
<1> DEFINE b == [ip |-> ip, expire |-> ToInt(totalmillis + duration), ends |-> now + duration]
<1>1. /\ Half \in Nat /\ now \in Nat /\ now <= Horizon /\ Horizon \in Nat
      /\ duration \in 0..Half - 1 /\ Horizon + duration < Half
  BY Bounds DEF BansInv
<1>2. totalmillis = now
  BY <1>1, ToIntExact DEF totalmillis
<1>3. b \in Ban /\ b.expire = b.ends /\ b.ends = now + duration /\ b.ends \in 0..Half - 1
  BY <1>1, <1>2, ToIntExact DEF Ban
<1>4. PICK i \in 1..Len(bannedips) + 1 :
         /\ \A j \in 1..(i - 1) : b.expire >= bannedips[j].expire
         /\ i <= Len(bannedips) => b.expire < bannedips[i].expire
         /\ bannedips' = InsertAt(bannedips, i, b)
  BY DEF addban
<1>5. Len(bannedips) < MaxBans /\ now' = now
  BY DEF addban
<1>6. /\ bannedips \in Seq(Ban) /\ Len(bannedips) \in Nat
      /\ \A j \in 1..Len(bannedips) : /\ bannedips[j].expire = bannedips[j].ends
                                      /\ bannedips[j].ends \in 0..Half - 1
                                      /\ bannedips[j].ends >= now
  BY DEF BansInv, TypeOK, Exact, NoOverdueBan
<1> HIDE DEF b
<1>7. /\ bannedips' \in Seq(Ban) /\ Len(bannedips') = Len(bannedips) + 1
      /\ \A j \in 1..Len(bannedips) + 1 : bannedips'[j] =
            IF j < i THEN bannedips[j] ELSE IF j = i THEN b ELSE bannedips[j - 1]
  <2>1. b \in Ban /\ bannedips \in Seq(Ban)
    BY <1>3, <1>6
  <2>2. i \in 1..Len(bannedips) + 1 /\ bannedips' = InsertAt(bannedips, i, b)
    BY <1>4
  <2>3. HasMore(bannedips', Ban, bannedips, i, b)
    BY <2>1, <2>2, Inserted
  <2> QED
    BY <2>3 DEF HasMore
<1>8. /\ \A j \in 1..Len(bannedips) + 1 : j < i => bannedips'[j] = bannedips[j]
      /\ bannedips'[i] = b
      /\ \A j \in 1..Len(bannedips) + 1 : j > i => bannedips'[j] = bannedips[j - 1]
  <2>1. Len(bannedips) \in Nat /\ i \in 1..Len(bannedips) + 1
    BY <1>6
  <2>2. ASSUME NEW j \in 1..Len(bannedips) + 1 PROVE
          bannedips'[j] = IF j < i THEN bannedips[j] ELSE IF j = i THEN b ELSE bannedips[j - 1]
    BY <1>7
  <2>3. ASSUME NEW j \in 1..Len(bannedips) + 1, j < i PROVE bannedips'[j] = bannedips[j]
    BY <2>2, <2>3
  <2>4. ASSUME NEW j \in 1..Len(bannedips) + 1, j > i PROVE bannedips'[j] = bannedips[j - 1]
    <3>1. ~(j < i) /\ j # i
      BY <2>1, <2>4
    <3> QED
      BY <2>2, <3>1
  <2>5. bannedips'[i] = b
    <3>1. ~(i < i)
      BY <2>1
    <3> QED
      BY <2>1, <2>2, <3>1
  <2> QED
    BY <2>3, <2>4, <2>5
<1>9. TypeOK'
  <2>1. now' \in 0..Horizon
    BY <1>5 DEF BansInv, TypeOK
  <2>2. Len(bannedips') <= MaxBans
    BY <1>5, <1>6, <1>7, Bounds DEF BansInv
  <2> QED
    BY <1>7, <2>1, <2>2 DEF TypeOK
<1>10. ASSUME NEW j \in 1..Len(bannedips')
       PROVE  \/ bannedips'[j] = b
              \/ \E m \in 1..Len(bannedips) : bannedips'[j] = bannedips[m]
  <2>1. CASE j < i
    BY <1>6, <1>7, <1>8, <2>1
  <2>2. CASE j = i
    BY <1>8, <2>2
  <2>3. CASE j > i
    <3>1. j - 1 \in 1..Len(bannedips)
      BY <1>6, <1>7, <2>3
    <3> QED
      BY <1>6, <1>7, <1>8, <2>3, <3>1
  <2> QED
    BY <1>6, <1>7, <2>1, <2>2, <2>3
<1>11. Exact'
  BY <1>3, <1>6, <1>10 DEF Exact
<1>12. NoOverdueBan'
  <2>1. b.ends >= now
    BY <1>1, <1>3
  <2>2. ASSUME NEW j \in 1..Len(bannedips') PROVE bannedips'[j].ends >= now
    BY <1>6, <1>10, <2>1
  <2> QED
    BY <1>5, <2>2 DEF NoOverdueBan
<1>13. SortedByEnd'
  <2>1. /\ \A j \in 1..(i - 1) : bannedips[j].ends <= b.ends
        /\ \A j \in i..Len(bannedips) : b.ends <= bannedips[j].ends
    <3>1. \A j \in 1..(i - 1) : bannedips[j].ends <= b.ends
      BY <1>1, <1>3, <1>4, <1>6
    <3>2. \A j \in i..Len(bannedips) : bannedips[i].ends <= bannedips[j].ends
      BY <1>6 DEF BansInv, SortedByEnd
    <3> QED
      BY <1>1, <1>3, <1>4, <1>6, <3>1, <3>2
  <2>2. SUFFICES ASSUME NEW j \in 1..Len(bannedips'), NEW m \in 1..Len(bannedips'), j < m
                 PROVE  bannedips'[j].ends <= bannedips'[m].ends
    BY DEF SortedByEnd
  <2>3. \A x, y \in 1..Len(bannedips) : x < y => bannedips[x].ends <= bannedips[y].ends
    BY DEF BansInv, SortedByEnd
  <2>4. CASE m < i
    BY <1>6, <1>7, <1>8, <2>2, <2>3, <2>4
  <2>5. CASE m = i
    BY <1>6, <1>7, <1>8, <2>1, <2>2, <2>5
  <2>6. CASE m > i
    <3>1. m - 1 \in i..Len(bannedips) /\ bannedips'[m] = bannedips[m - 1]
      BY <1>6, <1>7, <1>8, <2>6
    <3>2. CASE j < i
      <4>1. bannedips'[j] = bannedips[j] /\ j \in 1..Len(bannedips) /\ j < m - 1
        BY <1>6, <1>7, <1>8, <3>1, <3>2
      <4> QED
        BY <2>3, <3>1, <4>1
    <3>3. CASE j = i
      BY <1>8, <2>1, <3>1, <3>3
    <3>4. CASE j > i
      <4>1. bannedips'[j] = bannedips[j - 1] /\ j - 1 \in 1..Len(bannedips) /\ j - 1 < m - 1
        BY <1>6, <1>7, <1>8, <2>2, <3>4
      <4> QED
        BY <1>6, <2>3, <3>1, <4>1
    <3> QED
      BY <1>6, <1>7, <3>2, <3>3, <3>4
  <2> QED
    BY <1>6, <1>7, <2>4, <2>5, <2>6
<1>14. Entries' = Entries \cup {b}
  <2>1. Entries' \subseteq Entries \cup {b}
    BY <1>10 DEF Entries
  <2>2. b \in Entries'
    BY <1>6, <1>7, <1>8 DEF Entries
  <2>3. ASSUME NEW m \in 1..Len(bannedips) PROVE bannedips[m] \in Entries'
    <3>1. CASE m < i
      BY <1>6, <1>7, <1>8, <3>1 DEF Entries
    <3>2. CASE m >= i
      <4>1. m + 1 \in 1..Len(bannedips') /\ bannedips'[m + 1] = bannedips[m]
        BY <1>6, <1>7, <1>8, <3>2
      <4> QED
        BY <4>1 DEF Entries
    <3> QED
      BY <1>6, <3>1, <3>2
  <2> QED
    BY <2>1, <2>2, <2>3 DEF Entries
<1>15. b.ip = ip
  BY DEF b
<1> QED
  BY <1>3, <1>5, <1>9, <1>11, <1>12, <1>13, <1>14, <1>15 DEF BansInv

\* Time passes and what has expired leaves from the head: all of it, because
\* the first ban that stays ends before every other one.
LEMMA UpdateHolds ==
  ASSUME BansInv, NoWrap, NEW elapsed \in 0..Half - 1, serverupdate(elapsed)
  PROVE  /\ BansInv'
         /\ now' \in Nat /\ now' >= now
         /\ Entries' = {e \in Entries : e.ends > now'}
<1>1. /\ Half \in Nat /\ now \in Nat /\ now' = now + elapsed
      /\ now' \in Nat /\ now' <= Horizon /\ Horizon \in Nat
  BY Bounds DEF BansInv, serverupdate
<1>2. /\ bannedips \in Seq(Ban) /\ Len(bannedips) \in Nat /\ Len(bannedips) <= MaxBans
      /\ \A j \in 1..Len(bannedips) : /\ bannedips[j].expire = bannedips[j].ends
                                      /\ bannedips[j].ends \in 0..Half - 1
      /\ \A x, y \in 1..Len(bannedips) : x < y => bannedips[x].ends <= bannedips[y].ends
  BY DEF BansInv, TypeOK, Exact, SortedByEnd
<1>3. ASSUME NEW j \in 1..Len(bannedips)
      PROVE  Expired(bannedips[j], totalmillis') <=> bannedips[j].ends <= now'
  <2>1. now' < Half
    BY <1>1, Bounds DEF BansInv
  <2>2. totalmillis' = now'
    BY <1>1, <2>1, ToIntExact DEF totalmillis
  <2>3. bannedips[j].expire - now' \in (-Half)..(Half - 1)
    BY <1>1, <1>2, <2>1
  <2> QED
    BY <1>1, <1>2, <2>2, <2>3, ToIntExact DEF Expired
<1>4. PICK k \in 0..Len(bannedips) :
         /\ \A j \in 1..k : Expired(bannedips[j], totalmillis')
         /\ k < Len(bannedips) => ~Expired(bannedips[k + 1], totalmillis')
         /\ bannedips' = SubSeq(bannedips, k + 1, Len(bannedips))
  BY DEF serverupdate
<1>5. /\ bannedips' \in Seq(Ban) /\ Len(bannedips') = Len(bannedips) - k
      /\ \A j \in 1..Len(bannedips) - k : bannedips'[j] = bannedips[k + j]
  BY <1>2, <1>4, Suffix
<1>6. \A j \in 1..k : bannedips[j].ends <= now'
  BY <1>2, <1>3, <1>4
<1>7. ASSUME NEW j \in k + 1..Len(bannedips) PROVE bannedips[j].ends > now'
  <2>1. k + 1 \in 1..Len(bannedips) /\ bannedips[k + 1].ends > now'
    BY <1>1, <1>2, <1>3, <1>4
  <2>2. bannedips[k + 1].ends <= bannedips[j].ends
    BY <1>2, <2>1
  <2> QED
    BY <1>1, <1>2, <2>1, <2>2
<1>8. \A j \in 1..Len(bannedips') : k + j \in k + 1..Len(bannedips)
                                   /\ bannedips'[j] = bannedips[k + j]
  BY <1>2, <1>5
<1>9. TypeOK' /\ Exact' /\ NoOverdueBan'
  <2>1. TypeOK'
    BY <1>1, <1>2, <1>5, Bounds DEF BansInv, TypeOK
  <2>2. Exact'
    BY <1>2, <1>8 DEF Exact
  <2>3. NoOverdueBan'
    <3>1. \A j \in 1..Len(bannedips') : bannedips'[j].ends > now' /\ bannedips'[j].ends \in Int
      BY <1>2, <1>7, <1>8
    <3> QED
      BY <1>1, <3>1 DEF NoOverdueBan
  <2> QED
    BY <2>1, <2>2, <2>3
<1>10. SortedByEnd'
  <2>1. ASSUME NEW x \in 1..Len(bannedips'), NEW y \in 1..Len(bannedips'), x < y
        PROVE  bannedips'[x].ends <= bannedips'[y].ends
    <3>1. k + x \in 1..Len(bannedips) /\ k + y \in 1..Len(bannedips) /\ k + x < k + y
      BY <1>2, <1>5, <2>1
    <3> QED
      BY <1>2, <1>8, <3>1
  <2> QED
    BY <2>1 DEF SortedByEnd
<1>11. Entries' = {e \in Entries : e.ends > now'}
  <2>1. ASSUME NEW j \in 1..Len(bannedips')
        PROVE  bannedips'[j] \in {e \in Entries : e.ends > now'}
    <3>1. k + j \in 1..Len(bannedips) /\ bannedips[k + j].ends > now'
      BY <1>2, <1>7, <1>8
    <3> QED
      BY <1>8, <3>1 DEF Entries
  <2>2. ASSUME NEW m \in 1..Len(bannedips), bannedips[m].ends > now'
        PROVE  bannedips[m] \in Entries'
    <3>1. ~(m \in 1..k)
      BY <1>1, <1>2, <1>6, <2>2
    <3>2. m - k \in 1..Len(bannedips') /\ bannedips'[m - k] = bannedips[m]
      BY <1>2, <1>5, <3>1
    <3> QED
      BY <3>2 DEF Entries
  <2> QED
    BY <2>1, <2>2 DEF Entries
<1> QED
  BY <1>1, <1>9, <1>10, <1>11 DEF BansInv

\* A ban is lifted: the others stay, in their order.
LEMMA UnbanHolds ==
  ASSUME BansInv, NEW banid \in 1..MaxBans, unkickban(banid)
  PROVE  /\ BansInv' /\ now' = now
         /\ \E b \in Entries : Entries' \in {Entries, Entries \ {b}}
<1>1. /\ bannedips \in Seq(Ban) /\ Len(bannedips) \in Nat
      /\ banid \in 1..Len(bannedips) /\ now' = now
      /\ bannedips' = RemoveAt(bannedips, banid)
  BY DEF BansInv, TypeOK, unkickban
<1>2. /\ bannedips' \in Seq(Ban) /\ Len(bannedips') = Len(bannedips) - 1
      /\ \A j \in 1..Len(bannedips) - 1 : bannedips'[j] =
            IF j < banid THEN bannedips[j] ELSE bannedips[j + 1]
  BY <1>1, Removed
<1>3. \A j \in 1..Len(bannedips') :
        /\ j \in 1..Len(bannedips) /\ j + 1 \in 1..Len(bannedips)
        /\ \/ j < banid /\ bannedips'[j] = bannedips[j]
           \/ j >= banid /\ bannedips'[j] = bannedips[j + 1]
  BY <1>1, <1>2
<1>4. TypeOK'
  BY <1>1, <1>2, WidthAssumption DEF BansInv, TypeOK
<1>5. Exact'
  BY <1>3 DEF BansInv, Exact
<1>6. NoOverdueBan'
  BY <1>1, <1>3 DEF BansInv, NoOverdueBan
<1>7. SortedByEnd'
  <2>1. \A x, y \in 1..Len(bannedips) : x < y => bannedips[x].ends <= bannedips[y].ends
    BY DEF BansInv, SortedByEnd
  <2>2. ASSUME NEW x \in 1..Len(bannedips'), NEW y \in 1..Len(bannedips'), x < y
        PROVE  bannedips'[x].ends <= bannedips'[y].ends
    <3>1. CASE y < banid
      <4>1. /\ bannedips'[x] = bannedips[x] /\ bannedips'[y] = bannedips[y]
            /\ x \in 1..Len(bannedips) /\ y \in 1..Len(bannedips)
        BY <1>1, <1>3, <2>2, <3>1
      <4> QED
        BY <2>1, <2>2, <4>1
    <3>2. CASE x < banid /\ y >= banid
      <4>1. /\ bannedips'[x] = bannedips[x] /\ bannedips'[y] = bannedips[y + 1]
            /\ x < y + 1 /\ x \in 1..Len(bannedips) /\ y + 1 \in 1..Len(bannedips)
        BY <1>1, <1>3, <2>2, <3>2
      <4> QED
        BY <2>1, <4>1
    <3>3. CASE x >= banid
      <4>1. /\ bannedips'[x] = bannedips[x + 1] /\ bannedips'[y] = bannedips[y + 1]
            /\ x + 1 < y + 1 /\ x + 1 \in 1..Len(bannedips) /\ y + 1 \in 1..Len(bannedips)
        BY <1>1, <1>3, <2>2, <3>3
      <4> QED
        BY <2>1, <4>1
    <3> QED
      BY <1>1, <1>2, <3>1, <3>2, <3>3
  <2> QED
    BY <2>2 DEF SortedByEnd
<1>8. Entries' \in {Entries, Entries \ {bannedips[banid]}}
  <2>1. Entries' \subseteq Entries
    BY <1>3 DEF Entries
  <2>2. ASSUME NEW m \in 1..Len(bannedips), m # banid PROVE bannedips[m] \in Entries'
    <3>1. CASE m < banid
      <4>1. m \in 1..Len(bannedips') /\ bannedips'[m] = bannedips[m]
        BY <1>1, <1>2, <3>1
      <4> QED
        BY <4>1 DEF Entries
    <3>2. CASE m > banid
      <4>1. m - 1 \in 1..Len(bannedips') /\ bannedips'[m - 1] = bannedips[m]
        BY <1>1, <1>2, <1>3, <3>2
      <4> QED
        BY <4>1 DEF Entries
    <3> QED
      BY <1>1, <2>2, <3>1, <3>2
  <2> QED
    BY <2>1, <2>2 DEF Entries
<1>9. bannedips[banid] \in Entries
  BY <1>1 DEF Entries
<1> QED
  BY <1>1, <1>4, <1>5, <1>6, <1>7, <1>8, <1>9 DEF BansInv

\* Every step preserves the invariant.
LEMMA BansStep == NoWrap /\ BansInv /\ [BansNext]_banvars => BansInv'
<1> SUFFICES ASSUME NoWrap, BansInv, [BansNext]_banvars PROVE BansInv'
  OBVIOUS
<1>1. ASSUME NEW ip \in Ips, NEW duration \in Durations, addban(ip, duration) PROVE BansInv'
  BY <1>1, AddHolds
<1>2. ASSUME NEW elapsed \in 0..Half - 1, serverupdate(elapsed) PROVE BansInv'
  BY <1>2, UpdateHolds
<1>3. ASSUME NEW banid \in 1..MaxBans, unkickban(banid) PROVE BansInv'
  BY <1>3, UnbanHolds
<1>4. CASE clearbans
  BY <1>4, WidthAssumption
  DEF clearbans, BansInv, TypeOK, Exact, SortedByEnd, NoOverdueBan
<1>5. CASE UNCHANGED banvars
  BY <1>5 DEF banvars, BansInv, TypeOK, Exact, SortedByEnd, NoOverdueBan
<1> QED
  BY <1>1, <1>2, <1>3, <1>4, <1>5 DEF BansNext, Half

\* The inductive invariant holds in every reachable state.
THEOREM BansInvariance == NoWrap => (BansSpec => []BansInv)
<1> SUFFICES ASSUME NoWrap PROVE BansSpec => []BansInv
  OBVIOUS
<1>1. BansInv /\ [BansNext]_banvars => BansInv'
  BY BansStep
<1> QED
  BY BansStart, <1>1, PTL DEF BansSpec

\* The list is sorted by the times at which the bans should end.
THEOREM Sorted == NoWrap => (BansSpec => []SortedByEnd)
<1>1. BansInv => SortedByEnd
  BY DEF BansInv
<1> QED
  BY BansInvariance, <1>1, PTL

\* No ban outlives its time.
THEOREM OnTime == NoWrap => (BansSpec => []NoOverdueBan)
<1>1. BansInv => NoOverdueBan
  BY DEF BansInv
<1> QED
  BY BansInvariance, <1>1, PTL

-----------------------------------------------------------------------------
\* The refinement mapping: the list as the set of its addresses and ends.
banned == {[ip |-> bannedips[i].ip, ends |-> bannedips[i].ends] : i \in 1..Len(bannedips)}

Image(e) == [ip |-> e.ip, ends |-> e.ends]

\* The mapping forgets the order of the list.
LEMMA BannedEntries == /\ banned = {Image(e) : e \in Entries}
                       /\ banned' = {Image(e) : e \in Entries'}
  BY DEF banned, Entries, Image

\* Every step of the list maps to a step of the set of bans.
LEMMA StepImplements ==
  ASSUME NoWrap, BansInv, [BansNext]_banvars
  PROVE  [Abstract!Next]_<<now, banned>>
<1>1. ASSUME NEW ip \in Ips, NEW duration \in Durations, addban(ip, duration)
      PROVE  Abstract!Add(ip, duration)
  <2>1. PICK b \in Ban : /\ b.ip = ip /\ b.ends = now + duration /\ now' = now
                         /\ Entries' = Entries \cup {b}
    BY <1>1, AddHolds
  <2>2. banned' = banned \cup {[ip |-> ip, ends |-> now + duration]}
    <3>1. Image(b) = [ip |-> ip, ends |-> now + duration]
      BY <2>1 DEF Image
    <3> QED
      BY <2>1, <3>1, BannedEntries
  <2> QED
    BY <2>1, <2>2 DEF Abstract!Add, banned
<1>2. ASSUME NEW elapsed \in 0..Half - 1, serverupdate(elapsed)
      PROVE  Abstract!Pass
  <2>1. now' \in Nat /\ now' >= now /\ Entries' = {e \in Entries : e.ends > now'}
    BY <1>2, UpdateHolds
  <2>2. banned' = {b \in banned : b.ends > now'}
    <3>1. \A e \in Entries : Image(e).ends = e.ends
      BY DEF Image
    <3> QED
      BY <2>1, <3>1, BannedEntries
  <2> QED
    BY <2>1, <2>2 DEF Abstract!Pass, banned
<1>3. ASSUME NEW banid \in 1..MaxBans, unkickban(banid)
      PROVE  \E ban \in banned : Abstract!Lift(ban)
  <2>1. PICK b \in Entries : Entries' \in {Entries, Entries \ {b}} /\ now' = now
    BY <1>3, UnbanHolds
  <2>2. Image(b) \in banned
    BY <2>1, BannedEntries
  <2>3. banned' \in {banned, banned \ {Image(b)}}
    <3>1. CASE Image(b) \in {Image(e) : e \in Entries'}
      BY <2>1, <3>1, BannedEntries
    <3>2. CASE Image(b) \notin {Image(e) : e \in Entries'}
      <4>1. b \notin Entries' /\ Entries' = Entries \ {b}
        BY <2>1, <3>2
      <4>2. \A e \in Entries \ {b} : Image(e) # Image(b)
        BY <3>2, <4>1
      <4> QED
        BY <4>1, <4>2, BannedEntries
    <3> QED
      BY <3>1, <3>2
  <2> QED
    BY <2>1, <2>2, <2>3 DEF Abstract!Lift, banned
<1>4. CASE clearbans
  BY <1>4 DEF clearbans, Abstract!LiftAll, Abstract!Next, banned
<1>5. CASE UNCHANGED banvars
  BY <1>5 DEF banvars, banned
<1>6. CASE BansNext
  BY <1>1, <1>2, <1>3, <1>4, <1>6 DEF BansNext, Abstract!Next, banned, Half
<1> QED
  BY <1>5, <1>6

\* The sorted list implements the set of bans.
THEOREM Implements == NoWrap => (BansSpec => ImplementsBanSpec)
<1> SUFFICES ASSUME NoWrap PROVE BansSpec => ImplementsBanSpec
  OBVIOUS
<1>1. BansInit => Abstract!Init
  BY DEF BansInit, Abstract!Init
<1>2. BansInv /\ [BansNext]_banvars => [Abstract!Next]_<<now, banned>>
  BY StepImplements
<1>3. BansSpec => []BansInv
  BY BansInvariance
<1> QED
  BY <1>1, <1>2, <1>3, PTL DEF BansSpec, ImplementsBanSpec, Abstract!Spec, banned

-----------------------------------------------------------------------------
(***************************************************************************)
(* Folds.  The library's FoldLeft is a recursive function on the sets of   *)
(* indices; that it exists, and that it takes one element after the other, *)
(* follows by induction on the length of the sequence.                     *)
(***************************************************************************)
\* A set of naturals that is not empty has a least element.
LEMMA LeastNat == ASSUME NEW T \in SUBSET Nat, T # {} PROVE \E m \in T : \A n \in T : m <= n
<1> DEFINE R == OpToRel(<, Nat)
<1>1. IsWellFoundedOn(R, Nat)
  BY NatLessThanWellFounded, Zenon
<1>2. \A x, y \in Nat : x < y => <<x, y>> \in R
  BY DEF OpToRel
<1> HIDE DEF R
<1>3. PICK m \in T : \A n \in T : ~ (<<n, m>> \in R)
  BY <1>1, WFMin
<1>4. ASSUME NEW n \in T PROVE m <= n
  <2>1. m \in Nat /\ n \in Nat /\ ~ (n < m)
    BY <1>2, <1>3
  <2> QED
    BY <2>1
<1> QED
  BY <1>4

\* What holds of 0 and is passed on holds of every number up to n.
LEMMA Climb ==
  ASSUME NEW n \in Nat, NEW P, 0 \in P, \A k \in 0..(n - 1) : k \in P => k + 1 \in P
  PROVE  0..n \subseteq P
<1> SUFFICES ASSUME ~ (0..n \subseteq P) PROVE FALSE
  OBVIOUS
<1> DEFINE T == {k \in 0..n : ~ (k \in P)}
<1>1. T \in SUBSET Nat /\ T # {}
  OBVIOUS
<1>2. PICK m \in T : \A k \in T : m <= k
  BY <1>1, LeastNat
<1>3. m \in 0..n /\ ~ (m \in P) /\ m # 0
  BY <1>2
<1>4. m - 1 \in 0..(n - 1) /\ m - 1 + 1 = m
  BY <1>3
<1>5. m - 1 \in P
  <2>1. ~ (m <= m - 1) /\ m - 1 \in 0..n
    BY <1>3, <1>4
  <2> QED
    BY <1>2, <2>1
<1> QED
  BY <1>3, <1>4, <1>5

\* The greatest of a set of indices.
LEMMA MaxIs ==
  ASSUME NEW n \in Nat, NEW s \in SUBSET (1..n), s # {}
  PROVE  Max(s) \in s /\ \A x \in s : x <= Max(s)
<1> DEFINE T == {m \in Nat : \A x \in s : x <= m}
<1>1. T \in SUBSET Nat /\ n \in T
  OBVIOUS
<1>2. PICK m \in T : \A k \in T : m <= k
  BY <1>1, LeastNat
<1>3. m \in Nat /\ \A x \in s : x <= m /\ x \in Nat /\ x >= 1
  BY <1>2
<1>4. m \in s
  <2> SUFFICES ASSUME ~ (m \in s) PROVE FALSE
    OBVIOUS
  <2>1. ASSUME NEW x \in s PROVE x <= m - 1 /\ m - 1 \in Nat
    <3>1. x # m
      BY <2>1
    <3> QED
      BY <1>3, <3>1
  <2>2. m - 1 \in T
    BY <2>1
  <2>3. ~ (m <= m - 1)
    BY <1>3
  <2> QED
    BY <1>2, <2>2, <2>3
<1>5. \E x \in s : \A y \in s : x >= y
  BY <1>3, <1>4
<1> QED
  BY <1>3, <1>5 DEF Max

\* it is the function that FoldLeft is defined with.
Folds(it, base, G, n) ==
    \A s \in SUBSET (1..n) : it[s] = IF s = {} THEN base ELSE G[<<it[s \ {Max(s)}], Max(s)>>]

\* There is such a function.
LEMMA FoldExists ==
  ASSUME NEW W, NEW base \in W, NEW n \in Nat, NEW G \in [W \X (1..n) -> W]
  PROVE  \E it \in [SUBSET (1..n) -> W] : Folds(it, base, G, n)
<1> DEFINE P == {m \in 0..n : \E it \in [SUBSET (1..m) -> W] : Folds(it, base, G, m)}
<1>1. 0 \in P
  <2> DEFINE it == [s \in SUBSET (1..0) |-> base]
  <2>1. \A s \in SUBSET (1..0) : s = {}
    OBVIOUS
  <2>2. it \in [SUBSET (1..0) -> W] /\ Folds(it, base, G, 0)
    BY <2>1 DEF Folds
  <2> QED
    BY <2>2
<1>2. ASSUME NEW m \in 0..(n - 1), m \in P PROVE m + 1 \in P
  <2>1. PICK i \in [SUBSET (1..m) -> W] : Folds(i, base, G, m)
    BY <1>2
  <2> DEFINE k == m + 1
             j == [s \in SUBSET (1..k) |-> IF k \in s THEN G[<<i[s \ {k}], k>>] ELSE i[s]]
  <2>2. k \in 1..n /\ m \in Nat /\ k \in Nat /\ k = m + 1
    BY <1>2
  <2>8. ASSUME NEW s \in SUBSET (1..k), k \in s PROVE Max(s) = k
    <3>1. Max(s) \in s /\ k <= Max(s)
      BY <2>2, <2>8, MaxIs
    <3>2. Max(s) \in 1..k
      BY <3>1
    <3> QED
      BY <2>2, <3>1, <3>2
  <2> HIDE DEF k
  <2>3. ASSUME NEW s \in SUBSET (1..k)
        PROVE  /\ s \ {k} \in SUBSET (1..m)
               /\ ~ (k \in s) => s \in SUBSET (1..m)
    BY <2>2
  <2>4. j \in [SUBSET (1..k) -> W]
    <3>1. ASSUME NEW s \in SUBSET (1..k) PROVE (IF k \in s THEN G[<<i[s \ {k}], k>>] ELSE i[s]) \in W
      <4>1. CASE k \in s
        <5>1. i[s \ {k}] \in W
          BY <2>3
        <5> QED
          BY <2>2, <4>1, <5>1
      <4>2. CASE ~ (k \in s)
        BY <2>3, <4>2
      <4> QED
        BY <4>1, <4>2
    <3> QED
      BY <3>1
  <2>5. ASSUME NEW s \in SUBSET (1..k)
        PROVE  j[s] = IF s = {} THEN base ELSE G[<<j[s \ {Max(s)}], Max(s)>>]
    <3>1. CASE k \in s
      <4>2. Max(s) = k
        BY <3>1, <2>8
      <4>3. j[s \ {k}] = i[s \ {k}] /\ j[s] = G[<<i[s \ {k}], k>>]
        BY <3>1
      <4> QED
        BY <3>1, <4>2, <4>3
    <3>2. CASE ~ (k \in s)
      <4>1. s \in SUBSET (1..m) /\ j[s] = i[s]
        BY <2>3, <3>2
      <4>2. i[s] = IF s = {} THEN base ELSE G[<<i[s \ {Max(s)}], Max(s)>>]
        BY <2>1, <4>1 DEF Folds
      <4>3. j[s \ {Max(s)}] = i[s \ {Max(s)}]
        BY <3>2
      <4> QED
        BY <4>1, <4>2, <4>3
    <3> QED
      BY <3>1, <3>2
  <2> HIDE DEF j
  <2>6. Folds(j, base, G, k)
    BY <2>5 DEF Folds
  <2>7. k \in 0..n
    BY <2>2
  <2> QED
    BY <2>2, <2>4, <2>6, <2>7
<1> HIDE DEF P
<1>3. 0..n \subseteq P
  BY <1>1, <1>2, Climb
<1>4. n \in P
  BY <1>3
<1> QED
  BY <1>4 DEF P

\* The greatest of the first k indices is k.
LEMMA Intervals ==
  ASSUME NEW n \in Nat, NEW k \in 1..n
  PROVE  /\ 1..k \in SUBSET (1..n) /\ 1..k # {} /\ Max(1..k) = k
         /\ (1..k) \ {k} = 1..(k - 1) /\ k - 1 \in 0..(n - 1)
<1>1. 1..k \in SUBSET (1..n) /\ 1..k # {} /\ k \in 1..k
  OBVIOUS
<1>2. Max(1..k) \in 1..k /\ k <= Max(1..k)
  BY <1>1, MaxIs
<1>3. (1..k) \ {k} = 1..(k - 1) /\ k - 1 \in 0..(n - 1)
  OBVIOUS
<1> QED
  BY <1>1, <1>2, <1>3

\* A function that does on sets of indices what G does takes one element after
\* the other.
Obeys(j, base, G, n, W) ==
    /\ j[{}] = base
    /\ \A u \in SUBSET (1..n) :
          u # {} /\ j[u \ {Max(u)}] \in W => j[u] = G[<<j[u \ {Max(u)}], Max(u)>>]

\* t[k] is what the first k elements make of base.
Traces(t, base, G, n) == t[0] = base /\ \A k \in 1..n : t[k] = G[<<t[k - 1], k>>]

\* What j makes of the indices of a sequence it makes step by step.
LEMMA FoldSteps ==
  ASSUME NEW W, NEW base \in W, NEW n \in Nat, NEW G \in [W \X (1..n) -> W],
         NEW j, Obeys(j, base, G, n, W)
  PROVE  \E t \in [0..n -> W] : t[n] = j[1..n] /\ Traces(t, base, G, n)
<1>1. j[1..0] = base
  <2>1. 1..0 = {}
    OBVIOUS
  <2> QED
    BY <2>1 DEF Obeys
<1>2. ASSUME NEW k \in 1..n, j[1..(k - 1)] \in W
      PROVE  j[1..k] = G[<<j[1..(k - 1)], k>>] /\ j[1..k] \in W
  <2>1. 1..k \in SUBSET (1..n) /\ 1..k # {} /\ Max(1..k) = k /\ (1..k) \ {k} = 1..(k - 1)
    BY Intervals
  <2>2. j[1..k] = G[<<j[1..(k - 1)], k>>]
    BY <1>2, <2>1 DEF Obeys
  <2> QED
    BY <1>2, <2>2
<1> DEFINE P == {k \in 0..n : j[1..k] \in W}
<1>3. 0 \in P
  BY <1>1
<1>4. ASSUME NEW k \in 0..(n - 1), k \in P PROVE k + 1 \in P
  <2>1. k + 1 \in 1..n /\ k + 1 - 1 = k /\ k + 1 \in 0..n
    OBVIOUS
  <2> DEFINE m == k + 1
  <2>2. m \in 1..n /\ j[1..(m - 1)] \in W
    BY <1>4, <2>1
  <2> HIDE DEF m
  <2>3. j[1..m] \in W
    BY <1>2, <2>2
  <2> QED
    BY <2>1, <2>3 DEF m
<1>5. 0..n \subseteq P
  BY <1>3, <1>4, Climb
<1> DEFINE t == [k \in 0..n |-> j[1..k]]
<1>6. t \in [0..n -> W] /\ t[0] = base /\ t[n] = j[1..n]
  BY <1>1, <1>5
<1>7. ASSUME NEW k \in 1..n PROVE t[k] = G[<<t[k - 1], k>>]
  <2>1. k \in 0..n /\ k - 1 \in 0..n
    OBVIOUS
  <2>2. j[1..(k - 1)] \in W
    BY <1>5, <2>1
  <2> QED
    BY <1>2, <2>1, <2>2
<1> QED
  BY <1>6, <1>7 DEF Traces

-----------------------------------------------------------------------------
(***************************************************************************)
(* Lists that hold nothing twice.                                          *)
(***************************************************************************)
Once(s) == \A i, j \in DOMAIN s : s[i] = s[j] => i = j

\* The least of a set of naturals.
LEMMA MinIs ==
  ASSUME NEW s \in SUBSET Nat, s # {}
  PROVE  Min(s) \in s /\ \A x \in s : Min(s) <= x
<1>1. \E x \in s : \A y \in s : x <= y
  BY LeastNat
<1> QED
  BY <1>1 DEF Min

\* One element more at the end.
LEMMA Appended ==
  ASSUME NEW S, NEW s \in Seq(S), NEW e \in S, Once(s), e \notin ToSet(s)
  PROVE  /\ Append(s, e) \in Seq(S) /\ Once(Append(s, e))
         /\ \A c : c \in ToSet(Append(s, e)) <=> c \in ToSet(s) \/ c = e
<1> DEFINE r == Append(s, e)
<1>1. /\ r \in Seq(S) /\ Len(r) = Len(s) + 1 /\ DOMAIN r = 1..Len(s) + 1 /\ DOMAIN s = 1..Len(s)
      /\ Len(s) \in Nat /\ r[Len(s) + 1] = e /\ \A i \in 1..Len(s) : r[i] = s[i]
  OBVIOUS
<1> HIDE DEF r
<1>2. \A i \in 1..Len(s) + 1 : i \in 1..Len(s) \/ i = Len(s) + 1
  BY <1>1
<1>3. \A i \in 1..Len(s) : s[i] # e /\ i \in 1..Len(s) + 1 /\ Len(s) + 1 \in 1..Len(s) + 1
  BY <1>1 DEF ToSet
<1>4. Once(r)
  BY <1>1, <1>2, <1>3 DEF Once
<1>5. ASSUME NEW c PROVE c \in ToSet(r) <=> c \in ToSet(s) \/ c = e
  <2>1. Len(s) + 1 \in 1..Len(s) + 1
    BY <1>1
  <2> QED
    BY <1>1, <1>2, <1>3, <2>1 DEF ToSet
<1> QED
  BY <1>1, <1>4, <1>5 DEF r

\* One element less.
LEMMA Taken ==
  ASSUME NEW S, NEW s \in Seq(S), NEW e \in ToSet(s), Once(s)
  PROVE  /\ RemoveFirst(s, e) \in Seq(S) /\ Once(RemoveFirst(s, e))
         /\ \A c : c \in ToSet(RemoveFirst(s, e)) <=> c \in ToSet(s) /\ c # e
<1> DEFINE I == {i \in 1..Len(s) : s[i] = e}
           i == Min(I)
           r == RemoveAt(s, i)
<1>1. DOMAIN s = 1..Len(s) /\ Len(s) \in Nat
  OBVIOUS
<1>2. I # {} /\ I \in SUBSET Nat
  BY <1>1 DEF ToSet
<1>3. i \in I
  BY <1>2, MinIs
<1>4. RemoveFirst(s, e) = r
  BY <1>2 DEF RemoveFirst, SelectInSeq
<1>5. i \in 1..Len(s) /\ s[i] = e
  BY <1>3
<1> HIDE DEF i
<1>6. /\ r \in Seq(S) /\ Len(r) = Len(s) - 1
      /\ \A j \in 1..Len(s) - 1 : r[j] = IF j < i THEN s[j] ELSE s[j + 1]
  BY <1>5, Removed
<1> HIDE DEF r
<1>7. DOMAIN r = 1..Len(s) - 1
  BY <1>6
<1> DEFINE at(j) == IF j < i THEN j ELSE j + 1
<1>8. ASSUME NEW j \in 1..Len(s) - 1 PROVE r[j] = s[at(j)] /\ at(j) \in 1..Len(s) /\ at(j) # i
  BY <1>1, <1>5, <1>6
<1>9. ASSUME NEW j \in 1..Len(s) - 1, NEW k \in 1..Len(s) - 1, at(j) = at(k) PROVE j = k
  BY <1>1, <1>5, <1>9
<1>10. ASSUME NEW k \in 1..Len(s), k # i PROVE \E j \in 1..Len(s) - 1 : at(j) = k
  <2>1. CASE k < i
    <3>1. k \in 1..Len(s) - 1 /\ at(k) = k
      BY <1>1, <1>5, <2>1
    <3> QED
      BY <3>1
  <2>2. CASE k > i
    <3>1. k - 1 \in 1..Len(s) - 1 /\ at(k - 1) = k
      BY <1>1, <1>5, <2>2
    <3> QED
      BY <3>1
  <2> QED
    BY <1>1, <1>5, <1>10, <2>1, <2>2
<1> HIDE DEF at
<1>11. Once(r)
  BY <1>1, <1>7, <1>8, <1>9 DEF Once
<1>12. ASSUME NEW c PROVE c \in ToSet(r) <=> c \in ToSet(s) /\ c # e
  <2>1. ASSUME c \in ToSet(r) PROVE c \in ToSet(s) /\ c # e
    <3>1. PICK j \in 1..Len(s) - 1 : c = r[j]
      BY <1>7, <2>1 DEF ToSet
    <3> QED
      BY <1>1, <1>5, <1>8, <3>1 DEF ToSet, Once
  <2>2. ASSUME c \in ToSet(s), c # e PROVE c \in ToSet(r)
    <3>1. PICK k \in 1..Len(s) : c = s[k] /\ k # i
      BY <1>1, <1>5, <2>2 DEF ToSet
    <3>2. PICK j \in 1..Len(s) - 1 : at(j) = k
      BY <1>10, <3>1
    <3> QED
      BY <1>7, <1>8, <3>1, <3>2 DEF ToSet
  <2> QED
    BY <2>1, <2>2
<1> QED
  BY <1>4, <1>6, <1>11, <1>12

\* A list that holds nothing twice is as long as it has elements.
LEMMA Counted ==
  ASSUME NEW S, NEW s \in Seq(S), Once(s)
  PROVE  Cardinality(ToSet(s)) = Len(s)
<1>1. Len(s) \in Nat /\ DOMAIN s = 1..Len(s) /\ s \in [1..Len(s) -> ToSet(s)]
  BY DEF ToSet
<1>2. IsFiniteSet(1..Len(s)) /\ Cardinality(1..Len(s)) = Len(s)
  <2>1. 1 \in Int /\ Len(s) \in Int
    BY <1>1
  <2>2. IsFiniteSet(1..Len(s)) /\ Cardinality(1..Len(s)) = IF 1 > Len(s) THEN 0 ELSE Len(s) - 1 + 1
    BY <2>1, FS_Interval
  <2> QED
    BY <1>1, <2>2
<1>3. s \in Bijection(1..Len(s), ToSet(s))
  BY <1>1 DEF Bijection, Injection, Surjection, IsInjective, ToSet, Once
<1>4. Cardinality(1..Len(s)) = Cardinality(ToSet(s))
  <2>1. IsFiniteSet(1..Len(s)) /\ ExistsBijection(1..Len(s), ToSet(s))
    BY <1>2, <1>3 DEF ExistsBijection
  <2> QED
    BY <2>1, FS_Bijection
<1> QED
  BY <1>2, <1>4

-----------------------------------------------------------------------------
(***************************************************************************)
(* The invariant of the bots.                                              *)
(***************************************************************************)
Slots == [there : BOOLEAN, ownernum : Humans \cup {NoOne}, aireinit : BOOLEAN, byauto : BOOLEAN]

Records ==
    [clients : Seq(Humans \cup Nat), bots : Seq(Slots), owned : [Humans -> Seq(Nat)],
     dorefresh : BOOLEAN]

\* The owner of a bot is connected and may run it, or is about to leave.
MayOwn(bot, present, valid, leaving) ==
    \/ bot.ownernum = NoOne
    \/ bot.ownernum \in leaving
    \/ bot.ownernum \in present /\ (bot.ownernum \in valid \/ bot.byauto)

\* The lists say the same, each once, and owners may own; those in leaving need
\* not be connected, nor valid.
Fit(a, valid, leaving) ==
    /\ a \in Records
    /\ Once(a.clients)
    /\ \A n \in Nat : n \in ToSet(a.clients) <=> n \in Bots(a)
    /\ \A h \in Humans :
          /\ Once(a.owned[h])
          /\ \A n \in Nat : n \in ToSet(a.owned[h]) <=> n \in Bots(a) /\ a.bots[n].ownernum = h
    /\ \A b \in Bots(a) : MayOwn(a.bots[b], Connected(a), valid, leaving)

\* Nothing is left to be looked at, or checkai will look at it.
Calm(a) == a.dorefresh \/ \A b \in Bots(a) : a.bots[b].ownernum # NoOne /\ ~a.bots[b].aireinit

NotAlone(a) == Connected(a) = {} => Bots(a) = {}

Clients == [Humans -> [spectator : BOOLEAN, privilege : {"none", "master", "admin"}]]

\* The conjunction that every step preserves.
BotsInv == ci \in Clients /\ Fit(ai, Valid(ci), {}) /\ Calm(ai) /\ NotAlone(ai)

-----------------------------------------------------------------------------
(***************************************************************************)
(* What the functions of aiman.h make of the bots.                         *)
(***************************************************************************)
\* r is a with another bot, or none, in slot b, and every list says so.
Changes(a, r, b) ==
    /\ r \in Records
    /\ Once(r.clients) /\ Connected(r) = Connected(a)
    /\ \A n \in Nat : n \in ToSet(r.clients) <=> n \in Bots(r)
    /\ DOMAIN r.bots = DOMAIN a.bots \cup {b}
    /\ \A c \in DOMAIN a.bots \ {b} : r.bots[c] = a.bots[c]
    /\ \A h \in Humans :
          /\ Once(r.owned[h])
          /\ \A n \in Nat \ {b} : n \in ToSet(r.owned[h]) <=> n \in ToSet(a.owned[h])
          /\ b \in ToSet(r.owned[h]) <=> r.bots[b].there /\ r.bots[b].ownernum = h

\* r has the bots of a in the slots S, or in all its slots but b.
Keeps(a, r, S) == \A c \in S : r.bots[c] = a.bots[c]

KeepsOthers(a, r, b) == \A c \in Bots(r) : c # b => r.bots[c] = a.bots[c]

\* The bot b is in no list of bots.
Unlisted(a, b) == \A h \in Humans : Once(a.owned[h]) /\ b \notin ToSet(a.owned[h])

NewBot(owner, byauto) == [there |-> TRUE, ownernum |-> owner, aireinit |-> TRUE, byauto |-> byauto]

\* The new bot is in slot b and in the list of its owner.
Given(a, r, b, owner, byauto) ==
    /\ r \in Records /\ r.clients = a.clients /\ Calm(r)
    /\ DOMAIN r.bots = DOMAIN a.bots \cup {b}
    /\ \A c \in DOMAIN a.bots \ {b} : r.bots[c] = a.bots[c]
    /\ r.bots[b] = NewBot(owner, byauto)
    /\ \A h \in Humans :
          /\ Once(r.owned[h])
          /\ \A n \in Nat : n \in ToSet(r.owned[h]) <=> n \in ToSet(a.owned[h]) \/ (n = b /\ h = owner)

\* The slots a bot may be put into.
Places(a) == 1..Len(a.bots) + 1

\* What a record holds.
LEMMA RecordHas ==
  ASSUME NEW a \in Records
  PROVE  /\ a.clients \in Seq(Humans \cup Nat) /\ a.bots \in Seq(Slots)
         /\ a.owned \in [Humans -> Seq(Nat)] /\ a.dorefresh \in BOOLEAN
         /\ Len(a.bots) \in Nat /\ DOMAIN a.bots = 1..Len(a.bots)
         /\ \A b \in DOMAIN a.bots : a.bots[b] \in Slots
         /\ \A h \in Humans : a.owned[h] \in Seq(Nat)
         /\ Bots(a) \in SUBSET (1..Len(a.bots)) /\ Bots(a) \in SUBSET Nat
<1>1. a.bots \in Seq(Slots) /\ a.clients \in Seq(Humans \cup Nat) /\ a.owned \in [Humans -> Seq(Nat)]
      /\ a.dorefresh \in BOOLEAN
  BY DEF Records
<1>2. Len(a.bots) \in Nat /\ DOMAIN a.bots = 1..Len(a.bots) /\ \A b \in DOMAIN a.bots : a.bots[b] \in Slots
  BY <1>1
<1>3. Bots(a) \in SUBSET (1..Len(a.bots))
  BY <1>2 DEF Bots
<1> QED
  BY <1>1, <1>2, <1>3

\* A slot may change as long as its new bot has an owner who may own it.
LEMMA Replaced ==
  ASSUME NEW valid, NEW leaving, NEW a, NEW r, NEW b,
         Fit(a, valid, leaving), Changes(a, r, b),
         b \in Bots(r) => MayOwn(r.bots[b], Connected(a), valid, leaving)
  PROVE  Fit(r, valid, leaving) /\ Bots(r) \ {b} = Bots(a) \ {b}
<1>1. \A c : c # b => (c \in Bots(r) <=> c \in Bots(a))
  BY DEF Changes, Bots
<1>2. Bots(r) \ {b} = Bots(a) \ {b}
  BY <1>1
<1>3. b \in DOMAIN r.bots /\ (b \in Bots(r) <=> r.bots[b].there)
  <2>1. r.bots[b].there \in BOOLEAN
    BY RecordHas DEF Changes, Slots
  <2> QED
    BY <2>1 DEF Changes, Bots
<1>4. ASSUME NEW h \in Humans
      PROVE  /\ Once(r.owned[h])
             /\ \A n \in Nat : n \in ToSet(r.owned[h]) <=> n \in Bots(r) /\ r.bots[n].ownernum = h
  <2>1. Once(r.owned[h])
    BY DEF Changes
  <2>2. ASSUME NEW n \in Nat PROVE n \in ToSet(r.owned[h]) <=> n \in Bots(r) /\ r.bots[n].ownernum = h
    <3>1. CASE n = b
      BY <1>3, <3>1 DEF Changes
    <3>2. CASE n # b
      <4>1. n \in ToSet(r.owned[h]) <=> n \in ToSet(a.owned[h])
        BY <3>2 DEF Changes
      <4>2. n \in ToSet(a.owned[h]) <=> n \in Bots(a) /\ a.bots[n].ownernum = h
        BY DEF Fit
      <4>3. n \in Bots(a) => r.bots[n] = a.bots[n]
        BY <3>2 DEF Changes, Bots
      <4> QED
        BY <1>1, <3>2, <4>1, <4>2, <4>3
    <3> QED
      BY <3>1, <3>2
  <2> QED
    BY <2>1, <2>2
<1>5. ASSUME NEW c \in Bots(r) PROVE MayOwn(r.bots[c], Connected(r), valid, leaving)
  <2>1. CASE c = b
    BY <2>1 DEF Changes
  <2>2. CASE c # b
    <3>1. c \in Bots(a) /\ r.bots[c] = a.bots[c] /\ Connected(r) = Connected(a)
      BY <1>1, <2>2 DEF Changes, Bots
    <3>2. MayOwn(a.bots[c], Connected(a), valid, leaving)
      BY <3>1 DEF Fit
    <3> QED
      BY <3>1, <3>2
  <2> QED
    BY <2>1, <2>2
<1>6. r \in Records /\ Once(r.clients) /\ \A n \in Nat : n \in ToSet(r.clients) <=> n \in Bots(r)
  BY DEF Changes
<1> QED
  BY <1>2, <1>4, <1>5, <1>6 DEF Fit

\* A bot is taken out of the list of its owner.
LEMMA DisownedIs ==
  ASSUME NEW valid, NEW leaving, NEW a, Fit(a, valid, leaving), NEW b \in Bots(a), NEW d, d = Disowned(a, b)
  PROVE  /\ d \in Records /\ d.clients = a.clients /\ d.bots = a.bots /\ d.dorefresh = a.dorefresh
         /\ \A h \in Humans :
               /\ Once(d.owned[h])
               /\ \A n \in Nat : n \in ToSet(d.owned[h]) <=> n \in ToSet(a.owned[h]) /\ n # b
<1> DEFINE owner == a.bots[b].ownernum
<1>1. a \in Records
  BY DEF Fit
<1>2. b \in Nat /\ a.bots[b] \in Slots
  BY <1>1, RecordHas DEF Bots
<1>3. owner \in Humans \cup {NoOne}
  BY <1>2 DEF Slots
<1>4. \A h \in Humans : /\ Once(a.owned[h]) /\ a.owned[h] \in Seq(Nat)
                        /\ b \in ToSet(a.owned[h]) <=> h = owner
  BY <1>1, <1>2, RecordHas DEF Fit
<1>5. d = IF owner = NoOne THEN a ELSE [a EXCEPT !.owned[owner] = RemoveFirst(@, b)]
  BY DEF Disowned
<1> HIDE DEF owner
<1>6. CASE owner = NoOne
  <2>1. d = a /\ \A h \in Humans : h # owner
    BY <1>5, <1>6, BotsAssumption
  <2> QED
    BY <1>1, <1>4, <2>1
<1>7. CASE owner # NoOne
  <2>1. owner \in Humans
    BY <1>3, <1>7
  <2> DEFINE q == RemoveFirst(a.owned[owner], b)
  <2>2. b \in ToSet(a.owned[owner]) /\ Once(a.owned[owner]) /\ a.owned[owner] \in Seq(Nat)
    BY <1>4, <2>1
  <2>3. q \in Seq(Nat) /\ Once(q) /\ \A c : c \in ToSet(q) <=> c \in ToSet(a.owned[owner]) /\ c # b
    BY <2>2, Taken
  <2>4. d = [a EXCEPT !.owned[owner] = q]
    BY <1>5, <1>7
  <2> HIDE DEF q
  <2>5. d \in Records /\ d.clients = a.clients /\ d.bots = a.bots /\ d.dorefresh = a.dorefresh
    BY <1>1, <2>1, <2>3, <2>4 DEF Records
  <2>6. \A h \in Humans : d.owned[h] = IF h = owner THEN q ELSE a.owned[h]
    BY <1>1, <2>1, <2>4 DEF Records
  <2>7. ASSUME NEW h \in Humans
        PROVE  /\ Once(d.owned[h])
               /\ \A n \in Nat : n \in ToSet(d.owned[h]) <=> n \in ToSet(a.owned[h]) /\ n # b
    <3>1. CASE h = owner
      BY <2>3, <2>6, <3>1
    <3>2. CASE h # owner
      BY <1>4, <2>6, <3>2
    <3> QED
      BY <3>1, <3>2
  <2> QED
    BY <2>5, <2>7
<1> QED
  BY <1>6, <1>7

\* A bot is put into a slot and into the list of its owner.
LEMMA OwnedIs ==
  ASSUME NEW a \in Records, NEW b \in Places(a), NEW owner \in Humans \cup {NoOne},
         NEW byauto, NewBot(owner, byauto) \in Slots, NEW r, r = Owned(a, b, owner, byauto),
         Unlisted(a, b)
  PROVE  Given(a, r, b, owner, byauto)
<1> DEFINE bot == [there |-> TRUE, ownernum |-> owner, aireinit |-> TRUE, byauto |-> byauto]
           bs == IF b > Len(a.bots) THEN Append(a.bots, bot) ELSE [a.bots EXCEPT ![b] = bot]
           ow == [h \in Humans |-> IF h = owner THEN Append(a.owned[h], b) ELSE a.owned[h]]
<1>1. /\ a.bots \in Seq(Slots) /\ Len(a.bots) \in Nat /\ DOMAIN a.bots = 1..Len(a.bots)
      /\ a.owned \in [Humans -> Seq(Nat)] /\ b \in 1..Len(a.bots) + 1
      /\ \A h \in Humans : Once(a.owned[h]) /\ b \notin ToSet(a.owned[h])
  BY RecordHas DEF Unlisted, Places
<1>2. bot \in Slots
  BY DEF NewBot
<1>3. r.clients = a.clients /\ r.bots = bs /\ r.owned = ow /\ r.dorefresh
  <2>1. r.clients = a.clients /\ r.dorefresh
    BY DEF Owned, Records
  <2>2. r.bots = bs
    BY DEF Owned, Records
  <2>3. r.owned = ow
    BY DEF Owned, Records
  <2> QED
    BY <2>1, <2>2, <2>3
<1>4. r = [a EXCEPT !.bots = r.bots, !.owned = r.owned, !.dorefresh = TRUE]
  BY DEF Owned, Records
<1> HIDE DEF bot
<1>5. /\ bs \in Seq(Slots) /\ DOMAIN bs = DOMAIN a.bots \cup {b} /\ bs[b] = bot /\ Len(bs) >= Len(a.bots)
      /\ \A c \in DOMAIN a.bots \ {b} : bs[c] = a.bots[c]
  <2>1. CASE b > Len(a.bots)
    <3>1. b = Len(a.bots) + 1 /\ bs = Append(a.bots, bot)
      <4>1. b = Len(a.bots) + 1
        BY <1>1, <2>1
      <4>2. bs = Append(a.bots, bot)
        BY <2>1
      <4> QED
        BY <4>1, <4>2
    <3> HIDE DEF bs
    <3>2. bs \in Seq(Slots) /\ Len(bs) = Len(a.bots) + 1 /\ bs[b] = bot /\ \A c \in 1..Len(a.bots) : bs[c] = a.bots[c]
      BY <1>1, <1>2, <3>1
    <3>3. DOMAIN bs = 1..Len(a.bots) + 1
      BY <1>1, <3>2
    <3> QED
      BY <1>1, <3>1, <3>2, <3>3
  <2>2. CASE ~(b > Len(a.bots))
    <3>1. b \in 1..Len(a.bots) /\ bs = [a.bots EXCEPT ![b] = bot]
      BY <1>1, <2>2
    <3> HIDE DEF bs
    <3>2. bs \in Seq(Slots) /\ Len(bs) = Len(a.bots) /\ bs[b] = bot /\ DOMAIN bs = DOMAIN a.bots
      BY <1>1, <1>2, <3>1
    <3>3. \A c \in DOMAIN a.bots \ {b} : bs[c] = a.bots[c]
      BY <1>1, <3>1
    <3> QED
      BY <1>1, <3>1, <3>2, <3>3
  <2> QED
    BY <2>1, <2>2
<1> HIDE DEF bs
<1>6. /\ ow \in [Humans -> Seq(Nat)]
      /\ \A h \in Humans :
            /\ Once(ow[h])
            /\ \A n \in Nat : n \in ToSet(ow[h]) <=> n \in ToSet(a.owned[h]) \/ (n = b /\ h = owner)
  <2>1. ASSUME NEW h \in Humans, h # owner
        PROVE  ow[h] = a.owned[h] /\ ow[h] \in Seq(Nat) /\ Once(ow[h])
    BY <1>1, <2>1
  <2>2. ASSUME NEW h \in Humans, h = owner
        PROVE  /\ ow[h] \in Seq(Nat) /\ Once(ow[h])
               /\ \A c : c \in ToSet(ow[h]) <=> c \in ToSet(a.owned[h]) \/ c = b
    <3>1. a.owned[h] \in Seq(Nat) /\ Once(a.owned[h]) /\ b \notin ToSet(a.owned[h]) /\ b \in Nat
      BY <1>1
    <3>2. ow[h] = Append(a.owned[h], b)
      BY <2>2
    <3> QED
      BY <3>1, <3>2, Appended
  <2>3. ow \in [Humans -> Seq(Nat)]
    <3>1. ow = [h \in Humans |-> ow[h]]
      OBVIOUS
    <3>2. \A h \in Humans : ow[h] \in Seq(Nat)
      BY <2>1, <2>2
    <3> HIDE DEF ow
    <3> QED
      BY <3>1, <3>2
  <2> HIDE DEF ow
  <2>4. ASSUME NEW h \in Humans
        PROVE  /\ Once(ow[h])
               /\ \A n \in Nat : n \in ToSet(ow[h]) <=> n \in ToSet(a.owned[h]) \/ (n = b /\ h = owner)
    BY <2>1, <2>2
  <2> QED
    BY <2>3, <2>4
<1> HIDE DEF ow
<1>7. r \in Records
  BY <1>3, <1>4, <1>5, <1>6 DEF Records
<1>8. Calm(r)
  BY <1>3 DEF Calm
<1> QED
  BY <1>3, <1>5, <1>6, <1>7, <1>8 DEF bot, Given, NewBot

\* The first of those with the least value.
LEMMA FirstLeast ==
  ASSUME NEW K \in SUBSET Nat, K # {}, NEW f \in [K -> Nat]
  PROVE  \E k \in K : \A j \in K : f[k] < f[j] \/ (f[k] = f[j] /\ k <= j)
<1> DEFINE T == {f[k] : k \in K}
<1>1. T \in SUBSET Nat /\ T # {}
  OBVIOUS
<1>2. PICK m \in T : \A n \in T : m <= n
  BY <1>1, LeastNat
<1> DEFINE L == {k \in K : f[k] = m}
<1>3. L \in SUBSET Nat /\ L # {}
  BY <1>2
<1>4. PICK k \in L : \A j \in L : k <= j
  BY <1>3, LeastNat
<1>5. k \in K /\ f[k] = m
  BY <1>4
<1>6. ASSUME NEW j \in K PROVE f[k] < f[j] \/ (f[k] = f[j] /\ k <= j)
  <2>1. m <= f[j] /\ m \in Nat /\ f[j] \in Nat
    BY <1>1, <1>2
  <2>2. CASE f[j] = m
    BY <1>4, <1>5, <2>2
  <2>3. CASE f[j] # m
    BY <1>5, <2>1, <2>3
  <2> QED
    BY <2>2, <2>3
<1> QED
  BY <1>5, <1>6

\* Finitely many naturals have a bound.
LEMMA HasBound ==
  ASSUME NEW n \in Nat, NEW f \in [1..n -> Nat]
  PROVE  \E m \in Nat : \A k \in 1..n : f[k] <= m
<1> DEFINE P == {i \in 0..n : \E m \in Nat : \A k \in 1..i : f[k] <= m}
<1>1. 0 \in P
  <2>1. 0 \in 0..n /\ 0 \in Nat /\ \A k \in 1..0 : f[k] <= 0
    OBVIOUS
  <2> QED
    BY <2>1
<1>2. ASSUME NEW i \in 0..(n - 1), i \in P PROVE i + 1 \in P
  <2>1. PICK m \in Nat : \A k \in 1..i : f[k] <= m
    BY <1>2
  <2>2. i + 1 \in 1..n /\ i + 1 \in 0..n
    OBVIOUS
  <2>3. f[i + 1] \in Nat
    BY <2>2
  <2>4. m + f[i + 1] \in Nat
    BY <2>3
  <2>5. ASSUME NEW k \in 1..(i + 1) PROVE f[k] <= m + f[i + 1]
    <3>1. CASE k = i + 1
      BY <2>3, <3>1
    <3>2. CASE k # i + 1
      <4>1. k \in 1..i /\ k \in 1..n
        BY <3>2
      <4>2. f[k] <= m /\ f[k] \in Nat
        BY <2>1, <4>1
      <4> QED
        BY <2>3, <4>2
    <3> QED
      BY <3>1, <3>2
  <2> QED
    BY <2>2, <2>4, <2>5
<1> HIDE DEF P
<1>3. 0..n \subseteq P
  BY <1>1, <1>2, Climb
<1>4. n \in P
  BY <1>3
<1> QED
  BY <1>4 DEF P

\* Those who may run bots are clients of the list.
LEMMA MayIs ==
  ASSUME NEW a \in Records, NEW valid \in SUBSET Humans
  PROVE  /\ Len(a.clients) \in Nat /\ May(a, valid) \in SUBSET (1..Len(a.clients))
         /\ \A k \in May(a, valid) : /\ a.clients[k] \in Connected(a) \cap valid
                                     /\ Load(a, a.clients[k]) \in Nat
<1>1. a.clients \in Seq(Humans \cup Nat)
  BY RecordHas
<1>2. Len(a.clients) \in Nat /\ DOMAIN a.clients = 1..Len(a.clients)
  BY <1>1
<1>3. ASSUME NEW k \in May(a, valid) PROVE a.clients[k] \in Connected(a) \cap valid
  BY DEF May, Connected, ToSet
<1>4. ASSUME NEW h \in Humans PROVE Load(a, h) \in Nat
  <2>1. a.owned[h] \in Seq(Nat)
    BY RecordHas
  <2> QED
    BY <2>1 DEF Load
<1> QED
  BY <1>2, <1>3, <1>4 DEF May

\* findaiclient finds a client that may run bots, or no one.
LEMMA LeastIs ==
  ASSUME NEW a \in Records, NEW valid \in SUBSET Humans
  PROVE  /\ Least(a, valid) \in (Connected(a) \cap valid) \cup {NoOne}
         /\ May(a, valid) # {} => Least(a, valid) \in Connected(a) \cap valid
<1> DEFINE K == May(a, valid)
           f == [k \in K |-> Load(a, a.clients[k])]
<1>1. CASE K = {}
  BY <1>1 DEF Least
<1>2. CASE K # {}
  <2>1. K \in SUBSET Nat /\ \A k \in K : /\ a.clients[k] \in Connected(a) \cap valid
                                         /\ Load(a, a.clients[k]) \in Nat
    BY MayIs
  <2>2. f \in [K -> Nat]
    BY <2>1
  <2> HIDE DEF f
  <2>3. PICK k \in K : \A j \in K : f[k] < f[j] \/ (f[k] = f[j] /\ k <= j)
    <3> HIDE DEF K
    <3> QED
      BY <1>2, <2>1, <2>2, FirstLeast
  <2>4. \A j \in K : \/ Load(a, a.clients[k]) < Load(a, a.clients[j])
                     \/ Load(a, a.clients[k]) = Load(a, a.clients[j]) /\ k <= j
    BY <2>3 DEF f
  <2>5. (CHOOSE x \in K : \A j \in K :
            \/ Load(a, a.clients[x]) < Load(a, a.clients[j])
            \/ Load(a, a.clients[x]) = Load(a, a.clients[j]) /\ x <= j) \in K
    BY <2>4
  <2> QED
    BY <1>2, <2>1, <2>5 DEF Least
<1> QED
  BY <1>1, <1>2

\* So is the client with the most bots.
LEMMA MostIs ==
  ASSUME NEW a \in Records, NEW valid \in SUBSET Humans, May(a, valid) # {}
  PROVE  Most(a, valid) \in Connected(a) \cap valid
<1> DEFINE K == May(a, valid)
           n == Len(a.clients)
           g == [k \in 1..n |-> IF k \in K THEN Load(a, a.clients[k]) ELSE 0]
<1>1. n \in Nat /\ K \in SUBSET (1..n) /\ \A k \in K : /\ a.clients[k] \in Connected(a) \cap valid
                                                     /\ Load(a, a.clients[k]) \in Nat
  BY MayIs
<1>2. g \in [1..n -> Nat]
  BY <1>1
<1> HIDE DEF g, n
<1>3. PICK m \in Nat : \A k \in 1..n : g[k] <= m
  BY <1>1, <1>2, HasBound
<1> DEFINE f == [k \in K |-> m - g[k]]
<1>4. f \in [K -> Nat]
  <2>1. \A k \in K : g[k] \in Nat /\ g[k] <= m
    BY <1>1, <1>2, <1>3
  <2>2. \A k \in K : m - g[k] \in Nat
    BY <2>1
  <2> QED
    BY <2>2
<1>5. K \in SUBSET Nat
  BY <1>1
<1> HIDE DEF f
<1>6. PICK k \in K : \A j \in K : f[k] < f[j] \/ (f[k] = f[j] /\ k <= j)
  <2>1. K # {}
    OBVIOUS
  <2> HIDE DEF K
  <2> QED
    BY <1>4, <1>5, <2>1, FirstLeast
<1>7. \A j \in K : g[j] = Load(a, a.clients[j]) /\ g[j] \in Nat /\ f[j] = m - g[j]
  BY <1>1 DEF f, g
<1>8. \A j \in K : \/ Load(a, a.clients[k]) > Load(a, a.clients[j])
                   \/ Load(a, a.clients[k]) = Load(a, a.clients[j]) /\ k <= j
  <2>1. ASSUME NEW j \in K PROVE g[k] > g[j] \/ (g[k] = g[j] /\ k <= j)
    <3>1. g[j] \in Nat /\ g[k] \in Nat /\ f[j] = m - g[j] /\ f[k] = m - g[k]
      BY <1>7
    <3>2. f[k] < f[j] \/ (f[k] = f[j] /\ k <= j)
      BY <1>6
    <3> HIDE DEF K
    <3> QED
      BY <3>1, <3>2
  <2> QED
    BY <1>7, <2>1
<1>9. (CHOOSE x \in K : \A j \in K :
          \/ Load(a, a.clients[x]) > Load(a, a.clients[j])
          \/ Load(a, a.clients[x]) = Load(a, a.clients[j]) /\ x <= j) \in K
  BY <1>8
<1> QED
  BY <1>1, <1>9 DEF Most

\* dorefresh is no part of the lists.
LEMMA Asked ==
  ASSUME NEW valid, NEW leaving, NEW a, Fit(a, valid, leaving), NEW r \in Records,
         r.clients = a.clients, r.bots = a.bots, r.owned = a.owned
  PROVE  Fit(r, valid, leaving) /\ Bots(r) = Bots(a) /\ Connected(r) = Connected(a)
<1>1. Bots(r) = Bots(a) /\ Connected(r) = Connected(a)
  BY DEF Bots, Connected
<1> QED
  BY <1>1 DEF Fit

\* shiftai: the bot stays, with another owner or none.
LEMMA Shifted ==
  ASSUME NEW valid \in SUBSET Humans, NEW leaving, NEW a, Fit(a, valid, leaving), NEW b \in Bots(a),
         NEW owner \in (Connected(a) \cap valid) \cup {NoOne}, NEW r, r = shiftai(a, b, owner)
  PROVE  /\ Fit(r, valid, leaving) /\ Bots(r) = Bots(a) /\ Connected(r) = Connected(a)
         /\ DOMAIN r.bots = DOMAIN a.bots /\ Calm(r)
         /\ r.bots[b].ownernum = owner
         /\ KeepsOthers(a, r, b)
<1> DEFINE d == Disowned(a, b)
<1>1. a \in Records /\ b \in 1..Len(a.bots) /\ b \in DOMAIN a.bots /\ b \in Nat /\ Len(a.bots) \in Nat
  BY RecordHas DEF Fit, Bots
<1>2. /\ d \in Records /\ d.clients = a.clients /\ d.bots = a.bots
      /\ \A h \in Humans :
            /\ Once(d.owned[h])
            /\ \A n \in Nat : n \in ToSet(d.owned[h]) <=> n \in ToSet(a.owned[h]) /\ n # b
  BY DisownedIs
<1>3. owner \in Humans \cup {NoOne}
  BY DEF Connected
<1>4. r = IF owner = NoOne
          THEN [d EXCEPT !.bots[b] = [Empty EXCEPT !.there = TRUE], !.dorefresh = TRUE]
          ELSE Owned(d, b, owner, FALSE)
  BY DEF shiftai
<1> HIDE DEF d
<1>5. /\ r \in Records /\ r.clients = a.clients /\ Calm(r)
      /\ DOMAIN r.bots = DOMAIN a.bots
      /\ \A c \in DOMAIN a.bots \ {b} : r.bots[c] = a.bots[c]
      /\ r.bots[b].there /\ r.bots[b].ownernum = owner
      /\ \A h \in Humans :
            /\ Once(r.owned[h])
            /\ \A n \in Nat : n \in ToSet(r.owned[h]) <=> n \in ToSet(d.owned[h]) \/ (n = b /\ h = owner)
  <2>1. CASE owner = NoOne
    <3> DEFINE bot == [Empty EXCEPT !.there = TRUE]
    <3>1. bot \in Slots /\ bot.there /\ bot.ownernum = NoOne
      BY DEF Slots, Empty
    <3>2. r = [d EXCEPT !.bots[b] = bot, !.dorefresh = TRUE]
      BY <1>4, <2>1
    <3> HIDE DEF bot
    <3>3. d.bots \in Seq(Slots)
      BY <1>2, RecordHas
    <3>4. /\ r.clients = d.clients /\ r.owned = d.owned
          /\ r.bots = [d.bots EXCEPT ![b] = bot] /\ r.dorefresh = TRUE
      BY <1>2, <3>2 DEF Records
    <3>9. Calm(r)
      BY <3>4 DEF Calm
    <3>5. [d.bots EXCEPT ![b] = bot] \in Seq(Slots)
      BY <1>1, <1>2, <3>1, <3>3
    <3>6. r \in Records
      BY <1>2, <3>2, <3>5 DEF Records
    <3>7. /\ DOMAIN r.bots = DOMAIN a.bots /\ r.bots[b] = bot
          /\ \A c \in DOMAIN a.bots \ {b} : r.bots[c] = a.bots[c]
      BY <1>1, <1>2, <3>4
    <3>8. \A h \in Humans : h # owner
      BY <2>1, BotsAssumption
    <3> QED
      BY <1>2, <2>1, <3>1, <3>4, <3>6, <3>7, <3>8, <3>9
  <2>2. CASE owner # NoOne
    <3> DEFINE no == FALSE
    <3>1. r = Owned(d, b, owner, no) /\ NewBot(owner, no) \in Slots
      BY <1>3, <1>4, <2>2 DEF Slots, NewBot
    <3> HIDE DEF no
    <3>2. b \in Places(d)
      BY <1>1, <1>2 DEF Places
    <3>3. Unlisted(d, b)
      BY <1>1, <1>2 DEF Unlisted
    <3>4. Given(d, r, b, owner, no)
      <4>1. d \in Records
        BY <1>2
      <4> QED
        BY <1>3, <3>1, <3>2, <3>3, <4>1, OwnedIs
    <3> QED
      BY <1>1, <1>2, <3>4 DEF Given, NewBot
  <2> QED
    BY <2>1, <2>2
<1>6. Bots(r) = Bots(a) /\ Connected(r) = Connected(a)
  <2>1. \A c \in DOMAIN a.bots : r.bots[c].there <=> a.bots[c].there
    BY <1>5 DEF Bots
  <2> QED
    BY <1>5, <2>1 DEF Bots, Connected
<1>7. Changes(a, r, b)
  <2>1. Once(r.clients) /\ \A n \in Nat : n \in ToSet(r.clients) <=> n \in Bots(r)
    BY <1>5, <1>6 DEF Fit
  <2>2. ASSUME NEW h \in Humans
        PROVE  /\ Once(r.owned[h])
               /\ \A n \in Nat \ {b} : n \in ToSet(r.owned[h]) <=> n \in ToSet(a.owned[h])
               /\ b \in ToSet(r.owned[h]) <=> r.bots[b].there /\ r.bots[b].ownernum = h
    BY <1>1, <1>2, <1>5
  <2>3. DOMAIN r.bots = DOMAIN a.bots \cup {b}
    BY <1>1, <1>5
  <2> QED
    BY <1>5, <1>6, <2>1, <2>2, <2>3 DEF Changes
<1>8. MayOwn(r.bots[b], Connected(a), valid, leaving)
  BY <1>5 DEF MayOwn
<1>9. Fit(r, valid, leaving)
  BY <1>7, <1>8, Replaced
<1>10. KeepsOthers(a, r, b)
  BY <1>5, <1>6 DEF Bots, KeepsOthers
<1> QED
  BY <1>5, <1>6, <1>9, <1>10

\* The bot is deleted from all lists.
LEMMA DeletedIs ==
  ASSUME NEW valid \in SUBSET Humans, NEW leaving, NEW a, Fit(a, valid, leaving), NEW b \in Bots(a),
         NEW r, r = Deleted(a, b)
  PROVE  /\ Fit(r, valid, leaving) /\ Bots(r) = Bots(a) \ {b} /\ Connected(r) = Connected(a)
         /\ DOMAIN r.bots = DOMAIN a.bots /\ (Calm(a) => Calm(r))
         /\ Keeps(a, r, Bots(r))
<1> DEFINE d == Disowned(a, b)
           q == RemoveFirst(d.clients, b)
<1>1. a \in Records /\ b \in DOMAIN a.bots /\ b \in Nat /\ b \notin Humans
  BY RecordHas, BotsAssumption DEF Fit, Bots
<1>2. /\ d \in Records /\ d.clients = a.clients /\ d.bots = a.bots /\ d.dorefresh = a.dorefresh
      /\ \A h \in Humans :
            /\ Once(d.owned[h])
            /\ \A n \in Nat : n \in ToSet(d.owned[h]) <=> n \in ToSet(a.owned[h]) /\ n # b
  BY DisownedIs
<1>3. r = [d EXCEPT !.clients = q, !.bots[b] = Empty]
  BY DEF Deleted
<1> HIDE DEF d
<1>4. /\ q \in Seq(Humans \cup Nat) /\ Once(q)
      /\ \A c : c \in ToSet(q) <=> c \in ToSet(a.clients) /\ c # b
  <2>1. d.clients \in Seq(Humans \cup Nat) /\ b \in ToSet(d.clients) /\ Once(d.clients)
    BY <1>1, <1>2, RecordHas DEF Fit
  <2>2. /\ RemoveFirst(d.clients, b) \in Seq(Humans \cup Nat) /\ Once(RemoveFirst(d.clients, b))
        /\ \A c : c \in ToSet(RemoveFirst(d.clients, b)) <=> c \in ToSet(d.clients) /\ c # b
    BY <2>1, Taken
  <2> QED
    BY <1>2, <2>2
<1> HIDE DEF q
<1>5. Empty \in Slots /\ ~Empty.there
  BY DEF Slots, Empty
<1>6. d.bots \in Seq(Slots)
  BY <1>2, RecordHas
<1>7. [d.bots EXCEPT ![b] = Empty] \in Seq(Slots)
  BY <1>1, <1>2, <1>5, <1>6
<1>8. /\ r.clients = q /\ r.bots = [d.bots EXCEPT ![b] = Empty] /\ r.owned = d.owned
      /\ r.dorefresh = a.dorefresh
  BY <1>2, <1>3 DEF Records
<1>9. r \in Records
  BY <1>2, <1>3, <1>4, <1>7 DEF Records
<1>10. /\ DOMAIN r.bots = DOMAIN a.bots /\ r.bots[b] = Empty
       /\ \A c \in DOMAIN a.bots \ {b} : r.bots[c] = a.bots[c]
  BY <1>1, <1>2, <1>8
<1>11. Bots(r) = Bots(a) \ {b} /\ Connected(r) = Connected(a)
  <2>1. Bots(r) = Bots(a) \ {b}
    BY <1>1, <1>5, <1>10 DEF Bots
  <2>2. Connected(r) = Connected(a)
    BY <1>1, <1>4, <1>8 DEF Connected
  <2> QED
    BY <2>1, <2>2
<1>12. Changes(a, r, b)
  <2>1. Once(r.clients) /\ \A n \in Nat : n \in ToSet(r.clients) <=> n \in Bots(r)
    BY <1>4, <1>8, <1>11 DEF Fit
  <2>2. ASSUME NEW h \in Humans
        PROVE  /\ Once(r.owned[h])
               /\ \A n \in Nat \ {b} : n \in ToSet(r.owned[h]) <=> n \in ToSet(a.owned[h])
               /\ b \in ToSet(r.owned[h]) <=> r.bots[b].there /\ r.bots[b].ownernum = h
    BY <1>1, <1>2, <1>5, <1>8, <1>10
  <2>3. DOMAIN r.bots = DOMAIN a.bots \cup {b}
    BY <1>1, <1>10
  <2> QED
    BY <1>9, <1>10, <1>11, <2>1, <2>2, <2>3 DEF Changes
<1>13. Fit(r, valid, leaving)
  BY <1>11, <1>12, Replaced
<1>14. Keeps(a, r, Bots(r))
  BY <1>10, <1>11 DEF Bots, Keeps
<1>15. Calm(a) => Calm(r)
  BY <1>8, <1>11, <1>14 DEF Calm, Keeps
<1> QED
  BY <1>10, <1>11, <1>13, <1>14, <1>15

\* deleteai also asks for a refresh.
LEMMA DeleteaiIs ==
  ASSUME NEW valid \in SUBSET Humans, NEW leaving, NEW a, Fit(a, valid, leaving), NEW b \in Bots(a),
         NEW r, r = deleteai(a, b)
  PROVE  /\ Fit(r, valid, leaving) /\ Bots(r) = Bots(a) \ {b} /\ Connected(r) = Connected(a)
         /\ DOMAIN r.bots = DOMAIN a.bots /\ Calm(r)
         /\ Keeps(a, r, Bots(r))
<1> DEFINE d == Deleted(a, b)
<1>0. d = Deleted(a, b)
  OBVIOUS
<1> HIDE DEF d
<1>1. /\ Fit(d, valid, leaving) /\ Bots(d) = Bots(a) \ {b} /\ Connected(d) = Connected(a)
      /\ DOMAIN d.bots = DOMAIN a.bots /\ Keeps(a, d, Bots(d))
  BY <1>0, DeletedIs
<1>2. r = [d EXCEPT !.dorefresh = TRUE]
  BY <1>0 DEF deleteai
<1>3. /\ r \in Records /\ r.clients = d.clients /\ r.bots = d.bots /\ r.owned = d.owned
      /\ r.dorefresh = TRUE
  <2>1. d \in Records
    BY <1>1 DEF Fit
  <2> QED
    BY <1>2, <2>1 DEF Records
<1>4. Fit(r, valid, leaving) /\ Bots(r) = Bots(d) /\ Connected(r) = Connected(d)
  BY <1>1, <1>3, Asked
<1>5. Calm(r)
  BY <1>3 DEF Calm
<1> QED
  BY <1>1, <1>3, <1>4, <1>5 DEF Keeps

\* reinitai deletes a bot without an owner, and tells the players of the others.
LEMMA ReinitIs ==
  ASSUME NEW valid \in SUBSET Humans, NEW leaving, NEW a, Fit(a, valid, leaving), NEW b \in Bots(a),
         NEW r, r = reinitai(a, b)
  PROVE  /\ Fit(r, valid, leaving) /\ Connected(r) = Connected(a) /\ DOMAIN r.bots = DOMAIN a.bots
         /\ b \in Bots(r) => r.bots[b].ownernum # NoOne /\ ~r.bots[b].aireinit
         /\ Bots(r) \subseteq Bots(a)
         /\ KeepsOthers(a, r, b)
<1>1. CASE a.bots[b].ownernum = NoOne
  <2>1. r = deleteai(a, b)
    BY <1>1 DEF reinitai
  <2>2. /\ Fit(r, valid, leaving) /\ Bots(r) = Bots(a) \ {b} /\ Connected(r) = Connected(a)
        /\ DOMAIN r.bots = DOMAIN a.bots /\ Keeps(a, r, Bots(r))
    BY <2>1, DeleteaiIs
  <2> QED
    BY <2>2 DEF Keeps, KeepsOthers
<1>2. CASE a.bots[b].ownernum # NoOne
  <2> DEFINE bot == [a.bots[b] EXCEPT !.aireinit = FALSE]
  <2>1. a \in Records /\ b \in DOMAIN a.bots /\ b \in Nat /\ a.bots[b] \in Slots /\ a.bots \in Seq(Slots)
        /\ a.bots[b].there
    BY RecordHas DEF Fit, Bots
  <2>2. r = [a EXCEPT !.bots[b].aireinit = FALSE]
    BY <1>2 DEF reinitai
  <2>3. r.clients = a.clients /\ r.owned = a.owned /\ r.bots = [a.bots EXCEPT ![b] = bot]
    BY <2>1, <2>2 DEF Records
  <2>4. /\ bot \in Slots /\ bot.there /\ ~bot.aireinit
        /\ bot.ownernum = a.bots[b].ownernum /\ bot.byauto = a.bots[b].byauto
    BY <2>1 DEF Slots
  <2> HIDE DEF bot
  <2>5. [a.bots EXCEPT ![b] = bot] \in Seq(Slots)
    BY <2>1, <2>4
  <2>6. r = [a EXCEPT !.bots = r.bots]
    BY <2>1, <2>2 DEF Records
  <2>7. r \in Records
    BY <2>1, <2>3, <2>5, <2>6 DEF Records
  <2>8. /\ DOMAIN r.bots = DOMAIN a.bots /\ r.bots[b] = bot
        /\ \A c \in DOMAIN a.bots \ {b} : r.bots[c] = a.bots[c]
    BY <2>1, <2>3
  <2>9. Bots(r) = Bots(a) /\ Connected(r) = Connected(a)
    <3>1. \A c \in DOMAIN a.bots : r.bots[c].there <=> a.bots[c].there
      BY <2>1, <2>4, <2>8
    <3> QED
      BY <2>3, <2>8, <3>1 DEF Bots, Connected
  <2>10. Changes(a, r, b)
    <3>1. Once(r.clients) /\ \A n \in Nat : n \in ToSet(r.clients) <=> n \in Bots(r)
      BY <2>3, <2>9 DEF Fit
    <3>2. ASSUME NEW h \in Humans
          PROVE  /\ Once(r.owned[h])
                 /\ \A n \in Nat \ {b} : n \in ToSet(r.owned[h]) <=> n \in ToSet(a.owned[h])
                 /\ b \in ToSet(r.owned[h]) <=> r.bots[b].there /\ r.bots[b].ownernum = h
      <4>1. Once(a.owned[h]) /\ (b \in ToSet(a.owned[h]) <=> a.bots[b].ownernum = h)
        BY <2>1 DEF Fit
      <4> QED
        BY <2>3, <2>4, <2>8, <4>1
    <3>3. DOMAIN r.bots = DOMAIN a.bots \cup {b}
      BY <2>1, <2>8
    <3> QED
      BY <2>7, <2>8, <2>9, <3>1, <3>2, <3>3 DEF Changes
  <2>11. MayOwn(r.bots[b], Connected(a), valid, leaving)
    <3>1. MayOwn(a.bots[b], Connected(a), valid, leaving)
      BY DEF Fit
    <3> QED
      BY <2>4, <2>8, <3>1 DEF MayOwn
  <2>12. Fit(r, valid, leaving)
    BY <2>10, <2>11, Replaced
  <2>13. KeepsOthers(a, r, b)
    BY <2>8, <2>9 DEF Bots, KeepsOthers
  <2> QED
    BY <1>2, <2>4, <2>8, <2>9, <2>12, <2>13
<1> QED
  BY <1>1, <1>2

\* By the automatic bots, or for a client that may run bots.
Sound(byauto, found, valid) == byauto \in BOOLEAN /\ (byauto \/ found \subseteq valid)

\* addai: one bot more, or one that had no owner gets one.
LEMMA AddaiIs ==
  ASSUME NEW valid \in SUBSET Humans, NEW leaving, NEW a, Fit(a, valid, leaving),
         NEW found \in SUBSET Humans, NEW limit, NEW byauto, Sound(byauto, found, valid),
         NEW r, r = addai(a, found, limit, byauto)
  PROVE  Fit(r, valid, leaving) /\ Connected(r) = Connected(a) /\ (Calm(a) => Calm(r))
<1> DEFINE owned == {b \in Bots(a) : a.bots[b].ownernum # NoOne}
           S == 1..(Len(a.bots) + 1) \ owned
           b == Min(S)
           owner == findaiclient(a, found, NoOne)
           x == Owned(a, b, owner, byauto)
<1>1. /\ a \in Records /\ Len(a.bots) \in Nat /\ DOMAIN a.bots = 1..Len(a.bots)
      /\ Bots(a) \in SUBSET (1..Len(a.bots))
  BY RecordHas DEF Fit
<1>2. b \in S
  <2>1. Len(a.bots) + 1 \in S
    BY <1>1
  <2>2. S \in SUBSET Nat /\ S # {}
    BY <1>1, <2>1
  <2> HIDE DEF S
  <2> QED
    BY <2>2, MinIs
<1>3. /\ b \in Places(a) /\ b \in Nat /\ b \notin Humans
      /\ b \in Bots(a) => a.bots[b].ownernum = NoOne
  BY <1>1, <1>2, BotsAssumption DEF Places
<1>4. owner \in (Connected(a) \cap found) \cup {NoOne}
  <2>1. found \ {NoOne} \in SUBSET Humans
    OBVIOUS
  <2>2. Least(a, found \ {NoOne}) \in (Connected(a) \cap (found \ {NoOne})) \cup {NoOne}
    BY <1>1, <2>1, LeastIs
  <2> QED
    BY <2>2 DEF findaiclient
<1>5. r = IF Cardinality(owned) >= limit THEN a
          ELSE IF b \in Bots(a) THEN x
          ELSE [x EXCEPT !.clients = Append(@, b)]
  BY DEF addai
<1>6. x = Owned(a, b, owner, byauto)
  OBVIOUS
<1> HIDE DEF b, owner, x
<1>7. Unlisted(a, b)
  BY <1>3, BotsAssumption DEF Fit, Unlisted
<1>8. NewBot(owner, byauto) \in Slots
  BY <1>4 DEF NewBot, Slots, Sound, Connected
<1>9. owner \in Humans \cup {NoOne}
  BY <1>4 DEF Connected
<1>10. Given(a, x, b, owner, byauto)
  <2>1. a \in Records /\ b \in Places(a)
    BY <1>1, <1>3
  <2> QED
    BY <1>6, <1>7, <1>8, <1>9, <2>1, OwnedIs
<1>11. x.bots[b].there /\ x.bots[b].ownernum = owner
  BY <1>10 DEF NewBot, Given
<1>12. MayOwn(x.bots[b], Connected(a), valid, leaving)
  <2>1. x.bots[b].ownernum = owner /\ x.bots[b].byauto = byauto
    BY <1>10 DEF NewBot, Given
  <2> QED
    BY <1>4, <2>1 DEF MayOwn, Sound
<1>13. Bots(x) = Bots(a) \cup {b}
  BY <1>10, <1>11 DEF Bots, Given
<1>14. ASSUME NEW h \in Humans
       PROVE  /\ Once(x.owned[h])
              /\ \A n \in Nat \ {b} : n \in ToSet(x.owned[h]) <=> n \in ToSet(a.owned[h])
              /\ b \in ToSet(x.owned[h]) <=> x.bots[b].there /\ x.bots[b].ownernum = h
  BY <1>3, <1>7, <1>10, <1>11 DEF Unlisted, Given
<1>15. CASE r = a
  BY <1>15
<1>16. CASE b \in Bots(a) /\ r = x
  <2>1. Once(r.clients) /\ \A n \in Nat : n \in ToSet(r.clients) <=> n \in Bots(r)
    BY <1>10, <1>13, <1>16 DEF Fit, Given
  <2>2. Connected(r) = Connected(a)
    BY <1>10, <1>16 DEF Connected, Given
  <2>3. Changes(a, r, b)
    BY <1>10, <1>14, <1>16, <2>1, <2>2 DEF Changes, Given
  <2>4. Fit(r, valid, leaving)
    BY <1>12, <1>16, <2>3, Replaced
  <2> QED
    BY <1>10, <1>16, <2>2, <2>4 DEF Given
<1>17. CASE b \notin Bots(a) /\ r = [x EXCEPT !.clients = Append(@, b)]
  <2> DEFINE q == Append(x.clients, b)
  <2>1. /\ x.clients \in Seq(Humans \cup Nat) /\ Once(x.clients) /\ b \notin ToSet(x.clients)
        /\ \A n \in Nat : n \in ToSet(x.clients) <=> n \in Bots(a)
    BY <1>3, <1>10, <1>17, RecordHas DEF Fit, Given
  <2>2. b \in Humans \cup Nat
    BY <1>3
  <2>3. /\ q \in Seq(Humans \cup Nat) /\ Once(q)
        /\ \A c : c \in ToSet(q) <=> c \in ToSet(x.clients) \/ c = b
    BY <2>1, <2>2, Appended
  <2>4. r = [x EXCEPT !.clients = q]
    BY <1>17
  <2> HIDE DEF q
  <2>5. /\ r \in Records /\ r.clients = q /\ r.bots = x.bots /\ r.owned = x.owned
        /\ r.dorefresh = x.dorefresh
    BY <1>10, <2>3, <2>4 DEF Records, Given
  <2>6. Bots(r) = Bots(x) /\ Calm(r)
    BY <1>10, <2>5 DEF Bots, Calm, Given
  <2>7. Once(r.clients) /\ \A n \in Nat : n \in ToSet(r.clients) <=> n \in Bots(r)
    BY <1>13, <2>1, <2>3, <2>5, <2>6
  <2>8. Connected(r) = Connected(a)
    BY <1>3, <1>10, <2>3, <2>5 DEF Connected, Given
  <2>9. Changes(a, r, b)
    BY <1>10, <1>14, <2>5, <2>7, <2>8 DEF Changes, Given
  <2>10. Fit(r, valid, leaving)
    BY <1>12, <2>5, <2>9, Replaced
  <2> QED
    BY <2>6, <2>8, <2>10
<1> QED
  BY <1>5, <1>15, <1>16, <1>17

-----------------------------------------------------------------------------
(***************************************************************************)
(* The loops over the bots, taken one bot after the other.                 *)
(***************************************************************************)
DeleteOne(x, b) == IF b \in Bots(x) THEN deleteai(x, b) ELSE x

ReinitOne(x, b) == IF b \in Bots(x) THEN reinitai(x, b) ELSE x

ShiftOne(x, b, valid, h) == shiftai(x, b, findaiclient(x, valid, h))

DeleteAll(a, s) == FoldLeft(LAMBDA x, b : IF b \in Bots(x) THEN deleteai(x, b) ELSE x, a, s)

ReinitAll(a, s) == FoldLeft(LAMBDA x, b : IF b \in Bots(x) THEN reinitai(x, b) ELSE x, a, s)

ShiftAll(a, s, valid, h) == FoldLeft(LAMBDA x, b : shiftai(x, b, findaiclient(x, valid, h)), a, s)

ReassignAll(a, s, valid) == FoldLeft(LAMBDA x, i : reassignai(x, valid), a, s)

DeleteTrace(t, a, s, n) == t[0] = a /\ \A k \in 1..n : t[k] = DeleteOne(t[k - 1], s[k])

DeleteClosed(W, s, n) == \A w \in W, k \in 1..n : DeleteOne(w, s[k]) \in W

\* The loop of clearai.
LEMMA DeleteSteps ==
  ASSUME NEW W, NEW a \in W, NEW n \in Nat, NEW s, DOMAIN s = 1..n,
         DeleteClosed(W, s, n)
  PROVE  \E t \in [0..n -> W] : t[n] = DeleteAll(a, s) /\ DeleteTrace(t, a, s, n)
<1> DEFINE G == [p \in W \X (1..n) |-> DeleteOne(p[1], s[p[2]])]
           Loop(j) == j = [u \in SUBSET DOMAIN s |->
                             IF u = {} THEN a ELSE DeleteOne(j[u \ {Max(u)}], s[Max(u)])]
           j == CHOOSE j : Loop(j)
<1>1. DeleteAll(a, s) = j[1..n]
  BY DEF FoldLeft, MapThenFoldSet, DeleteAll, DeleteOne
<1>2. G \in [W \X (1..n) -> W] /\ \A w \in W, k \in 1..n : G[<<w, k>>] = DeleteOne(w, s[k])
  BY DEF DeleteClosed
<1> HIDE DEF G
<1>3. PICK it \in [SUBSET (1..n) -> W] : Folds(it, a, G, n)
  BY <1>2, FoldExists
<1>4. Loop(it)
  <2>1. ASSUME NEW u \in SUBSET (1..n), u # {} PROVE it[u] = DeleteOne(it[u \ {Max(u)}], s[Max(u)])
    <3>1. Max(u) \in 1..n /\ it[u \ {Max(u)}] \in W
      BY <2>1, MaxIs
    <3> QED
      BY <1>2, <1>3, <2>1, <3>1 DEF Folds
  <2>2. it[{}] = a
    BY <1>3 DEF Folds
  <2>3. it = [u \in SUBSET (1..n) |-> it[u]]
    OBVIOUS
  <2> QED
    BY <2>1, <2>2, <2>3
<1>5. Loop(j)
  BY <1>4
<1> HIDE DEF j, Loop
<1>6. Obeys(j, a, G, n, W)
  <2>1. ASSUME NEW u \in SUBSET (1..n), u # {}, j[u \ {Max(u)}] \in W
        PROVE  j[u] = G[<<j[u \ {Max(u)}], Max(u)>>]
    <3>1. Max(u) \in 1..n
      BY <2>1, MaxIs
    <3> QED
      BY <1>2, <1>5, <2>1, <3>1 DEF Loop
  <2>2. j[{}] = a
    BY <1>5 DEF Loop
  <2> QED
    BY <2>1, <2>2 DEF Obeys
<1>7. PICK t \in [0..n -> W] : t[n] = j[1..n] /\ Traces(t, a, G, n)
  BY <1>2, <1>6, FoldSteps
<1>8. ASSUME NEW k \in 1..n PROVE t[k] = DeleteOne(t[k - 1], s[k])
  <2>1. t[k - 1] \in W
    OBVIOUS
  <2> QED
    BY <1>2, <1>7, <2>1 DEF Traces
<1>9. t[0] = a
  BY <1>7 DEF Traces
<1> QED
  BY <1>1, <1>7, <1>8, <1>9 DEF DeleteTrace

ReinitTrace(t, a, s, n) == t[0] = a /\ \A k \in 1..n : t[k] = ReinitOne(t[k - 1], s[k])

ReinitClosed(W, s, n) == \A w \in W, k \in 1..n : ReinitOne(w, s[k]) \in W

\* The loop of checksetup.
LEMMA ReinitSteps ==
  ASSUME NEW W, NEW a \in W, NEW n \in Nat, NEW s, DOMAIN s = 1..n,
         ReinitClosed(W, s, n)
  PROVE  \E t \in [0..n -> W] : t[n] = ReinitAll(a, s) /\ ReinitTrace(t, a, s, n)
<1> DEFINE G == [p \in W \X (1..n) |-> ReinitOne(p[1], s[p[2]])]
           Loop(j) == j = [u \in SUBSET DOMAIN s |->
                             IF u = {} THEN a ELSE ReinitOne(j[u \ {Max(u)}], s[Max(u)])]
           j == CHOOSE j : Loop(j)
<1>1. ReinitAll(a, s) = j[1..n]
  BY DEF FoldLeft, MapThenFoldSet, ReinitAll, ReinitOne
<1>2. G \in [W \X (1..n) -> W] /\ \A w \in W, k \in 1..n : G[<<w, k>>] = ReinitOne(w, s[k])
  BY DEF ReinitClosed
<1> HIDE DEF G
<1>3. PICK it \in [SUBSET (1..n) -> W] : Folds(it, a, G, n)
  BY <1>2, FoldExists
<1>4. Loop(it)
  <2>1. ASSUME NEW u \in SUBSET (1..n), u # {} PROVE it[u] = ReinitOne(it[u \ {Max(u)}], s[Max(u)])
    <3>1. Max(u) \in 1..n /\ it[u \ {Max(u)}] \in W
      BY <2>1, MaxIs
    <3> QED
      BY <1>2, <1>3, <2>1, <3>1 DEF Folds
  <2>2. it[{}] = a
    BY <1>3 DEF Folds
  <2>3. it = [u \in SUBSET (1..n) |-> it[u]]
    OBVIOUS
  <2> QED
    BY <2>1, <2>2, <2>3
<1>5. Loop(j)
  BY <1>4
<1> HIDE DEF j, Loop
<1>6. Obeys(j, a, G, n, W)
  <2>1. ASSUME NEW u \in SUBSET (1..n), u # {}, j[u \ {Max(u)}] \in W
        PROVE  j[u] = G[<<j[u \ {Max(u)}], Max(u)>>]
    <3>1. Max(u) \in 1..n
      BY <2>1, MaxIs
    <3> QED
      BY <1>2, <1>5, <2>1, <3>1 DEF Loop
  <2>2. j[{}] = a
    BY <1>5 DEF Loop
  <2> QED
    BY <2>1, <2>2 DEF Obeys
<1>7. PICK t \in [0..n -> W] : t[n] = j[1..n] /\ Traces(t, a, G, n)
  BY <1>2, <1>6, FoldSteps
<1>8. ASSUME NEW k \in 1..n PROVE t[k] = ReinitOne(t[k - 1], s[k])
  <2>1. t[k - 1] \in W
    OBVIOUS
  <2> QED
    BY <1>2, <1>7, <2>1 DEF Traces
<1>9. t[0] = a
  BY <1>7 DEF Traces
<1> QED
  BY <1>1, <1>7, <1>8, <1>9 DEF ReinitTrace

ShiftTrace(t, a, s, n, valid, h) == t[0] = a /\ \A k \in 1..n : t[k] = ShiftOne(t[k - 1], s[k], valid, h)

ShiftClosed(W, s, n, valid, h) == \A w \in W, k \in 1..n : ShiftOne(w, s[k], valid, h) \in W

\* The loop of removeai.
LEMMA ShiftSteps ==
  ASSUME NEW W, NEW a \in W, NEW n \in Nat, NEW valid, NEW h, NEW s, DOMAIN s = 1..n,
         ShiftClosed(W, s, n, valid, h)
  PROVE  \E t \in [0..n -> W] : t[n] = ShiftAll(a, s, valid, h) /\ ShiftTrace(t, a, s, n, valid, h)
<1> DEFINE G == [p \in W \X (1..n) |-> ShiftOne(p[1], s[p[2]], valid, h)]
           Loop(j) == j = [u \in SUBSET DOMAIN s |->
                             IF u = {} THEN a ELSE ShiftOne(j[u \ {Max(u)}], s[Max(u)], valid, h)]
           j == CHOOSE j : Loop(j)
<1>1. ShiftAll(a, s, valid, h) = j[1..n]
  BY DEF FoldLeft, MapThenFoldSet, ShiftAll, ShiftOne
<1>2. G \in [W \X (1..n) -> W] /\ \A w \in W, k \in 1..n : G[<<w, k>>] = ShiftOne(w, s[k], valid, h)
  BY DEF ShiftClosed
<1> HIDE DEF G
<1>3. PICK it \in [SUBSET (1..n) -> W] : Folds(it, a, G, n)
  BY <1>2, FoldExists
<1>4. Loop(it)
  <2>1. ASSUME NEW u \in SUBSET (1..n), u # {} PROVE it[u] = ShiftOne(it[u \ {Max(u)}], s[Max(u)], valid, h)
    <3>1. Max(u) \in 1..n /\ it[u \ {Max(u)}] \in W
      BY <2>1, MaxIs
    <3> QED
      BY <1>2, <1>3, <2>1, <3>1 DEF Folds
  <2>2. it[{}] = a
    BY <1>3 DEF Folds
  <2>3. it = [u \in SUBSET (1..n) |-> it[u]]
    OBVIOUS
  <2> QED
    BY <2>1, <2>2, <2>3
<1>5. Loop(j)
  BY <1>4
<1> HIDE DEF j, Loop
<1>6. Obeys(j, a, G, n, W)
  <2>1. ASSUME NEW u \in SUBSET (1..n), u # {}, j[u \ {Max(u)}] \in W
        PROVE  j[u] = G[<<j[u \ {Max(u)}], Max(u)>>]
    <3>1. Max(u) \in 1..n
      BY <2>1, MaxIs
    <3> QED
      BY <1>2, <1>5, <2>1, <3>1 DEF Loop
  <2>2. j[{}] = a
    BY <1>5 DEF Loop
  <2> QED
    BY <2>1, <2>2 DEF Obeys
<1>7. PICK t \in [0..n -> W] : t[n] = j[1..n] /\ Traces(t, a, G, n)
  BY <1>2, <1>6, FoldSteps
<1>8. ASSUME NEW k \in 1..n PROVE t[k] = ShiftOne(t[k - 1], s[k], valid, h)
  <2>1. t[k - 1] \in W
    OBVIOUS
  <2> QED
    BY <1>2, <1>7, <2>1 DEF Traces
<1>9. t[0] = a
  BY <1>7 DEF Traces
<1> QED
  BY <1>1, <1>7, <1>8, <1>9 DEF ShiftTrace

ReassignTrace(t, a, s, n, valid) == t[0] = a /\ \A k \in 1..n : t[k] = reassignai(t[k - 1], valid)

ReassignClosed(W, s, n, valid) == \A w \in W, k \in 1..n : reassignai(w, valid) \in W

\* The loop of checkai.
LEMMA ReassignSteps ==
  ASSUME NEW W, NEW a \in W, NEW n \in Nat, NEW valid, NEW s, DOMAIN s = 1..n,
         ReassignClosed(W, s, n, valid)
  PROVE  \E t \in [0..n -> W] : t[n] = ReassignAll(a, s, valid) /\ ReassignTrace(t, a, s, n, valid)
<1> DEFINE G == [p \in W \X (1..n) |-> reassignai(p[1], valid)]
           Loop(j) == j = [u \in SUBSET DOMAIN s |->
                             IF u = {} THEN a ELSE reassignai(j[u \ {Max(u)}], valid)]
           j == CHOOSE j : Loop(j)
<1>1. ReassignAll(a, s, valid) = j[1..n]
  BY DEF FoldLeft, MapThenFoldSet, ReassignAll
<1>2. G \in [W \X (1..n) -> W] /\ \A w \in W, k \in 1..n : G[<<w, k>>] = reassignai(w, valid)
  BY DEF ReassignClosed
<1> HIDE DEF G
<1>3. PICK it \in [SUBSET (1..n) -> W] : Folds(it, a, G, n)
  BY <1>2, FoldExists
<1>4. Loop(it)
  <2>1. ASSUME NEW u \in SUBSET (1..n), u # {} PROVE it[u] = reassignai(it[u \ {Max(u)}], valid)
    <3>1. Max(u) \in 1..n /\ it[u \ {Max(u)}] \in W
      BY <2>1, MaxIs
    <3> QED
      BY <1>2, <1>3, <2>1, <3>1 DEF Folds
  <2>2. it[{}] = a
    BY <1>3 DEF Folds
  <2>3. it = [u \in SUBSET (1..n) |-> it[u]]
    OBVIOUS
  <2> QED
    BY <2>1, <2>2, <2>3
<1>5. Loop(j)
  BY <1>4
<1> HIDE DEF j, Loop
<1>6. Obeys(j, a, G, n, W)
  <2>1. ASSUME NEW u \in SUBSET (1..n), u # {}, j[u \ {Max(u)}] \in W
        PROVE  j[u] = G[<<j[u \ {Max(u)}], Max(u)>>]
    <3>1. Max(u) \in 1..n
      BY <2>1, MaxIs
    <3> QED
      BY <1>2, <1>5, <2>1, <3>1 DEF Loop
  <2>2. j[{}] = a
    BY <1>5 DEF Loop
  <2> QED
    BY <2>1, <2>2 DEF Obeys
<1>7. PICK t \in [0..n -> W] : t[n] = j[1..n] /\ Traces(t, a, G, n)
  BY <1>2, <1>6, FoldSteps
<1>8. ASSUME NEW k \in 1..n PROVE t[k] = reassignai(t[k - 1], valid)
  <2>1. t[k - 1] \in W
    OBVIOUS
  <2> QED
    BY <1>2, <1>7, <2>1 DEF Traces
<1>9. t[0] = a
  BY <1>7 DEF Traces
<1> QED
  BY <1>1, <1>7, <1>8, <1>9 DEF ReassignTrace

-----------------------------------------------------------------------------
(***************************************************************************)
(* What the loops over the bots do.                                        *)
(***************************************************************************)
\* The slots, from the last one to the first.
LEMMA BackwardsIs ==
  ASSUME NEW a \in Records, NEW n \in Nat, n = Len(a.bots)
  PROVE  /\ DOMAIN Backwards(a) = 1..n
         /\ \A k \in 1..n : Backwards(a)[k] = n - k + 1 /\ n - k + 1 \in 1..n
<1> DEFINE s == [i \in DOMAIN a.bots |-> i]
<1>1. DOMAIN a.bots = 1..n
  BY RecordHas
<1>2. Len(s) = n /\ \A i \in 1..n : s[i] = i
  BY <1>1
<1> HIDE DEF s
<1>3. Backwards(a) = [k \in 1..n |-> s[n - k + 1]]
  BY <1>2 DEF Backwards, Reverse, s
<1>4. \A k \in 1..n : n - k + 1 \in 1..n
  OBVIOUS
<1> QED
  BY <1>2, <1>3, <1>4

\* clearai leaves no bot.
LEMMA ClearIs ==
  ASSUME NEW valid \in SUBSET Humans, NEW leaving, NEW a, Fit(a, valid, leaving),
         NEW r, r = clearai(a)
  PROVE  Fit(r, valid, leaving) /\ Bots(r) = {} /\ Connected(r) = Connected(a) /\ Calm(r)
<1> DEFINE n == Len(a.bots)
           s == Backwards(a)
           Like(x) == /\ Fit(x, valid, leaving) /\ DOMAIN x.bots = DOMAIN a.bots
                      /\ Connected(x) = Connected(a)
           W == {x \in Records : Like(x)}
<1>1. a \in Records
  BY DEF Fit
<1>2. n \in Nat /\ Bots(a) \in SUBSET (1..n) /\ DOMAIN a.bots = 1..n
  BY <1>1, RecordHas
<1>3. DOMAIN s = 1..n /\ \A k \in 1..n : s[k] = n - k + 1 /\ n - k + 1 \in 1..n
  <2>1. n = Len(a.bots)
    OBVIOUS
  <2> HIDE DEF n
  <2> QED
    BY <1>1, <1>2, <2>1, BackwardsIs
<1>4. r = DeleteAll(a, s)
  BY DEF clearai, DeleteAll
<1>5. a \in W
  BY <1>1
<1> HIDE DEF n, s
<1>6. ASSUME NEW w \in W, NEW b
      PROVE  /\ DeleteOne(w, b) \in W
             /\ \A c : c \in Bots(DeleteOne(w, b)) => c \in Bots(w) /\ c # b
  <2>1. CASE b \in Bots(w)
    <3> DEFINE x == deleteai(w, b)
    <3>1. x = deleteai(w, b) /\ DeleteOne(w, b) = x
      BY <2>1 DEF DeleteOne
    <3> HIDE DEF x
    <3>2. Fit(w, valid, leaving)
      OBVIOUS
    <3>3. /\ Fit(x, valid, leaving) /\ Bots(x) = Bots(w) \ {b} /\ Connected(x) = Connected(w)
          /\ DOMAIN x.bots = DOMAIN w.bots
      BY <2>1, <3>1, <3>2, DeleteaiIs
    <3>4. x \in Records
      BY <3>3 DEF Fit
    <3> QED
      BY <3>1, <3>3, <3>4
  <2>2. CASE b \notin Bots(w)
    BY <2>2 DEF DeleteOne
  <2> QED
    BY <2>1, <2>2
<1>7. DeleteClosed(W, s, n)
  BY <1>6 DEF DeleteClosed
<1> HIDE DEF W
<1>8. PICK t \in [0..n -> W] :
         /\ t[0] = a /\ t[n] = DeleteAll(a, s)
         /\ \A k \in 1..n : t[k] = DeleteOne(t[k - 1], s[k])
  <2>1. n \in Nat /\ DOMAIN s = 1..n
    BY <1>2, <1>3
  <2>2. \E t \in [0..n -> W] : t[n] = DeleteAll(a, s) /\ DeleteTrace(t, a, s, n)
    BY <1>5, <1>7, <2>1, DeleteSteps
  <2> QED
    BY <2>2 DEF DeleteTrace
<1> DEFINE P == {k \in 0..n : \A b \in Bots(t[k]) : b \in 1..n - k}
<1>9. 0 \in P
  BY <1>2, <1>8
<1>10. ASSUME NEW k \in 0..(n - 1), k \in P PROVE k + 1 \in P
  <2>1. k + 1 \in 1..n /\ k + 1 \in 0..n /\ k \in 0..n /\ n - (k + 1) + 1 = n - k
    BY <1>2
  <2>2. t[k + 1] = DeleteOne(t[k], n - k) /\ t[k] \in W
    <3>1. t[k + 1] = DeleteOne(t[k + 1 - 1], s[k + 1]) /\ s[k + 1] = n - (k + 1) + 1
      BY <1>3, <1>8, <2>1
    <3>2. k + 1 - 1 = k
      BY <1>2
    <3> QED
      BY <2>1, <3>1, <3>2
  <2>3. ASSUME NEW b \in Bots(t[k + 1]) PROVE b \in 1..n - (k + 1)
    <3>1. b \in Bots(t[k]) /\ b # n - k
      BY <1>6, <2>2
    <3>2. b \in 1..n - k
      BY <1>10, <3>1
    <3> QED
      BY <1>2, <3>1, <3>2
  <2> QED
    BY <2>1, <2>3
<1>11. 0..n \subseteq P
  <2> HIDE DEF P
  <2> QED
    BY <1>2, <1>9, <1>10, Climb
<1>12. Bots(r) = {}
  <2>1. n \in P /\ n - n = 0
    BY <1>2, <1>11
  <2>2. \A b \in Bots(t[n]) : b \in 1..0
    BY <2>1
  <2> QED
    BY <1>4, <1>8, <2>2
<1>13. r \in W
  BY <1>2, <1>4, <1>8
<1>14. Calm(r)
  BY <1>12 DEF Calm
<1> QED
  BY <1>12, <1>13, <1>14 DEF W

\* checksetup leaves no bot unsettled.
LEMMA SetupIs ==
  ASSUME NEW valid \in SUBSET Humans, NEW leaving, NEW a, Fit(a, valid, leaving),
         NEW r, r = checksetup(a)
  PROVE  Fit(r, valid, leaving) /\ Connected(r) = Connected(a) /\ Calm(r)
<1> DEFINE n == Len(a.bots)
           s == Backwards(a)
           Like(x) == /\ Fit(x, valid, leaving) /\ DOMAIN x.bots = DOMAIN a.bots
                      /\ Connected(x) = Connected(a)
           W == {x \in Records : Like(x)}
           Settles(x, b) == x.bots[b].ownernum # NoOne /\ ~x.bots[b].aireinit
<1>1. a \in Records
  BY DEF Fit
<1>2. n \in Nat /\ Bots(a) \in SUBSET (1..n) /\ DOMAIN a.bots = 1..n
  BY <1>1, RecordHas
<1>3. DOMAIN s = 1..n /\ \A k \in 1..n : s[k] = n - k + 1 /\ n - k + 1 \in 1..n
  <2>1. n = Len(a.bots)
    OBVIOUS
  <2> HIDE DEF n
  <2> QED
    BY <1>1, <1>2, <2>1, BackwardsIs
<1>4. r = ReinitAll(a, s)
  BY DEF checksetup, ReinitAll
<1>5. a \in W
  BY <1>1
<1> HIDE DEF n, s
<1>6. ASSUME NEW w \in W, NEW b
      PROVE  /\ ReinitOne(w, b) \in W
             /\ \A c \in Bots(ReinitOne(w, b)) : c \in Bots(w)
             /\ b \in Bots(ReinitOne(w, b)) => Settles(ReinitOne(w, b), b)
             /\ \A c \in Bots(ReinitOne(w, b)) : c # b => ReinitOne(w, b).bots[c] = w.bots[c]
  <2>1. CASE b \in Bots(w)
    <3> DEFINE x == reinitai(w, b)
    <3>1. x = reinitai(w, b) /\ ReinitOne(w, b) = x
      BY <2>1 DEF ReinitOne
    <3> HIDE DEF x
    <3>2. Fit(w, valid, leaving)
      OBVIOUS
    <3>3. /\ Fit(x, valid, leaving) /\ Bots(x) \subseteq Bots(w) /\ Connected(x) = Connected(w)
          /\ DOMAIN x.bots = DOMAIN w.bots /\ KeepsOthers(w, x, b)
          /\ b \in Bots(x) => x.bots[b].ownernum # NoOne /\ ~x.bots[b].aireinit
      BY <2>1, <3>1, <3>2, ReinitIs
    <3>4. x \in Records
      BY <3>3 DEF Fit
    <3> QED
      BY <3>1, <3>3, <3>4 DEF KeepsOthers
  <2>2. CASE b \notin Bots(w)
    BY <2>2 DEF ReinitOne
  <2> QED
    BY <2>1, <2>2
<1>7. ReinitClosed(W, s, n)
  BY <1>6 DEF ReinitClosed
<1>13. ASSUME NEW w \in W PROVE Bots(w) \in SUBSET (1..n)
  BY <1>2, RecordHas DEF Bots
<1> HIDE DEF W
<1>8. PICK t \in [0..n -> W] :
         /\ t[0] = a /\ t[n] = ReinitAll(a, s)
         /\ \A k \in 1..n : t[k] = ReinitOne(t[k - 1], s[k])
  <2>1. n \in Nat /\ DOMAIN s = 1..n
    BY <1>2, <1>3
  <2>2. \E t \in [0..n -> W] : t[n] = ReinitAll(a, s) /\ ReinitTrace(t, a, s, n)
    BY <1>5, <1>7, <2>1, ReinitSteps
  <2> QED
    BY <2>2 DEF ReinitTrace
<1> DEFINE P == {k \in 0..n : \A b \in Bots(t[k]) : b > n - k => Settles(t[k], b)}
<1>9. 0 \in P
  BY <1>2, <1>8
<1> HIDE DEF Settles
<1>10. ASSUME NEW k \in 0..(n - 1), k \in P PROVE k + 1 \in P
  <2>1. k + 1 \in 1..n /\ k + 1 \in 0..n /\ k \in 0..n /\ n - (k + 1) + 1 = n - k
    BY <1>2
  <2>2. t[k + 1] = ReinitOne(t[k], n - k) /\ t[k] \in W /\ t[k + 1] \in W
    <3>1. t[k + 1] = ReinitOne(t[k + 1 - 1], s[k + 1]) /\ s[k + 1] = n - (k + 1) + 1
      BY <1>3, <1>8, <2>1
    <3>2. k + 1 - 1 = k
      BY <1>2
    <3> QED
      BY <2>1, <3>1, <3>2
  <2>3. ASSUME NEW b \in Bots(t[k + 1]), b > n - (k + 1) PROVE Settles(t[k + 1], b)
    <3>1. CASE b = n - k
      BY <1>6, <2>2, <3>1
    <3>2. CASE b # n - k
      <4>1. b \in 1..n
        BY <1>13, <2>2
      <4>2. b > n - k
        BY <1>2, <2>3, <3>2, <4>1
      <4>3. b \in Bots(t[k]) /\ t[k + 1].bots[b] = t[k].bots[b]
        BY <1>6, <2>2, <3>2
      <4>4. Settles(t[k], b)
        BY <1>10, <4>2, <4>3
      <4> QED
        BY <4>3, <4>4 DEF Settles
    <3> QED
      BY <3>1, <3>2
  <2> QED
    BY <2>1, <2>3
<1>11. 0..n \subseteq P
  <2> HIDE DEF P
  <2> QED
    BY <1>2, <1>9, <1>10, Climb
<1>12. r \in W
  BY <1>2, <1>4, <1>8
<1>14. ASSUME NEW b \in Bots(r) PROVE Settles(r, b)
  <2>1. n \in P /\ b \in 1..n
    BY <1>2, <1>11, <1>12, <1>13
  <2>2. b > n - n
    BY <1>2, <2>1
  <2> QED
    BY <1>4, <1>8, <2>1, <2>2
<1>15. Calm(r)
  BY <1>14 DEF Calm, Settles
<1> QED
  BY <1>12, <1>15 DEF W

\* removeai leaves h no bot: every one goes to another client, or waits.
LEMMA RemoveIs ==
  ASSUME NEW valid \in SUBSET Humans, NEW h \in Humans, NEW a, Fit(a, valid, {h}),
         NEW r, r = removeai(a, valid, h)
  PROVE  /\ Fit(r, valid, {}) /\ Bots(r) = Bots(a) /\ Connected(r) = Connected(a)
         /\ Calm(a) => Calm(r)
<1> DEFINE q == a.owned[h]
           n == Len(q)
           s == Reverse(q)
           Like(x) == /\ Fit(x, valid, {h}) /\ Bots(x) = Bots(a) /\ Connected(x) = Connected(a)
                      /\ Calm(a) => Calm(x)
           W == {x \in Records : Like(x)}
<1>1. a \in Records /\ h # NoOne
  BY BotsAssumption DEF Fit
<1>2. q \in Seq(Nat) /\ n \in Nat /\ DOMAIN q = 1..n
  BY <1>1, RecordHas
<1>3. DOMAIN s = 1..n /\ \A k \in 1..n : s[k] = q[n - k + 1] /\ n - k + 1 \in 1..n
  <2>1. s = [k \in 1..n |-> q[n - k + 1]]
    BY DEF Reverse
  <2>2. \A k \in 1..n : n - k + 1 \in 1..n
    BY <1>2
  <2> HIDE DEF q, n, s
  <2> QED
    BY <2>1, <2>2
<1>4. r = ShiftAll(a, s, valid, h)
  BY DEF removeai, ShiftAll
<1>5. a \in W
  BY <1>1
<1>6. \A b \in Bots(a) : a.bots[b].ownernum = h => \E i \in 1..n : q[i] = b
  BY <1>1, <1>2, RecordHas DEF Fit, ToSet
<1>7. \A i \in 1..n : q[i] \in Bots(a)
  <2>1. \A i \in 1..n : q[i] \in ToSet(q) /\ q[i] \in Nat
    BY <1>2 DEF ToSet
  <2> QED
    BY <2>1 DEF Fit
<1> HIDE DEF n, s, q
<1>8. ASSUME NEW w \in W, NEW b \in Bots(a)
      PROVE  /\ ShiftOne(w, b, valid, h) \in W
             /\ ShiftOne(w, b, valid, h).bots[b].ownernum # h
             /\ \A c \in Bots(a) : c # b => ShiftOne(w, b, valid, h).bots[c] = w.bots[c]
  <2> DEFINE x == ShiftOne(w, b, valid, h)
             owner == findaiclient(w, valid, h)
  <2>1. x = shiftai(w, b, owner)
    BY DEF ShiftOne
  <2>2. owner \in (Connected(w) \cap valid) \cup {NoOne} /\ owner # h
    <3>1. Least(w, valid \ {h}) \in (Connected(w) \cap (valid \ {h})) \cup {NoOne}
      BY LeastIs
    <3> QED
      BY <1>1, <3>1 DEF findaiclient
  <2>3. Fit(w, valid, {h}) /\ b \in Bots(w)
    OBVIOUS
  <2> HIDE DEF x, owner
  <2> DEFINE leaving == {h}
  <2>4. Fit(w, valid, leaving)
    BY <2>3
  <2> HIDE DEF leaving
  <2>5. /\ Fit(x, valid, leaving) /\ Bots(x) = Bots(w) /\ Connected(x) = Connected(w)
        /\ Calm(x) /\ x.bots[b].ownernum = owner /\ KeepsOthers(w, x, b)
    BY <2>1, <2>2, <2>3, <2>4, Shifted
  <2>6. x \in Records
    BY <2>5 DEF Fit
  <2>7. x \in W
    BY <2>5, <2>6 DEF leaving
  <2>8. \A c \in Bots(a) : c # b => x.bots[c] = w.bots[c]
    BY <2>5 DEF KeepsOthers
  <2> QED
    BY <2>2, <2>5, <2>7, <2>8 DEF x
<1>9. ShiftClosed(W, s, n, valid, h)
  BY <1>3, <1>7, <1>8 DEF ShiftClosed
<1> HIDE DEF W
<1>10. PICK t \in [0..n -> W] :
         /\ t[0] = a /\ t[n] = ShiftAll(a, s, valid, h)
         /\ \A k \in 1..n : t[k] = ShiftOne(t[k - 1], s[k], valid, h)
  <2>1. n \in Nat /\ DOMAIN s = 1..n
    BY <1>2, <1>3
  <2>2. \E t \in [0..n -> W] : t[n] = ShiftAll(a, s, valid, h) /\ ShiftTrace(t, a, s, n, valid, h)
    BY <1>5, <1>9, <2>1, ShiftSteps
  <2> QED
    BY <2>2 DEF ShiftTrace
<1> DEFINE Still(b, m) == \E i \in 1..m : q[i] = b
           P == {k \in 0..n : \A b \in Bots(a) : t[k].bots[b].ownernum = h => Still(b, n - k)}
<1>11. 0 \in P
  BY <1>2, <1>6, <1>10
<1>12. ASSUME NEW k \in 0..(n - 1), k \in P PROVE k + 1 \in P
  <2>1. k + 1 \in 1..n /\ k + 1 \in 0..n /\ k \in 0..n /\ n - (k + 1) + 1 = n - k /\ n - k \in 1..n
    BY <1>2
  <2>2. t[k + 1] = ShiftOne(t[k], q[n - k], valid, h) /\ t[k] \in W /\ q[n - k] \in Bots(a)
    <3>1. t[k + 1] = ShiftOne(t[k + 1 - 1], s[k + 1], valid, h) /\ s[k + 1] = q[n - (k + 1) + 1]
      BY <1>3, <1>10, <2>1
    <3>2. k + 1 - 1 = k
      BY <1>2
    <3> QED
      BY <1>7, <2>1, <3>1, <3>2
  <2>3. ASSUME NEW b \in Bots(a), t[k + 1].bots[b].ownernum = h PROVE Still(b, n - (k + 1))
    <3>1. b # q[n - k] /\ t[k].bots[b].ownernum = h
      BY <1>8, <2>2, <2>3
    <3>2. PICK i \in 1..n - k : q[i] = b
      BY <1>12, <3>1
    <3>3. i \in 1..n - (k + 1)
      <4>1. i # n - k /\ i \in Nat /\ i >= 1 /\ i <= n - k
        BY <1>2, <3>1, <3>2
      <4> QED
        BY <1>2, <4>1
    <3> QED
      BY <3>2, <3>3
  <2> HIDE DEF Still
  <2> QED
    BY <2>1, <2>3
<1>13. 0..n \subseteq P
  <2> HIDE DEF P
  <2> QED
    BY <1>2, <1>11, <1>12, Climb
<1>14. \A b \in Bots(a) : r.bots[b].ownernum # h
  <2>1. n \in P /\ 1..n - n = {}
    BY <1>2, <1>13
  <2> QED
    BY <1>4, <1>10, <2>1
<1>15. r \in W
  BY <1>2, <1>4, <1>10
<1>16. Fit(r, valid, {h}) /\ Bots(r) = Bots(a) /\ Connected(r) = Connected(a) /\ (Calm(a) => Calm(r))
  BY <1>15 DEF W
<1>17. ASSUME NEW b \in Bots(r) PROVE MayOwn(r.bots[b], Connected(r), valid, {})
  <2>1. MayOwn(r.bots[b], Connected(r), valid, {h}) /\ r.bots[b].ownernum # h
    BY <1>14, <1>16 DEF Fit
  <2> QED
    BY <2>1 DEF MayOwn
<1> QED
  BY <1>16, <1>17 DEF Fit

\* A bot is reassigned to a client that may run it.
LEMMA ReassignaiIs ==
  ASSUME NEW valid \in SUBSET Humans, NEW leaving, NEW a, Fit(a, valid, leaving),
         NEW r, r = reassignai(a, valid)
  PROVE  Fit(r, valid, leaving) /\ Connected(r) = Connected(a) /\ (Calm(a) => Calm(r))
<1> DEFINE hi == Most(a, valid)
           lo == Least(a, valid)
           b == Last(a.owned[hi])
<1>1. a \in Records
  BY DEF Fit
<1>2. CASE May(a, valid) # {} /\ Load(a, hi) - Load(a, lo) > 1
  <2>1. hi \in Connected(a) \cap valid
    BY <1>1, <1>2, MostIs
  <2>2. lo \in Connected(a) \cap valid
    BY <1>1, <1>2, LeastIs
  <2>3. hi \in Humans /\ lo \in Humans
    BY <2>1, <2>2 DEF Connected
  <2>4. r = shiftai(a, b, lo)
    BY <1>2 DEF reassignai
  <2> HIDE DEF hi, lo
  <2>5. a.owned[hi] \in Seq(Nat) /\ a.owned[lo] \in Seq(Nat)
    BY <1>1, <2>3, RecordHas
  <2> DEFINE more == Len(a.owned[hi])
             less == Len(a.owned[lo])
  <2>6. more \in Nat /\ less \in Nat /\ Load(a, hi) = more /\ Load(a, lo) = less
    BY <2>5 DEF Load
  <2>7. Len(a.owned[hi]) \in 1..Len(a.owned[hi])
    <3> HIDE DEF more, less
    <3>1. more - less > 1
      BY <1>2, <2>6
    <3>2. more \in 1..more
      BY <2>6, <3>1
    <3> QED
      BY <3>2 DEF more
  <2>8. b \in ToSet(a.owned[hi]) /\ b \in Nat
    BY <2>5, <2>7 DEF Last, ToSet
  <2>9. b \in Bots(a)
    BY <2>3, <2>8 DEF Fit
  <2>10. lo \in (Connected(a) \cap valid) \cup {NoOne}
    BY <2>2
  <2> HIDE DEF b
  <2> QED
    BY <2>4, <2>9, <2>10, Shifted
<1>3. CASE ~(May(a, valid) # {} /\ Load(a, hi) - Load(a, lo) > 1)
  <2>1. r = a
    BY <1>3 DEF reassignai
  <2> QED
    BY <2>1
<1> QED
  BY <1>2, <1>3

\* So are all.
LEMMA ReassignIs ==
  ASSUME NEW valid \in SUBSET Humans, NEW leaving, NEW a, Fit(a, valid, leaving), Calm(a),
         NEW r, r = reassign(a, valid)
  PROVE  Fit(r, valid, leaving) /\ Connected(r) = Connected(a) /\ Calm(r)
<1> DEFINE n == MaxBots
           s == [i \in 1..MaxBots |-> i]
           Like(x) == Fit(x, valid, leaving) /\ Connected(x) = Connected(a) /\ Calm(x)
           W == {x \in Records : Like(x)}
<1>1. n \in Nat /\ DOMAIN s = 1..n
  BY BotsAssumption
<1>2. a \in W
  BY DEF Fit
<1>3. r = ReassignAll(a, s, valid)
  BY DEF reassign, ReassignAll
<1> HIDE DEF n, s
<1>4. ASSUME NEW w \in W PROVE reassignai(w, valid) \in W
  <2> DEFINE x == reassignai(w, valid)
  <2>1. x = reassignai(w, valid) /\ Fit(w, valid, leaving) /\ Calm(w)
    OBVIOUS
  <2> HIDE DEF x
  <2>2. Fit(x, valid, leaving) /\ Connected(x) = Connected(w) /\ (Calm(w) => Calm(x))
    BY <2>1, ReassignaiIs
  <2>3. x \in Records
    BY <2>2 DEF Fit
  <2>4. x \in W
    BY <2>1, <2>2, <2>3
  <2> QED
    BY <2>1, <2>4
<1>5. ReassignClosed(W, s, n, valid)
  BY <1>4 DEF ReassignClosed
<1> HIDE DEF W
<1>6. \E t \in [0..n -> W] : t[n] = ReassignAll(a, s, valid) /\ ReassignTrace(t, a, s, n, valid)
  BY <1>1, <1>2, <1>5, ReassignSteps
<1>7. r \in W
  BY <1>1, <1>3, <1>6
<1> QED
  BY <1>7 DEF W

\* checkai leaves nothing to look at, or asks to be called again.
LEMMA CheckaiIs ==
  ASSUME NEW valid \in SUBSET Humans, NEW leaving, NEW a, Fit(a, valid, leaving), Calm(a), NotAlone(a),
         NEW r, r = checkai(a, valid)
  PROVE  Fit(r, valid, leaving) /\ Connected(r) = Connected(a) /\ Calm(r) /\ NotAlone(r)
<1> DEFINE x == [a EXCEPT !.dorefresh = FALSE]
           y == checksetup(x)
<1>1. a \in Records
  BY DEF Fit
<1>2. x \in Records /\ x.clients = a.clients /\ x.bots = a.bots /\ x.owned = a.owned
  BY <1>1 DEF Records
<1>3. \/ r = a
      \/ Connected(a) = {} /\ r = clearai(x)
      \/ Connected(a) # {} /\ r = reassign(y, valid)
  BY DEF checkai
<1>4. y = checksetup(x)
  OBVIOUS
<1> HIDE DEF x, y
<1>5. Fit(x, valid, leaving) /\ Connected(x) = Connected(a)
  BY <1>2, Asked
<1>6. CASE Connected(a) = {} /\ r = clearai(x)
  <2>1. Fit(r, valid, leaving) /\ Bots(r) = {} /\ Connected(r) = Connected(x) /\ Calm(r)
    BY <1>5, <1>6, ClearIs
  <2> QED
    BY <1>5, <2>1 DEF NotAlone
<1>7. CASE Connected(a) # {} /\ r = reassign(y, valid)
  <2>1. Fit(y, valid, leaving) /\ Connected(y) = Connected(x) /\ Calm(y)
    BY <1>4, <1>5, SetupIs
  <2>2. Fit(r, valid, leaving) /\ Connected(r) = Connected(y) /\ Calm(r)
    BY <1>7, <2>1, ReassignIs
  <2> QED
    BY <1>5, <1>7, <2>1, <2>2 DEF NotAlone
<1> QED
  BY <1>3, <1>6, <1>7

-----------------------------------------------------------------------------
(***************************************************************************)
(* The steps.                                                              *)
(***************************************************************************)
\* Who may run bots is a client.
LEMMA ValidIs == \A c : Valid(c) \in SUBSET Humans
BY DEF Valid

\* Others may run bots, and those who may no longer are about to lose theirs.
LEMMA Weaker ==
  ASSUME NEW valid, NEW more, NEW leaving, NEW a, Fit(a, valid, {}),
         \A h \in Humans : h \in valid => h \in more \/ h \in leaving
  PROVE  Fit(a, more, leaving)
<1>1. ASSUME NEW b \in Bots(a) PROVE MayOwn(a.bots[b], Connected(a), more, leaving)
  <2>1. MayOwn(a.bots[b], Connected(a), valid, {})
    BY DEF Fit
  <2>2. a.bots[b].ownernum \in Connected(a) => a.bots[b].ownernum \in Humans
    BY DEF Connected
  <2> QED
    BY <2>1, <2>2 DEF MayOwn
<1> QED
  BY <1>1 DEF Fit

\* A request for a refresh changes nothing else.
LEMMA RefreshedIs ==
  ASSUME NEW valid, NEW a, Fit(a, valid, {}), NEW r, r = [a EXCEPT !.dorefresh = TRUE]
  PROVE  /\ Fit(r, valid, {}) /\ Calm(r) /\ (NotAlone(a) => NotAlone(r))
         /\ r.clients = a.clients /\ r.bots = a.bots /\ r.owned = a.owned
         /\ Bots(r) = Bots(a) /\ Connected(r) = Connected(a)
<1>1. a \in Records
  BY DEF Fit
<1>2. /\ r \in Records /\ r.clients = a.clients /\ r.bots = a.bots /\ r.owned = a.owned
      /\ r.dorefresh = TRUE
  BY <1>1 DEF Records
<1> DEFINE leaving == {}
<1>3. Fit(a, valid, leaving)
  OBVIOUS
<1> HIDE DEF leaving
<1>4. Fit(r, valid, leaving) /\ Bots(r) = Bots(a) /\ Connected(r) = Connected(a)
  <2>1. r \in Records /\ r.clients = a.clients /\ r.bots = a.bots /\ r.owned = a.owned
    BY <1>2
  <2> QED
    BY <1>3, <2>1, Asked
<1>5. Calm(r)
  BY <1>2 DEF Calm
<1>6. NotAlone(a) => NotAlone(r)
  BY <1>4 DEF NotAlone
<1> QED
  BY <1>2, <1>4, <1>5, <1>6 DEF leaving

\* The server starts with nobody.
LEMMA NoBotsFit == Nobody \in Clients /\ Fit(NoBots, Valid(Nobody), {}) /\ Calm(NoBots) /\ NotAlone(NoBots)
<1>1. NoBots \in Records /\ NoBots.clients = << >> /\ NoBots.bots = << >>
      /\ \A h \in Humans : NoBots.owned[h] = << >>
  BY DEF NoBots, Records
<1>2. Bots(NoBots) = {}
  BY <1>1 DEF Bots
<1>3. Once(<< >>) /\ \A n : n \notin ToSet(<< >>)
  BY DEF Once, ToSet
<1>4. Nobody \in Clients
  BY DEF Nobody, Clients, Free
<1>5. Fit(NoBots, Valid(Nobody), {})
  BY <1>1, <1>2, <1>3 DEF Fit
<1> QED
  BY <1>2, <1>4, <1>5 DEF Calm, NotAlone

\* A client joins without bots.
LEMMA JoinHolds ==
  ASSUME BotsInv, NEW h \in Humans, connected(h)
  PROVE  BotsInv'
<1> DEFINE x == Refreshed
           q == Append(x.clients, h)
<1>1. x = [ai EXCEPT !.dorefresh = TRUE] /\ ai' = [x EXCEPT !.clients = Append(@, h)]
  BY DEF connected, Refreshed
<1> HIDE DEF x
<1>2. Fit(ai, Valid(ci), {}) /\ ci \in Clients
  BY DEF BotsInv
<1>3. /\ Fit(x, Valid(ci), {}) /\ Calm(x) /\ Connected(x) = Connected(ai)
  BY <1>1, <1>2, RefreshedIs
<1>4. h \notin Connected(x) /\ h \notin Nat
  BY <1>3, BotsAssumption DEF connected
<1>5. x.clients \in Seq(Humans \cup Nat) /\ Once(x.clients) /\ h \notin ToSet(x.clients) /\ x \in Records
  BY <1>3, <1>4, RecordHas DEF Fit, Connected
<1>6. q \in Seq(Humans \cup Nat) /\ Once(q) /\ \A c : c \in ToSet(q) <=> c \in ToSet(x.clients) \/ c = h
  <2>1. h \in Humans \cup Nat
    OBVIOUS
  <2> QED
    BY <1>5, <2>1, Appended
<1>7. ai' = [x EXCEPT !.clients = q]
  BY <1>1
<1> HIDE DEF q
<1>8. /\ ai' \in Records /\ ai'.clients = q /\ ai'.bots = x.bots /\ ai'.owned = x.owned
      /\ ai'.dorefresh = x.dorefresh
  BY <1>5, <1>6, <1>7 DEF Records
<1>9. Bots(ai') = Bots(x) /\ Calm(ai')
  BY <1>3, <1>8 DEF Bots, Calm
<1>10. Connected(ai') = Connected(x) \cup {h}
  BY <1>6, <1>8 DEF Connected
<1>11. NotAlone(ai')
  BY <1>10 DEF NotAlone
<1>12. ci' \in Clients /\ \A g \in Humans : g # h => ci'[g] = ci[g]
  <2>1. PICK spectator \in {FALSE} \cup {Asks("spectate")} :
             ci' = [ci EXCEPT ![h].spectator = spectator]
    BY Zenon DEF connected
  <2>2. spectator \in BOOLEAN
    <3>1. Asks("spectate") = TRUE \/ Asks("spectate") = FALSE
      BY DEF Asks
    <3> QED
      BY <2>1, <3>1, Zenon
  <2> QED
    BY <1>2, <2>1, <2>2 DEF Clients
<1>13. \A g \in Connected(x) : g \in Valid(ci) => g \in Valid(ci')
  BY <1>4, <1>12 DEF Valid
<1>14. ASSUME NEW b \in Bots(ai') PROVE MayOwn(ai'.bots[b], Connected(ai'), Valid(ci'), {})
  <2>1. MayOwn(x.bots[b], Connected(x), Valid(ci), {})
    BY <1>3, <1>9 DEF Fit
  <2> QED
    BY <1>8, <1>10, <1>13, <2>1 DEF MayOwn
<1>15. \A n \in Nat : n \in ToSet(ai'.clients) <=> n \in Bots(ai')
  BY <1>3, <1>4, <1>6, <1>8, <1>9 DEF Fit
<1>16. Once(ai'.clients)
  BY <1>6, <1>8
<1>17. Fit(ai', Valid(ci'), {})
  BY <1>3, <1>8, <1>9, <1>14, <1>15, <1>16 DEF Fit
<1> QED
  BY <1>9, <1>11, <1>12, <1>17 DEF BotsInv

\* Who leaves the list of clients still has its bots.
LEMMA LeaveIs ==
  ASSUME NEW valid, NEW h \in Humans, NEW a, Fit(a, valid, {}), h \in Connected(a),
         NEW r, r = [a EXCEPT !.clients = RemoveFirst(@, h)]
  PROVE  Fit(r, valid, {h}) /\ (Calm(a) => Calm(r))
<1> DEFINE q == RemoveFirst(a.clients, h)
<1>1. a.clients \in Seq(Humans \cup Nat) /\ Once(a.clients) /\ h \in ToSet(a.clients) /\ a \in Records
  BY RecordHas DEF Fit, Connected
<1>2. q \in Seq(Humans \cup Nat) /\ Once(q) /\ \A c : c \in ToSet(q) <=> c \in ToSet(a.clients) /\ c # h
  BY <1>1, Taken
<1>3. r = [a EXCEPT !.clients = q] /\ h \notin Nat
  BY BotsAssumption
<1> HIDE DEF q
<1>4. /\ r \in Records /\ r.clients = q /\ r.bots = a.bots /\ r.owned = a.owned
      /\ r.dorefresh = a.dorefresh
  BY <1>1, <1>2, <1>3 DEF Records
<1>5. Bots(r) = Bots(a) /\ Connected(r) = Connected(a) \ {h}
  BY <1>2, <1>4 DEF Bots, Connected
<1>6. Calm(a) => Calm(r)
  BY <1>4, <1>5 DEF Calm
<1>7. ASSUME NEW b \in Bots(r) PROVE MayOwn(r.bots[b], Connected(r), valid, {h})
  <2>1. MayOwn(a.bots[b], Connected(a), valid, {})
    BY <1>5 DEF Fit
  <2> QED
    BY <1>4, <1>5, <2>1 DEF MayOwn
<1>8. Once(r.clients) /\ \A n \in Nat : n \in ToSet(r.clients) <=> n \in Bots(r)
  BY <1>2, <1>3, <1>4, <1>5 DEF Fit
<1>9. \A g \in Humans :
          /\ Once(r.owned[g])
          /\ \A n \in Nat : n \in ToSet(r.owned[g]) <=> n \in Bots(r) /\ r.bots[n].ownernum = g
  BY <1>4, <1>5 DEF Fit
<1>10. Fit(r, valid, {h})
  BY <1>4, <1>7, <1>8, <1>9 DEF Fit
<1> QED
  BY <1>6, <1>10

\* A client leaves: its bots get other owners, or all bots leave with the last.
LEMMA DisconnectHolds ==
  ASSUME BotsInv, NEW h \in Humans, clientdisconnect(h)
  PROVE  BotsInv'
<1> DEFINE x == [ai EXCEPT !.clients = RemoveFirst(@, h)]
           y == removeai(x, Valid(ci), h)
<1>1. x = [ai EXCEPT !.clients = RemoveFirst(@, h)] /\ y = removeai(x, Valid(ci), h)
  OBVIOUS
<1>2. /\ h \in Connected(ai) /\ ci' = [ci EXCEPT ![h] = Free]
      /\ ai' = IF Connected(y) = {} THEN clearai(y) ELSE y
  BY DEF clientdisconnect, Disconnected
<1> HIDE DEF x, y
<1>3. ci \in Clients /\ Fit(ai, Valid(ci), {}) /\ Calm(ai)
  BY DEF BotsInv
<1>4. Fit(x, Valid(ci), {h}) /\ (Calm(ai) => Calm(x))
  BY <1>1, <1>2, <1>3, LeaveIs
<1>5. Valid(ci) \in SUBSET Humans
  BY ValidIs
<1>6. Fit(y, Valid(ci), {}) /\ (Calm(x) => Calm(y))
  BY <1>1, <1>4, <1>5, RemoveIs
<1>7. Fit(ai', Valid(ci), {}) /\ Calm(ai') /\ NotAlone(ai')
  <2>1. CASE Connected(y) = {}
    <3> DEFINE leaving == {}
    <3>1. ai' = clearai(y) /\ Fit(y, Valid(ci), leaving)
      BY <1>2, <1>6, <2>1
    <3> HIDE DEF leaving
    <3>2. Fit(ai', Valid(ci), leaving) /\ Bots(ai') = {} /\ Calm(ai')
      BY <1>5, <3>1, ClearIs
    <3> QED
      BY <3>2 DEF NotAlone, leaving
  <2>2. CASE Connected(y) # {}
    BY <1>2, <1>3, <1>4, <1>6, <2>2 DEF NotAlone
  <2> QED
    BY <2>1, <2>2
<1>8. ci' \in Clients /\ \A g \in Humans : g \in Valid(ci) => g \in Valid(ci')
  BY <1>2, <1>3 DEF Clients, Free, Valid
<1>9. Fit(ai', Valid(ci'), {})
  BY <1>7, <1>8, Weaker
<1> QED
  BY <1>7, <1>8, <1>9 DEF BotsInv

\* Who may no longer run bots loses them.
LEMMA LosesThem ==
  ASSUME BotsInv, NEW h \in Humans, ci' \in Clients, \A g \in Humans : g # h => ci'[g] = ci[g],
         ai' = removeai(ai, Valid(ci'), h)
  PROVE  BotsInv'
<1>1. Fit(ai, Valid(ci), {}) /\ Calm(ai) /\ NotAlone(ai)
  BY DEF BotsInv
<1>2. \A g \in Humans : g \in Valid(ci) => g \in Valid(ci') \/ g \in {h}
  BY DEF Valid
<1>3. Fit(ai, Valid(ci'), {h})
  <2> DEFINE leaving == {h}
  <2>1. \A g \in Humans : g \in Valid(ci) => g \in Valid(ci') \/ g \in leaving
    BY <1>2
  <2> HIDE DEF leaving
  <2>2. Fit(ai, Valid(ci'), leaving)
    BY <1>1, <2>1, Weaker
  <2> QED
    BY <2>2 DEF leaving
<1>4. Valid(ci') \in SUBSET Humans
  BY ValidIs
<1>5. /\ Fit(ai', Valid(ci'), {}) /\ Bots(ai') = Bots(ai) /\ Connected(ai') = Connected(ai)
      /\ Calm(ai) => Calm(ai')
  BY <1>3, <1>4, RemoveIs
<1> QED
  BY <1>1, <1>5 DEF BotsInv, NotAlone

\* Nothing is to be done when nobody loses the right to run bots.
LEMMA KeepsThem ==
  ASSUME BotsInv, ci' \in Clients, \A g \in Humans : g \in Valid(ci) => g \in Valid(ci'),
         Fit(ai', Valid(ci), {}), Calm(ai'), NotAlone(ai')
  PROVE  BotsInv'
<1>1. Fit(ai', Valid(ci'), {})
  BY Weaker
<1> QED
  BY <1>1 DEF BotsInv

\* A client starts to watch.
LEMMA SpectateHolds ==
  ASSUME BotsInv, NEW h \in Humans, NEW warned, Spectate(h, warned)
  PROVE  BotsInv'
<1>1. ci \in Clients /\ ci' = [ci EXCEPT ![h].spectator = TRUE]
  BY DEF BotsInv, Spectate
<1>2. ci' \in Clients /\ \A g \in Humans : g # h => ci'[g] = ci[g]
  BY <1>1 DEF Clients
<1>3. CASE ai' = removeai(ai, Valid(ci'), h)
  BY <1>2, <1>3, LosesThem
<1>4. CASE ci[h].privilege # "none" /\ ai' = ai
  <2>1. ci'[h].privilege # "none"
    BY <1>1, <1>4 DEF Clients
  <2>2. \A g \in Humans : g \in Valid(ci) => g \in Valid(ci')
    BY <1>2, <2>1 DEF Valid
  <2>3. Fit(ai', Valid(ci), {}) /\ Calm(ai') /\ NotAlone(ai')
    BY <1>4 DEF BotsInv
  <2> QED
    BY <1>2, <2>2, <2>3, KeepsThem
<1> QED
  BY <1>3, <1>4 DEF Spectate

\* A client loses its privileges.
LEMMA RevokeHolds ==
  ASSUME BotsInv, NEW h \in Humans, revokemaster(h)
  PROVE  BotsInv'
<1>1. ci \in Clients /\ ci' = [ci EXCEPT ![h].privilege = "none"]
  BY DEF BotsInv, revokemaster
<1>2. ci' \in Clients /\ \A g \in Humans : g # h => ci'[g] = ci[g]
  BY <1>1 DEF Clients
<1>3. CASE ai' = removeai(ai, Valid(ci'), h)
  BY <1>2, <1>3, LosesThem
<1>4. CASE ~ci[h].spectator /\ ai' = ai
  <2>1. ~ci'[h].spectator
    BY <1>1, <1>4 DEF Clients
  <2>2. \A g \in Humans : g \in Valid(ci) => g \in Valid(ci')
    BY <1>2, <2>1 DEF Valid
  <2>3. Fit(ai', Valid(ci), {}) /\ Calm(ai') /\ NotAlone(ai')
    BY <1>4 DEF BotsInv
  <2> QED
    BY <1>2, <2>2, <2>3, KeepsThem
<1> QED
  BY <1>3, <1>4 DEF revokemaster

\* A client plays again, or gets privileges.
LEMMA GainHolds ==
  ASSUME BotsInv, NEW h \in Humans,
         unspectate(h) \/ \E privilege \in {"master", "admin"} : setmaster(h, privilege)
  PROVE  BotsInv'
<1>1. ci \in Clients /\ Fit(ai, Valid(ci), {}) /\ Calm(ai) /\ NotAlone(ai)
  BY DEF BotsInv
<1>2. CASE unspectate(h)
  <2>1. ci' = [ci EXCEPT ![h].spectator = FALSE] /\ ai' = [ai EXCEPT !.dorefresh = TRUE]
    BY <1>2 DEF unspectate, Refreshed
  <2>2. ci' \in Clients /\ \A g \in Humans : g \in Valid(ci) => g \in Valid(ci')
    BY <1>1, <2>1 DEF Clients, Valid
  <2>3. Fit(ai', Valid(ci), {}) /\ Calm(ai') /\ NotAlone(ai')
    BY <1>1, <2>1, RefreshedIs
  <2> QED
    BY <2>2, <2>3, KeepsThem
<1>3. ASSUME NEW privilege \in {"master", "admin"}, setmaster(h, privilege) PROVE BotsInv'
  <2>1. ci' = [ci EXCEPT ![h].privilege = privilege] /\ ai' = ai
    BY <1>3 DEF setmaster
  <2>2. ci' \in Clients /\ \A g \in Humans : g \in Valid(ci) => g \in Valid(ci')
    BY <1>1, <2>1 DEF Clients, Valid
  <2> QED
    BY <1>1, <2>1, <2>2, KeepsThem
<1> QED
  BY <1>2, <1>3

\* A master adds a bot.
LEMMA ReqaddHolds ==
  ASSUME BotsInv, NEW h \in Humans, reqadd(h)
  PROVE  BotsInv'
<1> DEFINE limit == IF ci[h].privilege = "admin" THEN MaxBots ELSE botlimit
           byauto == FALSE
<1>1. ci \in Clients /\ Fit(ai, Valid(ci), {}) /\ Calm(ai)
  BY DEF BotsInv
<1>2. ci' = ci /\ ai' = addai(ai, Valid(ci), limit, byauto) /\ h \in Connected(ai)
  BY DEF reqadd
<1>3. Sound(byauto, Valid(ci), Valid(ci))
  BY DEF Sound
<1> DEFINE leaving == {}
<1>4. Fit(ai, Valid(ci), leaving)
  BY <1>1
<1> HIDE DEF limit, byauto, leaving
<1>5. Valid(ci) \in SUBSET Humans
  BY ValidIs
<1>6. Fit(ai', Valid(ci), leaving) /\ Connected(ai') = Connected(ai) /\ (Calm(ai) => Calm(ai'))
  BY <1>2, <1>3, <1>4, <1>5, AddaiIs
<1> QED
  BY <1>1, <1>2, <1>6 DEF BotsInv, NotAlone, leaving

\* A master deletes a bot.
LEMMA ReqdelHolds ==
  ASSUME BotsInv, NEW h \in Humans, reqdel(h)
  PROVE  BotsInv'
<1>1. ci \in Clients /\ Fit(ai, Valid(ci), {}) /\ NotAlone(ai)
  BY DEF BotsInv
<1>2. PICK b \in Bots(ai) : ai' = deleteai(ai, b) /\ ci' = ci
  BY DEF reqdel
<1> DEFINE leaving == {}
<1>3. Fit(ai, Valid(ci), leaving) /\ Valid(ci) \in SUBSET Humans
  BY <1>1, ValidIs
<1> HIDE DEF leaving
<1>4. Fit(ai', Valid(ci), leaving) /\ Connected(ai') = Connected(ai) /\ Calm(ai') /\ Bots(ai') = Bots(ai) \ {b}
  BY <1>2, <1>3, DeleteaiIs
<1> QED
  BY <1>1, <1>2, <1>4 DEF BotsInv, NotAlone, leaving

\* Whoever asks for a refresh.
LEMMA RefreshHolds ==
  ASSUME BotsInv, ci' = ci, ai' = Refreshed \/ ai' = [clearai(ai) EXCEPT !.dorefresh = TRUE]
  PROVE  BotsInv'
<1>1. ci \in Clients /\ Fit(ai, Valid(ci), {}) /\ NotAlone(ai)
  BY DEF BotsInv
<1>2. CASE ai' = Refreshed
  <2>1. ai' = [ai EXCEPT !.dorefresh = TRUE]
    BY <1>2 DEF Refreshed
  <2>2. Fit(ai', Valid(ci), {}) /\ Calm(ai') /\ NotAlone(ai')
    BY <1>1, <2>1, RefreshedIs
  <2> QED
    BY <1>1, <2>2 DEF BotsInv
<1>3. CASE ai' = [clearai(ai) EXCEPT !.dorefresh = TRUE]
  <2> DEFINE x == clearai(ai)
             leaving == {}
  <2>1. x = clearai(ai) /\ ai' = [x EXCEPT !.dorefresh = TRUE] /\ Fit(ai, Valid(ci), leaving)
        /\ Valid(ci) \in SUBSET Humans
    BY <1>1, <1>3, ValidIs
  <2> HIDE DEF x, leaving
  <2>2. Fit(x, Valid(ci), leaving) /\ Bots(x) = {}
    BY <2>1, ClearIs
  <2>3. Fit(x, Valid(ci), {}) /\ NotAlone(x)
    BY <2>2 DEF NotAlone, leaving
  <2>4. Fit(ai', Valid(ci), {}) /\ Calm(ai') /\ NotAlone(ai')
    BY <2>1, <2>3, RefreshedIs
  <2> QED
    BY <1>1, <2>4 DEF BotsInv
<1> QED
  BY <1>2, <1>3

\* checkai, after what has been done to the bots x.
LEMMA CheckHolds ==
  ASSUME BotsInv, ci' = ci, NEW x, Fit(x, Valid(ci), {}), Calm(x), NotAlone(x),
         ai' = checkai(x, Valid(ci))
  PROVE  BotsInv'
<1> DEFINE leaving == {}
<1>1. Fit(x, Valid(ci), leaving) /\ Valid(ci) \in SUBSET Humans
  BY ValidIs
<1> HIDE DEF leaving
<1>2. Fit(ai', Valid(ci), leaving) /\ Calm(ai') /\ NotAlone(ai')
  BY <1>1, CheckaiIs
<1> QED
  BY <1>2 DEF BotsInv, leaving

\* The automatic bots add one.
LEMMA AutoAddHolds ==
  ASSUME BotsInv, ci' = ci, Connected(ai) # {}, NEW h, addBotHelper(h)
  PROVE  BotsInv'
<1> DEFINE found == Valid(ci) \cup ({h} \cap Humans)
           byauto == TRUE
           x == addai(ai, found, botlimit, byauto)
           leaving == {}
<1>1. x = addai(ai, found, botlimit, byauto) /\ ai' = checkai(x, Valid(ci))
  BY DEF addBotHelper
<1>2. Sound(byauto, found, Valid(ci))
  BY DEF Sound
<1>3. Fit(ai, Valid(ci), leaving) /\ Calm(ai)
  BY DEF BotsInv
<1>4. Valid(ci) \in SUBSET Humans /\ found \in SUBSET Humans
  BY ValidIs
<1> HIDE DEF found, byauto, x, leaving
<1>5. Fit(x, Valid(ci), leaving) /\ Connected(x) = Connected(ai) /\ (Calm(ai) => Calm(x))
  BY <1>1, <1>2, <1>3, <1>4, AddaiIs
<1>6. Fit(x, Valid(ci), {}) /\ Calm(x) /\ NotAlone(x)
  BY <1>3, <1>5 DEF NotAlone, leaving
<1> QED
  BY <1>1, <1>6, CheckHolds

\* The automatic bots remove one.
LEMMA AutoRemoveHolds ==
  ASSUME BotsInv, ci' = ci, removeBotHelper
  PROVE  BotsInv'
<1>1. PICK b \in Bots(ai) : ai' = checkai(Deleted(ai, b), Valid(ci))
  BY DEF removeBotHelper
<1> DEFINE x == Deleted(ai, b)
           leaving == {}
<1>2. x = Deleted(ai, b) /\ ai' = checkai(x, Valid(ci)) /\ Fit(ai, Valid(ci), leaving)
      /\ Calm(ai) /\ NotAlone(ai) /\ Valid(ci) \in SUBSET Humans
  BY <1>1, ValidIs DEF BotsInv
<1> HIDE DEF x, leaving
<1>3. /\ Fit(x, Valid(ci), leaving) /\ Bots(x) = Bots(ai) \ {b} /\ Connected(x) = Connected(ai)
      /\ Calm(ai) => Calm(x)
  BY <1>2, DeletedIs
<1>4. Fit(x, Valid(ci), {}) /\ Calm(x) /\ NotAlone(x)
  BY <1>2, <1>3 DEF NotAlone, leaving
<1> QED
  BY <1>2, <1>4, CheckHolds

\* The invariant holds at the start.
LEMMA BotsStart == Init => BotsInv
BY NoBotsFit DEF Init, BotsInv

\* Every handler preserves the invariant.
LEMMA HandlerHolds ==
  ASSUME BotsInv, Handler
  PROVE  BotsInv'
<1>1. Fit(ai, Valid(ci), {}) /\ Calm(ai) /\ NotAlone(ai)
  BY DEF BotsInv
<1>2. ASSUME NEW h \in Humans, connected(h) PROVE BotsInv'
  BY <1>2, JoinHolds
<1>3. ASSUME NEW h \in Humans, clientdisconnect(h) PROVE BotsInv'
  BY <1>3, DisconnectHolds
<1>4. ASSUME NEW h \in Humans, unspectate(h) PROVE BotsInv'
  BY <1>4, GainHolds
<1>5. ASSUME NEW h \in Humans, revokemaster(h) PROVE BotsInv'
  BY <1>5, RevokeHolds
<1>6. ASSUME NEW h \in Humans, NEW warned \in BOOLEAN, Spectate(h, warned) PROVE BotsInv'
  BY <1>6, SpectateHolds
<1>7. ASSUME NEW h \in Humans, NEW privilege \in {"master", "admin"}, setmaster(h, privilege)
      PROVE  BotsInv'
  BY <1>7, GainHolds
<1>8. ASSUME NEW h \in Humans, NEW limit \in BotLimits, setbotlimit(h, limit) PROVE BotsInv'
  <2>1. ci' = ci /\ ai' = Refreshed
    BY <1>8 DEF setbotlimit
  <2> QED
    BY <2>1, RefreshHolds
<1>9. ASSUME NEW h \in Humans, reqadd(h) PROVE BotsInv'
  BY <1>9, ReqaddHolds
<1>10. ASSUME NEW h \in Humans, reqdel(h) PROVE BotsInv'
  BY <1>10, ReqdelHolds
<1>11. ASSUME changeteam PROVE BotsInv'
  <2>1. ci' = ci /\ ai' = Refreshed
    BY <1>11 DEF changeteam
  <2> QED
    BY <2>1, RefreshHolds
<1>12. ASSUME changemap PROVE BotsInv'
  <2>1. ci' = ci /\ ai' = [clearai(ai) EXCEPT !.dorefresh = TRUE]
    BY <1>12 DEF changemap
  <2> QED
    BY <2>1, RefreshHolds
<1>13. ASSUME refresh PROVE BotsInv'
  <2>1. ci' = ci /\ ai' = checkai(ai, Valid(ci))
    BY <1>13 DEF refresh
  <2> QED
    BY <1>1, <2>1, CheckHolds
<1>14. ASSUME autoBotBalance PROVE BotsInv'
  <2> DEFINE target == IF Cardinality(Playing) >= 3 THEN Cardinality(Playing) % 2 ELSE 0
  <2>1. ci' = ci
    BY <1>14 DEF autoBotBalance
  <2>2. removeBotHelper \/ (Cardinality(Bots(ai)) < target /\ \E h : addBotHelper(h))
    BY <1>14, Zenon DEF autoBotBalance
  <2>3. ASSUME Cardinality(Bots(ai)) < target PROVE Connected(ai) # {}
    <3>1. SUFFICES ASSUME Connected(ai) = {} PROVE FALSE
      OBVIOUS
    <3>2. Playing = {} /\ Bots(ai) = {}
      BY <3>1 DEF Playing, BotsInv, NotAlone
    <3>3. Cardinality(Playing) = 0 /\ Cardinality(Bots(ai)) = 0
      BY <3>2, FS_EmptySet
    <3> QED
      BY <2>3, <3>3
  <2> HIDE DEF target
  <2> QED
    BY <2>1, <2>2, <2>3, AutoAddHolds, AutoRemoveHolds
<1>15. ASSUME autoAddBot PROVE BotsInv'
  <2>1. ci' = ci
    BY <1>15 DEF autoAddBot
  <2>2. removeBotHelper \/ \E k \in DOMAIN ai.clients : ai.clients[k] \in Humans /\ addBotHelper(ai.clients[k])
    BY <1>15, Zenon DEF autoAddBot
  <2>3. ASSUME NEW k \in DOMAIN ai.clients, ai.clients[k] \in Humans, addBotHelper(ai.clients[k])
        PROVE  BotsInv'
    <3>1. Connected(ai) # {}
      BY <2>3 DEF Connected, ToSet
    <3> QED
      BY <2>1, <2>3, <3>1, AutoAddHolds
  <2> QED
    BY <2>1, <2>2, <2>3, AutoRemoveHolds
<1> QED
  BY <1>2, <1>3, <1>4, <1>5, <1>6, <1>7, <1>8, <1>9, <1>10, <1>11, <1>12, <1>13, <1>14, <1>15, Zenon
     DEF Handler

\* Every step preserves the invariant.
LEMMA BotsStep == BotsInv /\ [Next]_vars => BotsInv'
<1> SUFFICES ASSUME BotsInv, [Next]_vars PROVE BotsInv'
  OBVIOUS
<1>1. CASE Handler
  BY <1>1, HandlerHolds
<1>2. ASSUME ci' = ci, ai' = ai PROVE BotsInv'
  BY <1>2 DEF BotsInv
<1>3. CASE StartWalk
  BY <1>2, <1>3 DEF StartWalk
<1>4. CASE WalkStep
  <2>1. CASE clientdisconnect(ai.clients[walk])
    <3>1. ai.clients[walk] \in Humans
      BY <2>1 DEF clientdisconnect, Connected
    <3> QED
      BY <2>1, <3>1, DisconnectHolds
  <2> QED
    BY <1>2, <1>4, <2>1 DEF WalkStep
<1>5. CASE WalkAstray
  <2>1. CASE ci' = Nobody /\ ai' = NoBots
    <3>1. ci' \in Clients /\ Fit(ai', Valid(ci'), {}) /\ Calm(ai') /\ NotAlone(ai')
      BY <2>1, NoBotsFit
    <3> QED
      BY <3>1 DEF BotsInv
  <2> QED
    BY <1>2, <1>5, <2>1 DEF WalkAstray
<1>6. CASE UNCHANGED vars
  BY <1>2, <1>6 DEF vars
<1> QED
  BY <1>1, <1>3, <1>4, <1>5, <1>6 DEF Next

\* In every reachable state the lists of the bots fit, for every number of
\* clients and bots, and whatever limits and requests there are.
THEOREM BotsInvariance == Spec => []BotsInv
BY BotsStart, BotsStep, PTL DEF Spec

\* The lists of bots and the owners the bots know are two views of one relation
\* (addai, deleteai, shiftai keep them so).
THEOREM BotsOwnersAgree == Spec => []OwnersAgree
<1>1. BotsInv => OwnersAgree
  <2> SUFFICES ASSUME BotsInv, NEW h \in Humans
               PROVE  /\ ToSet(ai.owned[h]) = {b \in Bots(ai) : ai.bots[b].ownernum = h}
                      /\ Cardinality(ToSet(ai.owned[h])) = Len(ai.owned[h])
                      /\ ai.owned[h] # <<>> => h \in Connected(ai)
    BY DEF OwnersAgree
  <2>1. /\ Fit(ai, Valid(ci), {}) /\ ai \in Records /\ Once(ai.owned[h])
        /\ \A n \in Nat : n \in ToSet(ai.owned[h]) <=> n \in Bots(ai) /\ ai.bots[n].ownernum = h
    BY DEF BotsInv, Fit
  <2>2. ai.owned[h] \in Seq(Nat) /\ ai.bots \in Seq(Slots) /\ ai.clients \in Seq(Humans \cup Nat)
    BY <2>1 DEF Records
  <2>3. Bots(ai) \subseteq Nat
    BY <2>2 DEF Bots
  <2>4. ToSet(ai.owned[h]) \subseteq Nat
    BY <2>2 DEF ToSet
  <2>5. ToSet(ai.owned[h]) = {b \in Bots(ai) : ai.bots[b].ownernum = h}
    BY <2>1, <2>3, <2>4
  <2>6. Cardinality(ToSet(ai.owned[h])) = Len(ai.owned[h])
    BY <2>1, <2>2, Counted
  <2>7. ASSUME ai.owned[h] # <<>> PROVE h \in Connected(ai)
    <3> DEFINE q == ai.owned[h]
    <3>1. q \in Seq(Nat) /\ q # <<>>
      BY <2>2, <2>7
    <3> HIDE DEF q
    <3>2. 1 \in DOMAIN q
      BY <3>1
    <3>3. \E n : n \in ToSet(q)
      BY <3>2 DEF ToSet
    <3>4. PICK n : n \in ToSet(ai.owned[h])
      BY <3>3 DEF q
    <3>5. n \in Bots(ai) /\ ai.bots[n].ownernum = h
      BY <2>5, <3>4
    <3>6. MayOwn(ai.bots[n], Connected(ai), Valid(ci), {})
      BY <2>1, <3>5 DEF Fit
    <3>7. h # NoOne
      BY BotsAssumption
    <3> QED
      BY <3>5, <3>6, <3>7 DEF MayOwn
  <2> QED
    BY <2>5, <2>6, <2>7
<1> QED
  BY <1>1, BotsInvariance, PTL

\* Nothing stays without an owner, or unknown to the players, unless checkai is
\* going to look at it (dorefresh).
THEOREM BotsSettled == Spec => []Settled
<1>1. BotsInv => Settled
  BY DEF BotsInv, Calm, Settled
<1> QED
  BY <1>1, BotsInvariance, PTL

\* Who watches without privileges runs no bot, unless autoAddBot gave it one
\* (validaiclient).
THEOREM BotsOwnersMayPlay == Spec => []OwnersMayPlay
<1>1. BotsInv => OwnersMayPlay
  <2> SUFFICES ASSUME BotsInv, NEW b \in Bots(ai)
               PROVE  ai.bots[b].ownernum \in Valid(ci) \cup {NoOne} \/ ai.bots[b].byauto
    BY DEF OwnersMayPlay
  <2>1. MayOwn(ai.bots[b], Connected(ai), Valid(ci), {})
    BY DEF BotsInv, Fit
  <2> QED
    BY <2>1 DEF MayOwn
<1> QED
  BY <1>1, BotsInvariance, PTL

\* The last client takes the bots with it (noclients), and none comes alone.
THEOREM BotsNoneAlone == Spec => []NoBotsAlone
<1>1. BotsInv => NoBotsAlone
  BY DEF BotsInv, NotAlone, NoBotsAlone
<1> QED
  BY <1>1, BotsInvariance, PTL
=============================================================================
