---------------------------- MODULE Match_proofs ----------------------------
(***************************************************************************)
(* In a match nobody's vote is of an earlier match or an earlier client,   *)
(* and an intermission gets no more time and takes no more, for any        *)
(* clients, games, rotations and periods.                                  *)
(***************************************************************************)
EXTENDS Match, TLAPS

ClientInfo ==
    [state : {"gone", "player", "spectator"}, privilege : BOOLEAN,
     vote : Games \cup {NoGame}, cast : BOOLEAN]

\* Clients, as they are in any moment of a handler, whose votes are of this match.
Honest(cs) ==
    /\ cs \in [Clients -> ClientInfo]
    /\ \A c \in Clients : cs[c].vote # NoGame => cs[c].cast

\* The clock goes no further than its bound, which is why it never runs backwards.
ClockOK ==
    /\ game \in Games \cup {NoGame}
    /\ gamemillis \in 0..(MaxMillis + Intermission + 1)
    /\ gamelimit \in Nat /\ interm \in Nat
    /\ IntermissionKeepsItsTime

RestOK ==
    /\ mastermode \in {"open", "veto", "locked"}
    /\ gamepaused \in BOOLEAN /\ shouldstep \in BOOLEAN /\ votedIPs \subseteq Clients

\* The conjunction that every step preserves.
IInv == Honest(ci) /\ ClockOK /\ RestOK

-----------------------------------------------------------------------------
\* Constants.
LEMMA Periods ==
  /\ Length \in Nat /\ Overtime \in Nat /\ Intermission \in Nat /\ MaxMillis \in Nat
  /\ Rotation \subseteq Games /\ NewMap \in Games /\ NoGame \notin Games
  BY MatchAssumption

\* Min of a pair of numbers.
LEMMA MinOfTwo ==
  ASSUME NEW m \in Nat, NEW n \in Nat
  PROVE  Min({m, n}) \in Nat /\ Min({m, n}) <= m /\ Min({m, n}) <= n /\ Min({m, n}) \in {m, n}
<1>1. \E x \in {m, n} : \A y \in {m, n} : x <= y
  <2>1. CASE m <= n
    BY <2>1
  <2>2. CASE ~(m <= n)
    BY <2>2
  <2> QED
    BY <2>1, <2>2
<1>2. Min({m, n}) \in {m, n} /\ \A y \in {m, n} : Min({m, n}) <= y
  BY <1>1 DEF Min
<1> QED
  BY <1>2

\* The server starts without a match.
LEMMA InitInv == Init => IInv
<1> SUFFICES ASSUME Init PROVE IInv
  OBVIOUS
<1>1. Honest(ci)
  BY DEF Init, Honest, ClientInfo, Gone
<1>2. ClockOK
  BY Periods DEF Init, ClockOK, IntermissionKeepsItsTime
<1>3. RestOK
  BY DEF Init, RestOK
<1> QED
  BY <1>1, <1>2, <1>3 DEF IInv

-----------------------------------------------------------------------------
\* What handlers do to a match.

\* A change of maps forgets all votes and starts the clock.
LEMMA ChangeHolds ==
  ASSUME NEW cs, Honest(cs), NEW g \in Games, changemap(cs, g)
  PROVE  Honest(ci') /\ ClockOK' /\ gamepaused' = FALSE /\ votedIPs' = {}
<1>1. Honest(ci')
  <2>1. \A c \in Clients : mapchange(cs)[c] \in ClientInfo /\ mapchange(cs)[c].vote = NoGame
    BY DEF mapchange, Honest, ClientInfo
  <2>2. mapchange(cs) \in [Clients -> ClientInfo]
    BY <2>1 DEF mapchange
  <2>3. ci' = mapchange(cs)
    BY DEF changemap
  <2> QED
    BY <2>1, <2>2, <2>3 DEF Honest
<1>2. ClockOK'
  BY Periods DEF changemap, ClockOK, IntermissionKeepsItsTime
<1> QED
  BY <1>1, <1>2 DEF changemap

\* So does the next map of the rotation.
LEMMA RotateHolds ==
  ASSUME NEW cs, Honest(cs), rotatemap(cs)
  PROVE  Honest(ci') /\ ClockOK' /\ gamepaused' = FALSE /\ votedIPs' = {}
<1>1. PICK g \in Games : changemap(cs, g)
  BY Periods DEF rotatemap
<1> QED
  BY <1>1, ChangeHolds

\* The match goes on with clients cs.
LEMMA SameHolds ==
  ASSUME ClockOK, NEW cs, Honest(cs), ci' = cs, UNCHANGED clock
  PROVE  Honest(ci') /\ ClockOK'
  BY DEF ClockOK, clock, IntermissionKeepsItsTime

\* Either of the two.
LEMMA RotateWithoutHolds ==
  ASSUME IInv, NEW cs, Honest(cs), NEW map, RotateWithout(map, cs)
  PROVE  /\ Honest(ci') /\ ClockOK'
         /\ gamepaused' \in BOOLEAN /\ votedIPs' \subseteq Clients
<1>1. CASE SameMatch(cs)
  BY <1>1, SameHolds DEF SameMatch, IInv, RestOK
<1>2. CASE rotatemap(cs)
  BY <1>2, RotateHolds
<1> QED
  BY <1>1, <1>2 DEF RotateWithout

\* Votes are counted and a map with most of them is loaded, or none.
LEMMA VotesHold ==
  ASSUME IInv, NEW cs, Honest(cs), checkvotes(cs)
  PROVE  /\ Honest(ci') /\ ClockOK'
         /\ gamepaused' \in BOOLEAN /\ votedIPs' \subseteq Clients
<1>1. ASSUME NEW g \in Best(cs), changemap(cs, g)
      PROVE  /\ Honest(ci') /\ ClockOK'
             /\ gamepaused' \in BOOLEAN /\ votedIPs' \subseteq Clients
  <2>1. g \in Games
    BY DEF Best
  <2> QED
    BY <1>1, <2>1, ChangeHolds
<1>2. CASE SameMatch(cs)
  BY <1>2, SameHolds DEF SameMatch, IInv, RestOK
<1> QED
  BY <1>1, <1>2 DEF checkvotes

\* A limit and an end of the intermission that fit a clock at millis.
Fits(r, millis) ==
    r[1] \in Nat /\ r[2] \in Nat /\ (r[2] # 0 => millis >= r[1])

\* A check of the end of a match leaves limits that fit the clock.
LEMMA CheckFits ==
  ASSUME NEW millis \in Nat, NEW limit \in Nat, NEW rest \in Nat, NEW force,
         rest # 0 => millis >= limit,
         NEW r \in checkintermission(millis, limit, rest, force)
  PROVE  Fits(r, millis) /\ r[2] \in {rest, millis + Intermission}
<1>1. CASE millis < limit \/ rest # 0
  <2>1. r = <<limit, rest>>
    BY <1>1 DEF checkintermission
  <2> QED
    BY <2>1 DEF Fits
<1>2. CASE ~(millis < limit \/ rest # 0)
  <2>1. r = <<limit, millis + Intermission>> \/ r = <<millis + Overtime, rest>>
    BY <1>2 DEF checkintermission
  <2>2. millis >= limit /\ rest = 0
    BY <1>2
  <2> QED
    BY <2>1, <2>2, Periods DEF Fits
<1> QED
  BY <1>1, <1>2

\* The end of a match by its score, or from IRC.
LEMMA StartHolds ==
  ASSUME IInv, startintermission
  PROVE  IInv'
<1>1. gamemillis \in Nat /\ gamelimit \in Nat /\ interm \in Nat
  BY Periods DEF IInv, ClockOK
<1>2. PICK r \in checkintermission(gamemillis, Min({gamelimit, gamemillis}), interm, TRUE) :
        gamelimit' = r[1] /\ interm' = r[2]
  BY DEF startintermission
<1>3. Min({gamelimit, gamemillis}) \in Nat /\ gamemillis >= Min({gamelimit, gamemillis})
  BY <1>1, MinOfTwo
<1>4. Fits(r, gamemillis) /\ r[2] \in {interm, gamemillis + Intermission}
  <2>1. interm # 0 => gamemillis >= Min({gamelimit, gamemillis})
    BY <1>3
  <2> QED
    BY <1>1, <1>2, <1>3, <2>1, CheckFits
<1>5. ClockOK'
  BY <1>1, <1>2, <1>4, Periods DEF startintermission, IInv, ClockOK, IntermissionKeepsItsTime, Fits
<1> QED
  BY <1>5 DEF startintermission, IInv, RestOK

\* One turn of the main loop: the clock goes on, limits are checked, and after
\* the intermission the next map is loaded.
LEMMA UpdateHolds ==
  ASSUME IInv, serverupdate
  PROVE  IInv'
<1>1. mastermode' = mastermode /\ shouldstep' \in BOOLEAN
  BY DEF serverupdate
<1>2. CASE shouldstep /\ ~gamepaused
  <2> DEFINE bound == MaxMillis + Intermission + 1
             millis == Min({gamemillis + 1, bound})
             limits == IF game \in Timed /\ gamemillis > 0
                       THEN checkintermission(millis, gamelimit, interm, FALSE)
                       ELSE {<<gamelimit, interm>>}
  <2>1. PICK r \in limits :
          IF r[2] > 0 /\ millis > r[2] THEN ForcedVotes
          ELSE /\ gamemillis' = millis /\ gamelimit' = r[1] /\ interm' = r[2]
               /\ UNCHANGED <<ci, game, gamepaused, votedIPs>>
    BY <1>2 DEF serverupdate
  <2>2. /\ gamemillis \in 0..bound /\ bound \in Nat /\ gamemillis + 1 \in Nat
        /\ gamelimit \in Nat /\ interm \in Nat
        /\ interm # 0 => gamemillis >= gamelimit
    BY Periods DEF IInv, ClockOK, IntermissionKeepsItsTime
  <2>3. millis \in 0..bound /\ millis >= gamemillis
    BY <2>2, MinOfTwo
  <2> HIDE DEF bound, millis
  <2>4. interm # 0 => millis >= gamelimit
    BY <2>2, <2>3
  <2>5. Fits(r, millis)
    <3>1. CASE r = <<gamelimit, interm>>
      BY <2>2, <2>4, <3>1 DEF Fits
    <3>2. CASE r \in checkintermission(millis, gamelimit, interm, FALSE)
      <4>1. millis \in Nat
        BY <2>2, <2>3
      <4> HIDE DEF limits
      <4> QED
        BY <2>2, <2>4, <3>2, <4>1, CheckFits
    <3> QED
      BY <2>1, <3>1, <3>2
  <2>6. CASE ForcedVotes
    <3>1. Best(ci) \subseteq Games /\ Honest(ci)
      BY DEF Best, IInv
    <3>2. Honest(ci') /\ ClockOK' /\ gamepaused' = FALSE /\ votedIPs' = {}
      BY <2>6, <3>1, ChangeHolds, RotateHolds DEF ForcedVotes
    <3> QED
      BY <1>1, <3>2 DEF IInv, RestOK
  <2>7. CASE /\ ~(r[2] > 0 /\ millis > r[2])
             /\ gamemillis' = millis /\ gamelimit' = r[1] /\ interm' = r[2]
             /\ UNCHANGED <<ci, game, gamepaused, votedIPs>>
    <3>1. ClockOK'
      BY <2>3, <2>5, <2>7 DEF IInv, ClockOK, IntermissionKeepsItsTime, Fits, bound
    <3> QED
      BY <1>1, <2>7, <3>1 DEF IInv, RestOK
  <2> QED
    BY <2>1, <2>6, <2>7
<1>3. CASE ~(shouldstep /\ ~gamepaused)
  <2>1. UNCHANGED <<ci, clock, gamepaused, votedIPs>>
    BY <1>3 DEF serverupdate
  <2> QED
    BY <1>1, <2>1, SameHolds DEF IInv, RestOK
<1> QED
  BY <1>2, <1>3

-----------------------------------------------------------------------------
\* Handlers that change one client and leave the match alone.

\* A client is set to a record whose vote is of this match.
LEMMA SetHolds ==
  ASSUME IInv, NEW c \in Clients, NEW r \in ClientInfo, r.vote # NoGame => r.cast
  PROVE  Honest([ci EXCEPT ![c] = r])
  BY DEF IInv, Honest

\* Setting another field than the vote keeps a client honest.
LEMMA FieldHolds ==
  ASSUME IInv, NEW c \in Clients
  PROVE  /\ \A s \in {"gone", "player", "spectator"} : Honest([ci EXCEPT ![c].state = s])
         /\ \A p \in BOOLEAN : Honest([ci EXCEPT ![c].privilege = p])
         /\ \A g \in Games : Honest([ci EXCEPT ![c].vote = g, ![c].cast = TRUE])
<1>1. /\ ci \in [Clients -> ClientInfo] /\ ci[c] \in ClientInfo
      /\ ci[c].vote # NoGame => ci[c].cast
  BY DEF IInv, Honest
<1>2. ASSUME NEW s \in {"gone", "player", "spectator"}
      PROVE  Honest([ci EXCEPT ![c].state = s])
  <2>1. [ci[c] EXCEPT !.state = s] \in ClientInfo
    BY <1>1 DEF ClientInfo
  <2>2. /\ [ci[c] EXCEPT !.state = s].vote = ci[c].vote
        /\ [ci[c] EXCEPT !.state = s].cast = ci[c].cast
    BY <1>1 DEF ClientInfo
  <2>3. Honest([ci EXCEPT ![c] = [ci[c] EXCEPT !.state = s]])
    BY <1>1, <2>1, <2>2, SetHolds
  <2> QED
    BY <2>3
<1>3. ASSUME NEW p \in BOOLEAN
      PROVE  Honest([ci EXCEPT ![c].privilege = p])
  <2>1. [ci[c] EXCEPT !.privilege = p] \in ClientInfo
    BY <1>1 DEF ClientInfo
  <2>2. /\ [ci[c] EXCEPT !.privilege = p].vote = ci[c].vote
        /\ [ci[c] EXCEPT !.privilege = p].cast = ci[c].cast
    BY <1>1 DEF ClientInfo
  <2>3. Honest([ci EXCEPT ![c] = [ci[c] EXCEPT !.privilege = p]])
    BY <1>1, <2>1, <2>2, SetHolds
  <2> QED
    BY <2>3
<1>4. ASSUME NEW g \in Games
      PROVE  Honest([ci EXCEPT ![c].vote = g, ![c].cast = TRUE])
  <2> DEFINE r == [ci[c] EXCEPT !.vote = g, !.cast = TRUE]
  <2>1. r \in ClientInfo /\ r.cast = TRUE
    BY <1>1 DEF ClientInfo
  <2>2. Honest([ci EXCEPT ![c] = r])
    BY <2>1, SetHolds
  <2>3. [ci EXCEPT ![c].vote = g, ![c].cast = TRUE] = [ci EXCEPT ![c] = r]
    BY <1>1
  <2> QED
    BY <2>2, <2>3
<1> QED
  BY <1>2, <1>3, <1>4

\* A departure leaves a slot without a vote.
LEMMA GoneHolds ==
  ASSUME IInv, NEW c \in Clients
  PROVE  Honest([ci EXCEPT ![c] = Gone])
  BY SetHolds DEF Gone, ClientInfo

\* What remains the same is as good as before.
LEMMA RestHolds ==
  ASSUME IInv, UNCHANGED clock, Honest(ci'), mastermode' \in {"open", "veto", "locked"},
         gamepaused' \in BOOLEAN, shouldstep' = shouldstep, votedIPs' = votedIPs
  PROVE  IInv'
<1>1. ClockOK'
  BY DEF IInv, ClockOK, clock, IntermissionKeepsItsTime
<1> QED
  BY <1>1 DEF IInv, RestOK

\* A client enters, and the maps may rotate for it.
LEMMA ConnectedHolds ==
  ASSUME IInv, NEW c \in Clients, connected(c)
  PROVE  IInv'
<1>1. PICK s \in {"player", "spectator"} : RotateWithout(hasmap(ci, c), [ci EXCEPT ![c].state = s])
  BY DEF connected
<1>2. Honest([ci EXCEPT ![c].state = s])
  BY FieldHolds
<1>3. /\ Honest(ci') /\ ClockOK'
      /\ gamepaused' \in BOOLEAN /\ votedIPs' \subseteq Clients
  BY <1>1, <1>2, RotateWithoutHolds
<1> QED
  BY <1>3 DEF IInv, RestOK, connected

\* A spectator plays again, and the maps may rotate for it.
LEMMA UnspectateHolds ==
  ASSUME IInv, NEW c \in Clients, NEW d \in Clients, Unspectate(c, d)
  PROVE  IInv'
<1>1. RotateWithout(hasmap(ci, d), [ci EXCEPT ![d].state = "player"])
  BY DEF Unspectate
<1>2. Honest([ci EXCEPT ![d].state = "player"])
  BY FieldHolds
<1>3. /\ Honest(ci') /\ ClockOK'
      /\ gamepaused' \in BOOLEAN /\ votedIPs' \subseteq Clients
  BY <1>1, <1>2, RotateWithoutHolds
<1> QED
  BY <1>3 DEF IInv, RestOK, Unspectate

\* A client votes.
LEMMA VoteHolds ==
  ASSUME IInv, NEW c \in Clients, NEW g \in Games, vote(c, g)
  PROVE  IInv'
<1> DEFINE cs == [ci EXCEPT ![c].vote = g, ![c].cast = TRUE]
<1>1. Honest(cs)
  BY FieldHolds
<1>2. changemap(cs, g) \/ checkvotes(cs)
  BY DEF vote
<1> HIDE DEF cs
<1>3. /\ Honest(ci') /\ ClockOK'
      /\ gamepaused' \in BOOLEAN /\ votedIPs' \subseteq Clients
  BY <1>1, <1>2, ChangeHolds, VotesHold
<1> QED
  BY <1>3 DEF IInv, RestOK, vote

\* Privileges and master modes.
LEMMA MastersHold ==
  ASSUME IInv, NEW c \in Clients,
         \/ clientdisconnect(c) \/ ClaimMaster(c) \/ revokemaster(c)
         \/ \E mode \in {"open", "veto", "locked"} : SetMasterMode(c, mode)
         \/ \E val \in BOOLEAN : PauseGame(c, val)
         \/ \E d \in Clients : Spectate(c, d)
  PROVE  IInv'
<1>1. mastermode \in {"open", "veto", "locked"} /\ gamepaused \in BOOLEAN /\ Honest(ci)
  BY DEF IInv, RestOK
<1>2. ASSUME NEW cs, Reassessed(cs)
      PROVE  mastermode' \in {"open", "veto", "locked"} /\ gamepaused' \in BOOLEAN
  BY <1>1, <1>2 DEF Reassessed
<1>3. CASE clientdisconnect(c)
  <2>1. Honest(ci')
    BY <1>3, GoneHolds DEF clientdisconnect
  <2>2. mastermode' \in {"open", "veto", "locked"} /\ gamepaused' \in BOOLEAN
    BY <1>1, <1>2, <1>3 DEF clientdisconnect
  <2> QED
    BY <1>3, <2>1, <2>2, RestHolds DEF clientdisconnect
<1>4. CASE ClaimMaster(c)
  BY <1>1, <1>4, FieldHolds, RestHolds DEF ClaimMaster
<1>5. CASE revokemaster(c)
  <2>1. Honest(ci')
    BY <1>5, FieldHolds DEF revokemaster
  <2>2. mastermode' \in {"open", "veto", "locked"} /\ gamepaused' \in BOOLEAN
    BY <1>2, <1>5 DEF revokemaster
  <2> QED
    BY <1>5, <2>1, <2>2, RestHolds DEF revokemaster
<1>6. ASSUME NEW mode \in {"open", "veto", "locked"}, SetMasterMode(c, mode)
      PROVE  IInv'
  BY <1>1, <1>6, RestHolds DEF SetMasterMode
<1>7. ASSUME NEW val \in BOOLEAN, PauseGame(c, val)
      PROVE  IInv'
  BY <1>1, <1>7, RestHolds DEF PauseGame
<1>8. ASSUME NEW d \in Clients, Spectate(c, d)
      PROVE  IInv'
  <2>1. Honest(ci')
    BY <1>8, FieldHolds DEF Spectate
  <2> QED
    BY <1>1, <1>8, <2>1, RestHolds DEF Spectate
<1> QED
  BY <1>3, <1>4, <1>5, <1>6, <1>7, <1>8

\* Commands that end a match set its limit to the present.
LEMMA CommandsHold ==
  ASSUME IInv, NEW c \in Clients,
         \/ forceintermission_cmd(c) \/ mapsucks_cmd(c) \/ \E g \in Games : cw_cmd(c, g)
  PROVE  IInv'
<1>1. gamemillis \in Nat /\ gamemillis >= gamemillis
  BY Periods DEF IInv, ClockOK
<1>2. CASE forceintermission_cmd(c)
  BY <1>1, <1>2 DEF forceintermission_cmd, IInv, ClockOK, RestOK, IntermissionKeepsItsTime
<1>3. CASE mapsucks_cmd(c)
  <2>1. votedIPs' \subseteq Clients /\ gamelimit' \in {gamemillis, gamelimit}
    BY <1>3 DEF mapsucks_cmd, IInv, RestOK
  <2> QED
    BY <1>1, <1>3, <2>1 DEF mapsucks_cmd, IInv, ClockOK, RestOK, IntermissionKeepsItsTime
<1>4. ASSUME NEW g \in Games, cw_cmd(c, g)
      PROVE  IInv'
  <2>1. Honest(ci') /\ ClockOK' /\ gamepaused' = FALSE /\ votedIPs' = {}
    BY <1>4, ChangeHolds DEF cw_cmd, IInv
  <2> QED
    BY <1>4, <2>1 DEF cw_cmd, IInv, RestOK
<1> QED
  BY <1>2, <1>3, <1>4

\* Every step preserves the invariant.
LEMMA NextInv == IInv /\ [Next]_vars => IInv'
<1> SUFFICES ASSUME IInv, [Next]_vars PROVE IInv'
  OBVIOUS
<1>1. CASE startintermission
  BY <1>1, StartHolds
<1>2. CASE serverupdate
  BY <1>2, UpdateHolds
<1>3. ASSUME NEW c \in Clients, connected(c) PROVE IInv'
  BY <1>3, ConnectedHolds
<1>4. ASSUME NEW c \in Clients,
             \/ clientdisconnect(c) \/ ClaimMaster(c) \/ revokemaster(c)
             \/ \E mode \in {"open", "veto", "locked"} : SetMasterMode(c, mode)
             \/ \E val \in BOOLEAN : PauseGame(c, val)
             \/ \E d \in Clients : Spectate(c, d)
      PROVE  IInv'
  BY <1>4, MastersHold
<1>5. ASSUME NEW c \in Clients,
             \/ forceintermission_cmd(c) \/ mapsucks_cmd(c) \/ \E g \in Games : cw_cmd(c, g)
      PROVE  IInv'
  BY <1>5, CommandsHold
<1>6. ASSUME NEW c \in Clients, NEW d \in Clients, Unspectate(c, d) PROVE IInv'
  BY <1>6, UnspectateHolds
<1>7. ASSUME NEW c \in Clients, NEW g \in Games, vote(c, g) PROVE IInv'
  BY <1>7, VoteHolds
<1>8. CASE UNCHANGED vars
  BY <1>8 DEF vars, IInv, Honest, ClockOK, RestOK, IntermissionKeepsItsTime
<1> QED
  BY <1>1, <1>2, <1>3, <1>4, <1>5, <1>6, <1>7, <1>8 DEF Next

\* The inductive invariant holds in every reachable state.
THEOREM Invariance == Spec => []IInv
<1> QED
  BY InitInv, NextInv, PTL DEF Spec

\* A vote is of this match and of the client that is in the slot now, whatever
\* ended the match before and whoever left.
THEOREM VotesAreCurrent == Spec => []VotesAreForNow
<1>1. IInv => VotesAreForNow
  BY DEF IInv, Honest, VotesAreForNow
<1> QED
  BY <1>1, Invariance, PTL

\* Whether a match ended by time, score or a command: startintermission,
\* checkintermission and checkovertime give an intermission no more time to play,
\* and serverupdate ends it as soon as its clock is past interm.
THEOREM IntermissionsEnd == Spec => []IntermissionKeepsItsTime
<1>1. IInv => IntermissionKeepsItsTime
  BY DEF IInv, ClockOK
<1> QED
  BY <1>1, Invariance, PTL
=============================================================================
