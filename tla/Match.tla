------------------------------- MODULE Match -------------------------------
(***************************************************************************)
(* A match: its clock and its end, overtime, intermission, votes for the   *)
(* next map, rotation and pauses, while clients come, go and watch         *)
(* (src/fpsgame/server.cpp).                                               *)
(*                                                                         *)
(* A game is a map with its mode.  Time is counted in coarse units, the    *)
(* periods are constants.                                                  *)
(***************************************************************************)
EXTENDS Integers, FiniteSets, FiniteSetsExt

CONSTANTS Clients, Games, NoGame,
          Timed,          \* the games with a time limit
          Rotation,       \* the games of maprotations
          NewMap,         \* what an empty rotation ends in: changemap("", 1)
          maxclients, overtime, lockmaprotation,
          Length, Overtime, Intermission,
          MaxMillis       \* bound: no overtime goes beyond it, clocks without a limit stop at it

ASSUME MatchAssumption ==
    /\ Timed \subseteq Games /\ Rotation \subseteq Games /\ NewMap \in Games \ Timed
    /\ NoGame \notin Games /\ {overtime, lockmaprotation} \subseteq BOOLEAN
    /\ {maxclients, Length, Overtime, Intermission, MaxMillis} \subseteq Nat \ {0}

VARIABLES
    ci,          \* the clients; cast (history) says whether their vote is of this match
    mastermode,  \* "locked" stands for all from MM_LOCKED on
    game,        \* smapname and gamemode
    gamemillis, gamelimit,
    interm,      \* when the intermission ends, 0 without one
    gamepaused, shouldstep,
    votedIPs     \* who asked for another map by #mapsucks

vars == <<ci, mastermode, game, gamemillis, gamelimit, interm, gamepaused, shouldstep, votedIPs>>

clock == <<game, gamemillis, gamelimit, interm>>

Gone == [state |-> "gone", privilege |-> FALSE, vote |-> NoGame, cast |-> FALSE]

Present(cs) == {c \in Clients : cs[c].state # "gone"}

\* Who counts as a player: not the spectators without privileges.
Counts(i) == i.state = "player" \/ (i.state = "spectator" /\ i.privilege)

Init ==
    /\ ci = [c \in Clients |-> Gone] /\ mastermode = "open"
    /\ game = NoGame /\ gamemillis = 0 /\ gamelimit = 0 /\ interm = 0
    /\ gamepaused = FALSE /\ shouldstep = TRUE /\ votedIPs = {}

-----------------------------------------------------------------------------
\* Faulty: a vote is good for the next match as well.
mapchangeKeepsVotes(cs) == [c \in Clients |-> [cs[c] EXCEPT !.cast = FALSE]]
\* What a change of maps makes of the clients.
mapchange(cs) == [c \in Clients |-> [cs[c] EXCEPT !.vote = NoGame, !.cast = FALSE]]

changemap(cs, g) ==
    /\ ci' = mapchange(cs) /\ game' = g
    /\ gamemillis' = 0 /\ gamelimit' = Length /\ interm' = 0
    /\ gamepaused' = FALSE /\ votedIPs' = {}

\* The next entry of the rotation, whichever that is.
rotatemap(cs) == \E g \in IF Rotation = {} THEN {NewMap} ELSE Rotation : changemap(cs, g)

SameMatch(cs) == ci' = cs /\ UNCHANGED <<clock, gamepaused, votedIPs>>

\* May client c, who is joining or about to play again, play this match?
hasmap(cs, c) ==
    /\ game # NoGame
    /\ game \in Timed /\ gamemillis >= gamelimit => \E d \in Clients \ {c} : Counts(cs[d])

RotateWithout(map, cs) == IF map THEN SameMatch(cs) ELSE rotatemap(cs)

-----------------------------------------------------------------------------
\* Votes.
Count(cs, g) == Cardinality({c \in Clients : Counts(cs[c]) /\ cs[c].vote = g})

\* The games with the most votes; one of them is drawn.
Best(cs) == {g \in Games : Count(cs, g) > 0 /\ \A h \in Games : Count(cs, g) >= Count(cs, h)}

Majority(cs, g) == Count(cs, g) > Cardinality({c \in Clients : Counts(cs[c])}) \div 2

checkvotes(cs) ==
    \/ \E g \in Best(cs) : Majority(cs, g) /\ changemap(cs, g)
    \/ (\A g \in Best(cs) : ~Majority(cs, g)) /\ SameMatch(cs)

vote(c, g) ==
    /\ Counts(ci[c]) /\ (lockmaprotation => ci[c].privilege)
    /\ LET cs == [ci EXCEPT ![c].vote = g, ![c].cast = TRUE] IN
       IF ci[c].privilege /\ mastermode # "open" THEN changemap(cs, g) ELSE checkvotes(cs)
    /\ UNCHANGED <<mastermode, shouldstep>>

\* checkvotes(true), at the end of the intermission: two votes are enough,
\* else the maps rotate.
ForcedVotes ==
    \/ \E g \in Best(ci) : Count(ci, g) > 1 /\ changemap(ci, g)
    \/ (\A g \in Best(ci) : Count(ci, g) <= 1) /\ rotatemap(ci)

-----------------------------------------------------------------------------
\* Faulty: overtime is asked for before it is known that the match runs.
checkintermissionAnew(millis, limit, rest, force) ==
    IF millis < limit THEN {<<limit, rest>>}
    ELSE (IF overtime /\ ~force /\ millis + Overtime <= MaxMillis
          THEN {<<millis + Overtime, rest>>} ELSE {})
         \cup {<<limit, IF rest = 0 THEN millis + Intermission ELSE rest>>}
\* The limits after a check at millis: a match that is over goes into overtime
\* if its leaders are tied and nobody forces its end, else to intermission.
checkintermission(millis, limit, rest, force) ==
    IF millis < limit \/ rest # 0 THEN {<<limit, rest>>}
    ELSE {<<limit, millis + Intermission>>}
         \cup IF overtime /\ ~force /\ millis + Overtime <= MaxMillis
              THEN {<<millis + Overtime, rest>>} ELSE {}

\* The score decides the match, or an admin ends it by the IRC bot.
startintermission ==
    /\ \E r \in checkintermission(gamemillis, Min({gamelimit, gamemillis}), interm, TRUE) :
          gamelimit' = r[1] /\ interm' = r[2]
    /\ UNCHANGED <<ci, mastermode, game, gamemillis, gamepaused, shouldstep, votedIPs>>

\* Faulty: the clock runs for players, not for those who watch.
serverupdateForPlayers ==
    /\ shouldstep /\ ~gamepaused
    /\ LET millis == Min({gamemillis + 1, MaxMillis + Intermission + 1}) IN
       \E r \in IF game \in Timed /\ gamemillis > 0
                THEN checkintermission(millis, gamelimit, interm, FALSE)
                ELSE {<<gamelimit, interm>>} :
          IF r[2] > 0 /\ millis > r[2] THEN ForcedVotes
          ELSE /\ gamemillis' = millis /\ gamelimit' = r[1] /\ interm' = r[2]
               /\ UNCHANGED <<ci, game, gamepaused, votedIPs>>
    /\ shouldstep' = (\E c \in Clients : ci[c].state = "player") /\ UNCHANGED mastermode
\* One turn of the main loop that advances the clock of the match.
serverupdate ==
    /\ IF shouldstep /\ ~gamepaused
       THEN LET millis == Min({gamemillis + 1, MaxMillis + Intermission + 1}) IN
            \E r \in IF game \in Timed /\ gamemillis > 0
                     THEN checkintermission(millis, gamelimit, interm, FALSE)
                     ELSE {<<gamelimit, interm>>} :
               IF r[2] > 0 /\ millis > r[2] THEN ForcedVotes
               ELSE /\ gamemillis' = millis /\ gamelimit' = r[1] /\ interm' = r[2]
                    /\ UNCHANGED <<ci, game, gamepaused, votedIPs>>
       ELSE UNCHANGED <<ci, clock, gamepaused, votedIPs>>
    /\ shouldstep' = (Present(ci) # {}) /\ UNCHANGED mastermode

-----------------------------------------------------------------------------
\* Clients.
connected(c) ==
    /\ ci[c].state = "gone"
    /\ LET cs == [ci EXCEPT ![c].state = IF mastermode = "locked" THEN "spectator" ELSE "player"] IN
       RotateWithout(hasmap(ci, c), cs)
    /\ shouldstep' = TRUE /\ UNCHANGED mastermode

\* setmaster and checkpausegame: without masters the server is open and runs.
Reassessed(cs) ==
    LET held == \E c \in Clients : cs[c].privilege IN
    /\ mastermode' = (IF held THEN mastermode ELSE "open")
    /\ gamepaused' = (held /\ gamepaused)

clientdisconnect(c) ==
    /\ ci[c].state # "gone"
    /\ ci' = [ci EXCEPT ![c] = Gone]
    /\ IF ci[c].privilege THEN Reassessed(ci') ELSE UNCHANGED <<mastermode, gamepaused>>
    /\ UNCHANGED <<clock, shouldstep, votedIPs>>

ClaimMaster(c) ==
    /\ ci[c].state = "player" /\ \A d \in Clients : ~ci[d].privilege
    /\ ci' = [ci EXCEPT ![c].privilege = TRUE]
    /\ UNCHANGED <<mastermode, clock, gamepaused, shouldstep, votedIPs>>

revokemaster(c) ==
    /\ ci[c].privilege
    /\ ci' = [ci EXCEPT ![c].privilege = FALSE] /\ Reassessed(ci')
    /\ UNCHANGED <<clock, shouldstep, votedIPs>>

SetMasterMode(c, mode) ==
    /\ ci[c].privilege /\ mastermode' = mode
    /\ UNCHANGED <<ci, clock, gamepaused, shouldstep, votedIPs>>

\* N_SPECTATOR by c for d, to watch ...
Spectate(c, d) ==
    /\ ci[c].state # "gone" /\ (ci[c].privilege \/ c = d) /\ ci[d].state = "player"
    /\ ci' = [ci EXCEPT ![d].state = "spectator"]
    /\ UNCHANGED <<mastermode, clock, gamepaused, shouldstep, votedIPs>>

\* ... and to play again.
Unspectate(c, d) ==
    /\ ci[c].privilege \/ (c = d /\ mastermode # "locked")
    /\ ci[d].state = "spectator"
    /\ RotateWithout(hasmap(ci, d), [ci EXCEPT ![d].state = "player"])
    /\ UNCHANGED <<mastermode, shouldstep>>

PauseGame(c, val) ==
    /\ ci[c].privilege /\ gamepaused' = val
    /\ UNCHANGED <<ci, mastermode, clock, shouldstep, votedIPs>>

\* #intermission: the time of the match is up at the next update.
forceintermission_cmd(c) ==
    /\ ci[c].privilege /\ game # NewMap /\ interm <= 0
    /\ gamelimit' = gamemillis
    /\ UNCHANGED <<ci, mastermode, game, gamemillis, interm, gamepaused, shouldstep, votedIPs>>

\* #mapsucks, once for each address: as many as half of the slots end the match.
mapsucks_cmd(c) ==
    /\ ci[c].state # "gone" /\ game # NewMap /\ c \notin votedIPs
    /\ LET enough == Cardinality(votedIPs) + 1 >= maxclients \div 2 IN
       /\ votedIPs' = (IF enough THEN {} ELSE votedIPs \cup {c})
       /\ gamelimit' = (IF enough THEN gamemillis ELSE gamelimit)
    /\ UNCHANGED <<ci, mastermode, game, gamemillis, interm, gamepaused, shouldstep>>

\* #cw and #duel: the map is changed at once.
cw_cmd(c, g) ==
    /\ ci[c].privilege /\ changemap(ci, g) /\ UNCHANGED <<mastermode, shouldstep>>

Next ==
    \/ startintermission \/ serverupdate
    \/ \E c \in Clients :
          \/ connected(c) \/ clientdisconnect(c) \/ ClaimMaster(c) \/ revokemaster(c)
          \/ forceintermission_cmd(c) \/ mapsucks_cmd(c)
          \/ \E mode \in {"open", "veto", "locked"} : SetMasterMode(c, mode)
          \/ \E val \in BOOLEAN : PauseGame(c, val)
          \/ \E d \in Clients : Spectate(c, d) \/ Unspectate(c, d)
          \/ \E g \in Games : vote(c, g) \/ cw_cmd(c, g)

Spec == Init /\ [][Next]_vars

\* The main loop calls serverupdate in every turn.
FairSpec == Spec /\ WF_vars(serverupdate)

-----------------------------------------------------------------------------
\* A vote (mapvote, modevote) was cast for this match, by the client that is
\* in the slot now.
VotesAreForNow == \A c \in Clients : ci[c].vote # NoGame => ci[c].cast

\* Once the intermission has begun no overtime, check or command gives the match
\* more time, so that what serverupdate does before the limit only (events,
\* updates of modes) stays off, and the next map comes in the turn in which it ends.
IntermissionKeepsItsTime == interm # 0 => gamelimit <= gamemillis /\ gamemillis <= interm

\* When its time is up a match gives way to an overtime or another match,
\* unless it is paused or everybody leaves.
MatchGivesWay ==
    game \in Timed /\ gamemillis >= gamelimit
        ~> game \notin Timed \/ gamemillis < gamelimit \/ gamepaused \/ Present(ci) = {}
=============================================================================
