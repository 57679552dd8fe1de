---------------------------- MODULE StatsStore ------------------------------
(***************************************************************************)
(* Lifetime statistics in the SQLite table PLAYERINFO and the scores that  *)
(* are kept for players who reconnect (src/fpsgame/server.cpp).  frags     *)
(* stands for the three counters frags, deaths and flags, which are saved  *)
(* alike; the rows of the table are keyed by the players' names.           *)
(***************************************************************************)
EXTENDS Integers, FiniteSetsExt

CONSTANTS
    Cns, Ips, Names,
    Requests,   \* which of "stats", "spectate", "timeup", "midmatch", "flagrun",
                \* "busy" happen
    Twins,      \* may two clients with one address use the same name
    MaxFrags    \* bound: how much is earned in all

ASSUME StoreAssumption ==
    /\ IsFiniteSet(Cns) /\ IsFiniteSet(Names)
    /\ Twins \in BOOLEAN /\ MaxFrags \in Nat

VARIABLES
    ci,         \* the clients
    scores,     \* saved scores by address and name, until the map changes
    table,      \* PLAYERINFO: the total of every name
    intermission,
    earned,     \* all that was ever earned, by anybody: not in the code
    late,       \* what of it came after a save or in an intermission: not in the code
    lapsed      \* was there another reason to lose anything: not in the code

ghosts == <<earned, late, lapsed>>
vars == <<ci, scores, table, intermission, ghosts>>

Asks(request) == request \in Requests

SumOf(f, K) == MapThenSumSet(LAMBDA k : f[k], K)

NoScore == -1

Free == [connected |-> FALSE]

Players == {c \in Cns : ci[c].connected}

\* findscore(c, false): another client with the address and name comes first.
Restored(ip, name) ==
    LET twins == {d \in Players : ci[d].ip = ip /\ ci[d].name = name}
    IN  IF twins # {} THEN {ci[d].frags : d \in twins}
        ELSE {IF scores[<<ip, name>>] = NoScore THEN 0 ELSE scores[<<ip, name>>]}

\* The clients savestats has something to add for.
Unsaved == {c \in Players : ~ci[c].spectator /\ ~ci[c].stats_saved /\ ci[c].frags > 0}

\* savestats for the clients S: the table afterwards.
save(S) ==
    LET frags == [c \in Players |-> ci[c].frags]
    IN  [name \in Names |-> table[name] + SumOf(frags, {c \in S \cap Unsaved : ci[c].name = name})]

Saved(c) == [ci[c] EXCEPT !.stats_saved = TRUE]

\* The frags of a match that is over are forgotten.
mapchange(c) == [ci[c] EXCEPT !.frags = 0, !.stats_saved = FALSE]

\* The table may be locked by a reader for longer than the 200 ms one waits.
Busy == IF Asks("busy") THEN BOOLEAN ELSE {FALSE}

Init ==
    /\ ci = [c \in Cns |-> Free]
    /\ scores = [key \in Ips \X Names |-> NoScore]
    /\ table = [name \in Names |-> 0]
    /\ intermission = FALSE /\ earned = 0 /\ late = 0 /\ lapsed = FALSE

Connect(c, ip, name) ==
    /\ ~ci[c].connected
    /\ Twins \/ \A d \in Players : ci[d].ip # ip
    /\ \E frags \in Restored(ip, name), spectator \in {FALSE} \cup {Asks("spectate")} :
          ci' = [ci EXCEPT ![c] = [connected |-> TRUE, ip |-> ip, name |-> name,
                                   spectator |-> spectator, frags |-> frags,
                                   stats_saved |-> FALSE]]
    /\ UNCHANGED <<scores, table, intermission, ghosts>>

\* Counters grow in an intermission too: by a change of teams or #kill, which
\* are suicides, a shot flushed at N_TRYSPAWN, a flag; and a shot on its way hits
\* when its owner watches already.
Frag(c) ==
    /\ c \in Players /\ earned < MaxFrags
    /\ ci' = [ci EXCEPT ![c].frags = @ + 1]
    /\ earned' = earned + 1
    /\ late' = IF ci[c].stats_saved \/ intermission THEN late + 1 ELSE late
    /\ lapsed' = (lapsed \/ ci[c].spectator)
    /\ UNCHANGED <<scores, table, intermission>>

\* N_SWITCHNAME: what was earned so far will be saved for the new name.
SwitchName(c, name) ==
    /\ c \in Players
    /\ ci' = [ci EXCEPT ![c].name = name]
    /\ UNCHANGED <<scores, table, intermission, ghosts>>

\* The statistics of those who leave as spectators are not saved.
Spectate(c) ==
    /\ Asks("spectate") /\ c \in Players
    /\ ci' = [ci EXCEPT ![c].spectator = ~@] /\ lapsed' = TRUE
    /\ UNCHANGED <<scores, table, intermission, earned, late>>

\* Faulty: the counters are zeroed first.
clientdisconnectZeroesFirst(c) ==
    /\ c \in Players
    /\ scores' = [scores EXCEPT ![<<ci[c].ip, ci[c].name>>] = 0]
    /\ ci' = [ci EXCEPT ![c] = Free]
    /\ UNCHANGED <<table, intermission, ghosts>>

\* Faulty: the counters are not zeroed.
clientdisconnectKeepsScore(c) ==
    /\ c \in Players
    /\ \E busy \in Busy : /\ table' = IF busy THEN table ELSE save({c})
                         /\ lapsed' = (lapsed \/ busy)
    /\ scores' = [scores EXCEPT ![<<ci[c].ip, ci[c].name>>] = ci[c].frags]
    /\ ci' = [ci EXCEPT ![c] = Free]
    /\ UNCHANGED <<intermission, earned, late>>

\* What is saved in the table is not kept in the saved score: the counters are
\* zeroed in between.
clientdisconnect(c) ==
    /\ c \in Players
    /\ \E busy \in Busy : /\ table' = IF busy THEN table ELSE save({c})
                         /\ lapsed' = (lapsed \/ busy)
    /\ scores' = [scores EXCEPT ![<<ci[c].ip, ci[c].name>>] = 0]
    /\ ci' = [ci EXCEPT ![c] = Free]
    /\ UNCHANGED <<intermission, earned, late>>

\* A flag run too fast to be true is not honoured with statistics.
KickFlagrunner(c) ==
    /\ Asks("flagrun") /\ c \in Players
    /\ scores' = [scores EXCEPT ![<<ci[c].ip, ci[c].name>>] = 0]
    /\ ci' = [ci EXCEPT ![c] = Free] /\ lapsed' = TRUE
    /\ UNCHANGED <<table, intermission, earned, late>>

\* "#stats" and "#leaderboard" save first, if the last time is 30 seconds ago.
ShowStats(c, due) ==
    /\ Asks("stats") /\ c \in Players
    /\ \E busy \in Busy :
          IF due /\ c \in Unsaved /\ ~busy
          THEN table' = save({c}) /\ ci' = [ci EXCEPT ![c] = Saved(c)]
          ELSE UNCHANGED <<table, ci>>
    /\ UNCHANGED <<scores, intermission, ghosts>>

\* A match is decided by its score or ended by IRC: everybody is saved, who is
\* not busy.  A flag or token that counts in the intermission calls it again.
startintermission ==
    /\ \E S \in {S \in SUBSET Unsaved : S = Unsaved \/ Asks("busy")} :
          /\ table' = save(S)
          /\ ci' = [c \in Cns |-> IF c \in S THEN Saved(c) ELSE ci[c]]
          /\ lapsed' = (lapsed \/ S # Unsaved)
    /\ intermission' = TRUE
    /\ UNCHANGED <<scores, earned, late>>

\* The time of a match is over: nobody is saved.
checkintermission ==
    /\ Asks("timeup") /\ ~intermission /\ intermission' = TRUE /\ lapsed' = TRUE
    /\ UNCHANGED <<ci, scores, table, earned, late>>

\* After the intermission, or in the middle of a match by vote or command.
changemap ==
    /\ (Players # {} /\ intermission) \/ Asks("midmatch")
    /\ ci' = [c \in Cns |-> IF c \in Players THEN mapchange(c) ELSE ci[c]]
    /\ scores' = [key \in Ips \X Names |-> NoScore]
    /\ intermission' = FALSE /\ lapsed' = (lapsed \/ ~intermission)
    /\ UNCHANGED <<table, earned, late>>

\* The server is stopped and started again.
serverclose ==
    /\ \E S \in {S \in SUBSET Unsaved : S = Unsaved \/ Asks("busy")} :
          table' = save(S) /\ lapsed' = (lapsed \/ S # Unsaved)
    /\ ci' = [c \in Cns |-> Free]
    /\ scores' = [key \in Ips \X Names |-> NoScore]
    /\ intermission' = FALSE
    /\ UNCHANGED <<earned, late>>

Next ==
    \/ \E c \in Cns :
          \/ \E ip \in Ips, name \in Names : Connect(c, ip, name)
          \/ \E name \in Names : SwitchName(c, name)
          \/ \E due \in BOOLEAN : ShowStats(c, due)
          \/ Frag(c) \/ Spectate(c) \/ clientdisconnect(c) \/ KickFlagrunner(c)
    \/ startintermission \/ checkintermission \/ changemap \/ serverclose

Spec == Init /\ [][Next]_vars

-----------------------------------------------------------------------------
Total == SumOf(table, Names)

\* Earned by those who are connected and were not saved in this match.
Pending ==
    SumOf([c \in Players |-> IF ci[c].stats_saved THEN 0 ELSE ci[c].frags], Players)

\* "Persistent SQLite-backed player statistics": whatever a player earns until it
\* is saved, or until the intermission begins, is in the table or belongs to a
\* connected player who was not saved yet.
AllKept == Total + Pending + late >= earned

\* The same, as long as no match ends by its time or in its middle, nobody watches
\* or cheats and the table is never locked: what comes late is all that is lost
\* by leaving and returning in the same match, a new name, #stats, the end of a
\* match or of the server.
NothingLost == lapsed \/ AllKept

\* Nothing is saved twice, or restored to a player after it was saved: a total
\* and what may be added to it never exceed what was earned.
NothingTwice == Total + Pending <= earned
=============================================================================
