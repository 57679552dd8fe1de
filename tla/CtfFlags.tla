------------------------------ MODULE CtfFlags ------------------------------
(***************************************************************************)
(* The flags of the modes ctf, protect and hold (src/fpsgame/ctf.h).       *)
(* Clients act on what the last broadcast told them: a request to take a   *)
(* flag, or the answer to a spawn, is on its way while the server's state  *)
(* changes.  Requests of one client arrive in order.  Times are abstract:  *)
(* a timer that runs may expire at any moment, and how long a flag run     *)
(* took is left out.                                                       *)
(***************************************************************************)
EXTENDS Integers, Sequences, FiniteSetsExt

CONSTANTS
    Clients, Flags, Teams,
    FlagTeam,       \* the team of each flag of the map
    Modes,          \* among "ctf", "protect" and "hold"
    Requests,       \* which of "pass", "spectate", "unspectate", "balance" happen
    FlagLimit,      \* captures that end the match
    MaxChanges,     \* bound: changes of flags in one match, for each mode
    MaxInFlight,    \* bound: one client's requests on their way, when it adds one
    NoOne

ASSUME FlagsAssumption ==
    /\ FlagTeam \in [Flags -> Teams] /\ Modes \subseteq {"ctf", "protect", "hold"}
    /\ FlagLimit \in Nat \ {0} /\ MaxChanges \in [Modes -> Nat] /\ MaxInFlight \in Nat \ {0}
    /\ NoOne \notin Clients

VARIABLES
    mode,       \* of this match
    ci,         \* the clients
    flags,      \* empty until the server knows the map (notgotflags)
    sent,       \* requests of each client on their way
    scores,
    over        \* intermission

vars == <<mode, ci, flags, sent, scores, over>>

Asks(request) == request \in Requests

\* The server does not run the game between matches.
Playing == ~over

Free == [connected |-> FALSE]

Connected == {c \in Clients : ci[c].connected}

Alive(c) == c \in Connected /\ ci[c].state = "alive"

\* A flag as an observer sees it.
Where(f) == [owner |-> f.owner, dropped |-> f.droptime]

Owns(c, i) == flags[i].owner = c

\* In hold there is one flag, at one of the places the map has.
Placings(m) == IF m = "hold" THEN {{i} : i \in Flags} ELSE {Flags}

\* passed, how the owner came by the flag, is not in the code.
Spawned(team, m) ==
    [team |-> team, version |-> 0, owner |-> NoOne, droptime |-> FALSE,
     dropper |-> NoOne, dropcount |-> 0, invistime |-> m = "protect",
     passed |-> FALSE, told |-> [owner |-> NoOne, dropped |-> FALSE]]

\* ++version and the message about the flag.
Announced(f) == [f EXCEPT !.version = @ + 1, !.told = Where(f)]

Changes == MapThenSumSet(LAMBDA i : flags[i].version, DOMAIN flags)

Changeable(i) == i \in DOMAIN flags /\ Changes < MaxChanges[mode]

ownflag(f, c, passed) ==
    [f EXCEPT !.owner = c, !.invistime = FALSE, !.dropper = NoOne,
              !.dropcount = IF c # f.dropper THEN 0 ELSE IF @ < 3 THEN @ + 1 ELSE @,
              !.passed = passed]

returnflag(f, invis) ==
    [f EXCEPT !.droptime = FALSE, !.dropcount = 0, !.owner = NoOne, !.dropper = NoOne,
              !.invistime = invis, !.passed = FALSE]

\* The answer of a client to a spawn.  Its lifesequence is compared with that
\* of the client only: current says whether they are the same.
Spawn == [kind |-> "spawn", current |-> TRUE]

\* spawnstate: lifesequence counts up, and the spawn state is answered.
Respawned(c) ==
    Append([k \in DOMAIN sent[c] |->
              IF sent[c][k].kind = "spawn" THEN [Spawn EXCEPT !.current = FALSE] ELSE sent[c][k]],
           Spawn)

\* Where a flag may be dropped: protectors in their base return it.
Spots == IF mode = "protect" THEN {"ground", "base"} ELSE {"ground"}

DroppedCarrier(r) == [r EXCEPT !.hasPassedFlag = FALSE]

\* dropflag(ci, dropper): what happens to the flags, and to the carrier.
FlagsDropped(c, dropper, spot) ==
    [i \in DOMAIN flags |->
        IF ~Owns(c, i) THEN flags[i]
        ELSE IF spot = "base" THEN Announced(returnflag(flags[i], FALSE))
        ELSE Announced([flags[i] EXCEPT !.droptime = TRUE, !.owner = NoOne, !.invistime = FALSE,
                                        !.dropper = dropper, !.passed = FALSE])]

Carrier(c, spot) ==
    IF spot = "ground" /\ (\E i \in DOMAIN flags : Owns(c, i)) THEN DroppedCarrier(ci[c]) ELSE ci[c]

\* Faulty: a client that leaves stays the one who dropped a flag.
ForgetDropperNot(fs, c) == fs

ForgetDropper(fs, c) ==
    [i \in DOMAIN fs |->
        IF fs[i].dropper = c THEN [fs[i] EXCEPT !.dropper = NoOne, !.dropcount = 0] ELSE fs[i]]

MayDrop(c) == \A i \in DOMAIN flags : Owns(c, i) => Changeable(i)

Init ==
    /\ mode \in Modes
    /\ ci = [c \in Clients |-> Free]
    /\ flags = [i \in {} |-> Spawned(FlagTeam[i], mode)]
    /\ sent = [c \in Clients |-> <<>>]
    /\ scores = [t \in Teams |-> 0] /\ over = FALSE

\* The welcome holds the state to spawn with; joining spectators wait.
Connect(c, team) ==
    /\ ~ci[c].connected
    /\ \E state \in {"dead"} \cup (IF Asks("spectate") THEN {"spectator"} ELSE {}) :
          /\ ci' = [ci EXCEPT ![c] = [connected |-> TRUE, team |-> team, state |-> state,
                                      lastspawn |-> state = "dead",
                                      hasPassedFlag |-> FALSE]]
          /\ sent' = [sent EXCEPT ![c] = IF state = "dead" THEN <<Spawn>> ELSE <<>>]
    /\ UNCHANGED <<flags, scores, over>>

\* N_INITFLAGS: the first client with the map tells where its flags are.
parseflags(c) ==
    /\ c \in Connected /\ ci[c].state # "spectator" /\ DOMAIN flags = {}
    /\ \E S \in Placings(mode) : flags' = [i \in S |-> Spawned(FlagTeam[i], mode)]
    /\ UNCHANGED <<ci, sent, scores, over>>

\* A client that believes to live touches a flag it believes not to be carried.
Touch(c, i) ==
    /\ c \in Connected /\ i \in DOMAIN flags /\ Len(sent[c]) < MaxInFlight
    /\ \/ Alive(c)
       \/ \E k \in DOMAIN sent[c] : sent[c][k] = Spawn
    /\ flags[i].told.owner = NoOne
    /\ sent' = [sent EXCEPT ![c] = Append(@, [kind |-> "take", flag |-> i,
                                              version |-> flags[i].version,
                                              seen |-> flags[i].told])]
    /\ UNCHANGED <<ci, flags, scores, over>>

\* N_SPAWN answers the last spawn state.
SpawnAnswered(c, r) ==
    /\ r.kind = "spawn" /\ ci[c].state # "spectator" /\ ci[c].lastspawn
    /\ r.current

\* Faulty: the dead take flags.
HonouredDead(c, r) ==
    /\ r.kind = "take" /\ c \in Connected /\ r.flag \in DOMAIN flags
    /\ flags[r.flag].owner = NoOne /\ flags[r.flag].version = r.version

\* Faulty: what the client saw does not matter.
HonouredAnyVersion(c, r) ==
    /\ r.kind = "take" /\ Alive(c) /\ r.flag \in DOMAIN flags
    /\ flags[r.flag].owner = NoOne

\* takeflag goes on: the flag is free and as the client saw it, and the client
\* has not dropped it too often.
Honoured(c, r) ==
    /\ r.kind = "take" /\ Alive(c) /\ r.flag \in DOMAIN flags
    /\ LET f == flags[r.flag]
       IN  /\ f.owner = NoOne /\ f.version = r.version
           /\ ~(f.droptime /\ f.dropper = c /\ f.dropcount >= 3)

Carries(c) == \E i \in DOMAIN flags : Owns(c, i)

Score(c) ==
    LET total == scores[ci[c].team] + 1
    IN  /\ scores' = [scores EXCEPT ![ci[c].team] = total]
        /\ over' = (over \/ total >= FlagLimit)

\* scoreflag(ci, goal, relay) without its broadcast of N_SCOREFLAG.
scoreflag(c, goal, relay) ==
    /\ Score(c)
    /\ flags' = [i \in DOMAIN flags |->
                    IF i = relay THEN Announced(returnflag(flags[i], mode = "protect"))
                    ELSE IF i = goal THEN Announced(flags[i]) ELSE flags[i]]
    /\ ci' = [ci EXCEPT ![c].hasPassedFlag = FALSE]

\* Which teams carry a flag: their own in protect, the others' in ctf.
Takes(c, f) == mode = "hold" \/ ((mode = "protect") = (f.team = ci[c].team))

TakeForCarry(c, i) ==
    /\ Takes(c, flags[i]) /\ ~Carries(c)
    /\ flags' = [flags EXCEPT ![i] = Announced(ownflag(@, c, FALSE))]
    /\ UNCHANGED <<ci, scores, over>>

TouchToScore(c, i) ==
    /\ mode = "protect" /\ ~Takes(c, flags[i]) /\ ~flags[i].invistime
    /\ scoreflag(c, i, i)

\* Faulty: without the message.
TouchToReturnSilently(c, i) ==
    /\ mode = "ctf" /\ ~Takes(c, flags[i]) /\ flags[i].droptime
    /\ flags' = [flags EXCEPT ![i] = returnflag(@, FALSE)]
    /\ UNCHANGED <<ci, scores, over>>

TouchToReturn(c, i) ==
    /\ mode = "ctf" /\ ~Takes(c, flags[i]) /\ flags[i].droptime
    /\ flags' = [flags EXCEPT ![i] = Announced(returnflag(@, FALSE))]
    /\ UNCHANGED <<ci, scores, over>>

Capture(c, i) ==
    /\ mode = "ctf" /\ ~Takes(c, flags[i]) /\ ~flags[i].droptime
    /\ \E j \in DOMAIN flags : Owns(c, j) /\ Changes + 2 <= MaxChanges[mode] /\ scoreflag(c, i, j)

Take(c, r) ==
    /\ Honoured(c, r) /\ Changeable(r.flag)
    /\ \/ TakeForCarry(c, r.flag)  \/ TouchToScore(c, r.flag)
       \/ TouchToReturn(c, r.flag) \/ Capture(c, r.flag)

\* Honoured, but the client carries a flag, or none that it could score.
NothingToDo(c, r) ==
    /\ Honoured(c, r)
    /\ LET f == flags[r.flag]
       IN  \/ Takes(c, f) /\ Carries(c)
           \/ ~Takes(c, f) /\ mode = "protect" /\ f.invistime
           \/ ~Takes(c, f) /\ mode = "ctf" /\ ~f.droptime /\ ~Carries(c)

\* The oldest request of a client arrives; what comes too late has no effect.
Arrive(c) ==
    /\ sent[c] # <<>>
    /\ sent' = [sent EXCEPT ![c] = Tail(@)]
    /\ LET r == Head(sent[c])
       IN  \/ Take(c, r)
           \/ /\ SpawnAnswered(c, r)
              /\ ci' = [ci EXCEPT ![c].state = "alive", ![c].lastspawn = FALSE]
              /\ UNCHANGED <<flags, scores, over>>
           \/ /\ NothingToDo(c, r) \/ ~(Honoured(c, r) \/ SpawnAnswered(c, r))
              /\ UNCHANGED <<ci, flags, scores, over>>

\* N_TRYSPAWN after the wait of a death.
TrySpawn(c) ==
    /\ c \in Connected /\ ci[c].state = "dead" /\ ~ci[c].lastspawn /\ Len(sent[c]) <= MaxInFlight
    /\ ci' = [ci EXCEPT ![c].lastspawn = TRUE]
    /\ sent' = [sent EXCEPT ![c] = Respawned(c)]
    /\ UNCHANGED <<flags, scores, over>>

TryDrop(c) ==
    /\ c \in Connected /\ Carries(c) /\ MayDrop(c)
    /\ \E spot \in Spots :
          /\ flags' = FlagsDropped(c, c, spot)
          /\ ci' = [ci EXCEPT ![c] = Carrier(c, spot)]
    /\ UNCHANGED <<sent, scores, over>>

\* died(ci, actor): a killer of the same team becomes the dropper.
Die(c, dropper) ==
    /\ Playing /\ Alive(c) /\ MayDrop(c)
    /\ dropper \in Connected /\ ci[dropper].team = ci[c].team
    /\ \E spot \in Spots :
          /\ flags' = ForgetDropper(FlagsDropped(c, dropper, spot), c)
          /\ ci' = [ci EXCEPT ![c] = [Carrier(c, spot) EXCEPT !.state = "dead", !.lastspawn = FALSE]]
    /\ UNCHANGED <<sent, scores, over>>

\* leavegame, with the client's state afterwards.
Leave(c, state) ==
    /\ MayDrop(c)
    /\ \E spot \in Spots :
          /\ flags' = ForgetDropper(FlagsDropped(c, c, spot), c)
          /\ ci' = [ci EXCEPT ![c] = IF state = "gone" THEN Free
                                     ELSE [Carrier(c, spot) EXCEPT !.state = state]]

Spectate(c) ==
    /\ Asks("spectate") /\ c \in Connected /\ ci[c].state # "spectator"
    /\ Leave(c, "spectator")
    /\ UNCHANGED <<sent, scores, over>>

\* N_SPECTATOR asks spectators only; #unspectate asks no one.
Unspectate(c) ==
    /\ c \in Connected
    /\ ci[c].state = "spectator" \/ Asks("unspectate")
    /\ ci' = [ci EXCEPT ![c].state = "dead", ![c].lastspawn = FALSE]
    /\ UNCHANGED <<flags, sent, scores, over>>

clientdisconnect(c) ==
    /\ c \in Connected
    /\ Leave(c, "gone")
    /\ sent' = [sent EXCEPT ![c] = <<>>]
    /\ UNCHANGED <<scores, over>>

\* autoBotBalance moves a client that lives to another team.
ChangeTeam(c, team) ==
    /\ Asks("balance") /\ Playing /\ c \in Connected /\ team # ci[c].team /\ MayDrop(c)
    /\ IF Alive(c)
       THEN \E spot \in Spots :
               /\ flags' = FlagsDropped(c, c, spot)
               /\ ci' = [ci EXCEPT ![c] = [Carrier(c, spot) EXCEPT !.team = team]]
       ELSE ci' = [ci EXCEPT ![c].team = team] /\ UNCHANGED flags
    /\ UNCHANGED <<sent, scores, over>>

\* Faulty: the target carries the flag as if it had taken it.
ReceivedUnmarked(r) == r

Received(r) == [r EXCEPT !.hasPassedFlag = TRUE]

\* dopassflagsequence: a carrier shoots a living player of its team.  If the
\* target carries a flag already, takeflag fails.
Pass(c, target, i) ==
    /\ Asks("pass") /\ Playing /\ c # target /\ c \in Connected /\ Alive(target)
    /\ ci[c].team = ci[target].team
    /\ Changeable(i) /\ Owns(c, i)
    /\ LET f == returnflag(flags[i], FALSE)
           taken == ~Carries(target)
       IN  /\ flags' = [ForgetDropper(flags, c) EXCEPT
                            ![i] = IF taken THEN Announced(ownflag(f, target, TRUE)) ELSE f]
           /\ ci' = [ci EXCEPT ![target] = Received(@)]
    /\ UNCHANGED <<sent, scores, over>>

\* update(): a flag on the ground for 10 seconds returns to its base ...
Reset(i) ==
    /\ Playing /\ Changeable(i) /\ flags[i].owner = NoOne /\ flags[i].droptime
    /\ flags' = [flags EXCEPT ![i] = Announced(returnflag(@, mode = "protect"))]
    /\ scores' = [scores EXCEPT ![flags[i].team] = IF mode = "protect" THEN @ - 1 ELSE @]
    /\ UNCHANGED <<ci, sent, over>>

\* ... is visible again 20 seconds after it was scored ...
Reappear(i) ==
    /\ Playing /\ i \in DOMAIN flags /\ flags[i].invistime
    /\ flags' = [flags EXCEPT ![i].invistime = FALSE]
    /\ UNCHANGED <<ci, sent, scores, over>>

\* ... and scores when it was held for 20 seconds.
Held(i) ==
    /\ Playing /\ mode = "hold" /\ Changeable(i) /\ flags[i].owner # NoOne
    /\ scoreflag(flags[i].owner, i, i)
    /\ UNCHANGED sent

TimeUp == over' = TRUE /\ UNCHANGED <<ci, flags, sent, scores>>

\* Requests seen in the old match were about other flags.
Outdated(s) ==
    [k \in DOMAIN s |-> IF s[k].kind = "take" THEN [s[k] EXCEPT !.seen = NoOne] ELSE s[k]]

\* The state of a client in the new match; those who play get a new life.
Mapchanged(c) ==
    [ci[c] EXCEPT !.state = IF @ = "spectator" THEN @ ELSE "dead",
                  !.lastspawn = ci[c].state # "spectator"]

\* The server may know the flags of the next map or wait for them.
changemap ==
    /\ \A c \in Connected : ci[c].state # "spectator" => Len(sent[c]) <= MaxInFlight
    /\ mode' \in Modes
    /\ flags' \in {[i \in S |-> Spawned(FlagTeam[i], mode')] : S \in {{}} \cup Placings(mode')}
    /\ ci' = [c \in Clients |-> IF c \in Connected THEN Mapchanged(c) ELSE ci[c]]
    /\ sent' = [c \in Clients |->
                  Outdated(IF c \in Connected /\ ci[c].state # "spectator"
                           THEN Respawned(c) ELSE sent[c])]
    /\ scores' = [t \in Teams |-> 0] /\ over' = FALSE

Play ==
    \/ \E c \in Clients :
          \/ \E team \in Teams : Connect(c, team) \/ ChangeTeam(c, team)
          \/ \E i \in Flags : Touch(c, i) \/ \E d \in Clients : Pass(c, d, i)
          \/ \E d \in Clients : Die(c, d)
          \/ parseflags(c) \/ Arrive(c) \/ TrySpawn(c) \/ TryDrop(c)
          \/ Spectate(c) \/ Unspectate(c) \/ clientdisconnect(c)
    \/ \E i \in Flags : Reset(i) \/ Reappear(i) \/ Held(i)
    \/ TimeUp

Next == (Play /\ UNCHANGED mode) \/ changemap

Spec == Init /\ [][Next]_vars

-----------------------------------------------------------------------------
\* takeflag and died: whoever carries a flag is connected and alive, and
\* carries one only.
CarriersLive ==
    \A i \in DOMAIN flags : flags[i].owner # NoOne =>
        /\ Alive(flags[i].owner)
        /\ \A j \in DOMAIN flags : flags[j].owner = flags[i].owner => i = j

\* "Pass flags to teammates" and all other ways a flag moves: what the last
\* broadcast said about a flag is true.
ClientsKnow == \A i \in DOMAIN flags : flags[i].told = Where(flags[i])

\* The version in N_TAKEFLAG and the order of messages: a request is honoured
\* only while the flag is as the client saw it, in the same match.
NothingStaleHonoured ==
    \A c \in Clients : sent[c] # <<>> /\ Honoured(c, Head(sent[c])) =>
        Head(sent[c]).seen = Where(flags[Head(sent[c]).flag])

\* The one who dropped a flag is still there: no newcomer with the same client
\* number inherits the count of its drops.
DropperStays == \A i \in DOMAIN flags : flags[i].dropper # NoOne => flags[i].dropper \in Connected

\* "don't display flagrun time of someone who is carrying a flag that was
\* passed to them".
PassedIsMarked ==
    mode = "ctf" => \A i \in DOMAIN flags :
        flags[i].owner # NoOne /\ flags[i].passed => ci[flags[i].owner].hasPassedFlag
=============================================================================
