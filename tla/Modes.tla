------------------------------- MODULE Modes -------------------------------
(***************************************************************************)
(* The modes with bases: in capture teams hold bases by standing in them   *)
(* (src/fpsgame/capture.h), in collect the dead drop tokens that are       *)
(* carried to the bases of other teams (src/fpsgame/collect.h).  The       *)
(* server calls the mode of the match wherever a client spawns, moves,     *)
(* dies, changes its team, watches or leaves (src/fpsgame/server.cpp).     *)
(*                                                                         *)
(* A place is a base or nowhere.  Timers may expire at any moment.  Scores *)
(* of capture, ammunition and regeneration are left out.                   *)
(***************************************************************************)
EXTENDS Integers, FiniteSets, FiniteSetsExt

CONSTANTS
    Clients, Teams, NoTeam, Nowhere, Unowned,
    Bases, Visited,       \* bases of capture; Visited (bound): those that players go to
    OccupyEnemyLimit, OccupyNeutralLimit,
    TokenLimit, UnownedTokenLimit, ScoreLimit,
    MaxTokens,            \* bound: tokens on the ground when another is dropped
    MaxForgotten          \* bound: ghosts, when another arises otherwise than in a game clip

ASSUME ModesAssumption ==
    /\ IsFiniteSet(Clients) /\ IsFiniteSet(Teams)
    /\ NoTeam \notin Teams /\ Nowhere \notin Bases /\ Unowned \notin Clients \cup Teams /\ Clients \cap Teams = {}
    /\ {OccupyEnemyLimit, OccupyNeutralLimit, TokenLimit, UnownedTokenLimit, ScoreLimit} \subseteq Nat \ {0}
    /\ Visited \subseteq Bases /\ {MaxTokens, MaxForgotten} \subseteq Nat

VARIABLES
    mode,         \* "capture" or "collect"
    ci,           \* the clients
    notgotbases,  \* nobody has told where the bases are
    bases,        \* of capture, with what was told about them last
    tokens,       \* of collect: how many of each kind, by who dropped them
    scores,       \* of collect
    over,         \* gamemillis >= gamelimit, which an overtime may undo ...
    interm,       \* ... unless the intermission has begun
    ghosts        \* history: the bases and teams in which somebody was forgotten

vars == <<mode, ci, notgotbases, bases, tokens, scores, over, interm, ghosts>>

match == <<mode, notgotbases, over, interm>>

Gone == [state |-> "gone"]
Here == {c \in Clients : ci[c].state # "gone"}
Alive == {c \in Clients : ci[c].state = "alive"}

Client(state, team) == [state |-> state, team |-> team, at |-> Nowhere, gameclip |-> FALSE, tokens |-> 0]

-----------------------------------------------------------------------------
\* Capture: a base, with who owns it, who tries to, and how many of them are in it.
Seen(b) == [owner |-> b.owner, enemy |-> b.enemy, converted |-> b.converted]

NewBase ==
    [owner |-> NoTeam, enemy |-> NoTeam, owners |-> 0, enemies |-> 0, converted |-> 0,
     told |-> [owner |-> NoTeam, enemy |-> NoTeam, converted |-> 0]]

\* sendbaseinfo
Told(b) == [b EXCEPT !.told = Seen(b)]

noenemy(b) == [b EXCEPT !.enemy = NoTeam, !.enemies = 0, !.converted = 0]

\* The first enemy is announced; those of a third team do not count while it is there.
enter(b, team) ==
    CASE b.owner = team -> [b EXCEPT !.owners = @ + 1]
      [] b.owner # team /\ b.enemies = 0 ->
            Told([b EXCEPT !.enemy = team, !.enemies = 1, !.converted = IF b.enemy = team THEN @ ELSE 0])
      [] b.owner # team /\ b.enemies # 0 -> [b EXCEPT !.enemies = IF b.enemy = team THEN @ + 1 ELSE @]

leave(b, team) ==
    CASE b.owner = team /\ b.owners > 0 -> [b EXCEPT !.owners = @ - 1]
      [] ~(b.owner = team /\ b.owners > 0) /\ b.enemy = team /\ b.enemies > 0 ->
            IF b.enemies = 1 THEN Told([b EXCEPT !.enemies = 0]) ELSE [b EXCEPT !.enemies = @ - 1]
      [] OTHER -> b

\* stealbase: all of the team in the base count, those in game clips too.
In(i, team) == {c \in Alive : ci[c].team = team /\ ci[c].at = i}
steal(b, team) == b.enemies = 0 /\ b.owner # team
stealbase(b, i, team) ==
    IF ~steal(b, team) THEN b
    ELSE Told([b EXCEPT !.enemy = team, !.enemies = Cardinality(In(i, team)),
                        !.converted = IF b.enemy = team THEN @ ELSE 0])

\* movebases on a record of bases, from and to sets of at most one base; when
\* the time is up it returns early.
movebases(bs, team, from, to) ==
    IF over THEN bs
    ELSE [i \in DOMAIN bs |->
            CASE i \in from \ to       -> leave(bs[i], team)
              [] i \in to \ from       -> enter(bs[i], team)
              [] i \in from \cap to    -> stealbase(bs[i], i, team)
              [] i \notin from \cup to -> bs[i]]

Spot(r) == IF r.state = "alive" /\ ~r.gameclip THEN {r.at} ELSE {}

\* The players of a team who count in a base.
Standing(i, team) == {c \in Alive : ci[c].team = team /\ Spot(ci[c]) = {i}}

\* leavegame and died, for a client that lives; there are no bases in collect.
LeftBases(c) == movebases(bases, ci[c].team, Spot(ci[c]), {})

\* Who lives and goes elsewhere without being counted stays a ghost in its base ...
Forgotten(c, to) == {<<i, ci[c].team>> : i \in (Spot(ci[c]) \ to) \cap DOMAIN bases}
Forget(G) ==
    /\ G = {} \/ Cardinality(ghosts) < MaxForgotten
    /\ ghosts' = ghosts \cup G
\* ... as all do who go when the time is up, which matters if an overtime follows ...
Uncounted(c, to) == IF over /\ ~interm THEN Forgotten(c, to) ELSE {}
\* ... and who is in a game clip when a base is stolen.
Clipped(c) ==
    LET team == ci[c].team IN
    {<<i, team>> : i \in {j \in Spot(ci[c]) \cap DOMAIN bases :
        steal(bases[j], team) /\ \E d \in In(j, team) : ci[d].gameclip}}

\* occupy, for one second: the more enemies, or owners against them, the faster.
Units(b) == IF b.enemies # 0 THEN 1 + b.enemies ELSE -(2 + b.owners)
occupy(b) ==
    LET done == b.converted + Units(b) IN
    CASE Units(b) < 0 /\ done <= 0 -> noenemy(b)
      [] Units(b) < 0 /\ done > 0  -> [b EXCEPT !.converted = done]
      [] Units(b) > 0 /\ done < (IF b.owner # NoTeam THEN OccupyEnemyLimit ELSE OccupyNeutralLimit) ->
            [b EXCEPT !.converted = done]
      [] OTHER -> IF b.owner # NoTeam THEN [b EXCEPT !.owner = NoTeam, !.converted = 0]
                  ELSE noenemy([b EXCEPT !.owner = b.enemy, !.owners = b.enemies])

\* Faulty: nobody is told.
UpdatedSilently(b) == IF b.enemy # NoTeam /\ (b.owners = 0 \/ b.enemies = 0) THEN occupy(b) ELSE b
\* Once a second: nobody takes a base while both owners and enemies are in it.
Updated(b) ==
    CASE b.enemy = NoTeam                                        -> b
      [] b.enemy # NoTeam /\ (b.owners = 0 \/ b.enemies = 0)     -> Told(occupy(b))
      [] b.enemy # NoTeam /\ ~(b.owners = 0 \/ b.enemies = 0)    -> Told(b)

\* endcheck: one team owns all bases.
AllOwned == DOMAIN bases # {} /\ \E t \in Teams : \A i \in DOMAIN bases : bases[i].owner = t

\* update, for one second; the bases go on once more after the end.
updateCapture ==
    /\ mode = "capture" /\ ~over /\ DOMAIN bases # {}
    /\ over' = AllOwned /\ interm' = AllOwned
    /\ bases' = [i \in DOMAIN bases |-> Updated(bases[i])]
    /\ UNCHANGED <<mode, ci, notgotbases, tokens, scores, ghosts>>

\* N_POS of a client that lives; collect takes no notice.
Move(c) ==
    /\ mode = "capture" /\ c \in Alive
    /\ \E at \in Visited \cup {Nowhere}, clip \in BOOLEAN :
          LET r == [ci[c] EXCEPT !.at = at, !.gameclip = clip] IN
          /\ ci' = [ci EXCEPT ![c] = r]
          /\ bases' = movebases(bases, r.team, Spot(ci[c]), Spot(r))
          /\ IF over THEN Forget(Uncounted(c, Spot(r)))
             ELSE ghosts' = ghosts \cup IF at \in Spot(ci[c]) /\ ~clip THEN Clipped(c) ELSE {}
    /\ UNCHANGED <<match, tokens, scores>>

-----------------------------------------------------------------------------
\* Collect has a base for each team, which drops tokens as clients do.  A kind
\* of token is the team of who dropped it, and whether it was carried before.
Kinds == [team : Teams, carried : BOOLEAN]
Droppers == Clients \cup Teams \cup {Unowned}
None == [k \in Kinds |-> 0]
NoTokens == [d \in Droppers |-> None]

Sum(f, K) == MapThenSumSet(LAMBDA k : f[k], K)

\* At most n of the kinds K are left; which ones depends on their order.
Trimmed(f, K, n) ==
    {g \in [Kinds -> 0..Max({f[k] : k \in Kinds})] :
        /\ \A k \in Kinds : g[k] <= f[k] /\ (k \notin K => g[k] = f[k])
        /\ Sum(g, K) = Min({n, Sum(f, K)})}

OnGround == MapThenSumSet(LAMBDA d : Sum(tokens[d], Kinds), Droppers)

Friendly(team) == {[team |-> team, carried |-> FALSE]}

Add(f, team, carried, n) == [f EXCEPT ![[team |-> team, carried |-> carried]] = @ + n]

\* Faulty: those that were carried come on top.
droptokensUncounted(c, penalty) ==
    LET team == ci[c].team
        carried == IF penalty THEN 0 ELSE ci[c].tokens IN
    IF mode # "collect" \/ notgotbases THEN tokens' = tokens
    ELSE /\ OnGround <= MaxTokens
         /\ \E f \in Trimmed(tokens[c], Friendly(team), TokenLimit - 1) :
            \E g \in Trimmed(f, Kinds \ Friendly(team), TokenLimit) :
               tokens' = [tokens EXCEPT ![c] = Add(Add(g, team, FALSE, 1), team, TRUE, carried)]
\* droptokens: one for the death and all that were carried, unless it was a
\* penalty; the oldest of the same player go.
droptokens(c, penalty) ==
    LET team == ci[c].team
        carried == IF penalty THEN 0 ELSE ci[c].tokens IN
    IF mode # "collect" \/ notgotbases THEN tokens' = tokens
    ELSE /\ OnGround <= MaxTokens
         /\ \E f \in Trimmed(tokens[c], Friendly(team), TokenLimit - 1) :
            \E g \in Trimmed(f, Kinds \ Friendly(team), TokenLimit - carried) :
               tokens' = [tokens EXCEPT ![c] = Add(Add(g, team, FALSE, 1), team, TRUE, carried)]

\* leavegame of a client that disconnects: its tokens are nobody's from now on.
Disowned(c) ==
    LET team == ci[c].team
        f == [k \in Kinds |-> tokens[Unowned][k] + tokens[c][k]] IN
    \E g \in Trimmed(f, Friendly(team), UnownedTokenLimit) :
    \E h \in Trimmed(g, Kinds \ Friendly(team), UnownedTokenLimit) :
        tokens' = [tokens EXCEPT ![c] = None, ![Unowned] = h]

\* Those of the dead of other teams, and what the own team has carried already.
Takes(team, k) == (k.team # team) = ~k.carried

\* The token stays where it is until it expires: others may take it as well.
taketoken(c) ==
    /\ mode = "collect" /\ c \in Alive /\ ci[c].tokens < TokenLimit
    /\ \E d \in Droppers, k \in Kinds : tokens[d][k] > 0 /\ Takes(ci[c].team, k)
    /\ ci' = [ci EXCEPT ![c].tokens = @ + 1]
    /\ UNCHANGED <<match, bases, tokens, scores, ghosts>>

\* deposittokens of a client that carries some ...
Deposit(c, base) ==
    /\ mode = "collect" /\ ~notgotbases /\ c \in Alive /\ base # ci[c].team /\ ci[c].tokens > 0
    /\ scores[ci[c].team] < ScoreLimit
    /\ scores' = [scores EXCEPT ![ci[c].team] = @ + ci[c].tokens]
    /\ LET won == scores'[ci[c].team] >= ScoreLimit IN
       over' = (over \/ won) /\ interm' = (interm \/ won)
    /\ ci' = [ci EXCEPT ![c].tokens = 0]
    /\ UNCHANGED <<mode, notgotbases, bases, tokens, ghosts>>

\* ... and of one without: a point of the base's team becomes a token at the base.
Steal(c, base) ==
    /\ mode = "collect" /\ ~notgotbases /\ c \in Alive /\ base # ci[c].team /\ ci[c].tokens = 0
    /\ scores[base] > 0 /\ OnGround <= MaxTokens /\ Sum(tokens[base], Kinds) < TokenLimit
    /\ scores' = [scores EXCEPT ![base] = @ - 1]
    /\ tokens' = [tokens EXCEPT ![base] = Add(@, ci[c].team, FALSE, 1)]
    /\ UNCHANGED <<match, ci, bases, ghosts>>

\* update: a token lies for ten seconds.
Expire(d, k) ==
    /\ ~over /\ tokens[d][k] > 0
    /\ tokens' = [tokens EXCEPT ![d][k] = @ - 1]
    /\ UNCHANGED <<match, ci, bases, scores, ghosts>>

-----------------------------------------------------------------------------
\* Where the server calls its mode.
connected(c, team) ==
    /\ c \notin Here
    /\ \E state \in {"dead", "spectator"} : ci' = [ci EXCEPT ![c] = Client(state, team)]
    /\ UNCHANGED <<match, bases, tokens, scores, ghosts>>

\* The bases of a map: there may be others than those that are visited.
NewBases(m) ==
    {[i \in S |-> NewBase] : S \in IF m = "collect" THEN {{}} ELSE {T \in SUBSET Bases : Visited \subseteq T}}

\* Everybody who is in a base when it becomes known enters it: the team of the
\* first of them, whoever that is, tries to take it, and only its players count.
Peopled(i, first) ==
    IF over \/ first = NoTeam THEN NewBase
    ELSE Told([NewBase EXCEPT !.enemy = first, !.enemies = Cardinality(Standing(i, first))])
FirstIn(S) ==
    {f \in [S -> Teams \cup {NoTeam}] :
        \A i \in S : IF f[i] \in Teams THEN Standing(i, f[i]) # {}
                    ELSE \A t \in Teams : Standing(i, t) = {}}

\* parsebases, for the first who has the map.
parsebases(c) ==
    /\ notgotbases /\ c \in Here /\ ci[c].state # "spectator"
    /\ notgotbases' = FALSE
    /\ \E new \in NewBases(mode) :
          bases' \in {[i \in DOMAIN new |-> Peopled(i, first[i])] : first \in FirstIn(DOMAIN new)}
    /\ UNCHANGED <<mode, ci, tokens, scores, over, interm, ghosts>>

\* N_TRYSPAWN and N_SPAWN; positions may have arrived in between.
Spawn(c) ==
    /\ c \in Here /\ ci[c].state = "dead"
    /\ \E at \in IF mode = "capture" THEN Visited \cup {Nowhere} ELSE {Nowhere} :
          LET r == [ci[c] EXCEPT !.state = "alive", !.at = at] IN
          ci' = [ci EXCEPT ![c] = r] /\ bases' = movebases(bases, r.team, {}, Spot(r))
    /\ UNCHANGED <<match, tokens, scores, ghosts>>

\* dodamage and suicide; a death by oneself or the own team is a penalty.  One
\* may also die when the time is up, by #kill or shots that N_TRYSPAWN flushes.
Die(c) ==
    /\ c \in Alive
    /\ \E penalty \in BOOLEAN : droptokens(c, penalty)
    /\ bases' = LeftBases(c) /\ Forget(Uncounted(c, {}))
    /\ ci' = [ci EXCEPT ![c] = Client("dead", ci[c].team)]
    /\ UNCHANGED <<match, scores>>

\* N_SPECTATOR is a suicide before; forcespectator is not.
Spectate(c) ==
    /\ c \in Here /\ ci[c].state # "spectator"
    /\ tokens' = tokens \/ (c \in Alive /\ droptokens(c, TRUE))
    /\ bases' = LeftBases(c) /\ Forget(Uncounted(c, {}))
    /\ ci' = [ci EXCEPT ![c] = Client("spectator", ci[c].team)]
    /\ UNCHANGED <<match, scores>>

\* unspectate, by a command for players who live as well: they are not told to
\* have left.
Unspectate(c) ==
    /\ c \in Here
    /\ ci[c].state = "spectator" \/ c \in Alive
    /\ ci' = [ci EXCEPT ![c] = Client("dead", ci[c].team)]
    /\ Forget(Forgotten(c, {}))
    /\ UNCHANGED <<match, bases, tokens, scores>>

\* Faulty: the old team's count stays.
changeteamAnew(c, team) ==
    /\ c \in Here /\ team # ci[c].team
    /\ ci' = [ci EXCEPT ![c].team = team]
    /\ bases' = movebases(bases, team, {}, Spot(ci[c])) /\ Forget(Uncounted(c, {}))
    /\ UNCHANGED <<match, tokens, scores>>
\* Balancing: a player that lives is moved from its old team's count to the new one's.
changeteam(c, team) ==
    /\ c \in Here /\ team # ci[c].team
    /\ ci' = [ci EXCEPT ![c].team = team]
    /\ bases' = movebases(LeftBases(c), team, {}, Spot(ci[c])) /\ Forget(Uncounted(c, {}))
    /\ UNCHANGED <<match, tokens, scores>>

\* N_SWITCHTEAM and N_SETTEAM: who lives dies before.
SwitchTeam(c, team) ==
    /\ c \in Here /\ team # ci[c].team
    /\ IF c \in Alive THEN droptokens(c, TRUE) /\ ci' = [ci EXCEPT ![c] = Client("dead", team)]
       ELSE tokens' = tokens /\ ci' = [ci EXCEPT ![c].team = team]
    /\ bases' = LeftBases(c) /\ Forget(Uncounted(c, {}))
    /\ UNCHANGED <<match, scores>>

\* clientdisconnect and the removal of a bot.
clientdisconnect(c) ==
    /\ c \in Here
    /\ bases' = LeftBases(c) /\ Forget(Uncounted(c, {}))
    /\ Disowned(c) /\ ci' = [ci EXCEPT ![c] = Gone]
    /\ UNCHANGED <<match, scores>>

\* The clock passes the limit, or #intermission or #mapsucks set the limit to
\* the clock in mid-match.
TimeUp ==
    /\ ~over /\ over' = TRUE
    /\ UNCHANGED <<mode, ci, notgotbases, bases, tokens, scores, interm, ghosts>>

\* In the same turn (where checkteamkills still kicks), or after any number of
\* messages if a command ended the match or it is paused: intermission, or the
\* match is tied and goes on with the bases as they are.
checkintermission ==
    /\ over /\ ~interm
    /\ \E tied \in BOOLEAN : over' = ~tied /\ interm' = ~tied
    /\ UNCHANGED <<mode, ci, notgotbases, bases, tokens, scores, ghosts>>

\* changemap: the server knows the map or not.  (Players that autoteam moves are
\* dead, so that SwitchTeam does the same.)
changemap ==
    /\ mode' \in {"capture", "collect"} /\ notgotbases' \in BOOLEAN
    /\ over' = FALSE /\ interm' = FALSE
    /\ bases' \in IF notgotbases' THEN {<<>>} ELSE NewBases(mode')
    /\ tokens' = NoTokens /\ scores' = [t \in Teams |-> 0] /\ ghosts' = {}
    /\ ci' = [c \in Clients |-> IF c \notin Here THEN Gone
              ELSE Client(IF ci[c].state = "spectator" THEN "spectator" ELSE "dead", ci[c].team)]

Init ==
    /\ mode \in {"capture", "collect"} /\ ci = [c \in Clients |-> Gone] /\ notgotbases = TRUE
    /\ bases = <<>> /\ tokens = NoTokens /\ scores = [t \in Teams |-> 0]
    /\ over = FALSE /\ interm = FALSE /\ ghosts = {}

Next ==
    \/ updateCapture \/ TimeUp \/ checkintermission \/ changemap
    \/ \E d \in Droppers, k \in Kinds : Expire(d, k)
    \/ \E c \in Clients :
          \/ Move(c) \/ taketoken(c) \/ parsebases(c) \/ Spawn(c) \/ Die(c)
          \/ Spectate(c) \/ Unspectate(c) \/ clientdisconnect(c)
          \/ \E team \in Teams :
                \/ Deposit(c, team) \/ Steal(c, team)
                \/ connected(c, team) \/ changeteam(c, team) \/ SwitchTeam(c, team)

Spec == Init /\ [][Next]_vars

-----------------------------------------------------------------------------
\* Nobody holds a base who is not there: until the intermission, no more owners
\* and enemies are counted than there are players of the team in it, outside
\* game clips, unless the code forgot somebody there: by unspectate, by a steal
\* with somebody in a game clip, or because movebases returns early from the
\* end of the time to the overtime.
NoPhantoms ==
    ~interm => \A i \in DOMAIN bases :
        /\ bases[i].owner = NoTeam \/ <<i, bases[i].owner>> \in ghosts
             \/ bases[i].owners <= Cardinality(Standing(i, bases[i].owner))
        /\ bases[i].enemy = NoTeam \/ <<i, bases[i].enemy>> \in ghosts
             \/ bases[i].enemies <= Cardinality(Standing(i, bases[i].enemy))

\* N_BASEINFO: everybody knows whose a base is, who is taking it and how far.
BasesTold == \A i \in DOMAIN bases : bases[i].told = Seen(bases[i])

\* How many tokens lie around: as many as the limits allow, and those of who
\* has left are nobody's, a newcomer with the same client number has none.
TokensBounded ==
    /\ \A c \in Clients : Sum(tokens[c], Kinds) <= IF c \in Here THEN 2 * TokenLimit ELSE 0
    /\ \A base \in Teams : Sum(tokens[base], Kinds) <= TokenLimit
    /\ Sum(tokens[Unowned], Kinds) <= 2 * UnownedTokenLimit
=============================================================================
