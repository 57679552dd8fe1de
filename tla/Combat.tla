------------------------------- MODULE Combat -------------------------------
(***************************************************************************)
(* Lives, shots and deaths (src/fpsgame/server.cpp and fpsgame.h).         *)
(* Clients shoot at what they see: a shot or an explosion names the life   *)
(* of its target (lifesequence) and the time it happened, waits in the     *)
(* queue of its sender until the game has come to that time, and may then  *)
(* meet another life, of its target or of its sender.  The messages of one *)
(* client arrive in order.                                                 *)
(*                                                                         *)
(* Health is counted in a few units, damage comes with the hit, one gun    *)
(* hits at once and another launches projectiles; a shot that misses or is *)
(* refused for its gun wait, ammo or range is as one that was never sent.  *)
(* Scores, bots and editing are left out, and a paused server is one that  *)
(* does not get to its next serverupdate.                                  *)
(***************************************************************************)
EXTENDS Integers, SequencesExt

CONSTANTS
    Cns,                \* client slots
    Ids,                \* identities of projectiles
    Memory,             \* what lifesequence may hold in a new clientinfo
    LifeSequences,      \* 128 in the code
    ProjectileSlots,    \* 8 in the code
    EventSlots,         \* 100 in the code
    DeathMillis, GameLimit,
    MaxHealth, Damages,
    Lags,               \* how far the stamp of an event is from the game's time
    MaxHits,            \* bound: hits of one event
    MaxJoins, MaxSpawns,    \* bounds: of a slot, of a client
    MaxInputs           \* bound: events, departures, moves and map changes of a run

ASSUME CombatAssumption ==
    /\ Memory \subseteq Nat /\ Lags \subseteq Int /\ Damages \subseteq Nat
    /\ {LifeSequences, ProjectileSlots, EventSlots, DeathMillis, MaxHealth, MaxSpawns}
          \subseteq Nat \ {0}
    /\ {GameLimit, MaxHits, MaxJoins, MaxInputs} \subseteq Nat
    /\ MaxSpawns < LifeSequences

VARIABLES
    clients,        \* in the order they connected
    ci,
    gamemillis,
    kick_queue,
    who, match,     \* the occupant of each slot, the match played
    plays,          \* the life each client takes itself to live, as of its last message
    answers,        \* the lives for which the answer to a spawn is on its way
    inputs,         \* counts what MaxInputs bounds
    lives,          \* those the clients have heard of
    happened        \* the shots, hits and spawns of the last step

vars == <<clients, ci, gamemillis, kick_queue, who, match, plays, answers, lives, inputs, happened>>

Connected == Range(clients)

\* The members of S among the elements of s, in their order.
Only(s, S) == FoldLeft(LAMBDA t, x : IF x \in S THEN Append(t, x) ELSE t, <<>>, s)

NoLife == [n |-> 0]

\* geteventmillis: the time of an event by the clock of its sender.
Stamps == {gamemillis + lag : lag \in Lags} \cap Nat

\* lived, flying, promised and life are not in the code: lives begun, projectiles
\* launched and not exploded, explosions in the queue, the present life.
Fresh(seq) ==
    [state |-> "dead", lifesequence |-> seq, lastspawn |-> FALSE, health |-> MaxHealth,
     lastdeath |-> 0, deadflush |-> 0, lastevent |-> 0, events |-> <<>>, projectiles |-> <<>>,
     deaths |-> 0, lived |-> 0, flying |-> 0, promised |-> 0, life |-> NoLife]

respawn(r) == [r EXCEPT !.health = MaxHealth, !.deadflush = 0, !.lastspawn = FALSE]

\* spawnstate and sendspawn: the next life of the occupant w of c, in the match m.
sendspawn(r, c, w, m) ==
    LET seq == (r.lifesequence + 1) % LifeSequences IN
    [r EXCEPT !.lifesequence = seq, !.lastspawn = TRUE,
              !.life = [cn |-> c, who |-> w, match |-> m, n |-> r.life.n + 1, seq |-> seq]]

mapchange(r) ==
    [respawn(r) EXCEPT !.state = IF @ = "spectator" THEN @ ELSE "dead",
                       !.lastdeath = 0, !.lastevent = 0, !.events = <<>>, !.projectiles = <<>>,
                       !.deaths = 0, !.lived = 0, !.flying = 0, !.promised = 0]

suicide(r, now) ==
    IF r.state = "alive"
      THEN respawn([r EXCEPT !.state = "dead", !.lastdeath = now, !.deaths = @ + 1])
      ELSE r

(***************************************************************************)
(* Events.  w is the part of the state they change.                        *)
(***************************************************************************)
Died(r, now) ==
    [r EXCEPT !.state = "dead", !.health = 0, !.deaths = @ + 1,
              !.lastdeath = now, !.deadflush = now + DeathMillis]

dodamage(r, damage, now) ==
    IF r.health > damage THEN [r EXCEPT !.health = @ - damage] ELSE Died(r, now)

\* Faulty: whatever is alive in the slot is hit.
MeetsAnyLife(w, h) == h.target.cn \in Connected /\ w.ci[h.target.cn].state = "alive"

\* Faulty: damages the dead again.
MeetsTheDead(w, h) ==
    h.target.cn \in Connected /\ h.target.seq = w.ci[h.target.cn].lifesequence

Meets(w, h) ==
    /\ h.target.cn \in Connected
    /\ w.ci[h.target.cn].state = "alive"
    /\ h.target.seq = w.ci[h.target.cn].lifesequence

Hit(w, h, now) ==
    IF Meets(w, h)
      THEN [ci |-> [w.ci EXCEPT ![h.target.cn] = dodamage(@, h.damage, now)],
            happened |-> w.happened \cup
                {[kind |-> "hit", aimed |-> h.target, met |-> w.ci[h.target.cn].life]}]
      ELSE w

Hits(w, hits, now) == FoldLeft(LAMBDA v, h : Hit(v, h, now), w, hits)

\* A target of an explosion is hit once.
OncePerTarget(hits) ==
    LET first == {i \in DOMAIN hits : \A j \in 1..(i - 1) : hits[j].target.cn # hits[i].target.cn}
    IN  [k \in 1..Cardinality(first) |->
            hits[CHOOSE i \in first : Cardinality({j \in first : j <= i}) = k]]

isalive(r, now) == r.state = "alive" \/ (r.state = "dead" /\ now - r.lastdeath <= DeathMillis)

\* projectilestate::add: starts anew when the slots are full.
Launched(r, id) ==
    [r EXCEPT !.projectiles = IF Len(@) >= ProjectileSlots THEN <<id>> ELSE Append(@, id),
              !.flying = @ + 1]

\* Faulty: forgets to count down.
LandedKept(r, id) == [r EXCEPT !.flying = @ - 1]

\* projectilestate::remove: the last one takes the place of the one removed.
Landed(r, id) ==
    LET p == r.projectiles
        i == SelectInSeq(p, LAMBDA x : x = id)
    IN  [r EXCEPT !.projectiles = Front([p EXCEPT ![i] = p[Len(p)]]), !.flying = @ - 1]

shotevent(w, c, e, now) ==
    IF ~isalive(w.ci[c], now) THEN w
    ELSE LET v == [w EXCEPT !.happened = @ \cup
                     {[kind |-> "shot", own |-> e.own, met |-> w.ci[c].life,
                       state |-> w.ci[c].state]}]
         IN  IF e.gun = "launcher" THEN [v EXCEPT !.ci[c] = Launched(@, e.id)]
                                   ELSE Hits(v, e.hits, now)

explodeevent(w, c, e, now) ==
    IF e.id \in Range(w.ci[c].projectiles)
      THEN Hits([w EXCEPT !.ci[c] = Landed(@, e.id)], OncePerTarget(e.hits), now)
      ELSE w

\* The event e of c, whose time has come; one older than the last is dropped.
flush(w, c, e, now) ==
    LET u == [w EXCEPT !.ci[c].promised = IF e.kind = "explode" THEN @ - 1 ELSE @]
        v == [u EXCEPT !.ci[c].lastevent = e.millis]
    IN  IF e.kind = "suicide" THEN [w EXCEPT !.ci[c] = suicide(@, now)]
        ELSE IF e.millis < w.ci[c].lastevent THEN u
        ELSE IF e.kind = "shot" THEN shotevent(v, c, e, now)
        ELSE explodeevent(v, c, e, now)

\* How many events of a queue are due at a time: an event is due when those before are.
Due(events, millis) ==
    CHOOSE k \in 0..Len(events) :
        /\ \A i \in 1..k : events[i].kind = "suicide" \/ events[i].millis <= millis
        /\ k = Len(events) \/ (events[k + 1].kind # "suicide" /\ events[k + 1].millis > millis)

flushevents(w, c, millis, now) ==
    LET q == w.ci[c].events
        k == Due(q, millis)
        v == FoldLeft(LAMBDA u, e : flush(u, c, e, now), w, SubSeq(q, 1, k))
    IN  [v EXCEPT !.ci[c].events = SubSeq(q, k + 1, Len(q))]

World == [ci |-> ci, happened |-> {}]

processevents(now) == FoldLeft(LAMBDA w, c : flushevents(w, c, now, now), World, clients)

\* Faulty: nothing is kept.
keepableNever(e) == FALSE

\* Explosions outlive their sender.
keepable(e) == e.kind = "explode"

\* Faulty: everything is kept.
cleartimedeventsNot(r) == r

cleartimedevents(r) == [r EXCEPT !.events = Only(@, {e \in Range(@) : keepable(e)})]

(***************************************************************************)
(* Messages, and what the server does by itself.                           *)
(***************************************************************************)
Input == inputs < MaxInputs /\ inputs' = inputs + 1

Init ==
    /\ clients = <<>> /\ ci = [c \in Cns |-> Fresh(0)]
    /\ gamemillis = 0 /\ kick_queue = <<>>
    /\ who = [c \in Cns |-> 0] /\ match = 0
    /\ plays = [c \in Cns |-> NoLife] /\ answers = [c \in Cns |-> <<>>]
    /\ lives = {} /\ inputs = 0 /\ happened = {}

\* welcomepacket: who may play gets a state to spawn with.
Connect(c) ==
    /\ c \notin Connected /\ who[c] < MaxJoins
    /\ clients' = Append(clients, c)
    /\ who' = [who EXCEPT ![c] = @ + 1]
    /\ \E seq \in Memory, locked \in BOOLEAN :
          LET r == IF locked THEN [Fresh(seq) EXCEPT !.state = "spectator"]
                             ELSE sendspawn(Fresh(seq), c, who'[c], match)
          IN  /\ ci' = [ci EXCEPT ![c] = r]
              /\ answers' = [answers EXCEPT ![c] = IF locked THEN <<>> ELSE <<r.life>>]
    /\ happened' = {}
    /\ UNCHANGED <<gamemillis, kick_queue, match, plays, lives, inputs>>

Gone(S) ==
    /\ clients' = Only(clients, Cns \ S)
    /\ plays' = [c \in Cns |-> IF c \in S THEN NoLife ELSE plays[c]]
    /\ answers' = [c \in Cns |-> IF c \in S THEN <<>> ELSE answers[c]]

Forgotten(r, S) == [c \in Cns |-> IF c \in S THEN Fresh(0) ELSE r[c]]

clientdisconnect(c) ==
    /\ Input /\ c \in Connected /\ Gone({c})
    /\ ci' = Forgotten(ci, {c}) /\ happened' = {}
    /\ UNCHANGED <<gamemillis, kick_queue, who, match, lives>>

\* N_TRYSPAWN: the shots fired before its sender was killed come first.
TrySpawn(c) ==
    /\ c \in Connected
    /\ plays' = [plays EXCEPT ![c] = NoLife]
    /\ IF ci[c].state # "dead" \/ ci[c].lastspawn
         THEN happened' = {} /\ UNCHANGED <<ci, answers>>
         ELSE LET killed == ci[c].deadflush > 0
                  w == IF killed THEN flushevents(World, c, ci[c].deadflush, gamemillis) ELSE World
                  r == IF killed THEN respawn(w.ci[c]) ELSE w.ci[c]
                  s == sendspawn(cleartimedevents(r), c, who[c], match)
              IN  /\ ci[c].life.n < MaxSpawns
                  /\ ci' = [w.ci EXCEPT ![c] = s] /\ happened' = w.happened
                  /\ answers' = [answers EXCEPT ![c] = Append(@, s.life)]
    /\ UNCHANGED <<clients, gamemillis, kick_queue, who, match, lives, inputs>>

\* Faulty: any answer will do.
AcceptedAnyLife(r, seq) == r.state \in {"alive", "dead"} /\ r.lastspawn

\* N_SPAWN
Accepted(r, seq) ==
    r.state \in {"alive", "dead"} /\ seq = r.lifesequence /\ r.lastspawn

Spawn(c) ==
    /\ answers[c] # <<>>
    /\ answers' = [answers EXCEPT ![c] = Tail(@)]
    /\ plays' = [plays EXCEPT ![c] = Head(answers[c])]
    /\ IF Accepted(ci[c], Head(answers[c]).seq)
         THEN /\ ci' = [ci EXCEPT ![c].state = "alive", ![c].lastspawn = FALSE, ![c].lived = @ + 1]
              /\ lives' = lives \cup {ci[c].life}
              /\ happened' = {[kind |-> "spawn", answered |-> Head(answers[c]), met |-> ci[c].life]}
         ELSE happened' = {} /\ UNCHANGED <<ci, lives>>
    /\ UNCHANGED <<clients, gamemillis, kick_queue, who, match, inputs>>

\* addevent
Queued(r, e) ==
    IF r.state = "spectator" \/ Len(r.events) > EventSlots THEN r
    ELSE [r EXCEPT !.events = Append(@, e), !.promised = IF e.kind = "explode" THEN @ + 1 ELSE @]

Arrive(c, e) ==
    /\ Input
    /\ ci' = [ci EXCEPT ![c] = Queued(@, e)] /\ happened' = {}
    /\ UNCHANGED <<clients, gamemillis, kick_queue, who, match, plays, answers, lives>>

AllHits == BoundedSeq([target : lives, damage : Damages], MaxHits)

\* N_SHOOT
Shoot(c) ==
    /\ c \in Connected /\ plays[c] # NoLife
    /\ \E millis \in Stamps :
          \/ \E hits \in AllHits \ {<<>>} :
                /\ \A h \in Range(hits) : h.target.cn # c
                /\ Arrive(c, [kind |-> "shot", gun |-> "gun", millis |-> millis,
                              hits |-> hits, own |-> plays[c]])
          \/ \E id \in Ids : Arrive(c, [kind |-> "shot", gun |-> "launcher", millis |-> millis,
                                       id |-> id, own |-> plays[c]])

\* N_EXPLODE: of a projectile that flies or whose shot waits.
Explode(c) ==
    /\ c \in Connected
    /\ ci[c].flying > 0 \/ \E e \in Range(ci[c].events) : e.kind = "shot" /\ e.gun = "launcher"
    /\ \E millis \in Stamps, id \in Ids, hits \in AllHits :
          Arrive(c, [kind |-> "explode", millis |-> millis, id |-> id, hits |-> hits])

\* N_SUICIDE
Suicide(c) == c \in Connected /\ plays[c] # NoLife /\ Arrive(c, [kind |-> "suicide"])

Alter(c, r) ==
    /\ Input /\ ci' = [ci EXCEPT ![c] = r] /\ happened' = {}
    /\ UNCHANGED <<clients, gamemillis, kick_queue, who, match, plays, answers, lives>>

\* N_SWITCHTEAM, N_SETTEAM
ChangeTeam(c) == c \in Connected /\ ci[c].state = "alive" /\ Alter(c, suicide(ci[c], gamemillis))

\* N_SPECTATOR kills first, forcespectator does not.
Spectate(c) ==
    /\ c \in Connected /\ ci[c].state # "spectator"
    /\ \/ Alter(c, [suicide(ci[c], gamemillis) EXCEPT !.state = "spectator"])
       \/ Alter(c, [ci[c] EXCEPT !.state = "spectator"])

\* N_SPECTATOR for a spectator, #unspectate for anybody.
unspectate(c) == c \in Connected /\ Alter(c, [respawn(ci[c]) EXCEPT !.state = "dead"])

\* A flag scored so fast that its carrier is to be kicked.
SuspectRun(c) ==
    /\ Input /\ c \in Connected /\ ci[c].state = "alive" /\ kick_queue = <<>>
    /\ kick_queue' = <<c>> /\ happened' = {}
    /\ UNCHANGED <<clients, ci, gamemillis, who, match, plays, answers, lives>>

changemap ==
    /\ Input /\ \A c \in Connected : ci[c].life.n < MaxSpawns
    /\ match' = match + 1 /\ gamemillis' = 0 /\ happened' = {}
    /\ ci' = [c \in Cns |->
                IF c \notin Connected THEN ci[c]
                ELSE LET r == mapchange(ci[c]) IN
                     IF r.state = "spectator" THEN r ELSE sendspawn(r, c, who[c], match')]
    /\ answers' = [c \in Cns |->
                IF c \in Connected /\ ci'[c].state # "spectator" THEN Append(answers[c], ci'[c].life)
                                                             ELSE answers[c]]
    /\ UNCHANGED <<clients, kick_queue, who, plays, lives>>

\* serverupdate: time goes on by a little or not at all.
serverupdate ==
    /\ clients # <<>>
    /\ \E curtime \in 0..1 : gamemillis' = gamemillis + curtime
    /\ gamemillis' < GameLimit
    /\ LET w == processevents(gamemillis')
           kicked == Range(kick_queue) \cap Connected
       IN  ci' = Forgotten(w.ci, kicked) /\ Gone(kicked) /\ happened' = w.happened
    /\ kick_queue' = <<>>
    /\ UNCHANGED <<who, match, lives, inputs>>

\* The game is over: events and kicks wait for the next match.
Intermission ==
    /\ clients # <<>> /\ gamemillis < GameLimit /\ gamemillis' = GameLimit /\ happened' = {}
    /\ UNCHANGED <<clients, ci, kick_queue, who, match, plays, answers, lives, inputs>>

Next ==
    \/ \E c \in Cns :
          \/ Connect(c) \/ clientdisconnect(c) \/ TrySpawn(c) \/ Spawn(c)
          \/ Shoot(c) \/ Explode(c) \/ Suicide(c)
          \/ ChangeTeam(c) \/ Spectate(c) \/ unspectate(c) \/ SuspectRun(c)
    \/ changemap \/ serverupdate \/ Intermission

Spec == Init /\ [][Next]_vars

(***************************************************************************)
(* Properties.                                                             *)
(***************************************************************************)
\* Every life is begun by the answer to the latest spawn state (the checks of N_SPAWN):
\* an answer that was on its way when the match or the client's state changed begins none.
SpawnsAnswerTheLast ==
    \A e \in happened : e.kind = "spawn" => e.answered = e.met

\* A hit hurts the life that was aimed at, unless the client left and its slot has a new
\* one (explodeevent and shotevent compare lifesequence, which 128 lives and new matches share).
HitsMeetTheirLife ==
    \A e \in happened : e.kind = "hit" /\ e.aimed.who = e.met.who => e.aimed = e.met

\* What a client shot in an earlier life of the match that had begun for the server does
\* not count in a later one, however late it is due (cleartimedevents in N_TRYSPAWN).
ShotsOfThisLife ==
    \A e \in happened :
        (/\ e.kind = "shot" /\ e.state = "alive"
         /\ e.own \in lives /\ e.own.match = e.met.match) => e.own = e.met

\* Nobody dies twice in one life, whether killed by several hits of one update, by itself,
\* by a change of team or by becoming a spectator (dodamage, suicide).
OneDeathPerLife ==
    \A c \in Connected : ci[c].deaths + (IF ci[c].state = "alive" THEN 1 ELSE 0) <= ci[c].lived

\* Every explosion uses up a projectile that was launched (projectilestate).
NoMoreExplosionsThanLaunched ==
    \A c \in Connected : Len(ci[c].projectiles) <= ci[c].flying

\* No explosion is lost in a match, even if its sender dies and spawns again (keepable).
ExplosionsAreKept ==
    \A c \in Connected :
        ci[c].promised = Cardinality({i \in DOMAIN ci[c].events : ci[c].events[i].kind = "explode"})
=============================================================================
