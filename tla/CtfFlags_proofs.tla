--------------------------- MODULE CtfFlags_proofs ---------------------------
(***************************************************************************)
(* Flags and those who carry them, for any clients, teams, modes and       *)
(* requests, whatever is on its way when a flag moves.  What needs a map   *)
(* with one flag for each of two teams, or that nobody is unspectated who  *)
(* plays, says so.                                                         *)
(***************************************************************************)
EXTENDS CtfFlags, SequenceTheorems, TLAPS

Someone == Clients \cup {NoOne}
Sight == [owner : Someone, dropped : BOOLEAN]
Flag ==
    [team : Teams, version : Nat, owner : Someone, droptime : BOOLEAN, dropper : Someone,
     dropcount : Nat, invistime : BOOLEAN, passed : BOOLEAN, told : Sight]
Player ==
    [connected : {TRUE}, team : Teams, state : {"dead", "alive", "spectator"},
     lastspawn : BOOLEAN, hasPassedFlag : BOOLEAN]
Spawns == [kind : {"spawn"}, current : BOOLEAN]
Takings == [kind : {"take"}, flag : Flags, version : Nat, seen : Sight \cup {NoOne}]

Players == [Clients -> Player \cup {Free}]
Placed(fs) ==
    /\ DOMAIN fs \subseteq Flags /\ fs \in [DOMAIN fs -> Flag]
    /\ \A i \in DOMAIN fs : fs[i].team = FlagTeam[i]

TypeInv ==
    /\ mode \in Modes /\ ci \in Players /\ Placed(flags)
    /\ sent \in [Clients -> Seq(Spawns \cup Takings)]

\* Who has left has nothing on its way.
NothingLeftBehind == \A c \in Clients : ~ci[c].connected => sent[c] = <<>>

OwnersConnected ==
    \A i \in DOMAIN flags : flags[i].owner # NoOne => ci[flags[i].owner].connected

OneFlagEach ==
    \A i, j \in DOMAIN flags : flags[i].owner # NoOne /\ flags[i].owner = flags[j].owner => i = j

\* Only #unspectate takes the life of a carrier and leaves it its flag.
OwnersPlay ==
    \A i \in DOMAIN flags : flags[i].owner # NoOne =>
        Alive(flags[i].owner) /\ Takes(flags[i].owner, flags[i])

OneFlagToHold == mode = "hold" => \A i, j \in DOMAIN flags : i = j

\* A request is about the flag as it is announced, or about an older version of
\* it ...
FreshIn(r, fs) ==
    /\ r.flag \in DOMAIN fs /\ r.version \in 0..fs[r.flag].version
    /\ r.version = fs[r.flag].version => r.seen = fs[r.flag].told

\* ... or its client is dead and the answer that gives it life comes later.
Lives(r) == r.connected /\ r.state = "alive"
Expects(r) == r.connected /\ r.state # "spectator" /\ r.lastspawn
Barred(q, k, r) ==
    /\ ~Lives(r)
    /\ Expects(r) => \A j \in 1..k : q[j] # Spawn

Timely(q, fs, r) ==
    \A k \in DOMAIN q : q[k].kind = "take" => FreshIn(q[k], fs) \/ Barred(q, k, r)

RequestsTimely == \A c \in Clients : Timely(sent[c], flags, ci[c])

\* Maps with one flag for each of two teams: no two of a team carry flags.
OneFlagPerTeam ==
    /\ \A i, j \in Flags : FlagTeam[i] = FlagTeam[j] => i = j
    /\ \A t, u, v \in Teams : t = u \/ u = v \/ t = v

\* Who receives a flag may carry one already, in which case the flag it should
\* receive goes home and nobody is told.
PassesFit == ~Asks("pass") \/ (~Asks("unspectate") /\ OneFlagPerTeam)

\* What is said of the flags.
FlagsInv ==
    /\ OwnersConnected /\ OneFlagEach /\ DropperStays /\ PassedIsMarked /\ OneFlagToHold
    /\ ~Asks("unspectate") => OwnersPlay
    /\ PassesFit => ClientsKnow

\* The conjunction that every step preserves.
IInv == TypeInv /\ NothingLeftBehind /\ FlagsInv /\ RequestsTimely

-----------------------------------------------------------------------------
\* NoOne is not a client.
LEMMA NobodyIsNoClient == NoOne \notin Clients
  BY FlagsAssumption

\* The modes.
LEMMA ModeIsOne == ASSUME TypeInv PROVE mode \in {"ctf", "protect", "hold"}
  BY FlagsAssumption DEF TypeInv

\* Who is connected is a player.
LEMMA ConnectedPlays ==
  ASSUME TypeInv, NEW c \in Clients
  PROVE  /\ ci[c].connected => ci[c] \in Player
         /\ ~ci[c].connected => ci[c] = Free
         /\ Free.connected = FALSE
<1>1. ci[c] \in Player \/ ci[c] = Free
  BY DEF TypeInv, Players
<1>2. Free.connected = FALSE
  BY DEF Free
<1>3. \A r \in Player : r.connected = TRUE
  BY DEF Player
<1> QED
  BY <1>1, <1>2, <1>3

\* Flags as they are at the start of a match.
LEMMA SpawnedFlag ==
  ASSUME NEW i \in Flags, NEW m
  PROVE  LET f == Spawned(FlagTeam[i], m)
         IN  /\ f \in Flag /\ f.team = FlagTeam[i] /\ f.owner = NoOne /\ f.dropper = NoOne
             /\ f.told = Where(f)
<1>1. FlagTeam[i] \in Teams /\ (m = "protect") \in BOOLEAN
  BY FlagsAssumption
<1>2. Spawned(FlagTeam[i], m) \in Flag
  BY <1>1 DEF Spawned, Flag, Someone, Sight
<1> QED
  BY <1>2 DEF Spawned, Where

\* Flags that nobody has touched satisfy everything that is said of flags.
LEMMA UntouchedFlags ==
  ASSUME NEW S \in SUBSET Flags, NEW m,
         m = "hold" => \A i, j \in S : i = j,
         flags' = [i \in S |-> Spawned(FlagTeam[i], m)], mode' = m
  PROVE  Placed(flags)' /\ FlagsInv' /\ DOMAIN flags' = S
<1>1. DOMAIN flags' = S
  OBVIOUS
<1>2. \A i \in S : /\ flags'[i] \in Flag /\ flags'[i].team = FlagTeam[i]
                   /\ flags'[i].owner = NoOne /\ flags'[i].dropper = NoOne
                   /\ flags'[i].told = Where(flags'[i])
  BY SpawnedFlag
<1>3. Placed(flags)'
  BY <1>1, <1>2 DEF Placed
<1>4. OwnersConnected' /\ OneFlagEach' /\ DropperStays' /\ PassedIsMarked' /\ OwnersPlay'
  BY <1>1, <1>2
  DEF OwnersConnected, OneFlagEach, DropperStays, PassedIsMarked, OwnersPlay
<1>5. OneFlagToHold' /\ ClientsKnow'
  BY <1>1, <1>2 DEF OneFlagToHold, ClientsKnow, Where
<1> QED
  BY <1>1, <1>3, <1>4, <1>5 DEF FlagsInv

\* At first nobody is there.
LEMMA InitInv == Init => IInv
<1> SUFFICES ASSUME Init PROVE IInv
  OBVIOUS
<1>1. /\ mode \in Modes /\ ci = [c \in Clients |-> Free] /\ sent = [c \in Clients |-> <<>>]
      /\ flags = [i \in {} |-> Spawned(FlagTeam[i], mode)]
  BY DEF Init
<1>2. DOMAIN flags = {}
  BY <1>1
<1>3. Placed(flags)
  BY <1>1, <1>2 DEF Placed
<1>4. TypeInv
  <2>1. ci \in Players
    BY <1>1 DEF Players
  <2> QED
    BY <1>1, <1>3, <2>1 DEF TypeInv
<1>5. NothingLeftBehind
  BY <1>1 DEF NothingLeftBehind
<1>6. FlagsInv
  BY <1>2 DEF FlagsInv, OwnersConnected, OneFlagEach, DropperStays, PassedIsMarked,
              OneFlagToHold, OwnersPlay, ClientsKnow
<1>7. RequestsTimely
  BY <1>1 DEF RequestsTimely, Timely
<1> QED
  BY <1>4, <1>5, <1>6, <1>7 DEF IInv

-----------------------------------------------------------------------------
\* What the helpers do to a flag.

\* A step of a flag is announced with a new version, or shows nothing new.
Announces(f, g) ==
    /\ g.team = f.team
    /\ \/ g.version = f.version /\ g.told = f.told
       \/ g.version = f.version + 1 /\ g.told = Where(g)

\* ... and then it is told the truth if it was.
Shows(f, g) ==
    /\ Announces(f, g)
    /\ \/ g.told = f.told /\ Where(g) = Where(f)
       \/ g.told = Where(g)

\* The flag is nobody's, or as it was; nobody becomes the dropper but d.
Settles(f, g, d) ==
    /\ g \in Flag
    /\ \/ g.owner = NoOne
       \/ g.owner = f.owner /\ g.passed = f.passed
    /\ g.dropper \in {NoOne, f.dropper, d}

\* ++version and the message.
LEMMA AnnouncedShows ==
  ASSUME NEW f \in Flag, NEW g \in Flag,
         g.team = f.team, g.version = f.version
  PROVE  /\ Announced(g) \in Flag /\ Shows(f, Announced(g))
         /\ Announced(g).owner = g.owner /\ Announced(g).dropper = g.dropper
         /\ Announced(g).passed = g.passed
<1>1. Where(g) \in Sight
  BY DEF Where, Sight, Flag
<1>2. g.version + 1 \in Nat
  BY DEF Flag
<1>3. /\ Announced(g).version = f.version + 1 /\ Announced(g).told = Where(g)
      /\ Announced(g).team = g.team /\ Announced(g).owner = g.owner
      /\ Announced(g).droptime = g.droptime /\ Announced(g).dropper = g.dropper
      /\ Announced(g).passed = g.passed
  BY DEF Announced, Flag
<1>4. Where(Announced(g)) = Where(g)
  BY <1>3 DEF Where
<1>5. Announced(g) \in Flag
  BY <1>1, <1>2 DEF Announced, Flag
<1> QED
  BY <1>3, <1>4, <1>5 DEF Shows, Announces

\* A flag that nothing happens to.
LEMMA SameShows ==
  ASSUME NEW f \in Flag, NEW d
  PROVE  Shows(f, f) /\ Settles(f, f, d)
  BY DEF Shows, Announces, Settles

\* What returnflag leaves alone.
LEMMA Returned ==
  ASSUME NEW f \in Flag, NEW b \in BOOLEAN
  PROVE  /\ returnflag(f, b) \in Flag
         /\ returnflag(f, b).owner = NoOne /\ returnflag(f, b).dropper = NoOne
         /\ returnflag(f, b).team = f.team /\ returnflag(f, b).version = f.version
         /\ returnflag(f, b).told = f.told
  BY DEF returnflag, Flag, Someone

\* What ownflag leaves alone.
LEMMA Owned ==
  ASSUME NEW f \in Flag, NEW c \in Clients, NEW b \in BOOLEAN
  PROVE  /\ ownflag(f, c, b) \in Flag
         /\ ownflag(f, c, b).owner = c /\ ownflag(f, c, b).dropper = NoOne
         /\ ownflag(f, c, b).passed = b
         /\ ownflag(f, c, b).team = f.team /\ ownflag(f, c, b).version = f.version
         /\ ownflag(f, c, b).told = f.told
<1> DEFINE n == IF c # f.dropper THEN 0 ELSE IF f.dropcount < 3 THEN f.dropcount + 1 ELSE f.dropcount
<1>1. n \in Nat
  BY DEF Flag
<1>2. ownflag(f, c, b) = [f EXCEPT !.owner = c, !.invistime = FALSE, !.dropper = NoOne,
                                   !.dropcount = n, !.passed = b]
  BY DEF ownflag, Flag
<1> HIDE DEF n
<1> QED
  BY <1>1, <1>2 DEF Flag, Someone

\* A flag that goes home, with the message.
LEMMA ReturnShows ==
  ASSUME NEW f \in Flag, NEW b \in BOOLEAN, NEW d
  PROVE  LET g == Announced(returnflag(f, b))
         IN  Shows(f, g) /\ Settles(f, g, d) /\ g.owner = NoOne /\ g.dropper = NoOne
<1> DEFINE r == returnflag(f, b)
           g == Announced(r)
<1>1. /\ r \in Flag /\ r.owner = NoOne /\ r.dropper = NoOne
      /\ r.team = f.team /\ r.version = f.version
  BY Returned
<1> HIDE DEF r
<1>2. /\ g \in Flag /\ Shows(f, g) /\ g.owner = NoOne /\ g.dropper = NoOne
  BY <1>1, AnnouncedShows
<1> HIDE DEF g
<1>3. Settles(f, g, d)
  BY <1>2 DEF Settles
<1> QED
  BY <1>2, <1>3 DEF g, r

\* dropflag: c drops what it owns and nothing else happens.
LEMMA Dropped ==
  ASSUME Placed(flags), NEW c \in Clients, NEW d \in Clients, NEW spot
  PROVE  LET fs == FlagsDropped(c, d, spot)
         IN  /\ DOMAIN fs = DOMAIN flags /\ fs = [i \in DOMAIN flags |-> fs[i]]
             /\ \A i \in DOMAIN flags :
                   /\ Shows(flags[i], fs[i]) /\ Settles(flags[i], fs[i], d)
                   /\ fs[i].owner # c
<1> DEFINE fs == FlagsDropped(c, d, spot)
<1>1. DOMAIN fs = DOMAIN flags /\ fs = [i \in DOMAIN flags |-> fs[i]]
  BY DEF FlagsDropped
<1>2. ASSUME NEW i \in DOMAIN flags
      PROVE  /\ Shows(flags[i], fs[i]) /\ Settles(flags[i], fs[i], d)
             /\ fs[i].owner # c
  <2>1. flags[i] \in Flag /\ c # NoOne
    BY NobodyIsNoClient DEF Placed
  <2>2. CASE ~Owns(c, i)
    <3>1. fs[i] = flags[i]
      BY <2>2 DEF FlagsDropped
    <3> QED
      BY <2>1, <2>2, <3>1, SameShows DEF Owns
  <2>3. CASE Owns(c, i) /\ spot = "base"
    <3>1. fs[i] = Announced(returnflag(flags[i], FALSE))
      BY <2>3 DEF FlagsDropped
    <3>2. FALSE \in BOOLEAN
      OBVIOUS
    <3> HIDE DEF fs
    <3> QED
      BY <2>1, <3>1, <3>2, ReturnShows
  <2>4. CASE Owns(c, i) /\ spot # "base"
    <3> DEFINE g == [flags[i] EXCEPT !.droptime = TRUE, !.owner = NoOne, !.invistime = FALSE,
                                     !.dropper = d, !.passed = FALSE]
    <3>1. fs[i] = Announced(g)
      BY <2>4 DEF FlagsDropped
    <3>2. /\ g \in Flag /\ g.owner = NoOne /\ g.dropper = d
          /\ g.team = flags[i].team /\ g.version = flags[i].version
      BY <2>1 DEF Flag, Someone
    <3> HIDE DEF fs, g
    <3>3. /\ fs[i] \in Flag /\ Shows(flags[i], fs[i])
          /\ fs[i].owner = NoOne /\ fs[i].dropper = d
      BY <2>1, <3>1, <3>2, AnnouncedShows
    <3>4. Settles(flags[i], fs[i], d)
      BY <3>3 DEF Settles
    <3> QED
      BY <2>1, <3>3, <3>4
  <2> QED
    BY <2>2, <2>3, <2>4
<1> QED
  BY <1>1, <1>2

\* The loop of leavegame and died over the droppers.
LEMMA DropperForgotten ==
  ASSUME NEW f \in Flag, NEW g, NEW c \in Clients, NEW d,
         Shows(f, g), Settles(f, g, d)
  PROVE  LET h == IF g.dropper = c THEN [g EXCEPT !.dropper = NoOne, !.dropcount = 0] ELSE g
         IN  /\ Shows(f, h) /\ Settles(f, h, d)
             /\ h.owner = g.owner /\ h.dropper # c
<1>1. c # NoOne /\ g \in Flag
  BY NobodyIsNoClient DEF Settles
<1>2. CASE g.dropper = c
  <2> DEFINE h == [g EXCEPT !.dropper = NoOne, !.dropcount = 0]
  <2>1. /\ h \in Flag /\ h.dropper = NoOne /\ h.owner = g.owner /\ h.team = g.team
        /\ h.version = g.version /\ h.told = g.told /\ h.droptime = g.droptime
        /\ h.passed = g.passed
    BY <1>1 DEF Flag, Someone
  <2>2. Where(h) = Where(g)
    BY <2>1 DEF Where
  <2> HIDE DEF h
  <2>3. Shows(f, h)
    BY <2>1, <2>2 DEF Shows, Announces
  <2>4. Settles(f, h, d)
    BY <2>1 DEF Settles
  <2>5. h.owner = g.owner /\ h.dropper # c
    BY <1>1, <2>1
  <2> QED
    BY <1>2, <2>3, <2>4, <2>5 DEF h
<1>3. CASE g.dropper # c
  BY <1>3
<1> QED
  BY <1>2, <1>3

AllSettle(fs, d) ==
    /\ DOMAIN fs = DOMAIN flags
    /\ \A i \in DOMAIN flags : Shows(flags[i], fs[i]) /\ Settles(flags[i], fs[i], d)

\* A departing dropper is forgotten, nothing else about a flag changes.
LEMMA Forgotten ==
  ASSUME Placed(flags), NEW c \in Clients, NEW d, NEW fs, AllSettle(fs, d)
  PROVE  LET gs == ForgetDropper(fs, c)
         IN  /\ DOMAIN gs = DOMAIN flags /\ gs = [i \in DOMAIN flags |-> gs[i]]
             /\ \A i \in DOMAIN flags :
                   /\ Shows(flags[i], gs[i]) /\ Settles(flags[i], gs[i], d)
                   /\ gs[i].owner = fs[i].owner /\ gs[i].dropper # c
<1> DEFINE gs == ForgetDropper(fs, c)
<1>1. DOMAIN gs = DOMAIN flags /\ gs = [i \in DOMAIN flags |-> gs[i]]
  BY DEF ForgetDropper, AllSettle
<1>2. ASSUME NEW i \in DOMAIN flags
      PROVE  /\ Shows(flags[i], gs[i]) /\ Settles(flags[i], gs[i], d)
             /\ gs[i].owner = fs[i].owner /\ gs[i].dropper # c
  <2>1. flags[i] \in Flag
    BY DEF Placed
  <2>2. gs[i] = IF fs[i].dropper = c
                THEN [fs[i] EXCEPT !.dropper = NoOne, !.dropcount = 0] ELSE fs[i]
    BY DEF ForgetDropper, AllSettle
  <2>3. Shows(flags[i], fs[i]) /\ Settles(flags[i], fs[i], d)
    BY DEF AllSettle
  <2> DEFINE h == IF fs[i].dropper = c
                  THEN [fs[i] EXCEPT !.dropper = NoOne, !.dropcount = 0] ELSE fs[i]
  <2>4. /\ Shows(flags[i], h) /\ Settles(flags[i], h, d)
        /\ h.owner = fs[i].owner /\ h.dropper # c
    BY <2>1, <2>3, DropperForgotten
  <2>5. gs[i] = h
    BY <2>2
  <2> HIDE DEF gs, h
  <2> QED
    BY <2>4, <2>5
<1> QED
  BY <1>1, <1>2

-----------------------------------------------------------------------------
\* What is said of the flags, over a step.

\* Does c stay what its flags need it to be?
Undisturbed(c) ==
    /\ ci'[c].connected = ci[c].connected
    /\ ci[c].connected => /\ ~Asks("unspectate") => /\ ci'[c].team = ci[c].team
                                                   /\ ci'[c].state = ci[c].state
                          /\ mode = "ctf" /\ ci[c].hasPassedFlag => ci'[c].hasPassedFlag

\* The flags have the same places and are flags.
Moved ==
    /\ DOMAIN flags' = DOMAIN flags /\ flags' = [i \in DOMAIN flags |-> flags'[i]]
    /\ \A i \in DOMAIN flags : flags'[i] \in Flag /\ Announces(flags[i], flags'[i])

\* Flags that move keep their places in the list and their teams.
LEMMA MovedArePlaced ==
  ASSUME TypeInv, Moved
  PROVE  Placed(flags)'
<1>1. DOMAIN flags \subseteq Flags /\ \A i \in DOMAIN flags : flags[i].team = FlagTeam[i]
  BY DEF TypeInv, Placed
<1>2. \A i \in DOMAIN flags : flags'[i] \in Flag /\ flags'[i].team = FlagTeam[i]
  BY <1>1 DEF Moved, Announces
<1> QED
  BY <1>1, <1>2 DEF Moved, Placed

\* Truth about a flag that shows what happens to it.
LEMMA ShownIsKnown ==
  ASSUME NEW f, NEW g, f.told = Where(f), Shows(f, g)
  PROVE  g.told = Where(g)
  BY DEF Shows

\* Flags settle: nobody gets one, and those who keep theirs are undisturbed.
LEMMA SettlingHolds ==
  ASSUME TypeInv, FlagsInv, mode' = mode, Moved, NEW d, DropperStays',
         \A i \in DOMAIN flags : Settles(flags[i], flags'[i], d),
         PassesFit => \A i \in DOMAIN flags : Shows(flags[i], flags'[i]),
         \A i \in DOMAIN flags : flags'[i].owner # NoOne => Undisturbed(flags'[i].owner)
  PROVE  FlagsInv'
<1>1. DOMAIN flags' = DOMAIN flags
  BY DEF Moved
<1>2. \A i \in DOMAIN flags : flags'[i].owner # NoOne =>
        /\ flags[i].owner = flags'[i].owner /\ flags[i].passed = flags'[i].passed
        /\ flags[i].team = flags'[i].team
        /\ ci[flags'[i].owner].connected
  BY DEF Settles, Moved, Announces, FlagsInv, OwnersConnected
<1>3. OwnersConnected'
  BY <1>1, <1>2 DEF OwnersConnected, Undisturbed
<1>4. OneFlagEach'
  <2>1. OneFlagEach
    BY DEF FlagsInv
  <2> SUFFICES ASSUME NEW i \in DOMAIN flags, NEW j \in DOMAIN flags,
                      flags'[i].owner # NoOne, flags'[i].owner = flags'[j].owner
               PROVE  i = j
    BY <1>1 DEF OneFlagEach
  <2>2. flags[i].owner = flags'[i].owner /\ flags[j].owner = flags'[j].owner
    BY <1>2
  <2> QED
    BY <2>1, <2>2 DEF OneFlagEach
<1>5. PassedIsMarked'
  <2>1. PassedIsMarked
    BY DEF FlagsInv
  <2> SUFFICES ASSUME mode = "ctf", NEW i \in DOMAIN flags,
                      flags'[i].owner # NoOne, flags'[i].passed
               PROVE  ci'[flags'[i].owner].hasPassedFlag
    BY <1>1 DEF PassedIsMarked
  <2>2. ci[flags'[i].owner].hasPassedFlag
    BY <1>2, <2>1 DEF PassedIsMarked
  <2> QED
    BY <1>2, <2>2 DEF Undisturbed
<1>6. OneFlagToHold'
  BY <1>1 DEF FlagsInv, OneFlagToHold
<1>7. ASSUME ~Asks("unspectate") PROVE OwnersPlay'
  <2> SUFFICES ASSUME NEW i \in DOMAIN flags, flags'[i].owner # NoOne
               PROVE  /\ ci'[flags'[i].owner].connected
                      /\ ci'[flags'[i].owner].state = "alive" /\ flags'[i].owner \in Clients
                      /\ \/ mode = "hold"
                         \/ (mode = "protect") = (flags'[i].team = ci'[flags'[i].owner].team)
    BY <1>1 DEF OwnersPlay, Alive, Connected, Takes
  <2>1. Alive(flags[i].owner) /\ Takes(flags[i].owner, flags[i])
    BY <1>2, <1>7 DEF FlagsInv, OwnersPlay
  <2> QED
    BY <1>2, <1>7, <2>1 DEF Undisturbed, Alive, Connected, Takes
<1>8. ASSUME PassesFit PROVE ClientsKnow'
  <2>1. \A i \in DOMAIN flags : flags[i].told = Where(flags[i]) /\ Shows(flags[i], flags'[i])
    BY <1>8 DEF FlagsInv, ClientsKnow
  <2>2. \A i \in DOMAIN flags : flags'[i].told = Where(flags'[i])
    BY <2>1, ShownIsKnown
  <2>3. ClientsKnow' <=> \A i \in DOMAIN flags' : flags'[i].told = Where(flags'[i])
    BY DEF ClientsKnow, Where
  <2> QED
    BY <1>1, <2>2, <2>3
<1> QED
  BY <1>3, <1>4, <1>5, <1>6, <1>7, <1>8 DEF FlagsInv, PassesFit

\* Who drops a flag is connected, and stays.
LEMMA DroppersStay ==
  ASSUME TypeInv, FlagsInv, Moved, NEW d, d = NoOne \/ d \in Connected, NEW gone,
         \A i \in DOMAIN flags : Settles(flags[i], flags'[i], d) /\ flags'[i].dropper \notin gone,
         \A b \in Clients : ci[b].connected /\ b \notin gone => ci'[b].connected
  PROVE  DropperStays'
<1> SUFFICES ASSUME NEW i \in DOMAIN flags, flags'[i].dropper # NoOne
             PROVE  flags'[i].dropper \in Clients /\ ci'[flags'[i].dropper].connected
  BY DEF Moved, DropperStays, Connected
<1>1. flags'[i].dropper \in {flags[i].dropper, d}
  BY DEF Settles
<1>2. flags'[i].dropper \in Connected
  BY <1>1 DEF FlagsInv, DropperStays
<1> QED
  BY <1>2 DEF Connected

\* While nobody leaves, settled flags keep droppers that are there.
LEMMA NobodyGoes ==
  ASSUME TypeInv, FlagsInv, Moved,
         \A i \in DOMAIN flags : Settles(flags[i], flags'[i], NoOne),
         \A b \in Clients : ci[b].connected => ci'[b].connected
  PROVE  DropperStays'
<1> SUFFICES ASSUME NEW i \in DOMAIN flags, flags'[i].dropper # NoOne
             PROVE  flags'[i].dropper \in Clients /\ ci'[flags'[i].dropper].connected
  BY DEF Moved, DropperStays, Connected
<1>1. flags'[i].dropper = flags[i].dropper
  BY DEF Settles
<1>2. flags'[i].dropper \in Connected
  BY <1>1 DEF FlagsInv, DropperStays
<1> QED
  BY <1>2 DEF Connected

\* c, who carries nothing, gets the flag x; all others settle.
LEMMA TakingHolds ==
  ASSUME TypeInv, FlagsInv, mode' = mode, Moved, DropperStays',
         NEW x \in DOMAIN flags, NEW c \in Clients,
         flags'[x].owner = c, Shows(flags[x], flags'[x]),
         Alive(c), ~Carries(c), ~Asks("unspectate") => Takes(c, flags[x]),
         mode = "ctf" /\ flags'[x].passed => ci'[c].hasPassedFlag,
         \A i \in DOMAIN flags : i # x => Settles(flags[i], flags'[i], NoOne),
         \A i \in DOMAIN flags : i # x => Shows(flags[i], flags'[i]),
         \A b \in Clients : Undisturbed(b),
         ci'[c].state = ci[c].state
  PROVE  FlagsInv'
<1>1. DOMAIN flags' = DOMAIN flags /\ flags'[x].team = flags[x].team
  BY DEF Moved, Announces
<1>2. \A i \in DOMAIN flags : i # x /\ flags'[i].owner # NoOne =>
        /\ flags[i].owner = flags'[i].owner /\ flags[i].passed = flags'[i].passed
        /\ flags[i].team = flags'[i].team
        /\ ci[flags'[i].owner].connected /\ flags'[i].owner # c
        /\ flags'[i].owner \in Clients
  <2> SUFFICES ASSUME NEW i \in DOMAIN flags, i # x, flags'[i].owner # NoOne
               PROVE  /\ flags[i].owner = flags'[i].owner /\ flags[i].passed = flags'[i].passed
                      /\ flags[i].team = flags'[i].team
                      /\ ci[flags'[i].owner].connected /\ flags'[i].owner # c
                      /\ flags'[i].owner \in Clients
    OBVIOUS
  <2>1. flags[i].owner = flags'[i].owner /\ flags[i].passed = flags'[i].passed
    BY DEF Settles
  <2>2. flags[i].team = flags'[i].team /\ flags'[i].owner \in Clients
    BY DEF Moved, Announces, Flag, Someone
  <2>3. ci[flags'[i].owner].connected
    BY <2>1 DEF FlagsInv, OwnersConnected
  <2>4. flags'[i].owner # c
    BY <2>1 DEF Carries, Owns
  <2> QED
    BY <2>1, <2>2, <2>3, <2>4
<1>3. /\ c # NoOne /\ ci[c].connected /\ ci'[c].connected /\ ci[c].state = "alive"
      /\ ~Asks("unspectate") => ci'[c].team = ci[c].team
  BY NobodyIsNoClient DEF Alive, Connected, Undisturbed
<1>4. OwnersConnected'
  BY <1>1, <1>2, <1>3 DEF OwnersConnected, Undisturbed
<1>5. OneFlagEach'
  <2>1. OneFlagEach
    BY DEF FlagsInv
  <2> SUFFICES ASSUME NEW i \in DOMAIN flags, NEW j \in DOMAIN flags,
                      flags'[i].owner # NoOne, flags'[i].owner = flags'[j].owner
               PROVE  i = j
    BY <1>1 DEF OneFlagEach
  <2>2. CASE i # x /\ j # x
    <3>1. flags[i].owner = flags'[i].owner /\ flags[j].owner = flags'[j].owner
      BY <1>2, <2>2
    <3> QED
      BY <2>1, <3>1 DEF OneFlagEach
  <2>3. CASE i = x \/ j = x
    BY <1>2, <1>3, <2>3
  <2> QED
    BY <2>2, <2>3
<1>6. PassedIsMarked'
  <2>1. PassedIsMarked
    BY DEF FlagsInv
  <2> SUFFICES ASSUME mode = "ctf", NEW i \in DOMAIN flags,
                      flags'[i].owner # NoOne, flags'[i].passed
               PROVE  ci'[flags'[i].owner].hasPassedFlag
    BY <1>1 DEF PassedIsMarked
  <2>2. CASE i = x
    BY <2>2
  <2>3. CASE i # x
    <3>1. ci[flags'[i].owner].hasPassedFlag
      BY <1>2, <2>1, <2>3 DEF PassedIsMarked
    <3> QED
      BY <1>2, <2>3, <3>1 DEF Undisturbed
  <2> QED
    BY <2>2, <2>3
<1>7. OneFlagToHold'
  BY <1>1 DEF FlagsInv, OneFlagToHold
<1>8. ASSUME ~Asks("unspectate") PROVE OwnersPlay'
  <2> SUFFICES ASSUME NEW i \in DOMAIN flags, flags'[i].owner # NoOne
               PROVE  /\ ci'[flags'[i].owner].connected
                      /\ ci'[flags'[i].owner].state = "alive" /\ flags'[i].owner \in Clients
                      /\ \/ mode = "hold"
                         \/ (mode = "protect") = (flags'[i].team = ci'[flags'[i].owner].team)
    BY <1>1 DEF OwnersPlay, Alive, Connected, Takes
  <2>1. CASE i = x
    BY <1>1, <1>3, <1>8, <2>1 DEF Takes
  <2>2. CASE i # x
    <3>1. Alive(flags[i].owner) /\ Takes(flags[i].owner, flags[i])
      BY <1>2, <1>8, <2>2 DEF FlagsInv, OwnersPlay
    <3> QED
      BY <1>2, <1>8, <2>2, <3>1 DEF Undisturbed, Alive, Connected, Takes
  <2> QED
    BY <2>1, <2>2
<1>9. ASSUME PassesFit PROVE ClientsKnow'
  <2>1. \A i \in DOMAIN flags : flags[i].told = Where(flags[i]) /\ Shows(flags[i], flags'[i])
    BY <1>9 DEF FlagsInv, ClientsKnow
  <2>2. \A i \in DOMAIN flags : flags'[i].told = Where(flags'[i])
    BY <2>1, ShownIsKnown
  <2>3. ClientsKnow' <=> \A i \in DOMAIN flags' : flags'[i].told = Where(flags'[i])
    BY DEF ClientsKnow, Where
  <2> QED
    BY <1>1, <2>2, <2>3
<1> QED
  BY <1>4, <1>5, <1>6, <1>7, <1>8, <1>9 DEF FlagsInv, PassesFit

-----------------------------------------------------------------------------
\* What is said of the requests, over a step.

Sending == Spawns \cup Takings

\* A request is a spawn or a taking, never both.
LEMMA KindsDiffer ==
  ASSUME NEW r \in Sending
  PROVE  /\ r.kind = "take" => r \in Takings /\ r # Spawn
         /\ r.kind = "spawn" => r \in Spawns
         /\ r.kind \in {"take", "spawn"}
         /\ Spawn \in Spawns /\ Spawn.kind = "spawn"
  BY DEF Sending, Spawns, Takings, Spawn

\* Flags stay where they are, and what is new about them is announced.
FlagsGoOn ==
    \A i \in DOMAIN flags : i \in DOMAIN flags' /\ Announces(flags[i], flags'[i])

\* A request that saw its flag as it is stays fresh, or its version goes stale.
LEMMA FreshStays ==
  ASSUME TypeInv, FlagsGoOn, NEW r, FreshIn(r, flags)
  PROVE  FreshIn(r, flags')
<1>1. r.flag \in DOMAIN flags /\ flags[r.flag].version \in Nat
  BY DEF FreshIn, TypeInv, Placed, Flag
<1>2. r.version \in 0..flags[r.flag].version
      /\ (r.version = flags[r.flag].version => r.seen = flags[r.flag].told)
  BY DEF FreshIn
<1>3. r.flag \in DOMAIN flags' /\ Announces(flags[r.flag], flags'[r.flag])
  BY <1>1 DEF FlagsGoOn
<1>4. CASE flags'[r.flag].version = flags[r.flag].version /\ flags'[r.flag].told = flags[r.flag].told
  BY <1>2, <1>3, <1>4 DEF FreshIn
<1>5. CASE flags'[r.flag].version = flags[r.flag].version + 1
  <2>1. r.version \in 0..flags'[r.flag].version /\ r.version # flags'[r.flag].version
    BY <1>1, <1>2, <1>5
  <2> QED
    BY <1>3, <2>1 DEF FreshIn
<1> QED
  BY <1>3, <1>4, <1>5 DEF Announces

\* Nobody who was not begins to live or to expect to.
Calm(r, s) == (Lives(s) => Lives(r)) /\ (Expects(s) => Expects(r))

\* Requests stay timely when their sender comes no closer to playing.
LEMMA CalmTimely ==
  ASSUME TypeInv, FlagsGoOn, NEW q \in Seq(Sending), NEW r, NEW s, Calm(r, s),
         Timely(q, flags, r)
  PROVE  Timely(q, flags', s)
<1> SUFFICES ASSUME NEW k \in DOMAIN q, q[k].kind = "take"
             PROVE  FreshIn(q[k], flags') \/ Barred(q, k, s)
  BY DEF Timely
<1>1. FreshIn(q[k], flags) \/ Barred(q, k, r)
  BY DEF Timely
<1>2. CASE FreshIn(q[k], flags)
  BY <1>2, FreshStays
<1>3. CASE Barred(q, k, r)
  BY <1>3 DEF Barred, Calm
<1> QED
  BY <1>1, <1>2, <1>3

\* The oldest request arrives.  If it is the answer to the last spawn, no
\* request behind it is barred.
LEMMA TailTimely ==
  ASSUME TypeInv, FlagsGoOn, NEW q \in Seq(Sending), q # <<>>, NEW r, NEW s,
         Calm(r, s) \/ (Head(q) = Spawn /\ Expects(r)),
         Timely(q, flags, r)
  PROVE  Tail(q) \in Seq(Sending) /\ Timely(Tail(q), flags', s)
<1>1. /\ Tail(q) \in Seq(Sending) /\ Len(q) \in Nat \ {0}
      /\ Len(Tail(q)) = Len(q) - 1 /\ DOMAIN q = 1..Len(q)
      /\ DOMAIN Tail(q) = 1..Len(Tail(q))
      /\ Head(q) = q[1] /\ \A i \in 1..Len(Tail(q)) : Tail(q)[i] = q[i + 1]
  BY HeadTailProperties, LenProperties, EmptySeq
<1> SUFFICES ASSUME NEW k \in DOMAIN Tail(q), Tail(q)[k].kind = "take"
             PROVE  FreshIn(Tail(q)[k], flags') \/ Barred(Tail(q), k, s)
  BY <1>1 DEF Timely
<1>2. k + 1 \in DOMAIN q /\ Tail(q)[k] = q[k + 1] /\ k \in Nat
  BY <1>1
<1>3. FreshIn(q[k + 1], flags) \/ Barred(q, k + 1, r)
  BY <1>2 DEF Timely
<1>4. CASE FreshIn(q[k + 1], flags)
  BY <1>2, <1>4, FreshStays
<1>5. CASE Barred(q, k + 1, r)
  <2>1. 1 \in 1..k + 1
    BY <1>2
  <2>2. Calm(r, s)
    BY <1>1, <1>5, <2>1 DEF Barred
  <2>3. ASSUME Expects(r), NEW j \in 1..k PROVE Tail(q)[j] # Spawn
    <3>1. j \in 1..Len(Tail(q)) /\ j + 1 \in 1..k + 1
      BY <1>1, <1>2
    <3> QED
      BY <1>1, <1>5, <2>3, <3>1 DEF Barred
  <2> QED
    BY <1>5, <2>2, <2>3 DEF Barred, Calm
<1> QED
  BY <1>3, <1>4, <1>5

\* A request about the flag as it is announced joins those on their way.
LEMMA AppendTimely ==
  ASSUME NEW q \in Seq(Sending), NEW r, NEW fs, NEW e \in Takings, FreshIn(e, fs),
         Timely(q, fs, r)
  PROVE  Append(q, e) \in Seq(Sending) /\ Timely(Append(q, e), fs, r)
<1>1. e \in Sending
  BY DEF Sending
<1>2. /\ Append(q, e) \in Seq(Sending) /\ Len(q) \in Nat /\ DOMAIN q = 1..Len(q)
      /\ DOMAIN Append(q, e) = 1..Len(q) + 1
      /\ Append(q, e)[Len(q) + 1] = e
      /\ \A i \in 1..Len(q) : Append(q, e)[i] = q[i]
  BY <1>1, AppendProperties, LenProperties
<1> SUFFICES ASSUME NEW k \in DOMAIN Append(q, e), Append(q, e)[k].kind = "take"
             PROVE  FreshIn(Append(q, e)[k], fs) \/ Barred(Append(q, e), k, r)
  BY <1>2 DEF Timely
<1>3. CASE k = Len(q) + 1
  BY <1>2, <1>3
<1>4. CASE k # Len(q) + 1
  <2>1. k \in 1..Len(q) /\ Append(q, e)[k] = q[k]
    BY <1>2, <1>4
  <2>2. FreshIn(q[k], fs) \/ Barred(q, k, r)
    BY <1>2, <2>1 DEF Timely
  <2>3. \A j \in 1..k : Append(q, e)[j] = q[j]
    BY <1>2, <2>1
  <2> QED
    BY <2>1, <2>2, <2>3 DEF Barred
<1> QED
  BY <1>3, <1>4

\* Before every request to take a flag there is no answer that counts.
NoneCounts(q) ==
    \A k \in DOMAIN q : q[k].kind = "take" => \A j \in 1..k : q[j] # Spawn

\* Where no spawn counts, the requests of a dead player are barred.
LEMMA NoneCountsTimely ==
  ASSUME NEW q, NEW fs, NEW r, ~Lives(r), NoneCounts(q) \/ ~Expects(r)
  PROVE  Timely(q, fs, r)
  BY DEF Timely, Barred, NoneCounts

\* A spawn state makes every confirmation already under way stale.
LEMMA RespawnedCountsNone ==
  ASSUME TypeInv, NEW c \in Clients
  PROVE  Respawned(c) \in Seq(Sending) /\ NoneCounts(Respawned(c))
<1> DEFINE old == [Spawn EXCEPT !.current = FALSE]
           q   == [k \in DOMAIN sent[c] |-> IF sent[c][k].kind = "spawn" THEN old ELSE sent[c][k]]
<1>1. /\ sent[c] \in Seq(Sending) /\ Len(sent[c]) \in Nat
      /\ DOMAIN sent[c] = 1..Len(sent[c])
      /\ \A k \in 1..Len(sent[c]) : sent[c][k] \in Sending
  BY LenProperties DEF TypeInv, Sending
<1>2. old \in Sending /\ old # Spawn /\ Spawn \in Sending /\ Spawn.kind = "spawn"
  BY DEF Spawn, Sending, Spawns
<1> HIDE DEF old
<1>3. \A k \in 1..Len(sent[c]) : q[k] \in Sending /\ q[k] # Spawn
  BY <1>1, <1>2, KindsDiffer
<1>4. q \in [1..Len(sent[c]) -> Sending]
  BY <1>1, <1>3
<1>5. q \in Seq(Sending) /\ Len(q) = Len(sent[c])
  <2>1. q \in Seq(Sending)
    BY <1>1, <1>4, SeqDef
  <2> QED
    BY <1>1, <1>4, <2>1, LenProperties
<1>6. Respawned(c) = Append(q, Spawn)
  BY DEF Respawned, old
<1> HIDE DEF q
<1>7. /\ Respawned(c) \in Seq(Sending) /\ DOMAIN Respawned(c) = 1..Len(q) + 1
      /\ Respawned(c)[Len(q) + 1] = Spawn
      /\ \A i \in 1..Len(q) : Respawned(c)[i] = q[i]
  BY <1>2, <1>5, <1>6, AppendProperties, LenProperties
<1>8. ASSUME NEW k \in 1..Len(q) + 1, Respawned(c)[k].kind = "take", NEW j \in 1..k
      PROVE  Respawned(c)[j] # Spawn
  <2>1. k # Len(q) + 1
    BY <1>2, <1>7, <1>8
  <2>2. j \in 1..Len(q)
    BY <1>1, <1>5, <1>8, <2>1
  <2> QED
    BY <1>3, <1>5, <1>7, <2>2
<1> QED
  BY <1>7, <1>8 DEF NoneCounts

\* changemap: requests become about other flags, and nothing else changes.
LEMMA OutdatedKeeps ==
  ASSUME NEW q \in Seq(Sending)
  PROVE  /\ Outdated(q) \in Seq(Sending)
         /\ NoneCounts(q) => NoneCounts(Outdated(q))
         /\ q = <<>> => Outdated(q) = <<>>
<1>1. /\ Len(q) \in Nat /\ DOMAIN q = 1..Len(q) /\ \A k \in 1..Len(q) : q[k] \in Sending
  BY LenProperties
<1>2. Outdated(q) = [k \in 1..Len(q) |-> IF q[k].kind = "take" THEN [q[k] EXCEPT !.seen = NoOne]
                                         ELSE q[k]]
  BY <1>1 DEF Outdated
<1>3. ASSUME NEW k \in 1..Len(q)
      PROVE  /\ Outdated(q)[k] \in Sending /\ Outdated(q)[k].kind = q[k].kind
             /\ q[k] # Spawn => Outdated(q)[k] # Spawn
  <2>1. q[k] \in Sending
    BY <1>1
  <2>2. CASE q[k].kind = "take"
    <3>1. Outdated(q)[k] = [q[k] EXCEPT !.seen = NoOne] /\ q[k] \in Takings
      BY <1>2, <2>1, <2>2, KindsDiffer
    <3>2. Outdated(q)[k] \in Takings /\ Outdated(q)[k].kind = "take"
      BY <3>1 DEF Takings
    <3>3. Outdated(q)[k] \in Sending
      BY <3>2 DEF Sending
    <3> QED
      BY <2>2, <3>2, <3>3, KindsDiffer
  <2>3. CASE q[k].kind # "take"
    BY <1>2, <2>1, <2>3
  <2> QED
    BY <2>2, <2>3
<1>4. Outdated(q) \in [1..Len(q) -> Sending]
  BY <1>2, <1>3
<1>5. Outdated(q) \in Seq(Sending)
  BY <1>1, <1>4, SeqDef
<1>6. ASSUME NoneCounts(q) PROVE NoneCounts(Outdated(q))
  BY <1>1, <1>2, <1>3, <1>6 DEF NoneCounts
<1>7. ASSUME q = <<>> PROVE Outdated(q) = <<>>
  BY <1>7 DEF Outdated
<1> QED
  BY <1>5, <1>6, <1>7

-----------------------------------------------------------------------------
\* Steps that leave the requests alone.

\* What Play leaves to show of a step when the flags are in order.
LEMMA QuietHolds ==
  ASSUME IInv, mode' = mode, sent' = sent, ci' \in Players, Placed(flags)', FlagsInv', FlagsGoOn,
         \A c \in Clients : Calm(ci[c], ci'[c]) /\ (ci[c].connected => ci'[c].connected)
  PROVE  IInv'
<1>1. TypeInv /\ NothingLeftBehind /\ RequestsTimely
  BY DEF IInv
<1>2. TypeInv'
  BY <1>1 DEF TypeInv
<1>3. NothingLeftBehind'
  BY <1>1 DEF NothingLeftBehind
<1>4. RequestsTimely'
  <2> SUFFICES ASSUME NEW c \in Clients PROVE Timely(sent[c], flags', ci'[c])
    BY DEF RequestsTimely
  <2>1. sent[c] \in Seq(Sending) /\ Timely(sent[c], flags, ci[c])
    BY <1>1 DEF TypeInv, Sending, RequestsTimely
  <2> QED
    BY <1>1, <2>1, CalmTimely
<1> QED
  BY <1>2, <1>3, <1>4 DEF IInv

\* Versions of moving flags never go back.
LEMMA MovedGoOn == ASSUME Moved PROVE FlagsGoOn
  BY DEF Moved, FlagsGoOn

\* Flags that nothing happens to.
LEMMA StillFlags ==
  ASSUME TypeInv, flags' = flags
  PROVE  /\ Moved /\ Placed(flags)' /\ FlagsGoOn
         /\ \A i \in DOMAIN flags :
               Settles(flags[i], flags'[i], NoOne) /\ Shows(flags[i], flags'[i])
<1>1. /\ \A i \in DOMAIN flags : flags[i] \in Flag
      /\ flags = [i \in DOMAIN flags |-> flags[i]]
  BY DEF TypeInv, Placed
<1>2. \A i \in DOMAIN flags :
        Settles(flags[i], flags'[i], NoOne) /\ Shows(flags[i], flags'[i])
  BY <1>1, SameShows
<1>3. Moved
  BY <1>1, <1>2 DEF Moved, Shows
<1> QED
  BY <1>2, <1>3, MovedArePlaced, MovedGoOn

\* Where no flag moves and no carrier changes, the invariant of flags stays.
LEMMA StillFlagsHold ==
  ASSUME TypeInv, FlagsInv, mode' = mode, flags' = flags,
         \A b \in Clients : ci[b].connected => ci'[b].connected,
         \A i \in DOMAIN flags : flags[i].owner # NoOne => Undisturbed(flags[i].owner)
  PROVE  Placed(flags)' /\ FlagsInv' /\ FlagsGoOn
<1>1. /\ Moved /\ Placed(flags)' /\ FlagsGoOn
      /\ \A i \in DOMAIN flags :
            Settles(flags[i], flags'[i], NoOne) /\ Shows(flags[i], flags'[i])
  BY StillFlags
<1>2. DropperStays'
  <2>1. DropperStays
    BY DEF FlagsInv
  <2> QED
    BY <2>1 DEF DropperStays, Connected
<1> QED
  BY <1>1, <1>2, SettlingHolds

\* A client that stays, changed by a step.
LEMMA OneChanged ==
  ASSUME TypeInv, NEW c \in Clients, NEW r, ci' = [ci EXCEPT ![c] = r]
  PROVE  /\ ci'[c] = r /\ \A b \in Clients : b # c => ci'[b] = ci[b]
         /\ r \in Player \cup {Free} => ci' \in Players
  BY DEF TypeInv, Players

\* Nobody else notices.
LEMMA OthersUndisturbed ==
  ASSUME NEW b \in Clients, ci'[b] = ci[b]
  PROVE  Undisturbed(b) /\ Calm(ci[b], ci'[b]) /\ ci'[b].connected = ci[b].connected
  BY DEF Undisturbed, Calm

\* A spectator comes back.
LEMMA UnspectateHolds ==
  ASSUME IInv, mode' = mode, NEW c \in Clients, Unspectate(c)
  PROVE  IInv'
<1>1. TypeInv /\ FlagsInv /\ ci[c].connected
  BY DEF IInv, Unspectate, Connected
<1>2. ci[c] \in Player
  BY <1>1, ConnectedPlays
<1> DEFINE r == [ci[c] EXCEPT !.state = "dead", !.lastspawn = FALSE]
<1>3. ci' = [ci EXCEPT ![c] = r] /\ flags' = flags /\ sent' = sent
  BY <1>1 DEF Unspectate, TypeInv, Players
<1>4. /\ r \in Player /\ r.connected = ci[c].connected /\ r.state = "dead" /\ ~r.lastspawn
      /\ r.hasPassedFlag = ci[c].hasPassedFlag
  BY <1>2 DEF Player
<1> HIDE DEF r
<1>5. /\ ci'[c] = r /\ ci' \in Players
      /\ \A b \in Clients : b # c => ci'[b] = ci[b]
  BY <1>1, <1>3, <1>4, OneChanged
<1>6. Calm(ci[c], ci'[c])
  BY <1>4, <1>5 DEF Calm, Lives, Expects
<1>7. ASSUME NEW i \in DOMAIN flags, flags[i].owner = c PROVE Undisturbed(c)
  <2>1. Asks("unspectate")
    <3>1. c # NoOne
      BY NobodyIsNoClient
    <3>2. ~Asks("unspectate") => ci[c].state = "alive"
      BY <1>1, <1>7, <3>1 DEF FlagsInv, OwnersPlay, Alive
    <3> QED
      BY <3>2 DEF Unspectate
  <2> QED
    BY <1>4, <1>5, <2>1 DEF Undisturbed
<1>8. \A i \in DOMAIN flags : flags[i].owner # NoOne =>
        flags[i].owner \in Clients /\ Undisturbed(flags[i].owner)
  <2>1. \A i \in DOMAIN flags : flags[i].owner \in Someone
    BY <1>1 DEF TypeInv, Placed, Flag
  <2> QED
    BY <1>5, <1>7, <2>1, OthersUndisturbed DEF Someone
<1>9. \A b \in Clients : Calm(ci[b], ci'[b]) /\ (ci[b].connected => ci'[b].connected)
  BY <1>4, <1>5, <1>6, OthersUndisturbed
<1>10. Placed(flags)' /\ FlagsInv' /\ FlagsGoOn
  BY <1>1, <1>3, <1>8, <1>9, StillFlagsHold
<1> QED
  BY <1>3, <1>5, <1>9, <1>10, QuietHolds

\* The first client of a match sends the flags of its map.
LEMMA parseflagsHolds ==
  ASSUME IInv, mode' = mode, NEW c \in Clients, parseflags(c)
  PROVE  IInv'
<1>1. DOMAIN flags = {} /\ UNCHANGED <<ci, sent>> /\ ci \in Players
  BY DEF parseflags, IInv, TypeInv
<1>2. PICK S \in Placings(mode) : flags' = [i \in S |-> Spawned(FlagTeam[i], mode)]
  BY DEF parseflags
<1>3. S \in SUBSET Flags /\ (mode = "hold" => \A i, j \in S : i = j)
  BY DEF Placings
<1>4. Placed(flags)' /\ FlagsInv'
  BY <1>2, <1>3, UntouchedFlags
<1>5. FlagsGoOn
  BY <1>1 DEF FlagsGoOn
<1>6. \A b \in Clients : Calm(ci[b], ci'[b]) /\ (ci[b].connected => ci'[b].connected)
  BY <1>1 DEF Calm
<1> QED
  BY <1>1, <1>4, <1>5, <1>6, QuietHolds

-----------------------------------------------------------------------------
\* Drops: what they do to the one who drops is said of r, its new record.

\* What c may become by dropping its flags.
LEMMA CarrierPlays ==
  ASSUME TypeInv, NEW c \in Clients, ci[c].connected, NEW spot
  PROVE  /\ Carrier(c, spot) \in Player
         /\ Carrier(c, spot).team = ci[c].team /\ Carrier(c, spot).state = ci[c].state
         /\ Carrier(c, spot).lastspawn = ci[c].lastspawn
         /\ Carrier(c, spot).connected
<1>1. ci[c] \in Player
  BY ConnectedPlays
<1>2. Carrier(c, spot) \in {ci[c], DroppedCarrier(ci[c])}
  BY DEF Carrier
<1> QED
  BY <1>1, <1>2 DEF DroppedCarrier, Player

\* c has no flag left, and nobody in gone is a dropper.
Releases(c, d, gone) ==
    \A i \in DOMAIN flags :
       /\ Shows(flags[i], flags'[i]) /\ Settles(flags[i], flags'[i], d)
       /\ flags'[i].owner # c /\ flags'[i].dropper \notin gone

\* Flags of which c has none, when only c is another one.
LEMMA DropsHold ==
  ASSUME TypeInv, FlagsInv, mode' = mode, Moved, NEW c \in Clients, NEW r,
         NEW d, d = NoOne \/ d \in Connected, NEW gone,
         ci' = [ci EXCEPT ![c] = r],
         Releases(c, d, gone), ci[c].connected => r.connected \/ c \in gone
  PROVE  Placed(flags)' /\ FlagsInv' /\ FlagsGoOn
<1>1. /\ ci'[c] = r /\ \A b \in Clients : b # c => ci'[b] = ci[b]
  BY OneChanged
<1>2. Placed(flags)' /\ FlagsGoOn
  BY MovedArePlaced, MovedGoOn
<1>3. \A b \in Clients : ci[b].connected /\ b \notin gone => ci'[b].connected
  BY <1>1
<1>4. DropperStays'
  BY <1>3, DroppersStay DEF Releases
<1>5. \A i \in DOMAIN flags : flags'[i].owner # NoOne => Undisturbed(flags'[i].owner)
  <2>1. \A i \in DOMAIN flags : flags'[i].owner \in Someone /\ flags'[i].owner # c
    BY DEF Releases, Settles, Flag
  <2> QED
    BY <1>1, <2>1, OthersUndisturbed DEF Someone
<1> QED
  BY <1>2, <1>4, <1>5, SettlingHolds DEF Releases

\* dropflag alone.
LEMMA DropFlagHolds ==
  ASSUME TypeInv, FlagsInv, mode' = mode, NEW c \in Clients, NEW r, r.connected,
         NEW d \in Connected, NEW spot,
         flags' = FlagsDropped(c, d, spot), ci' = [ci EXCEPT ![c] = r]
  PROVE  Placed(flags)' /\ FlagsInv' /\ FlagsGoOn
<1>1. d \in Clients /\ Placed(flags)
  BY DEF Connected, TypeInv
<1>2. /\ DOMAIN flags' = DOMAIN flags /\ flags' = [i \in DOMAIN flags |-> flags'[i]]
      /\ \A i \in DOMAIN flags :
            /\ Shows(flags[i], flags'[i]) /\ Settles(flags[i], flags'[i], d)
            /\ flags'[i].owner # c
  BY <1>1, Dropped
<1>3. Moved
  BY <1>2 DEF Moved, Shows, Settles
<1>4. Releases(c, d, {})
  BY <1>2 DEF Releases
<1> QED
  BY <1>3, <1>4, DropsHold

\* dropflag and the loop over droppers.
LEMMA DropAndForgetHolds ==
  ASSUME TypeInv, FlagsInv, mode' = mode, NEW c \in Clients, NEW r,
         NEW d \in Connected, NEW spot,
         flags' = ForgetDropper(FlagsDropped(c, d, spot), c), ci' = [ci EXCEPT ![c] = r]
  PROVE  Placed(flags)' /\ FlagsInv' /\ FlagsGoOn
<1>1. d \in Clients /\ Placed(flags)
  BY DEF Connected, TypeInv
<1> DEFINE fs == FlagsDropped(c, d, spot)
<1>2. /\ DOMAIN fs = DOMAIN flags
      /\ \A i \in DOMAIN flags :
            /\ Shows(flags[i], fs[i]) /\ Settles(flags[i], fs[i], d)
            /\ fs[i].owner # c
  BY <1>1, Dropped
<1> HIDE DEF fs
<1>3. flags' = ForgetDropper(fs, c)
  BY DEF fs
<1>4. /\ DOMAIN flags' = DOMAIN flags /\ flags' = [i \in DOMAIN flags |-> flags'[i]]
      /\ \A i \in DOMAIN flags :
            /\ Shows(flags[i], flags'[i]) /\ Settles(flags[i], flags'[i], d)
            /\ flags'[i].owner = fs[i].owner /\ flags'[i].dropper # c
  <2>1. AllSettle(fs, d)
    BY <1>2 DEF AllSettle
  <2> QED
    BY <1>1, <1>3, <2>1, Forgotten
<1>5. Moved
  BY <1>4 DEF Moved, Shows, Settles
<1>6. Releases(c, d, {c})
  BY <1>2, <1>4 DEF Releases
<1> QED
  BY <1>5, <1>6, DropsHold

\* A player drops its flags.
LEMMA TryDropHolds ==
  ASSUME IInv, mode' = mode, NEW c \in Clients, TryDrop(c)
  PROVE  IInv'
<1>1. TypeInv /\ FlagsInv /\ c \in Connected /\ ci[c].connected /\ sent' = sent
  BY DEF IInv, TryDrop, Connected
<1>2. PICK spot : /\ flags' = FlagsDropped(c, c, spot)
                  /\ ci' = [ci EXCEPT ![c] = Carrier(c, spot)]
  BY DEF TryDrop
<1> DEFINE r == Carrier(c, spot)
<1>3. /\ r \in Player /\ r.state = ci[c].state /\ r.lastspawn = ci[c].lastspawn /\ r.connected
  BY <1>1, CarrierPlays
<1> HIDE DEF r
<1>4. ci' = [ci EXCEPT ![c] = r]
  BY <1>2 DEF r
<1>5. /\ ci'[c] = r /\ ci' \in Players
      /\ \A b \in Clients : b # c => ci'[b] = ci[b]
  BY <1>1, <1>3, <1>4, OneChanged
<1>6. Placed(flags)' /\ FlagsInv' /\ FlagsGoOn
  BY <1>1, <1>2, <1>3, <1>4, DropFlagHolds
<1>7. \A b \in Clients : Calm(ci[b], ci'[b]) /\ (ci[b].connected => ci'[b].connected)
  BY <1>1, <1>3, <1>5 DEF Calm, Lives, Expects
<1> QED
  BY <1>1, <1>5, <1>6, <1>7, QuietHolds

\* A player dies, its flags fall to the ground.
LEMMA DieHolds ==
  ASSUME IInv, mode' = mode, NEW c \in Clients, NEW dropper \in Clients, Die(c, dropper)
  PROVE  IInv'
<1>1. /\ TypeInv /\ FlagsInv /\ dropper \in Connected /\ ci[c].connected /\ sent' = sent
  BY DEF IInv, Die, Connected, Alive
<1>2. PICK spot : /\ flags' = ForgetDropper(FlagsDropped(c, dropper, spot), c)
                  /\ ci' = [ci EXCEPT ![c] = [Carrier(c, spot) EXCEPT !.state = "dead",
                                                                     !.lastspawn = FALSE]]
  BY DEF Die
<1> DEFINE r == [Carrier(c, spot) EXCEPT !.state = "dead", !.lastspawn = FALSE]
<1>3. Carrier(c, spot) \in Player
  BY <1>1, CarrierPlays
<1>4. r \in Player /\ r.state = "dead" /\ ~r.lastspawn /\ r.connected
  BY <1>3 DEF Player
<1> HIDE DEF r
<1>5. ci' = [ci EXCEPT ![c] = r]
  BY <1>2 DEF r
<1>6. /\ ci'[c] = r /\ ci' \in Players
      /\ \A b \in Clients : b # c => ci'[b] = ci[b]
  BY <1>1, <1>4, <1>5, OneChanged
<1>7. Placed(flags)' /\ FlagsInv' /\ FlagsGoOn
  BY <1>1, <1>2, <1>5, DropAndForgetHolds
<1>8. \A b \in Clients : Calm(ci[b], ci'[b]) /\ (ci[b].connected => ci'[b].connected)
  BY <1>4, <1>6 DEF Calm, Lives, Expects
<1> QED
  BY <1>1, <1>6, <1>7, <1>8, QuietHolds

\* A player is sent to the spectators.
LEMMA SpectateHolds ==
  ASSUME IInv, mode' = mode, NEW c \in Clients, Spectate(c)
  PROVE  IInv'
<1>1. TypeInv /\ FlagsInv /\ c \in Connected /\ ci[c].connected /\ sent' = sent
  BY DEF IInv, Spectate, Connected
<1>2. PICK spot : /\ flags' = ForgetDropper(FlagsDropped(c, c, spot), c)
                  /\ ci' = [ci EXCEPT ![c] = [Carrier(c, spot) EXCEPT !.state = "spectator"]]
  BY DEF Spectate, Leave
<1> DEFINE r == [Carrier(c, spot) EXCEPT !.state = "spectator"]
<1>3. Carrier(c, spot) \in Player
  BY <1>1, CarrierPlays
<1>4. r \in Player /\ r.state = "spectator" /\ r.connected
  BY <1>3 DEF Player
<1> HIDE DEF r
<1>5. ci' = [ci EXCEPT ![c] = r]
  BY <1>2 DEF r
<1>6. /\ ci'[c] = r /\ ci' \in Players
      /\ \A b \in Clients : b # c => ci'[b] = ci[b]
  BY <1>1, <1>4, <1>5, OneChanged
<1>7. Placed(flags)' /\ FlagsInv' /\ FlagsGoOn
  BY <1>1, <1>2, <1>5, DropAndForgetHolds
<1>8. \A b \in Clients : Calm(ci[b], ci'[b]) /\ (ci[b].connected => ci'[b].connected)
  BY <1>4, <1>6 DEF Calm, Lives, Expects
<1> QED
  BY <1>1, <1>6, <1>7, <1>8, QuietHolds

\* Who leaves takes along what it had on its way.
LEMMA clientdisconnectHolds ==
  ASSUME IInv, mode' = mode, NEW c \in Clients, clientdisconnect(c)
  PROVE  IInv'
<1>1. /\ TypeInv /\ FlagsInv /\ NothingLeftBehind /\ RequestsTimely
      /\ c \in Connected /\ sent' = [sent EXCEPT ![c] = <<>>]
  BY DEF IInv, clientdisconnect
<1>2. PICK spot : /\ flags' = ForgetDropper(FlagsDropped(c, c, spot), c)
                  /\ ci' = [ci EXCEPT ![c] = Free]
  BY DEF clientdisconnect, Leave
<1>3. /\ ci'[c] = Free /\ ci' \in Players
      /\ \A b \in Clients : b # c => ci'[b] = ci[b]
  BY <1>1, <1>2, OneChanged
<1>4. Placed(flags)' /\ FlagsInv' /\ FlagsGoOn
  BY <1>1, <1>2, DropAndForgetHolds
<1>5. sent'[c] = <<>> /\ \A b \in Clients : b # c => sent'[b] = sent[b]
  BY <1>1 DEF TypeInv
<1>6. sent' \in [Clients -> Seq(Spawns \cup Takings)]
  BY <1>1 DEF TypeInv
<1>7. TypeInv'
  BY <1>1, <1>3, <1>4, <1>6 DEF TypeInv
<1>8. NothingLeftBehind'
  BY <1>1, <1>3, <1>5 DEF NothingLeftBehind
<1>9. RequestsTimely'
  <2> SUFFICES ASSUME NEW b \in Clients PROVE Timely(sent'[b], flags', ci'[b])
    BY DEF RequestsTimely
  <2>1. CASE b = c
    BY <1>5, <2>1 DEF Timely
  <2>2. CASE b # c
    <3>1. sent[b] \in Seq(Sending) /\ Timely(sent[b], flags, ci[b])
      BY <1>1 DEF TypeInv, Sending, RequestsTimely
    <3>2. sent'[b] = sent[b] /\ Calm(ci[b], ci'[b])
      BY <1>3, <1>5, <2>2 DEF Calm
    <3> QED
      BY <1>1, <1>4, <3>1, <3>2, CalmTimely
  <2> QED
    BY <2>1, <2>2
<1> QED
  BY <1>4, <1>7, <1>8, <1>9 DEF IInv

\* A player changes its team, which kills it.
LEMMA ChangeTeamHolds ==
  ASSUME IInv, mode' = mode, NEW c \in Clients, NEW team \in Teams, ChangeTeam(c, team)
  PROVE  IInv'
<1>1. TypeInv /\ FlagsInv /\ c \in Connected /\ ci[c].connected /\ sent' = sent
  BY DEF IInv, ChangeTeam, Connected
<1>2. ci[c] \in Player
  BY <1>1, ConnectedPlays
<1>3. CASE Alive(c)
  <2>1. PICK spot : /\ flags' = FlagsDropped(c, c, spot)
                    /\ ci' = [ci EXCEPT ![c] = [Carrier(c, spot) EXCEPT !.team = team]]
    BY <1>3 DEF ChangeTeam
  <2> DEFINE r == [Carrier(c, spot) EXCEPT !.team = team]
  <2>2. /\ Carrier(c, spot) \in Player /\ Carrier(c, spot).state = ci[c].state
        /\ Carrier(c, spot).lastspawn = ci[c].lastspawn
    BY <1>1, CarrierPlays
  <2>3. /\ r \in Player /\ r.state = ci[c].state /\ r.lastspawn = ci[c].lastspawn /\ r.connected
    BY <2>2 DEF Player
  <2> HIDE DEF r
  <2>4. ci' = [ci EXCEPT ![c] = r]
    BY <2>1 DEF r
  <2>5. /\ ci'[c] = r /\ ci' \in Players
        /\ \A b \in Clients : b # c => ci'[b] = ci[b]
    BY <1>1, <2>3, <2>4, OneChanged
  <2>6. Placed(flags)' /\ FlagsInv' /\ FlagsGoOn
    BY <1>1, <2>1, <2>3, <2>4, DropFlagHolds
  <2>7. \A b \in Clients : Calm(ci[b], ci'[b]) /\ (ci[b].connected => ci'[b].connected)
    BY <1>1, <2>3, <2>5 DEF Calm, Lives, Expects
  <2> QED
    BY <1>1, <2>5, <2>6, <2>7, QuietHolds
<1>4. CASE ~Alive(c)
  <2> DEFINE r == [ci[c] EXCEPT !.team = team]
  <2>1. ci' = [ci EXCEPT ![c] = r] /\ flags' = flags
    BY <1>1, <1>4 DEF ChangeTeam, TypeInv, Players
  <2>2. /\ r \in Player /\ r.state = ci[c].state /\ r.lastspawn = ci[c].lastspawn
        /\ r.connected = ci[c].connected /\ r.hasPassedFlag = ci[c].hasPassedFlag
    BY <1>2 DEF Player
  <2> HIDE DEF r
  <2>3. /\ ci'[c] = r /\ ci' \in Players
        /\ \A b \in Clients : b # c => ci'[b] = ci[b]
    BY <1>1, <2>1, <2>2, OneChanged
  <2>4. \A b \in Clients : Calm(ci[b], ci'[b]) /\ (ci[b].connected => ci'[b].connected)
    BY <1>1, <2>2, <2>3 DEF Calm, Lives, Expects
  <2>5. ASSUME NEW i \in DOMAIN flags, flags[i].owner # NoOne
        PROVE  Undisturbed(flags[i].owner)
    <3>1. flags[i].owner \in Clients
      BY <1>1, <2>5 DEF TypeInv, Placed, Flag, Someone
    <3>2. CASE flags[i].owner = c
      <4>1. Asks("unspectate")
        BY <1>1, <1>4, <2>5, <3>2 DEF FlagsInv, OwnersPlay
      <4> QED
        BY <1>1, <2>2, <2>3, <3>2, <4>1 DEF Undisturbed
    <3>3. CASE flags[i].owner # c
      BY <2>3, <3>1, <3>3, OthersUndisturbed
    <3> QED
      BY <3>2, <3>3
  <2>6. Placed(flags)' /\ FlagsInv' /\ FlagsGoOn
    BY <1>1, <2>1, <2>4, <2>5, StillFlagsHold
  <2> QED
    BY <1>1, <2>3, <2>4, <2>6, QuietHolds
<1> QED
  BY <1>3, <1>4

-----------------------------------------------------------------------------
\* Steps of one flag, and scores.

\* A player that is as it was, but for how it came by its flag.
LEMMA MarkedPlays ==
  ASSUME TypeInv, NEW c \in Clients, ci[c].connected, NEW b \in BOOLEAN,
         ci' = [ci EXCEPT ![c] = [ci[c] EXCEPT !.hasPassedFlag = b]]
  PROVE  /\ ci' \in Players
         /\ ci'[c].hasPassedFlag = b /\ ci'[c].state = ci[c].state /\ ci'[c].team = ci[c].team
         /\ ci'[c].connected = ci[c].connected
         /\ \A d \in Clients : d # c => ci'[d] = ci[d]
         /\ \A d \in Clients : Calm(ci[d], ci'[d]) /\ (ci[d].connected => ci'[d].connected)
<1> DEFINE r == [ci[c] EXCEPT !.hasPassedFlag = b]
<1>1. ci[c] \in Player
  BY ConnectedPlays
<1>2. /\ r \in Player /\ r.state = ci[c].state /\ r.lastspawn = ci[c].lastspawn
      /\ r.connected = ci[c].connected /\ r.hasPassedFlag = b /\ r.team = ci[c].team
  BY <1>1 DEF Player
<1> HIDE DEF r
<1>3. ci' = [ci EXCEPT ![c] = r]
  BY DEF r
<1>4. /\ ci'[c] = r /\ ci' \in Players
      /\ \A d \in Clients : d # c => ci'[d] = ci[d]
  BY <1>2, <1>3, OneChanged
<1>5. \A d \in Clients : Calm(ci[d], ci'[d]) /\ (ci[d].connected => ci'[d].connected)
  BY <1>2, <1>4 DEF Calm, Lives, Expects
<1> QED
  BY <1>2, <1>4, <1>5

\* One flag takes a step by which nobody gets it.
LEMMA OneSettles ==
  ASSUME TypeInv, FlagsInv, mode' = mode, ci' = ci, NEW x \in DOMAIN flags, NEW g,
         flags' = [flags EXCEPT ![x] = g],
         Shows(flags[x], g), Settles(flags[x], g, NoOne)
  PROVE  Placed(flags)' /\ FlagsInv' /\ FlagsGoOn
<1>1. /\ DOMAIN flags' = DOMAIN flags /\ flags' = [i \in DOMAIN flags |-> flags'[i]]
      /\ flags'[x] = g /\ \A i \in DOMAIN flags : i # x => flags'[i] = flags[i]
      /\ \A i \in DOMAIN flags : flags[i] \in Flag
  BY DEF TypeInv, Placed
<1>2. \A i \in DOMAIN flags :
        Shows(flags[i], flags'[i]) /\ Settles(flags[i], flags'[i], NoOne)
  BY <1>1, SameShows
<1>3. Moved
  BY <1>1, <1>2 DEF Moved, Shows, Settles
<1>4. DropperStays'
  BY <1>2, <1>3, NobodyGoes
<1>5. \A b : Undisturbed(b)
  BY DEF Undisturbed
<1> QED
  BY <1>2, <1>3, <1>4, <1>5, SettlingHolds, MovedArePlaced, MovedGoOn

\* A flag is carried home, or kept for long enough.
LEMMA ScoreHolds ==
  ASSUME TypeInv, FlagsInv, mode' = mode, NEW c \in Clients, ci[c].connected,
         NEW goal \in DOMAIN flags, NEW relay \in DOMAIN flags,
         scoreflag(c, goal, relay), mode = "ctf" => Owns(c, relay)
  PROVE  /\ Placed(flags)' /\ FlagsInv' /\ FlagsGoOn /\ ci' \in Players
         /\ \A d \in Clients : Calm(ci[d], ci'[d]) /\ (ci[d].connected => ci'[d].connected)
<1>1. /\ flags' = [i \in DOMAIN flags |->
                    IF i = relay THEN Announced(returnflag(flags[i], mode = "protect"))
                    ELSE IF i = goal THEN Announced(flags[i]) ELSE flags[i]]
      /\ ci' = [ci EXCEPT ![c] = [ci[c] EXCEPT !.hasPassedFlag = FALSE]]
  BY DEF scoreflag, TypeInv, Players
<1>2. DOMAIN flags' = DOMAIN flags /\ flags' = [i \in DOMAIN flags |-> flags'[i]]
  BY <1>1
<1>3. ASSUME NEW i \in DOMAIN flags
      PROVE  /\ Shows(flags[i], flags'[i]) /\ Settles(flags[i], flags'[i], NoOne)
             /\ i = relay => flags'[i].owner = NoOne
  <2>1. flags[i] \in Flag /\ (mode = "protect") \in BOOLEAN
    BY DEF TypeInv, Placed
  <2>2. CASE i = relay
    <3>1. flags'[i] = Announced(returnflag(flags[i], mode = "protect"))
      BY <1>1, <2>2
    <3> QED
      BY <2>1, <3>1, ReturnShows
  <2>3. CASE i # relay /\ i = goal
    <3>1. flags'[i] = Announced(flags[i])
      BY <1>1, <2>3
    <3>2. /\ flags'[i] \in Flag /\ Shows(flags[i], flags'[i])
          /\ flags'[i].owner = flags[i].owner /\ flags'[i].dropper = flags[i].dropper
          /\ flags'[i].passed = flags[i].passed
      BY <2>1, <3>1, AnnouncedShows
    <3>3. Settles(flags[i], flags'[i], NoOne)
      BY <3>2 DEF Settles
    <3> QED
      BY <2>3, <3>2, <3>3
  <2>4. CASE i # relay /\ i # goal
    <3>1. flags'[i] = flags[i]
      BY <1>1, <2>4
    <3> QED
      BY <2>1, <2>4, <3>1, SameShows
  <2> QED
    BY <2>2, <2>3, <2>4
<1>4. Moved
  BY <1>2, <1>3 DEF Moved, Shows, Settles
<1>5. /\ ci' \in Players
      /\ ci'[c].state = ci[c].state /\ ci'[c].team = ci[c].team
      /\ ci'[c].connected = ci[c].connected
      /\ \A d \in Clients : d # c => ci'[d] = ci[d]
      /\ \A d \in Clients : Calm(ci[d], ci'[d]) /\ (ci[d].connected => ci'[d].connected)
  BY <1>1, MarkedPlays
<1>6. DropperStays'
  BY <1>3, <1>4, <1>5, NobodyGoes
<1>7. ASSUME NEW i \in DOMAIN flags, flags'[i].owner # NoOne
      PROVE  Undisturbed(flags'[i].owner)
  <2>1. flags'[i].owner \in Clients /\ flags'[i].owner = flags[i].owner /\ i # relay
    BY <1>3, <1>4, <1>7 DEF Settles, Moved, Flag, Someone
  <2>2. CASE flags'[i].owner # c
    BY <1>5, <2>1, <2>2, OthersUndisturbed
  <2>3. CASE flags'[i].owner = c
    <3>1. mode # "ctf"
      BY <1>7, <2>1, <2>3 DEF FlagsInv, OneFlagEach, Owns
    <3> QED
      BY <1>5, <2>3, <3>1 DEF Undisturbed
  <2> QED
    BY <2>2, <2>3
<1> QED
  BY <1>3, <1>4, <1>5, <1>6, <1>7, SettlingHolds, MovedArePlaced, MovedGoOn

\* takeflag, whatever it does.
LEMMA TakeHolds ==
  ASSUME TypeInv, FlagsInv, mode' = mode, NEW c \in Clients, NEW r, Take(c, r)
  PROVE  /\ Placed(flags)' /\ FlagsInv' /\ FlagsGoOn /\ ci' \in Players
         /\ \A d \in Clients : Calm(ci[d], ci'[d]) /\ (ci[d].connected => ci'[d].connected)
<1> DEFINE x == r.flag
<1>1. /\ Alive(c) /\ ci[c].connected /\ x \in DOMAIN flags /\ flags[x].owner = NoOne
      /\ flags[x] \in Flag
  BY DEF Take, Honoured, Alive, Connected, TypeInv, Placed
<1> HIDE DEF x
<1>2. ci' = ci => /\ ci' \in Players
                  /\ \A d \in Clients : Calm(ci[d], ci'[d]) /\ (ci[d].connected => ci'[d].connected)
  BY DEF TypeInv, Calm
<1>3. CASE TakeForCarry(c, x)
  <2> DEFINE g == Announced(ownflag(flags[x], c, FALSE))
  <2>1. /\ flags' = [flags EXCEPT ![x] = g] /\ ci' = ci
        /\ Takes(c, flags[x]) /\ ~Carries(c)
    BY <1>1, <1>3 DEF TakeForCarry, TypeInv, Placed
  <2>2. /\ g \in Flag /\ Shows(flags[x], g) /\ g.owner = c /\ g.dropper = NoOne
        /\ g.passed = FALSE
    <3> DEFINE h == ownflag(flags[x], c, FALSE)
    <3>1. /\ h \in Flag /\ h.owner = c /\ h.dropper = NoOne /\ h.passed = FALSE
          /\ h.team = flags[x].team /\ h.version = flags[x].version
      BY <1>1, Owned, FALSE \in BOOLEAN
    <3> HIDE DEF h
    <3> QED
      BY <1>1, <3>1, AnnouncedShows DEF h
  <2> HIDE DEF g
  <2>3. /\ DOMAIN flags' = DOMAIN flags /\ flags' = [i \in DOMAIN flags |-> flags'[i]]
        /\ flags'[x] = g /\ \A i \in DOMAIN flags : i # x => flags'[i] = flags[i]
        /\ \A i \in DOMAIN flags : flags[i] \in Flag
    BY <1>1, <2>1 DEF TypeInv, Placed
  <2>4. \A i \in DOMAIN flags : i # x =>
            Shows(flags[i], flags'[i]) /\ Settles(flags[i], flags'[i], NoOne)
    BY <2>3, SameShows
  <2>5. Moved
    BY <2>2, <2>3, <2>4 DEF Moved, Shows
  <2>6. DropperStays'
    BY <2>1, <2>2, <2>3 DEF FlagsInv, DropperStays, Connected
  <2>7. \A b : Undisturbed(b)
    BY <2>1 DEF Undisturbed
  <2>8. FlagsInv'
    BY <1>1, <2>1, <2>2, <2>3, <2>4, <2>5, <2>6, <2>7, TakingHolds
  <2> QED
    BY <1>2, <2>1, <2>5, <2>8, MovedArePlaced, MovedGoOn
<1>4. CASE TouchToScore(c, x)
  BY <1>1, <1>4, ScoreHolds DEF TouchToScore
<1>5. CASE TouchToReturn(c, x)
  <2>1. flags' = [flags EXCEPT ![x] = Announced(returnflag(flags[x], FALSE))] /\ ci' = ci
    BY <1>1, <1>5 DEF TouchToReturn, TypeInv, Placed
  <2>2. FALSE \in BOOLEAN
    OBVIOUS
  <2>3. /\ Shows(flags[x], Announced(returnflag(flags[x], FALSE)))
        /\ Settles(flags[x], Announced(returnflag(flags[x], FALSE)), NoOne)
    BY <1>1, <2>2, ReturnShows
  <2> QED
    BY <1>1, <1>2, <2>1, <2>3, OneSettles
<1>6. CASE Capture(c, x)
  <2>1. PICK j \in DOMAIN flags : Owns(c, j) /\ scoreflag(c, x, j)
    BY <1>6 DEF Capture
  <2> QED
    BY <1>1, <2>1, ScoreHolds
<1> QED
  BY <1>3, <1>4, <1>5, <1>6 DEF Take, x

\* A flag times out, appears again or has been held.
LEMMA ResetHolds ==
  ASSUME IInv, mode' = mode, NEW i \in Flags, Reset(i) \/ Reappear(i) \/ Held(i)
  PROVE  IInv'
<1>1. TypeInv /\ FlagsInv /\ i \in DOMAIN flags /\ sent' = sent /\ flags[i] \in Flag
  BY DEF IInv, Reset, Reappear, Held, Changeable, TypeInv, Placed
<1>2. ci' = ci => /\ ci' \in Players
                  /\ \A d \in Clients : Calm(ci[d], ci'[d]) /\ (ci[d].connected => ci'[d].connected)
  BY <1>1 DEF TypeInv, Calm
<1>3. CASE Reset(i)
  <2>1. /\ flags' = [flags EXCEPT ![i] = Announced(returnflag(flags[i], mode = "protect"))]
        /\ ci' = ci /\ (mode = "protect") \in BOOLEAN
    BY <1>1, <1>3 DEF Reset, TypeInv, Placed
  <2>2. /\ Shows(flags[i], Announced(returnflag(flags[i], mode = "protect")))
        /\ Settles(flags[i], Announced(returnflag(flags[i], mode = "protect")), NoOne)
    BY <1>1, <2>1, ReturnShows
  <2>3. Placed(flags)' /\ FlagsInv' /\ FlagsGoOn
    BY <1>1, <2>1, <2>2, OneSettles
  <2> QED
    BY <1>1, <1>2, <2>1, <2>3, QuietHolds
<1>4. CASE Reappear(i)
  <2> DEFINE g == [flags[i] EXCEPT !.invistime = FALSE]
  <2>1. flags' = [flags EXCEPT ![i] = g] /\ ci' = ci
    BY <1>1, <1>4 DEF Reappear, TypeInv, Placed
  <2>2. /\ g \in Flag /\ g.owner = flags[i].owner /\ g.passed = flags[i].passed
        /\ g.dropper = flags[i].dropper /\ g.team = flags[i].team
        /\ g.version = flags[i].version /\ g.told = flags[i].told
        /\ g.droptime = flags[i].droptime
    BY <1>1 DEF Flag
  <2> HIDE DEF g
  <2>3. Shows(flags[i], g) /\ Settles(flags[i], g, NoOne)
    BY <2>2 DEF Shows, Announces, Settles, Where
  <2>4. Placed(flags)' /\ FlagsInv' /\ FlagsGoOn
    BY <1>1, <2>1, <2>3, OneSettles
  <2> QED
    BY <1>1, <1>2, <2>1, <2>4, QuietHolds
<1>5. CASE Held(i)
  <2>1. /\ flags[i].owner # NoOne /\ mode = "hold" /\ scoreflag(flags[i].owner, i, i)
    BY <1>5 DEF Held
  <2>2. flags[i].owner \in Clients /\ ci[flags[i].owner].connected
    BY <1>1, <2>1 DEF Flag, Someone, FlagsInv, OwnersConnected
  <2>3. /\ Placed(flags)' /\ FlagsInv' /\ FlagsGoOn /\ ci' \in Players
        /\ \A d \in Clients : Calm(ci[d], ci'[d]) /\ (ci[d].connected => ci'[d].connected)
    BY <1>1, <2>1, <2>2, ScoreHolds
  <2> QED
    BY <1>1, <2>3, QuietHolds
<1> QED
  BY <1>3, <1>4, <1>5

-----------------------------------------------------------------------------
\* Passing a flag.

\* On a map with one flag for each of two teams nobody passes a flag to a player
\* who carries one.
LEMMA PassedIsTaken ==
  ASSUME TypeInv, FlagsInv, NEW c \in Clients, NEW target \in Clients, c # target,
         ci[c].connected, ci[target].connected, ci[c].team = ci[target].team,
         NEW i \in DOMAIN flags, Owns(c, i), Asks("pass"), PassesFit
  PROVE  ~Carries(target)
<1> SUFFICES ASSUME NEW j \in DOMAIN flags, Owns(target, j) PROVE FALSE
  BY DEF Carries
<1>1. c # NoOne /\ target # NoOne
  BY NobodyIsNoClient
<1>2. OneFlagPerTeam /\ OwnersPlay /\ OneFlagToHold
  BY DEF PassesFit, FlagsInv
<1>3. flags[i].owner = c /\ flags[j].owner = target
  BY DEF Owns
<1>4. Takes(c, flags[i]) /\ Takes(target, flags[j])
  BY <1>1, <1>2, <1>3 DEF OwnersPlay
<1>5. /\ i \in Flags /\ j \in Flags
      /\ flags[i].team = FlagTeam[i] /\ flags[j].team = FlagTeam[j]
      /\ FlagTeam[i] \in Teams /\ FlagTeam[j] \in Teams
  BY FlagsAssumption DEF TypeInv, Placed
<1>6. ci[c].team \in Teams
  BY ConnectedPlays DEF Player
<1>7. i # j
  BY <1>3
<1>8. FlagTeam[i] # FlagTeam[j]
  BY <1>2, <1>5, <1>7 DEF OneFlagPerTeam
<1>9. CASE mode = "hold"
  BY <1>2, <1>7, <1>9 DEF OneFlagToHold
<1>10. CASE mode = "protect"
  BY <1>4, <1>5, <1>8, <1>10 DEF Takes
<1>11. CASE mode # "hold" /\ mode # "protect"
  <2>1. flags[i].team # ci[c].team /\ flags[j].team # ci[c].team
    BY <1>4, <1>11 DEF Takes
  <2> QED
    BY <1>2, <1>5, <1>6, <1>8, <2>1 DEF OneFlagPerTeam
<1> QED
  BY <1>9, <1>10, <1>11

\* A flag is handed to a team mate.
LEMMA PassHolds ==
  ASSUME IInv, mode' = mode, NEW c \in Clients, NEW target \in Clients, NEW i \in Flags,
         Pass(c, target, i)
  PROVE  IInv'
<1>1. /\ TypeInv /\ FlagsInv /\ sent' = sent /\ Asks("pass") /\ c # target
      /\ ci[c].connected /\ ci[target].connected /\ Alive(target)
      /\ ci[c].team = ci[target].team /\ i \in DOMAIN flags /\ Owns(c, i)
  BY DEF IInv, Pass, Connected, Alive, Changeable
<1> DEFINE f     == returnflag(flags[i], FALSE)
           taken == ~Carries(target)
           g     == IF taken THEN Announced(ownflag(f, target, TRUE)) ELSE f
           gs    == ForgetDropper(flags, c)
<1>2. /\ flags' = [gs EXCEPT ![i] = g]
      /\ ci' = [ci EXCEPT ![target] = Received(@)]
  BY DEF Pass
<1>3. ci' = [ci EXCEPT ![target] = [ci[target] EXCEPT !.hasPassedFlag = TRUE]]
  BY <1>1, <1>2 DEF Received, TypeInv, Players
<1>4. /\ ci' \in Players
      /\ ci'[target].hasPassedFlag = TRUE /\ ci'[target].state = ci[target].state
      /\ ci'[target].team = ci[target].team /\ ci'[target].connected = ci[target].connected
      /\ \A d \in Clients : d # target => ci'[d] = ci[d]
      /\ \A d \in Clients : Calm(ci[d], ci'[d]) /\ (ci[d].connected => ci'[d].connected)
  BY <1>1, <1>3, TRUE \in BOOLEAN, MarkedPlays
<1>5. Placed(flags) /\ flags[i] \in Flag
  BY <1>1 DEF TypeInv, Placed
<1>6. AllSettle(flags, NoOne)
  BY <1>5, SameShows DEF AllSettle, Placed
<1>7. /\ DOMAIN gs = DOMAIN flags /\ gs = [j \in DOMAIN flags |-> gs[j]]
      /\ \A j \in DOMAIN flags : Shows(flags[j], gs[j]) /\ Settles(flags[j], gs[j], NoOne)
  BY <1>5, <1>6, Forgotten
<1> HIDE DEF gs
<1>8. /\ f \in Flag /\ f.owner = NoOne /\ f.dropper = NoOne
      /\ f.team = flags[i].team /\ f.version = flags[i].version /\ f.told = flags[i].told
  BY <1>5, Returned, FALSE \in BOOLEAN
<1> HIDE DEF f
<1>9. /\ DOMAIN flags' = DOMAIN flags /\ flags' = [j \in DOMAIN flags |-> flags'[j]]
      /\ flags'[i] = g /\ \A j \in DOMAIN flags : j # i => flags'[j] = gs[j]
  BY <1>1, <1>2, <1>7
<1>10. \A j \in DOMAIN flags : j # i =>
         Shows(flags[j], flags'[j]) /\ Settles(flags[j], flags'[j], NoOne)
  BY <1>7, <1>9
<1>11. \A b \in Clients : Undisturbed(b)
  BY <1>4, OthersUndisturbed DEF Undisturbed
<1>12. CASE taken
  <2> DEFINE h == ownflag(f, target, TRUE)
  <2>1. /\ h \in Flag /\ h.owner = target /\ h.dropper = NoOne
        /\ h.team = flags[i].team /\ h.version = flags[i].version
    BY <1>8, TRUE \in BOOLEAN, Owned
  <2>2. flags'[i] = Announced(h)
    BY <1>9, <1>12
  <2> HIDE DEF h
  <2>3. /\ flags'[i] \in Flag /\ Shows(flags[i], flags'[i])
        /\ flags'[i].owner = target /\ flags'[i].dropper = NoOne
    BY <1>5, <2>1, <2>2, AnnouncedShows
  <2>4. Moved
    BY <1>9, <1>10, <2>3 DEF Moved, Shows, Settles
  <2>5. DropperStays'
    <3> SUFFICES ASSUME NEW j \in DOMAIN flags, flags'[j].dropper # NoOne
                 PROVE  flags'[j].dropper \in Clients /\ ci'[flags'[j].dropper].connected
      BY <1>9 DEF DropperStays, Connected
    <3>1. j # i /\ flags'[j].dropper = flags[j].dropper
      BY <1>10, <2>3 DEF Settles
    <3>2. flags'[j].dropper \in Connected
      BY <1>1, <3>1 DEF FlagsInv, DropperStays
    <3> QED
      BY <1>4, <3>2 DEF Connected
  <2>6. ~Asks("unspectate") => Takes(target, flags[i])
    <3>1. c # NoOne /\ flags[i].owner = c
      BY <1>1, NobodyIsNoClient DEF Owns
    <3>2. ~Asks("unspectate") => Takes(c, flags[i])
      BY <1>1, <3>1 DEF FlagsInv, OwnersPlay
    <3> QED
      BY <1>1, <3>2 DEF Takes
  <2>7. ~Carries(target)
    BY <1>12
  <2> HIDE DEF taken, g
  <2>8. FlagsInv'
    BY <1>1, <1>4, <1>10, <1>11, <2>3, <2>4, <2>5, <2>6, <2>7, TakingHolds
  <2> QED
    BY <1>1, <1>4, <2>4, <2>8, MovedArePlaced, MovedGoOn, QuietHolds
<1>13. CASE ~taken
  <2>1. ~PassesFit
    BY <1>1, <1>13, PassedIsTaken
  <2>2. flags'[i] = f
    BY <1>9, <1>13
  <2>3. Announces(flags[i], flags'[i]) /\ Settles(flags[i], flags'[i], NoOne)
    BY <1>8, <2>2 DEF Announces, Settles
  <2>4. \A j \in DOMAIN flags :
            Announces(flags[j], flags'[j]) /\ Settles(flags[j], flags'[j], NoOne)
    BY <1>10, <2>3 DEF Shows
  <2> HIDE DEF taken, g
  <2>5. Moved
    BY <1>9, <2>4 DEF Moved, Settles
  <2>6. DropperStays'
    BY <1>1, <1>4, <2>4, <2>5, NobodyGoes
  <2>7. \A j \in DOMAIN flags : flags'[j].owner # NoOne => Undisturbed(flags'[j].owner)
    BY <1>11, <2>5 DEF Moved, Flag, Someone
  <2>8. FlagsInv'
    BY <1>1, <2>1, <2>4, <2>5, <2>6, <2>7, SettlingHolds
  <2> QED
    BY <1>1, <1>4, <2>5, <2>8, MovedArePlaced, MovedGoOn, QuietHolds
<1> QED
  BY <1>12, <1>13

-----------------------------------------------------------------------------
\* Steps of requests.

\* One client's requests change, and its record may.
LEMMA SendingHolds ==
  ASSUME IInv, mode' = mode, NEW c \in Clients, NEW q \in Seq(Sending),
         sent' = [sent EXCEPT ![c] = q], ci' \in Players, Placed(flags)', FlagsInv', FlagsGoOn,
         \A b \in Clients : b # c =>
            Calm(ci[b], ci'[b]) /\ (ci[b].connected => ci'[b].connected),
         ci'[c].connected, Timely(q, flags', ci'[c])
  PROVE  IInv'
<1>1. TypeInv /\ NothingLeftBehind /\ RequestsTimely
  BY DEF IInv
<1>2. sent'[c] = q /\ \A b \in Clients : b # c => sent'[b] = sent[b]
  BY <1>1 DEF TypeInv
<1>3. sent' \in [Clients -> Seq(Spawns \cup Takings)]
  BY <1>1 DEF TypeInv, Sending
<1>4. TypeInv'
  BY <1>1, <1>3 DEF TypeInv
<1>5. NothingLeftBehind'
  BY <1>1, <1>2 DEF NothingLeftBehind
<1>6. RequestsTimely'
  <2> SUFFICES ASSUME NEW b \in Clients PROVE Timely(sent'[b], flags', ci'[b])
    BY DEF RequestsTimely
  <2>1. CASE b = c
    BY <1>2, <2>1
  <2>2. CASE b # c
    <3>1. sent[b] \in Seq(Sending) /\ Timely(sent[b], flags, ci[b]) /\ sent'[b] = sent[b]
      BY <1>1, <1>2, <2>2 DEF TypeInv, Sending, RequestsTimely
    <3> QED
      BY <1>1, <2>2, <3>1, CalmTimely
  <2> QED
    BY <2>1, <2>2
<1> QED
  BY <1>4, <1>5, <1>6 DEF IInv

\* A player joins.
LEMMA ConnectHolds ==
  ASSUME IInv, mode' = mode, NEW c \in Clients, NEW team \in Teams, Connect(c, team)
  PROVE  IInv'
<1>1. TypeInv /\ FlagsInv /\ ~ci[c].connected /\ flags' = flags
  BY DEF IInv, Connect
<1>2. PICK state \in {"dead", "spectator"} :
         /\ ci' = [ci EXCEPT ![c] = [connected |-> TRUE, team |-> team, state |-> state,
                                     lastspawn |-> state = "dead",
                                     hasPassedFlag |-> FALSE]]
         /\ sent' = [sent EXCEPT ![c] = IF state = "dead" THEN <<Spawn>> ELSE <<>>]
  BY DEF Connect
<1> DEFINE r == [connected |-> TRUE, team |-> team, state |-> state,
                 lastspawn |-> state = "dead", hasPassedFlag |-> FALSE]
           q == IF state = "dead" THEN <<Spawn>> ELSE <<>>
<1>3. r \in Player /\ r.connected /\ ~Lives(r)
  BY DEF Player, Lives
<1>4. q \in Seq(Sending) /\ \A k \in DOMAIN q : q[k].kind # "take"
  <2>1. Spawn \in Sending /\ Spawn.kind = "spawn"
    BY DEF Sending, Spawns, Spawn
  <2> HIDE DEF r
  <2> QED
    BY <2>1
<1> HIDE DEF r, q
<1>5. ci' = [ci EXCEPT ![c] = r] /\ sent' = [sent EXCEPT ![c] = q]
  BY <1>2 DEF r, q
<1>6. /\ ci'[c] = r /\ ci' \in Players
      /\ \A b \in Clients : b # c => ci'[b] = ci[b]
  BY <1>1, <1>3, <1>5, OneChanged
<1>7. \A b \in Clients : b # c =>
        Calm(ci[b], ci'[b]) /\ (ci[b].connected => ci'[b].connected)
  BY <1>6 DEF Calm
<1>8. \A i \in DOMAIN flags : flags[i].owner # NoOne => Undisturbed(flags[i].owner)
  <2>1. \A i \in DOMAIN flags : flags[i].owner # NoOne =>
            flags[i].owner \in Clients /\ flags[i].owner # c
    BY <1>1 DEF TypeInv, Placed, Flag, Someone, FlagsInv, OwnersConnected
  <2> QED
    BY <1>6, <2>1, OthersUndisturbed
<1>9. \A b \in Clients : ci[b].connected => ci'[b].connected
  BY <1>1, <1>7
<1>10. Placed(flags)' /\ FlagsInv' /\ FlagsGoOn
  BY <1>1, <1>8, <1>9, StillFlagsHold
<1>11. Timely(q, flags', ci'[c])
  BY <1>4 DEF Timely
<1> QED
  BY <1>3, <1>4, <1>5, <1>6, <1>7, <1>10, <1>11, SendingHolds

\* Nothing happens but to requests.
LEMMA StillWorld ==
  ASSUME TypeInv, FlagsInv, mode' = mode, ci' = ci, flags' = flags
  PROVE  /\ Placed(flags)' /\ FlagsInv' /\ FlagsGoOn /\ ci' \in Players
         /\ \A b \in Clients : Calm(ci[b], ci'[b]) /\ (ci[b].connected => ci'[b].connected)
<1>1. \A b : Undisturbed(b)
  BY DEF Undisturbed
<1>2. /\ ci' \in Players
      /\ \A b \in Clients : Calm(ci[b], ci'[b]) /\ (ci[b].connected => ci'[b].connected)
  BY DEF TypeInv, Calm
<1> QED
  BY <1>1, <1>2, StillFlagsHold

\* A client asks for the flag it touches.
LEMMA TouchHolds ==
  ASSUME IInv, mode' = mode, NEW c \in Clients, NEW i \in Flags, Touch(c, i)
  PROVE  IInv'
<1>1. /\ TypeInv /\ FlagsInv /\ ci[c].connected /\ i \in DOMAIN flags
      /\ ci' = ci /\ flags' = flags
      /\ sent[c] \in Seq(Sending) /\ Timely(sent[c], flags, ci[c])
  BY DEF IInv, Touch, Connected, TypeInv, RequestsTimely, Sending
<1> DEFINE e == [kind |-> "take", flag |-> i, version |-> flags[i].version,
                 seen |-> flags[i].told]
<1>2. flags[i].version \in Nat /\ flags[i].told \in Sight
  BY <1>1 DEF TypeInv, Placed, Flag
<1>3. e \in Takings /\ FreshIn(e, flags)
  BY <1>1, <1>2 DEF Takings, FreshIn
<1>4. sent' = [sent EXCEPT ![c] = Append(sent[c], e)]
  BY <1>1 DEF Touch, IInv, TypeInv
<1> HIDE DEF e
<1>5. Append(sent[c], e) \in Seq(Sending) /\ Timely(Append(sent[c], e), flags, ci[c])
  BY <1>1, <1>3, AppendTimely
<1>6. /\ Placed(flags)' /\ FlagsInv' /\ FlagsGoOn /\ ci' \in Players
      /\ \A b \in Clients : Calm(ci[b], ci'[b]) /\ (ci[b].connected => ci'[b].connected)
  BY <1>1, StillWorld
<1> QED
  BY <1>1, <1>4, <1>5, <1>6, SendingHolds

\* A dead player asks for a life.
LEMMA TrySpawnHolds ==
  ASSUME IInv, mode' = mode, NEW c \in Clients, TrySpawn(c)
  PROVE  IInv'
<1>1. /\ TypeInv /\ FlagsInv /\ ci[c].connected /\ ci[c].state = "dead"
      /\ flags' = flags /\ sent' = [sent EXCEPT ![c] = Respawned(c)]
  BY DEF IInv, TrySpawn, Connected
<1> DEFINE r == [ci[c] EXCEPT !.lastspawn = TRUE]
<1>2. ci' = [ci EXCEPT ![c] = r]
  BY <1>1 DEF TrySpawn, TypeInv, Players
<1>3. ci[c] \in Player
  BY <1>1, ConnectedPlays
<1>4. /\ r \in Player /\ r.connected = ci[c].connected /\ r.state = ci[c].state
      /\ r.team = ci[c].team /\ r.hasPassedFlag = ci[c].hasPassedFlag
  BY <1>3 DEF Player
<1> HIDE DEF r
<1>5. /\ ci'[c] = r /\ ci' \in Players
      /\ \A b \in Clients : b # c => ci'[b] = ci[b]
  BY <1>1, <1>2, <1>4, OneChanged
<1>6. Respawned(c) \in Seq(Sending) /\ NoneCounts(Respawned(c))
  BY <1>1, RespawnedCountsNone
<1>7. ~Lives(ci'[c])
  BY <1>1, <1>4, <1>5 DEF Lives
<1>8. Timely(Respawned(c), flags', ci'[c])
  BY <1>6, <1>7, NoneCountsTimely
<1>9. \A b \in Clients : b # c =>
        Calm(ci[b], ci'[b]) /\ (ci[b].connected => ci'[b].connected)
  BY <1>5 DEF Calm
<1>10. \A b \in Clients : Undisturbed(b)
  BY <1>4, <1>5, OthersUndisturbed DEF Undisturbed
<1>11. \A i \in DOMAIN flags : flags[i].owner # NoOne => Undisturbed(flags[i].owner)
  BY <1>1, <1>10 DEF TypeInv, Placed, Flag, Someone
<1>12. \A b \in Clients : ci[b].connected => ci'[b].connected
  BY <1>4, <1>5
<1>13. Placed(flags)' /\ FlagsInv' /\ FlagsGoOn
  BY <1>1, <1>11, <1>12, StillFlagsHold
<1> QED
  BY <1>1, <1>5, <1>6, <1>8, <1>9, <1>12, <1>13, SendingHolds

\* The oldest request arrives: it is honoured, gives life, or comes too late.
LEMMA ArriveHolds ==
  ASSUME IInv, mode' = mode, NEW c \in Clients, Arrive(c)
  PROVE  IInv'
<1>1. /\ TypeInv /\ FlagsInv /\ NothingLeftBehind /\ sent[c] # <<>>
      /\ sent[c] \in Seq(Sending) /\ Timely(sent[c], flags, ci[c])
  BY DEF IInv, Arrive, TypeInv, RequestsTimely, Sending
<1>2. ci[c].connected /\ sent' = [sent EXCEPT ![c] = Tail(sent[c])]
  BY <1>1 DEF NothingLeftBehind, Arrive, TypeInv
<1> DEFINE r == Head(sent[c])
<1>3. \/ Take(c, r)
      \/ /\ SpawnAnswered(c, r)
         /\ ci' = [ci EXCEPT ![c].state = "alive", ![c].lastspawn = FALSE]
         /\ UNCHANGED <<flags, scores, over>>
      \/ UNCHANGED <<ci, flags, scores, over>>
  BY DEF Arrive
<1>4. r \in Sending
  BY <1>1, HeadTailProperties
<1> HIDE DEF r
<1>5. ASSUME Placed(flags)', FlagsInv', FlagsGoOn, ci' \in Players,
             \A d \in Clients : Calm(ci[d], ci'[d]) /\ (ci[d].connected => ci'[d].connected)
      PROVE  IInv'
  <2>1. Tail(sent[c]) \in Seq(Sending) /\ Timely(Tail(sent[c]), flags', ci'[c])
    BY <1>1, <1>5, TailTimely
  <2> QED
    BY <1>2, <1>5, <2>1, SendingHolds
<1>6. CASE Take(c, r)
  BY <1>1, <1>5, <1>6, TakeHolds
<1>7. CASE UNCHANGED <<ci, flags, scores, over>>
  BY <1>1, <1>5, <1>7, StillWorld
<1>8. CASE /\ SpawnAnswered(c, r)
           /\ ci' = [ci EXCEPT ![c].state = "alive", ![c].lastspawn = FALSE]
           /\ UNCHANGED <<flags, scores, over>>
  <2>1. Expects(ci[c]) /\ r = Spawn
    <3>1. r.kind = "spawn" /\ r.current = TRUE
      BY <1>4, <1>8, KindsDiffer DEF SpawnAnswered, Spawns
    <3>2. r = [kind |-> "spawn", current |-> TRUE]
      BY <1>4, <3>1, KindsDiffer DEF Spawns
    <3>3. r = Spawn
      BY <3>2 DEF Spawn
    <3> QED
      BY <1>2, <1>8, <3>3 DEF SpawnAnswered, Expects
  <2> DEFINE s == [ci[c] EXCEPT !.state = "alive", !.lastspawn = FALSE]
  <2>2. ci' = [ci EXCEPT ![c] = s] /\ flags' = flags
    BY <1>1, <1>8 DEF TypeInv, Players
  <2>3. ci[c] \in Player
    BY <1>1, <1>2, ConnectedPlays
  <2>4. /\ s \in Player /\ s.connected = ci[c].connected /\ s.state = "alive"
        /\ s.team = ci[c].team /\ s.hasPassedFlag = ci[c].hasPassedFlag
    BY <2>3 DEF Player
  <2> HIDE DEF s
  <2>5. /\ ci'[c] = s /\ ci' \in Players
        /\ \A b \in Clients : b # c => ci'[b] = ci[b]
    BY <1>1, <2>2, <2>4, OneChanged
  <2>6. \A b \in Clients : b # c =>
          Calm(ci[b], ci'[b]) /\ (ci[b].connected => ci'[b].connected)
    BY <2>5 DEF Calm
  <2>7. \A b \in Clients : ci[b].connected => ci'[b].connected
    BY <2>4, <2>5
  <2>8. ASSUME NEW i \in DOMAIN flags, flags[i].owner # NoOne
        PROVE  Undisturbed(flags[i].owner)
    <3>1. flags[i].owner \in Clients
      BY <1>1, <2>8 DEF TypeInv, Placed, Flag, Someone
    <3>2. CASE flags[i].owner # c
      BY <2>5, <3>1, <3>2, OthersUndisturbed
    <3>3. CASE flags[i].owner = c
      <4>1. ~Asks("unspectate") => ci[c].state = "alive"
        BY <1>1, <2>8, <3>3 DEF FlagsInv, OwnersPlay, Alive
      <4> QED
        BY <2>4, <2>5, <3>3, <4>1 DEF Undisturbed
    <3> QED
      BY <3>2, <3>3
  <2>9. Placed(flags)' /\ FlagsInv' /\ FlagsGoOn
    BY <1>1, <2>2, <2>7, <2>8, StillFlagsHold
  <2>10. Tail(sent[c]) \in Seq(Sending) /\ Timely(Tail(sent[c]), flags', ci'[c])
    BY <1>1, <2>1, <2>9, TailTimely DEF r
  <2> QED
    BY <1>2, <2>5, <2>6, <2>7, <2>9, <2>10, SendingHolds
<1> QED
  BY <1>3, <1>6, <1>7, <1>8

-----------------------------------------------------------------------------
\* changemap: all requests of the old match are barred in the new one.
LEMMA changemapHolds ==
  ASSUME IInv, changemap
  PROVE  IInv'
<1>1. TypeInv /\ NothingLeftBehind /\ sent \in [Clients -> Seq(Sending)]
  BY DEF IInv, TypeInv, Sending
<1>2. PICK S \in {{}} \cup Placings(mode') : flags' = [i \in S |-> Spawned(FlagTeam[i], mode')]
  BY DEF changemap
<1>3. S \in SUBSET Flags /\ (mode' = "hold" => \A i, j \in S : i = j)
  BY DEF Placings
<1>4. Placed(flags)' /\ FlagsInv'
  BY <1>2, <1>3, UntouchedFlags
<1>5. /\ mode' \in Modes
      /\ ci' = [c \in Clients |-> IF c \in Connected THEN Mapchanged(c) ELSE ci[c]]
      /\ sent' = [c \in Clients |->
                     Outdated(IF c \in Connected /\ ci[c].state # "spectator"
                              THEN Respawned(c) ELSE sent[c])]
  BY DEF changemap
<1>6. ASSUME NEW c \in Clients
      PROVE  /\ ci'[c] \in Player \cup {Free} /\ ci'[c].connected = ci[c].connected
             /\ sent'[c] \in Seq(Sending)
             /\ ~ci[c].connected => sent'[c] = <<>>
             /\ Timely(sent'[c], flags', ci'[c])
  <2>1. CASE ~ci[c].connected
    <3>1. ci'[c] = ci[c] /\ sent[c] = <<>> /\ sent'[c] = Outdated(sent[c])
      BY <1>1, <1>5, <2>1 DEF Connected, NothingLeftBehind
    <3>2. sent'[c] = <<>> /\ sent'[c] \in Seq(Sending)
      BY <1>1, <3>1, OutdatedKeeps
    <3> QED
      BY <1>1, <2>1, <3>1, <3>2 DEF TypeInv, Players, Timely
  <2>2. CASE ci[c].connected
    <3>1. ci[c] \in Player /\ c \in Connected
      BY <1>1, <2>2, ConnectedPlays DEF Connected
    <3>2. ci'[c] = [ci[c] EXCEPT !.state = IF ci[c].state = "spectator" THEN "spectator" ELSE "dead",
                                 !.lastspawn = ci[c].state # "spectator"]
      BY <1>5, <3>1 DEF Mapchanged, Player
    <3>3. /\ ci'[c] \in Player /\ ci'[c].connected = ci[c].connected /\ ~Lives(ci'[c])
          /\ ci[c].state = "spectator" => ~Expects(ci'[c])
      <4> DEFINE watches == ci[c].state = "spectator"
      <4> DEFINE kind == IF watches THEN "spectator" ELSE "dead"
      <4> DEFINE asks == ~watches
      <4>1. kind \in {"spectator", "dead"} /\ (watches => kind = "spectator") /\ asks \in BOOLEAN
        OBVIOUS
      <4>2. ci'[c] = [ci[c] EXCEPT !.state = kind, !.lastspawn = asks]
        BY <3>2
      <4> HIDE DEF watches, kind, asks
      <4>3. /\ ci'[c] \in Player /\ ci'[c].connected = ci[c].connected
            /\ ci'[c].state = kind
        BY <3>1, <4>1, <4>2 DEF Player
      <4>4. ~Lives(ci'[c])
        BY <4>1, <4>3 DEF Lives
      <4>5. watches => ~Expects(ci'[c])
        BY <4>1, <4>3 DEF Expects
      <4> QED
        BY <4>3, <4>4, <4>5 DEF watches
    <3>4. CASE ci[c].state = "spectator"
      <4>1. sent'[c] = Outdated(sent[c])
        BY <1>5, <3>4
      <4> QED
        BY <1>1, <2>2, <3>3, <3>4, <4>1, OutdatedKeeps, NoneCountsTimely
    <3>5. CASE ci[c].state # "spectator"
      <4>1. sent'[c] = Outdated(Respawned(c))
        BY <1>5, <3>1, <3>5
      <4>2. Respawned(c) \in Seq(Sending) /\ NoneCounts(Respawned(c))
        BY <1>1, RespawnedCountsNone
      <4> QED
        BY <2>2, <3>3, <4>1, <4>2, OutdatedKeeps, NoneCountsTimely
    <3> QED
      BY <3>4, <3>5
  <2> QED
    BY <2>1, <2>2
<1>7. ci' \in Players
  BY <1>5, <1>6 DEF Players
<1>8. sent' \in [Clients -> Seq(Spawns \cup Takings)]
  BY <1>5, <1>6 DEF Sending
<1>9. NothingLeftBehind' /\ RequestsTimely'
  BY <1>6 DEF NothingLeftBehind, RequestsTimely
<1> QED
  BY <1>4, <1>5, <1>7, <1>8, <1>9 DEF IInv, TypeInv

\* Every step keeps the invariant.
LEMMA NextInv == IInv /\ [Next]_vars => IInv'
<1> SUFFICES ASSUME IInv, [Next]_vars PROVE IInv'
  OBVIOUS
<1>1. ASSUME Play, mode' = mode PROVE IInv'
  <2>1. ASSUME NEW c \in Clients, NEW team \in Teams, Connect(c, team) \/ ChangeTeam(c, team)
        PROVE  IInv'
    BY <1>1, <2>1, ConnectHolds, ChangeTeamHolds
  <2>2. ASSUME NEW c \in Clients, NEW i \in Flags,
               Touch(c, i) \/ \E d \in Clients : Pass(c, d, i)
        PROVE  IInv'
    BY <1>1, <2>2, TouchHolds, PassHolds
  <2>3. ASSUME NEW c \in Clients, NEW d \in Clients, Die(c, d) PROVE IInv'
    BY <1>1, <2>3, DieHolds
  <2>4. ASSUME NEW c \in Clients, parseflags(c) \/ Arrive(c) \/ TrySpawn(c) \/ TryDrop(c)
        PROVE  IInv'
    BY <1>1, <2>4, parseflagsHolds, ArriveHolds, TrySpawnHolds, TryDropHolds
  <2>5. ASSUME NEW c \in Clients, Spectate(c) \/ Unspectate(c) \/ clientdisconnect(c)
        PROVE  IInv'
    BY <1>1, <2>5, SpectateHolds, UnspectateHolds, clientdisconnectHolds
  <2>6. ASSUME NEW i \in Flags, Reset(i) \/ Reappear(i) \/ Held(i) PROVE IInv'
    BY <1>1, <2>6, ResetHolds
  <2>7. CASE TimeUp
    <3>1. /\ Placed(flags)' /\ FlagsInv' /\ FlagsGoOn /\ ci' \in Players
          /\ \A b \in Clients : Calm(ci[b], ci'[b]) /\ (ci[b].connected => ci'[b].connected)
      BY <1>1, <2>7, StillWorld DEF IInv, TimeUp
    <3> QED
      BY <1>1, <2>7, <3>1, QuietHolds DEF TimeUp
  <2> QED
    BY <1>1, <2>1, <2>2, <2>3, <2>4, <2>5, <2>6, <2>7 DEF Play
<1>2. CASE UNCHANGED vars
  <2>1. mode' = mode /\ ci' = ci /\ flags' = flags /\ sent' = sent
    BY <1>2 DEF vars
  <2>2. /\ Placed(flags)' /\ FlagsInv' /\ FlagsGoOn /\ ci' \in Players
        /\ \A b \in Clients : Calm(ci[b], ci'[b]) /\ (ci[b].connected => ci'[b].connected)
    BY <2>1, StillWorld DEF IInv
  <2> QED
    BY <2>1, <2>2, QuietHolds
<1> QED
  BY <1>1, <1>2, changemapHolds DEF Next

\* All that the theorems below rest on holds in every state.
THEOREM Invariance == Spec => []IInv
<1> QED
  BY InitInv, NextInv, PTL DEF Spec

\* takeflag, died, leavegame: unless somebody who plays is unspectated, whoever
\* carries a flag is connected and alive, and carries only one.
THEOREM NoFlagOfTheDead ==
  ASSUME ~Asks("unspectate") PROVE Spec => []CarriersLive
<1>1. IInv => CarriersLive
  BY DEF IInv, FlagsInv, OwnersPlay, OneFlagEach, CarriersLive
<1> QED
  BY <1>1, Invariance, PTL

\* takeflag, dropflag, returnflag and all that calls them: what clients were told
\* last about a flag is true, where passed flags find hands free to take them.
THEOREM NothingMovesUntold ==
  ASSUME PassesFit PROVE Spec => []ClientsKnow
<1>1. IInv => ClientsKnow
  BY DEF IInv, FlagsInv
<1> QED
  BY <1>1, Invariance, PTL

\* takeflag: a request that is honoured saw the flag as it is, in this match.
THEOREM RequestsSawTheFlag ==
  ASSUME PassesFit PROVE Spec => []NothingStaleHonoured
<1>1. IInv => NothingStaleHonoured
  <2> SUFFICES ASSUME IInv, NEW c \in Clients, sent[c] # <<>>, Honoured(c, Head(sent[c]))
               PROVE  Head(sent[c]).seen = Where(flags[Head(sent[c]).flag])
    BY DEF NothingStaleHonoured
  <2> DEFINE r == Head(sent[c])
  <2>1. sent[c] \in Seq(Sending) /\ Timely(sent[c], flags, ci[c])
    BY DEF IInv, TypeInv, RequestsTimely, Sending
  <2>2. 1 \in DOMAIN sent[c] /\ sent[c][1] = r
    BY <2>1, EmptySeq, LenProperties
  <2>3. /\ r.kind = "take" /\ Alive(c) /\ r.flag \in DOMAIN flags
        /\ flags[r.flag].version = r.version
    BY DEF Honoured
  <2> HIDE DEF r
  <2>4. FreshIn(r, flags)
    BY <2>1, <2>2, <2>3 DEF Timely, Barred, Lives, Alive, Connected
  <2>5. r.seen = flags[r.flag].told
    BY <2>3, <2>4 DEF FreshIn
  <2>6. flags[r.flag].told = Where(flags[r.flag])
    BY <2>3 DEF IInv, FlagsInv, ClientsKnow
  <2> QED
    BY <2>5, <2>6 DEF r
<1> QED
  BY <1>1, Invariance, PTL

\* leavegame and died: the one who dropped a flag is still there.
THEOREM NoDropperLeft == Spec => []DropperStays
<1>1. IInv => DropperStays
  BY DEF IInv, FlagsInv
<1> QED
  BY <1>1, Invariance, PTL

\* dopassflagsequence and scoreflag: whoever carries a passed flag is marked.
THEOREM PassedAreMarked == Spec => []PassedIsMarked
<1>1. IInv => PassedIsMarked
  BY DEF IInv, FlagsInv
<1> QED
  BY <1>1, Invariance, PTL
=============================================================================
