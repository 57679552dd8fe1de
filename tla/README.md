# A TLA+ development of QServ

QServ is a dedicated server for the first-person shooter Cube 2: Sauerbraten: the
game server of the original (`src/fpsgame`, `src/engine`), extended with chat commands
(`src/mod`), an IRC bot (`src/ircbot`), statistics in SQLite and anti-cheat checks.

This directory holds TLA+ modules that model the server's own logic, configurations that
check them with TLC on small instances, and theorems that TLAPS proves for every instance.

## The system

One process, one thread. The main loop (`src/engine/server.cpp`, `serverslice`) polls
ENet, hands connections, packets and disconnections to the game (`clientconnect`,
`parsepacket`, `clientdisconnect` in `src/fpsgame/server.cpp`), and calls `serverupdate`
once per turn. Every handler runs to its end: a handler is one step, and what is hard
is the order in which handlers of different clients, the clock, the authentication
server and deferred work meet.

| component | state | operations | what makes it correct |
|---|---|---|---|
| Sessions (`server.cpp`, `QCom.cpp`) | `connects`, `clients`, privileges, `mastermode`, `mastermask`, `allowedips`, pause, spectator locks | connect, claim, give, take, share, kick, ban, spectate, disconnect | a restriction is always held by somebody who can lift it; locks and bans hold whatever route is tried; nobody gains rights by a sequence of legal requests |
| Ban list (`server.cpp`) | `bannedips`, sorted by expiry; `ipbans` and its file | `addban`, expiry in `serverupdate`, `unkickban`, `clearbans` | no ban outlives its time, none ends early, unban removes the one that was listed |
| Authentication (`server.cpp`, `engine/server.cpp`) | one pending challenge per client, the link to the master server | `tryauth`, `answerchallenge`, replies, loss of the link, time-outs | a reply settles the request it answers; nobody connects or is kicked by somebody else's answer |
| Bots (`aiman.h`, `server.cpp`) | `bots`, owner of each bot, `ci->bots` of each client, bot limit and balance | add, delete, reassign, balance, clear | every bot has a connected owner that lists it; the numbers follow limit and balance |
| Capture the flag (`ctf.h`) | flags, owners, drop counters, invisible flags, scores | take, drop, return, score, pass, leave | one owner per flag, no flag lost, a score per capture |
| Capture, collect (`capture.h`, `collect.h`) | bases with counts of owners and enemies; tokens by dropper, scores | enter, leave, steal, occupy, drop, take, deposit, expire | nobody is counted in a base who is not there; everybody knows whose it is; tokens stay within their limits |
| Statistics (`server.cpp`) | per client counters, `stats_saved`, saved scores, database rows | `savestats`, `savescore`, `restorescore`, leaderboard commands | what is earned before a save or the end of the match is stored exactly once |
| Match (`server.cpp`) | clock, intermission, votes, rotation, overtime | vote, change map, intermission, timeouts | a match whose time is up gives way; votes are of this match; an intermission lasts its time and no overtime ends it |
| Events and combat (`server.cpp`) | event queue per client, life sequence, projectiles, health | shot, explode, hit, die, spawn | a shot of an earlier life does not count; damage needs a projectile |
| Items (`server.cpp`) | spawn timers of items | pickup, respawn | one pickup per spawn |
| Flag runs (`server.cpp`) | best times, kick queue | record, kick | records only improve |
| Demos (`server.cpp`) | recorder, stored demos, playback | record, list, send, clear | a demo being sent is not freed |
| World state relay (`server.cpp`) | buffers shared with ENet packets | build, send, flush, release | a buffer lives as long as its packets; everybody is told everything of the others, once and in time |
| Chat commands, mutes, spam (`QServ.cpp`, `QCom.cpp`) | command table, muted addresses | dispatch, mute, unmute | a command runs only for those whose rank it asks for |
| IRC bot, GeoIP, configuration interpreter, engine, master server program | sockets, data bases, variables | connect, look up, interpret | not looked at: input, output and shared code |

Interactions: all components share the two lists `connects` and `clients` and the client
numbers, which are slots of ENet peers and are used again as soon as a peer has left.
`clientdisconnect` reaches into every component (privileges, flags, bots, statistics,
pending authentication); `changemap` resets most of them; `serverupdate` runs whatever was
deferred. Replies of the authentication server, answers to spawn states, requests to take
a flag, shots and hits arrive when the state they were made for may be gone.

Hard behaviours, in the order in which they were modelled:

- *interleaving and order of handlers*: privileges and departures (Sessions), departures and
  owners of bots (Bots), death, passing and departure of carriers (CtfFlags), events of one
  update (Combat), votes and ends of matches (Match), ways out of a base (Modes), owners of
  bots, map changes and the turns of the relay (Relay);
- *late messages*: flags (CtfFlags), shots, hits, answers to spawns (Combat), answers of the
  authentication server and of clients (AuthExchange);
- *numbers used again*: `authkickvictim` (AuthExchange), `dropper` (CtfFlags, Modes), targets of
  hits and `kick_queue` (Combat), votes (Match);
- *failure*: loss of the master link, full buffers, time-outs (AuthExchange), a locked
  data base (StatsStore), a transfer that is half done (CtfFlags), clients that ENet has given
  up before the server hears of it (Relay);
- *limits*: a clock of 32 bits (BanList), projectiles and events (Combat), tokens (Modes), the
  size of packets (Relay).

## Modules

Handlers never interleave, so each is one action; parameters of messages are chosen with
`\E` in the actions. Where a module has a bound it is a named constant. A definition whose
comment begins with "Faulty:" is a plausible mistake in the definition after it and is not
used by the specification; it shows what a property can detect.

| module | models | is composed of |
|---|---|---|
| `Sessions` | slots from connection to departure, claiming, giving, taking and revoking privileges, master modes, `allowedips`, pause, spectators and spectator locks, kicks, timed and permanent bans, limits on team kills | |
| `Sessions_proofs` | theorems about `Sessions` | EXTENDS `Sessions` |
| `BanSpec` | what a list of timed bans promises: a set of bans, each lifted or ending on time | |
| `BanList` | `bannedips` sorted by expiry with a clock that wraps | INSTANCE `BanSpec` (refinement mapping: the list becomes the set of its bans) |
| `StatsStore` | counters, `stats_saved`, saved scores and the table of totals through departures, map changes, intermissions, shutdown | |
| `CtfFlags` | `ctf.h` for ctf, protect and hold, with requests in flight | |
| `CtfFlags_proofs` | theorems about `CtfFlags` | EXTENDS `CtfFlags` |
| `Bots` | `aiman.h` and the automatic bots, with the loops that disconnect clients | |
| `Lists_proofs` | theorems about `BanList`, among them the refinement, and about `Bots` | EXTENDS `BanList` and `Bots` |
| `AuthExchange` | challenges of clients, the queue and the buffers of the link to the master server | |
| `AuthExchange_proofs` | theorems about `AuthExchange` | EXTENDS `AuthExchange` |
| `Combat` | event queues, spawn protocol, lives, projectiles, the queue of kicks, map changes | |
| `Combat_proofs` | theorems about `Combat` | EXTENDS `Combat` |
| `Match` | `gamelimit`, intermission, overtime, votes, rotation, pauses, the commands that end a match | |
| `Match_proofs` | theorems about `Match` | EXTENDS `Match` |
| `Relay` | positions and messages that wait, world states, the packets ENet holds | |
| `StatsRelay_proofs` | theorems about `StatsStore` and about `Relay` | EXTENDS `StatsStore` and `Relay` |
| `Modes` | `capture.h` and `collect.h`, and where the server calls them | |
| `Modes_proofs` | theorems about `Modes` | EXTENDS `Modes` |
| `MC...` | the instance of each module that TLC checks | EXTENDS the module |

How state and actions correspond to the code:

- `Sessions`: `ci` has a record for each slot: `conn` says whether the client is in
  `connects` or in `clients`, the other fields bear the names of those of `clientinfo`.
  `bannedips`, `ipbans`, `allowedips` and `lockedSpecIPs` are sets of addresses. `Connect`
  is `clientconnect` with `allowconnect` and `connected`; `Departure` is what
  `clientdisconnect`, `setmaster` and `noclients` do together, for one client or for
  all those a kick, a ban or a check of the lists disconnects. The users' `Requests` are a
  constant, so that a run can leave out kinds of request that do not concern it.
- `BanList`: `now` is the real time, `totalmillis` what the code sees of it. `expire` is
  stored as the code stores it; `ends` is when the ban should end and used only by
  properties and by the refinement mapping.
- `StatsStore`: `frags` stands for three counters that are saved alike. `Frag` is whatever makes
  one of them grow (`dodamage`, `suicide`, a flag), in a match or in an intermission. `earned` is
  the sum of all that was ever earned, `late` what of it came when its player had been saved
  already or in an intermission, and `lapsed` says that there was another reason to lose something
  (somebody watches, a cheater, a locked table, a match that ended by its time or in its
  middle). None of the three is in the code.
- `CtfFlags`: `flags[i]` has the fields of `flag`, with times reduced to whether they run.
  `sent[c]` is the queue of requests of `c` that have not arrived. `told` is what the
  clients were told last, `passed` how the owner came by the flag.
- `Bots`: `ai` holds `clients`, `bots` and the lists of bots of the clients, exactly in their
  order, as the choice of an owner depends on it; the functions of `aiman.h` are operators
  from one such record to the next. `walk` is the index of the loops in `serverupdate` and
  `kickclients` that call `disconnect_client`.
- `AuthExchange`: `challenges` are those a client has to answer, `masterout` and `masterin`
  the two directions of the link, `asked` who made each request (not in the code). What the
  master server does is the external action `Reply`.
- `Combat`: `ci[c].events` is the queue of `c`; `Due` is how many of its events a flush takes
  and `flush` what each does. A client shoots as the life it takes itself for (`plays`),
  at any life it has heard of (`lives`). `happened` records the shots, hits and spawns
  of a step for the properties, together with the life that was meant and the one it met.
- `Match`: a game is a map with its mode. Time runs in units that divide the length of a match,
  of overtime and of an intermission. `serverupdate` is one turn: the clock, `checkintermission`
  and, after the intermission, `checkvotes(true)`. `changemap` gets the clients as they are at
  that moment in the handler, as `connected`, `unspectate` and `vote` all may call it.
  `cast` tells whether a vote was made in this match by this client (not in the code).
- `Relay`: an item is a position or a message and has size 1. `addItems` fills a chunk of the
  buffer and remembers the part of each client, `sendChunk` makes the packets, to each client
  the window in the doubled chunk without its part. `wire` is what ENet holds: a set for
  channel 0, which loses and reorders, a sequence for channel 1. `disconnected` is `clientdisconnect`
  with `removeai`. `Release` and `GiveUp` are external.
- `Modes`: `bases[i]` has the fields of `baseinfo`, and `told`, what the last `N_BASEINFO` said.
  `movebases` is the code's, with the base a client stands in as a set (`Spot`, empty in a game
  clip). When the bases become known, any team with players in a base may be the first that
  `parsebases` lets enter, as the order of `clients` is not modelled. `tokens[d]` counts the tokens that `d` has dropped by kind, as only their number
  matters; which of them are evicted is a choice. `over` says that the clock has reached `gamelimit`: the time is up, or
  `#intermission` or `#mapsucks` have set the limit to the clock (`TimeUp`). `movebases` returns early then, until
  `checkintermission` begins the intermission (`interm`) or an overtime. `ghosts` has the bases in which a player was
  forgotten (not in the code).

`Combat` and `CtfFlags` both have the spawn protocol. `CtfFlags` needs only whether an answer
is for the latest spawn state, `Combat` has the numbers and shows that comparing them tells.
`Match` has what ends a match and what follows, `StatsStore` what that saves.
`Sessions` bans and expires as a set, which `BanList` implements. `AuthExchange` abstracts
from what a privilege is and `Sessions` from how it was proved.

## What the runs check

| run | question | states |
|---|---|---|
| `privileges` | Is a locked server or a paused game always in the hands of somebody, and no admission left over, with several masters, keys, passwords, permanent bans and pauses for admins only? | 3 slots, 2 addresses |
| `bans` | Who is kicked and banned, who is spared, and do locks hold, with admins, invisible admins, kicks by key and by limits on team kills? | 2 slots, 2 addresses |
| `banlist` | Do insertion by expiry and expiry at the head end every ban exactly on time? | 2 addresses, 3 bans, 8 units of time |
| `kept` | Without a recorded reason to lose something, does all that was earned in time reach the table, and nothing twice? | 2 clients, 4 frags |
| `timeup` | (violated) Is everything earned kept when a match ends by its time? | |
| `ctf` | One living carrier for each flag, clients that know where the flags are, late requests refused, droppers forgotten, passed flags marked | 2 clients, 2 flags, 3 changes of flags in a match, 3 modes |
| `bots` | Has every bot one connected owner that lists it and may run it? Are bots gone with the last client? | 3 clients, 2 bots |
| `auth` | Is an answer for the request it belongs to, a victim the one that was named, a pending request awaited, and does connecting end? | 2 client numbers, 3 requests |
| `combat` | Does a hit meet the life it was aimed at, a shot come from the life that fired it, a life end once, an explosion count once? | 2 clients, 3 lives each, 3 events or moves |
| `match` | Are votes of this match and of who is there, is no time left or given once the intermission has begun, and does a match whose time is up give way? | 2 clients, 3 games |
| `relay` | Do buffers live as long as their packets, and is everybody told everything of the others, once, reliably where it has to be, and before the map changes? | 2 clients, 1 bot, packets of 1 and 2 |
| `modes` | Is nobody counted in a base who is not there, but for the ways of forgetting that are recorded, is everybody told whose it is, and are there no more tokens than the limits allow? | 2 clients, 2 teams, maps of 1 and 2 bases |

The violated run shows a disagreement between the code and what its documentation promises
("Persistent SQLite-backed player statistics", `readme.md:22`): `saveallstats` is called by
`startintermission` only. When the time of a match is up, `serverupdate` calls
`checkintermission` itself, and `changemap` resets the counters. TLC's trace is just that: a client
connects, earns, the time is up (`checkintermission`), the map changes, and the table is empty.
`timeup` leaves out changes of the map in the middle of a match, which lose the counters too; `kept` has
them (`"midmatch"`), as a reason in `lapsed`.

### Bounds, and why they are enough

Two clients are enough for every conflict of `CtfFlags`, `AuthExchange`, `StatsStore` and
`Combat`, which are between one client and another or a client and the next one in its slot;
slots are used again in all of them. `Sessions` needs a third (who is left when a master is
kicked by another) and `Bots` too (one leaves, one takes its bots, one is neither).
Two addresses tell a neighbour on the same address from the others. In `bans` nobody asks for
the mode veto, which differs from open in who may change the map only; `privileges` has it. Two names and three
requests let an old request, a new one of the same client and one of another client be
pending. Three changes of flags (two in protect) cover take, drop, take and take, pass, score; the run was
also made with the properties' faulty variants, each of which is detected in this bound.
`Combat` counts three inputs (shots, explosions, suicides, departures, moves, map changes):
launch, explosion and death of the sender, or two shots at one target, or a shot, a map change
and a departure; two arrivals, two spawns of each client and one hit that waits go with them, and
the clock is not counted. Lives start at 127 so that the number wraps
at the first spawn, and the limits on projectiles and events are 1 instead of 8 and 100 so
that they are reached; with the limit of 1 the queue has up to two events, as the test in
`addevent` allows one more than it says. `MaxSpawns` is positive and below 128 (`CombatAssumption`): after
128 spawns of one target while one hit waits, the hit would be taken for a new one. In
`BanList` the clock wraps at 32 instead of 2^32 and does not get there (`NoWrap`).
Symmetry is used for sets of model values that the modules treat alike, and not in `auth`,
which checks liveness.

`Match` has two clients, one of whom may be master, and three games: two that are timed (one
of them with flags) and one that is not. A match of 2 units, an overtime of 1 and an
intermission of 1 are enough for a vote before, in and after each of them. `Relay` has two
items that wait at a time, one change of map and two buffers in use, so that an item meets
a map change, a departure and a packet that has not left; packets of 1 and of 2 make a world
state fit in one chunk and need two. In `Modes` the limits are 3 and 2 instead of 28 and 14 for
an occupation, 1 for tokens, 2 for the score; `Visited` lets only one of two bases be walked to,
so that it can be lost and taken again without ending the match; a map with one base ends it.

Deadlock is checked except in `combat`: there the bounds stop a run when all inputs are used
and everybody has left.

### Fairness

`AuthExchange` has the liveness property `ConnectingEnds`: a connection that has not been
admitted is admitted or dropped. Its `FairSpec` is weakly fair to `Timeout(c)` alone, for
`serverupdate` looks at every connection in each turn of the main loop, also in a pause.
`Match` has `MatchGivesWay`: a match whose time is up gives way to an overtime or another match,
unless it is paused or everybody leaves. Its `FairSpec` is weakly fair to `serverupdate` alone, which the
main loop calls in every turn. Nothing is assumed of clients, of the master server or of the
network. Elsewhere nothing has to happen: clients may be silent and a paused server stays
paused.

## What is proved

The proofs hold for every value of the constants that satisfies the named assumptions.

`Sessions_proofs` (assuming `ConfigAssumption`, the types of the configuration):
`TypeCorrect`, `MastermodeIsHeld`, `PauseIsHeld`, `NoStaleAdmission`, `LockIsKept`,
`EmptyingClears` and `AdminsAreNamed`; the last two are about steps (`EmptyingClearsBans`, `AdminsStay`). All
follow from one inductive invariant, `IInv`: the five properties and two facts they lean on.
`NoInvAdmins` says that nobody is an invisible admin: their departure skips
`setmaster`, so a server can be left private with nobody in it; the theorems about modes
and pauses therefore assume that `"invadmin"` is not among the requests. `Addressed` says that a slot in use
has an address, which ties the lists of addresses to slots. The invariant is a conjunction of named parts, and
there is one lemma for each way in which handlers change slots (a step that takes nothing, a
change of privilege, a departure of a set of clients), used by one lemma for each group of
actions. What makes `MastermodeHeld` inductive is that every loss of a privilege reassesses
the mode with the privileges *after* the step; the faulty variants of `Reassess` show it.

`Lists_proofs` has the theorems of two components whose state is lists from the middle of which
entries are taken. Of `BanList` (assuming `WidthAssumption`, and `NoWrap`): `Sorted`, `OnTime` and
`Implements`. Without wrapping, `expire` equals `ends`, the list is sorted by it and no entry
is overdue; from this an expiry at the head removes exactly the bans that are over, so each
step of the list is a step of the set in `BanSpec` or leaves it as it is.

Of `Bots` (assuming `BotsAssumption`): `BotsOwnersAgree` (`OwnersAgree`), `BotsSettled` (`Settled`),
`BotsOwnersMayPlay` (`OwnersMayPlay`) and `BotsNoneAlone` (`NoBotsAlone`), for any number of clients
and bots, loads and limits. The invariant `BotsInv` says that the bots in `clients` are those in `bots`, each once; that
a client lists a bot, once, exactly if the bot names it as its owner (`Fit`); that owners are
connected and may run bots, unless `autoAddBot` chose them (`MayOwn`); and that a bot without an owner or
one the players do not know of is waiting for `checkai` (`Calm`). `Fit` has a parameter for the clients that are about to
lose their bots: `clientdisconnect` takes the client off the list first and its bots from it then, and in between
their owner is nobody's client. `removeai`, `clearai`, `checksetup` and `reassignai` are folds over bots; the proof
follows them bot by bot with `Fit` as what every state in between satisfies, and `removeai` moreover by the part of
the leaving client's list that is left: in the end no bot names it. That `findaiclient` returns
a client that may run bots, or none, is a lemma about a least element; that a list without
an entry is what it is rests on the lists having every entry once, since the code removes the first.

`Match_proofs` (assuming `MatchAssumption`): `VotesAreCurrent` (`VotesAreForNow`) and `IntermissionsEnd`
(`IntermissionKeepsItsTime`). The latter is about the clock: events, updates of modes and bots run in `serverupdate` before
the limit only. It does not say that nothing counts in an intermission: flags, deposits, steals, team switches and
`#kill` do, see below. The invariant has three parts. `Honest` says that whoever has a vote
has cast it in this match; it is a predicate of a record of clients, because `changemap` gets
the clients as they are in the middle of a handler. `ClockOK` ties the clock of an
intermission to the limit of the match, `RestOK` has the types.

`AuthExchange_proofs` (assuming `AuthAssumption`): `AnswersFindTheirRequest` (`AnswersMatch`),
`NoNewcomerKicked` (`VictimStays`) and `NobodyWaitsInVain` (`PendingIsAlive`). The three need each
other and three more facts: requests are numbered in the order they are made and no number is used
again (`Numbered`), what is on the link is about requests made over this link (`Channels`), and a
client that is connecting waits for a challenge with a local key, so that the loss of the link takes
nothing from it (`ConnectingByKey`).

`CtfFlags_proofs` (assuming `FlagsAssumption`): `NoFlagOfTheDead` (`CarriersLive`), `NothingMovesUntold`
(`ClientsKnow`), `RequestsSawTheFlag` (`NothingStaleHonoured`), `NoDropperLeft` (`DropperStays`) and
`PassedAreMarked` (`PassedIsMarked`). A request in flight either saw its flag as it is, or a later version of
the flag or a later life of its sender bars it (`RequestsTimely`); of the flags, owners are
connected and play, hold one flag each, and a dropped flag's dropper is there (`FlagsInv`).
Two of the code's behaviours are excluded where they matter. `CarriersLive` fails if a living carrier is
unspectated, so `NoFlagOfTheDead` assumes that nobody asks for it. A pass to somebody who carries a
flag returns the passed one without telling, so `ClientsKnow` assumes `PassesFit`: nobody
passes, or there is one flag for each of two teams and nobody is unspectated, so that who can be
passed a flag holds none. The instance of the run satisfies both.

`StatsRelay_proofs`, on `StatsStore` (assuming `StoreAssumption`): `NothingIsLost` (`NothingLost`) and `NothingIsDoubled`
(`NothingTwice`, where there are no `Twins`: no two clients of one address are connected at once). The invariant keeps
accounts for every client at once: the table, what each who plays will still save and what came `late` cover what was
earned unless something lapsed (`Kept`; in an intermission the table and what came late do so alone, since `changemap`
forgets the rest), and the table plus what could at most be saved does not exceed it (`Bounded`). Both are sums over
any finite set of clients.

The same module on `Relay` (assuming `RelayAssumption`: finitely many clients and bots, packets that hold at
least one item): `UsesArePacketsAlways` (`UsesArePackets`), `ToldOnceAlways` (`ToldOnce`), `ToldInTimeAlways`
(`ToldInTime`) and `EverybodyIsToldAlways` (`EverybodyIsTold`). The invariant `RelayInv` says of what waits
that no number is there twice and that every item was said by the present owner, who is there, or
is excused (`WaitOK`); of what is on its way to a client, that no number is in two packets or waits
as well, none of it was said by the client itself, packets in a buffer are not empty and nothing is
behind a change of maps that was said before it (`WireOK`); and that uses are packets (`UsesOK`). No promise is
inductive alone: that nobody is told twice rests on the numbers of what waits, that nobody
is told what it has said rests on who owns it, and uses are counted right only because no two packets
to one client in one buffer are equal, which the numbers and the packets not being empty give.
Building a world state is a fold over the clients, each a fold over the client and its bots. The proof follows it
item by item with `AccOK`: the part of each client lies in the chunk, what is outside of the part is
not the client's own, and what was served already no longer counts as waiting (`Left`). `WindowIs` shows that
the window into the doubled chunk has everything outside of the part, once.

`Combat_proofs` (assuming `CombatAssumption`; `MaxSpawns` below the values of `lifesequence` is what makes a
number tell a life): `AnswersBeginTheLast` (`SpawnsAnswerTheLast`), `HitsAreAimed` (`HitsMeetTheirLife`),
`ShotsAreOfThisLife` (`ShotsOfThisLife`), `NobodyDiesTwice` (`OneDeathPerLife`),
`ExplosionsWereLaunched` (`NoMoreExplosionsThanLaunched`) and `NoExplosionIsLost` (`ExplosionsAreKept`). The invariant
says of each client that its counts agree with its queue (`RecordOK`); of what clients have heard, that
every life of a present occupant precedes its present life or is it, and `lifesequence` has come round
at most once since (`HeardOK`); of answers to spawns, that they name lives not begun, in
their order (`AnswersOK`); of queued shots, that they are of this life or of none of this match's
(`ShotsOK`). An update hits several clients, each of whom may die, in folds over events, clients and
hits: the proof follows them element by element, every world in between being `Whole`.

`Modes_proofs` (assuming `ModesAssumption`, with finitely many clients and teams): `NobodyHoldsFromAfar` (`NoPhantoms`),
`BasesAreTold` (`BasesTold`) and `TokensAreBounded` (`TokensBounded`). The invariant says of a base by
itself that it was told as it is and that nobody takes it from himself (`BaseOK`: without the second part a player
would be an owner and an enemy at once, and leaving would take off one of the two counts only);
of a base and the clients, that, until the intermission, the owners and enemies counted are at most the players of the team who stand there,
or somebody was forgotten in it (`BaseFits`); of tokens, that there are some in collect only, within their
limits (`TokensOK`). Who comes and goes is one lemma, `Moves`, about `movebases` for any two records of
clients that differ in one: all handlers that spawn, kill, move, remove or watch are instances of it, and
`changeteam` is two of them in a row, through a state in which the player is in no base. `Moves` is where
`stealbase` needs `ghosts`, as it counts players in game clips. The bounds of tokens rest on lemmas
about sums: a sum does not depend on the order, splits over a part and the rest, and grows by what is added.

Induction over numbers, sequences and finite sets, which the sums of `StatsStore` and `Modes` and the folds of
`Combat`, `Bots` and `Relay` need, is done by arguing about a least element for which a claim fails, as the
library's induction theorems take an operator as parameter. `Only` in `Combat` is
`SelectSeq`, which the prover cannot expand, by its definition on positions.

Only model-checked: the liveness properties `ConnectingEnds` and `MatchGivesWay`, which are out of
the prover's reach as ENABLED is; and `timeup`, where the code and the documentation disagree.

## Differences between the code and its documentation met without a run

- After 24.8 days of uptime, or with a ban that long, expiry times wrap (`addban` compares
  them, `serverupdate` looks at the head only): such a ban goes to the head of the list and
  keeps the others in force. The theorems of `BanList` assume `NoWrap`.
- `#clearbans` is described as clearing bans, and clears the permanent ones (`QCom.cpp:123`, `:526`).
- `findscore` gives a new client the counters of a connected twin with its address and name
  (`server.cpp:1695`), which are then saved twice; `kept` excludes twins by `Twins = FALSE`.
- `stats_saved` stays set after the first `#stats` of a match, so what follows is not saved. In an
  intermission nobody is saved again who was: suicides by a change of teams (`server.cpp:5006`) or
  `#kill`, shots flushed by `N_TRYSPAWN` and flags are lost with the next map. So are those
  of players who came or earned first in the intermission, unless they leave or ask for `#stats`
  (`late` in `StatsStore`).
- A change of the map in the middle of a match, by a vote or a command, saves nobody.
- Passing a flag to somebody who carries one returns it silently (`ctf.h:100`, `readme.md:71`);
  `hasPassedFlag` outlives the map and a further pass (`ctf.h:106`, `:412`);
  `ctftkpenalty` reads an argument that is never passed (`ctf.h:204`).
- `#unspectate` of a living carrier leaves it a dead one (`server.cpp:3259`).
- The automatic bots lend a client the privileges of a master for `reqadd`, so that an
  unprivileged spectator may own a bot (`server.cpp:3635`); `removeBotHelper` asks for no
  balance of loads.
- A second `authtry` gives up the first; if the answer to the earlier challenge comes then, it
  gives up the second as well (`server.cpp:4387`). `findauth` looks at `clients` only, so the
  branch for `connectauth` in `authsucceeded` is never taken.
- `dopassflagsequence` calls `returnflag` before `dropflag`, which then finds no flag and does not
  reset `lasttakeflag`: the passer's next flag is timed as a run from its base even if it was
  picked up elsewhere (`ctf.h:91`).
- `kick_queue` holds client numbers and waits for `processevents`, which does not run in a
  pause, an intermission or an empty server: whoever has the number then is kicked, and banned
  with `banflagrunhackers`.
- When the last human is disconnected by a loop that walks down `clients`, `noclients` removes
  the bots too and the loop reads `clients[i]` past the end (`server.cpp:3875`); in `Bots` this
  is the outcome `WalkAstray`.
- The comment on `banflagrunhackers` says 500 ms, the code 1500 ms (`server.cpp:131`, `:285`).
- Queued shots of a killed client are also flushed by `N_TRYSPAWN` in an intermission, after
  `saveallstats`, and shots sent before a map change count in the first 300 ms of the next match.
- Teammates are healed without regard to `maxhealth` (`server.cpp:3299`).
- `lifesequence` is not initialised in a new `clientinfo` (`fpsgame.h:120`); harmless, as any
  value is taken modulo 128 (`Memory` in `Combat`).

- `#intermission` in a tied match ends in an overtime, as any end of a tied match does.
- Nothing in `ctf.h` or `collect.h` looks at the clock when a flag is taken or a token deposited, so that
  scores still count in an intermission (`ctf.h:402`, `:424`).
- A vote that a client cast as master counts after it has given the privilege up, and nobody
  looks at the votes again when a voter leaves; `lockmaprotation` also binds
  those who hold `PRIV_AUTH`. An intermission can begin in a pause (by score or from IRC).
- A client whose answer to a spawn state is under way while it is made a spectator, the map changes
  and it is let play again is taken for one with a modified map (its `mapcrc` is -1) and stays a
  spectator.
- Messages that wait when a map is changed within `connected`, `unspectate` or `#cw` are
  sent after `N_MAPCHANGE`; what waits of a bot that changes its owner may be late,
  unreliable, or told to its new owner.
- In capture, a player of another team in a neutral base that is being taken is not
  counted, so that afterwards `owners` may be less than those who stand there and a base can be
  attacked with a defender in it. `stealbase` counts players who are in game clips. `#unspectate`
  of a living player leaves a player counted who is not there (`ghosts` in `Modes`). So does every way out
  of a base (moves, deaths, team switches, departures) between the end of the time and an overtime: in the turn that
  begins it (a kick by `checkteamkills`), or, when `#intermission` or `#mapsucks` set the limit to the clock, until the
  next update, however long a pause delays it, as `movebases` returns early (`capture.h:791`).
- In collect, `taketoken` leaves the token on the server, so that two clients may take the
  same one; token ids start again with the map, so that a late `N_TAKETOKEN` may take another
  token; deposits and steals still count in the intermission; a deposit is
  taken from anywhere.

## What is not modelled

See `components` in `PROJECT.json`. Items, demos, mutes, the table of flag runs and the check of
maps by their checksums are left for later or out of scope; the IRC bot, GeoIP, the
interpreter, the statistics page and the libraries are input, output or shared code. Vendored
code (SQLite, ENet, GeoIP, zlib) is most of the repository's lines and none of the game server's
logic. Within the modelled components: clients of a local game, editing, bots as shooters
and carriers, times and positions, scores in `Combat`, the files of permanent bans, the copy of
the relay's traffic for demos, and in `Modes` the scores of capture, ammunition and
regeneration at bases.

## Plan

Order of the modules: Sessions, BanSpec and BanList, StatsStore, CtfFlags, Bots,
AuthExchange, Combat, Match, Relay and Modes are written. Next:

1. `Items` with the check of maps (`checkmaps`, `N_MAPCRC`), whose answers arrive late, and the
   table of flag runs.
2. Clients of a local game in `Relay`, whose part is not left out.
