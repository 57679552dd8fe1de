------------------------------- MODULE Relay -------------------------------
(***************************************************************************)
(* How the server passes on what players do: positions and messages are    *)
(* collected for each client and its bots, put one after another into a    *)
(* buffer and sent from there, to each client all but its own part.  The   *)
(* packets of ENet point into the buffer, which is released with the last  *)
(* of them (src/fpsgame/server.cpp).                                       *)
(*                                                                         *)
(* All positions and messages have the same size, 1.                       *)
(***************************************************************************)
EXTENDS Integers, SequencesExt

CONSTANTS Clients, Bots, NoOne,
          Mtus,           \* how many positions or messages may fit into a packet
          MaxItems,       \* bounds: positions and messages that wait or are on their way,
          MaxMaps,        \* changes of maps
          MaxBuffers      \* and buffers

ASSUME RelayAssumption ==
    /\ IsFiniteSet(Clients) /\ IsFiniteSet(Bots)
    /\ NoOne \notin Clients \cup Bots /\ Clients \cap Bots = {}
    /\ Mtus \subseteq Nat \ {0} /\ {MaxItems, MaxMaps, MaxBuffers} \subseteq Nat

VARIABLES
    mtu,              \* what getservermtu gives, for good
    clients,          \* in the order of the code's list
    zombies,          \* clients ENet has given up, before the server hears of it
    owner,            \* of the bots
    position,         \* of each client and bot, the last one if it was not sent yet
    messages,         \* of each client and bot
    reliablemessages,
    worldstates,      \* the uses of each buffer, 0 if it is free
    wire,             \* the packets ENet holds for each client, by channel
    maps              \* the number of changes of maps

relayvars == <<mtu, clients, zombies, owner, position, messages, reliablemessages,
               worldstates, wire, maps>>

Entities == Clients \cup Bots
Here == ToSet(clients)
Buffers == 1..MaxBuffers
NoBuffer == 0
Idle == [pos |-> {}, msg |-> <<>>]

\* Of a client it is the client itself.
ownernum(x) == IF x \in Clients THEN x ELSE owner[x]

OwnedBy(c) == {x \in Entities : ownernum(x) = c}

\* Those a world state is made of.
Served == {x \in Entities : ownernum(x) \in Here}

RelayInit ==
    /\ mtu \in Mtus /\ clients = <<>> /\ zombies = {} /\ owner = [b \in Bots |-> NoOne]
    /\ position = [x \in Entities |-> <<>>] /\ messages = [x \in Entities |-> <<>>]
    /\ reliablemessages = FALSE /\ worldstates = [w \in Buffers |-> 0]
    /\ wire = [c \in Clients |-> Idle] /\ maps = 0

-----------------------------------------------------------------------------
\* Building the world state.  An accumulator has the chunk of the buffer that
\* is being filled, the part of it that belongs to each client (wsdata, wslen),
\* the uses of the buffer and what is on its way with the packets made so far.
NoParts == [c \in Clients |-> [from |-> 0, len |-> 0]]

\* A chunk is in the buffer twice, so that what is left without the part of c
\* is in one piece, starting after that part.
AllBut(acc, c) ==
    SubSeq(acc.buf \o acc.buf, acc.own[c].from + acc.own[c].len + 1, acc.own[c].from + Len(acc.buf))

\* Channel 1 is in order; channel 0, of positions, may lose and reorder packets.
Sent(line, w, channel, items) ==
    IF channel = "pos" THEN [line EXCEPT !.pos = @ \cup {[ws |-> w, items |-> items]}]
    ELSE [line EXCEPT !.msg = Append(@,
             [ws |-> w, items |-> items, reliable |-> reliablemessages, map |-> 0])]

\* A client that ENet has given up gets nothing (referenceCount is 0 then).
Receivers(acc) == {c \in Here \ zombies : AllBut(acc, c) # <<>>}

Delivered(acc, w, channel) ==
    [c \in Clients |-> IF c \in Receivers(acc) THEN Sent(acc.wire[c], w, channel, AllBut(acc, c))
                       ELSE acc.wire[c]]

\* Faulty: the parts of clients in the last chunk are taken for parts of this one.
sendChunkKeepsParts(acc, w, channel) ==
    IF acc.buf = <<>> THEN acc
    ELSE [acc EXCEPT !.buf = <<>>, !.uses = @ + Cardinality(Receivers(acc)),
                     !.wire = Delivered(acc, w, channel)]

\* sendpositions and sendmessages.
sendChunk(acc, w, channel) ==
    IF acc.buf = <<>> THEN acc
    ELSE [buf |-> <<>>, own |-> NoParts, uses |-> acc.uses + Cardinality(Receivers(acc)),
          wire |-> Delivered(acc, w, channel)]

\* Faulty: the part of a client is what was added last.
addItemsLast(acc, w, channel, c, items) ==
    LET a == IF Len(acc.buf) + Len(items) > mtu THEN sendChunk(acc, w, channel) ELSE acc
    IN  IF items = <<>> THEN acc
        ELSE [a EXCEPT !.buf = @ \o items, !.own[c] = [from |-> Len(a.buf), len |-> Len(items)]]

\* addposition and addmessages: items are those of c or of a bot of c.
addItems(acc, w, channel, c, items) ==
    LET a == IF Len(acc.buf) + Len(items) > mtu THEN sendChunk(acc, w, channel) ELSE acc
    IN  IF items = <<>> THEN acc
        ELSE [a EXCEPT !.buf = @ \o items,
                       !.own[c] = IF a.own[c].len = 0 THEN [from |-> Len(a.buf), len |-> Len(items)]
                                  ELSE [from |-> a.own[c].from, len |-> a.own[c].len + Len(items)]]

\* A client and its bots.
Parts(c) == <<c>> \o SetToSeq({b \in Bots : owner[b] = c})

addClient(acc, w, channel, c, items) ==
    FoldLeft(LAMBDA a, x : addItems(a, w, channel, c, items[x]), acc, Parts(c))

addAll(acc, w, channel, items) ==
    sendChunk(FoldLeft(LAMBDA a, c : addClient(a, w, channel, c, items), acc, clients), w, channel)

\* The world state in the buffer w, positions first.
World(w) ==
    LET start == [buf |-> <<>>, own |-> NoParts, uses |-> 0, wire |-> wire]
    IN  addAll(addAll(start, w, "pos", position), w, "msg", messages)

\* The buffer: none for a world without packets, as its uses are 0.
Fresh ==
    IF World(NoBuffer).uses = 0 THEN {NoBuffer}
    ELSE {w \in Buffers : worldstates[w] = 0 /\ \A v \in 1..(w - 1) : worldstates[v] # 0}

\* A bot without an owner keeps what it has to say.
Unsaid(what) ==
    [x \in Entities |-> IF x \in Served THEN <<>> ELSE what[x]]

buildworldstate(w) ==
    /\ w \in Fresh
    /\ worldstates' = [v \in Buffers |-> IF v = w THEN World(w).uses ELSE worldstates[v]]
    /\ position' = Unsaid(position) /\ messages' = Unsaid(messages)
    /\ reliablemessages' = FALSE

sendpackets ==
    /\ clients # <<>>
    /\ \E w \in Fresh : buildworldstate(w) /\ wire' = World(w).wire
    /\ UNCHANGED <<clients, zombies, owner, maps>>

-----------------------------------------------------------------------------
\* Faulty: the first packet to go releases the buffer.
cleanworldstateAtOnce(packets) ==
    [w \in Buffers |-> IF \E p \in packets : p.ws = w THEN 0 ELSE worldstates[w]]
\* ENet frees packets: each is a use less.
cleanworldstate(packets) ==
    [w \in Buffers |-> worldstates[w] - Cardinality({p \in packets : p.ws = w})]

\* All packets for a client.
All(line) == line.pos \cup ToSet(line.msg)

\* ENet is done with a packet: it was delivered and, if it is reliable,
\* acknowledged, or it is lost.
Release(c) ==
    /\ \/ \E p \in wire[c].pos :
             worldstates' = cleanworldstate({p}) /\ wire' = [wire EXCEPT ![c].pos = @ \ {p}]
       \/ \E i \in DOMAIN wire[c].msg :
             /\ worldstates' = cleanworldstate({wire[c].msg[i]})
             /\ wire' = [wire EXCEPT ![c].msg = RemoveAt(@, i)]
    /\ UNCHANGED <<clients, zombies, owner, position, messages, reliablemessages, maps>>

-----------------------------------------------------------------------------
\* What clients send.
Waiting == UNION {ToSet(position[x]) \cup ToSet(messages[x]) : x \in Entities}
OnWire(c) == UNION {ToSet(p.items) : p \in All(wire[c])}
Unused == 1..MaxItems \ {n.no : n \in Waiting \cup UNION {OnWire(c) : c \in Clients}}

\* An item has a number, who sent it, how it was received and in which match.
\* It is excused when it was said by a bot that has got another owner since.
Item(c, reliable) == [no |-> Min(Unused), from |-> c, reliable |-> reliable, map |-> maps, excused |-> FALSE]
Excused(items) == [i \in DOMAIN items |->
    [no |-> items[i].no, from |-> NoOne, reliable |-> FALSE, map |-> 0, excused |-> TRUE]]

\* QUEUE_MSG, for c or a bot it owns: one reliable packet makes the whole world
\* state reliable.
QueueMessage(c, x, reliable) ==
    /\ Unused # {}
    /\ c \in Here \ zombies /\ x \in OwnedBy(c)
    /\ messages' = [messages EXCEPT ![x] = Append(@, Item(c, reliable))]
    /\ reliablemessages' = (reliablemessages \/ reliable)
    /\ UNCHANGED <<clients, zombies, owner, position, worldstates, wire, maps>>

\* N_POS takes the place of a position that was not sent yet.
N_POS(c, x) ==
    /\ Unused # {}
    /\ c \in Here \ zombies /\ x \in OwnedBy(c)
    /\ position' = [position EXCEPT ![x] = <<Item(c, FALSE)>>]
    /\ UNCHANGED <<clients, zombies, owner, messages, reliablemessages, worldstates, wire, maps>>

\* flushclientposition, before a teleport or a jump: a packet with memory of its own.
flushclientposition(c, x) ==
    /\ c \in Here \ zombies /\ x \in OwnedBy(c) /\ position[x] # <<>>
    /\ position' = [position EXCEPT ![x] = <<>>]
    /\ wire' = [d \in Clients |->
          IF d \in Here \ (zombies \cup {c})
          THEN [wire[d] EXCEPT !.pos = @ \cup {[ws |-> NoBuffer, items |-> position[x]]}]
          ELSE wire[d]]
    /\ UNCHANGED <<clients, zombies, owner, messages, reliablemessages, worldstates, maps>>

-----------------------------------------------------------------------------
\* Clients and bots.
connected(c) ==
    /\ c \notin Here
    /\ clients' = Append(clients, c)
    /\ position' = [position EXCEPT ![c] = <<>>] /\ messages' = [messages EXCEPT ![c] = <<>>]
    /\ UNCHANGED <<zombies, owner, reliablemessages, worldstates, wire, maps>>

\* ENet gives up a client, with all its packets.
GiveUp(c) ==
    /\ c \in Here \ zombies /\ zombies' = zombies \cup {c}
    /\ worldstates' = cleanworldstate(All(wire[c])) /\ wire' = [wire EXCEPT ![c] = Idle]
    /\ UNCHANGED <<clients, owner, position, messages, reliablemessages, maps>>

\* clientdisconnect and removeai: another client gets its bots, or nobody.
\* What a bot said for its last owner is not told to the next one.
disconnected(c) ==
    /\ c \in Here /\ clients' = RemoveFirst(clients, c) /\ zombies' = zombies \ {c}
    /\ LET others == Here \ {c} IN
       \E d \in IF others = {} THEN {NoOne} ELSE others \cup {NoOne} :
          owner' = [b \in Bots |-> IF owner[b] = c THEN d ELSE owner[b]]
    /\ worldstates' = cleanworldstate(All(wire[c])) /\ wire' = [wire EXCEPT ![c] = Idle]
    /\ messages' = [x \in Entities |-> IF x \in OwnedBy(c) THEN Excused(messages[x]) ELSE messages[x]]
    /\ position' = [x \in Entities |-> IF x \in OwnedBy(c) THEN Excused(position[x]) ELSE position[x]]
    /\ UNCHANGED <<reliablemessages, maps>>

\* shiftai: a bot gets another owner.
shiftai(b, c) ==
    /\ c \in Here /\ owner[b] # c /\ owner' = [owner EXCEPT ![b] = c]
    /\ messages' = [messages EXCEPT ![b] = Excused(@)] /\ position' = [position EXCEPT ![b] = Excused(@)]
    /\ UNCHANGED <<clients, zombies, reliablemessages, worldstates, wire, maps>>

-----------------------------------------------------------------------------
\* N_MAPCHANGE for everybody behind what there is on channel 1.
Mapchange(line) ==
    [c \in Clients |->
        IF c \in Here \ zombies
        THEN [line[c] EXCEPT !.msg =
                 Append(@, [ws |-> NoBuffer, items |-> <<>>, reliable |-> TRUE, map |-> maps'])]
        ELSE line[c]]

\* Faulty: what was said in the last match is sent after the map has changed.
changemapByVoteAtOnce ==
    /\ maps < MaxMaps /\ clients # <<>> /\ maps' = maps + 1
    /\ wire' = Mapchange(wire)
    /\ UNCHANGED <<clients, zombies, owner, position, messages, reliablemessages, worldstates>>
\* checkvotes and vote: sendpackets(true) comes before the change of maps.
changemapByVote ==
    /\ maps < MaxMaps /\ clients # <<>> /\ maps' = maps + 1
    /\ \E w \in Fresh : buildworldstate(w) /\ wire' = Mapchange(World(w).wire)
    /\ UNCHANGED <<clients, zombies, owner>>

\* connected, unspectate and #cw change maps with messages of the match still
\* waiting, which are told in the next one.
changemapByOthers ==
    /\ maps < MaxMaps /\ clients # <<>> /\ maps' = maps + 1
    /\ wire' = Mapchange(wire)
    /\ messages' = [x \in Entities |-> [i \in DOMAIN messages[x] |-> [messages[x][i] EXCEPT !.map = maps']]]
    /\ UNCHANGED <<clients, zombies, owner, position, reliablemessages, worldstates>>

Handler ==
    \/ sendpackets \/ changemapByVote \/ changemapByOthers
    \/ \E c \in Clients :
          \/ connected(c) \/ GiveUp(c) \/ disconnected(c) \/ Release(c)
          \/ \E x \in Entities :
                \/ \E reliable \in BOOLEAN : QueueMessage(c, x, reliable)
                \/ N_POS(c, x) \/ flushclientposition(c, x)
          \/ \E b \in Bots : shiftai(b, c)

RelayNext == Handler /\ UNCHANGED mtu

RelaySpec == RelayInit /\ [][RelayNext]_relayvars

-----------------------------------------------------------------------------
\* The uses of a buffer are the packets that point into it: it is not released
\* before the last of them and is released with it (cleanworldstate).
UsesArePackets ==
    \A w \in Buffers :
        worldstates[w] = Cardinality(UNION {{<<c, p>> : p \in {q \in All(wire[c]) : q.ws = w}} : c \in Clients})

\* Nobody is sent anything twice, or what it has sent itself, alone or for its bots.
Coming(c) == FoldLeft(LAMBDA s, p : s \o p.items, <<>>, wire[c].msg)
ToldOnce ==
    \A c \in Here \ zombies :
        /\ Cardinality(ToSet(Coming(c))) = Len(Coming(c))
        /\ \A n \in OnWire(c) : n \notin Waiting /\ (n.excused \/ n.from # c)

\* A message that waits no longer is on its way to all the others, in a packet
\* that is sent until it arrives if it was received in one.  (What a bot has
\* said before it lost its owner may be late, or sent unreliably.)
Reaches(n, c) ==
    \E i \in DOMAIN wire[c].msg : n \in ToSet(wire[c].msg[i].items) /\ (n.reliable => wire[c].msg[i].reliable)
EverybodyIsTold ==
    [][\A x \in Entities : \A n \in ToSet(messages[x]) :
          ~n.excused /\ x \in Bots \cup ToSet(clients') /\ x \in Served =>
              \/ \E k \in ToSet(messages'[x]) : k.no = n.no
              \/ \A c \in Here \ zombies : x \in OwnedBy(c) \/ Reaches(n, c)']_relayvars

\* Nobody is told after a change of maps by a vote what was said before it.
ToldInTime ==
    \A c \in Here : \A i, j \in DOMAIN wire[c].msg :
        i < j => \A n \in ToSet(wire[c].msg[j].items) : n.excused \/ n.map >= wire[c].msg[i].map
=============================================================================
