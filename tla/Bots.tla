-------------------------------- MODULE Bots --------------------------------
(***************************************************************************)
(* Bots and the clients that run them (src/fpsgame/aiman.h and the         *)
(* automatic bots of src/fpsgame/server.cpp).  A bot is known by its slot  *)
(* in bots, and is in the list clients like everybody else.  What becomes  *)
(* of the bots of a client that leaves is decided at once, the rest waits  *)
(* for checkai.                                                            *)
(***************************************************************************)
EXTENDS Integers, SequencesExt

CONSTANTS
    Humans,
    MaxBots,
    BotLimits,      \* the limits a client may ask for
    Requests,       \* which of "kick", "balance", "autoadd", "spectate" happen
    NoOne

ASSUME BotsAssumption ==
    /\ MaxBots \in Nat \ {0} /\ BotLimits \subseteq 0..MaxBots /\ BotLimits # {}
    /\ NoOne \notin Humans /\ Humans \cap Nat = {} /\ NoOne \notin Nat

VARIABLES
    ci,         \* the clients: what they do and what they may do
    ai,         \* clients, bots, the lists of the bots of a client, dorefresh
    botlimit,
    walk        \* the index in clients of the loop that disconnects, or 0

vars == <<ci, ai, botlimit, walk>>

Asks(request) == request \in Requests

-----------------------------------------------------------------------------
\* The functions of aiman.h: what they make of the bots a.  The lists hold
\* nothing twice: removeobj removes the first and only one.

\* byauto, did autoAddBot choose the owner, is not in the code.
Empty == [there |-> FALSE, ownernum |-> NoOne, aireinit |-> FALSE, byauto |-> FALSE]

Bots(a) == {b \in DOMAIN a.bots : a.bots[b].there}

Connected(a) == Humans \cap ToSet(a.clients)

\* validaiclient
Valid(clients) == {h \in Humans : ~clients[h].spectator \/ clients[h].privilege # "none"}

Load(a, h) == Len(a.owned[h])

\* The positions in clients of those who may run bots.
May(a, valid) == {k \in DOMAIN a.clients : a.clients[k] \in valid}

\* The first client, if any, with the least load, or with the greatest.
Least(a, valid) ==
    IF May(a, valid) = {} THEN NoOne
    ELSE a.clients[CHOOSE k \in May(a, valid) : \A j \in May(a, valid) :
            \/ Load(a, a.clients[k]) < Load(a, a.clients[j])
            \/ Load(a, a.clients[k]) = Load(a, a.clients[j]) /\ k <= j]

Most(a, valid) ==
    IF May(a, valid) = {} THEN NoOne
    ELSE a.clients[CHOOSE k \in May(a, valid) : \A j \in May(a, valid) :
            \/ Load(a, a.clients[k]) > Load(a, a.clients[j])
            \/ Load(a, a.clients[k]) = Load(a, a.clients[j]) /\ k <= j]

findaiclient(a, valid, exclude) == Least(a, valid \ {exclude})

\* The bot b is put into its slot, and into the list of its owner.
Owned(a, b, owner, byauto) ==
    LET bot == [there |-> TRUE, ownernum |-> owner, aireinit |-> TRUE, byauto |-> byauto]
    IN  [a EXCEPT !.bots = IF b > Len(@) THEN Append(@, bot) ELSE [@ EXCEPT ![b] = bot],
                  !.owned = [h \in Humans |-> IF h = owner THEN Append(@[h], b) ELSE @[h]],
                  !.dorefresh = TRUE]

Disowned(a, b) ==
    LET owner == a.bots[b].ownernum
    IN  IF owner = NoOne THEN a ELSE [a EXCEPT !.owned[owner] = RemoveFirst(@, b)]

\* The first slot that is free or has a bot without an owner is used.
addai(a, valid, limit, byauto) ==
    LET owned == {b \in Bots(a) : a.bots[b].ownernum # NoOne}
        b     == Min(1..(Len(a.bots) + 1) \ owned)
        added == Owned(a, b, findaiclient(a, valid, NoOne), byauto)
    IN  IF Cardinality(owned) >= limit THEN a
        ELSE IF b \in Bots(a) THEN added
        ELSE [added EXCEPT !.clients = Append(@, b)]

\* Faulty: the bot stays in the list of its owner.
DeletedStillListed(a, b) ==
    [a EXCEPT !.clients = RemoveFirst(@, b), !.bots[b] = Empty]

\* removeBotHelper, and deleteai without its request for a refresh.
Deleted(a, b) ==
    [Disowned(a, b) EXCEPT !.clients = RemoveFirst(@, b), !.bots[b] = Empty]

deleteai(a, b) == [Deleted(a, b) EXCEPT !.dorefresh = TRUE]

\* loopvrev: the slots from the last one to the first.
Backwards(a) == Reverse([i \in DOMAIN a.bots |-> i])

clearai(a) == FoldLeft(LAMBDA x, b : IF b \in Bots(x) THEN deleteai(x, b) ELSE x, a, Backwards(a))

reinitai(a, b) ==
    IF a.bots[b].ownernum = NoOne THEN deleteai(a, b) ELSE [a EXCEPT !.bots[b].aireinit = FALSE]

\* The teams of the bots are left out.
checksetup(a) ==
    FoldLeft(LAMBDA x, b : IF b \in Bots(x) THEN reinitai(x, b) ELSE x, a, Backwards(a))

\* Faulty: a bot that finds no other client waits for the next change.
shiftaiQuietly(a, b, owner) ==
    IF owner = NoOne
    THEN [Disowned(a, b) EXCEPT !.bots[b] = [Empty EXCEPT !.there = TRUE]]
    ELSE Owned(Disowned(a, b), b, owner, FALSE)

\* A bot that finds no other client will be removed.
shiftai(a, b, owner) ==
    IF owner = NoOne
    THEN [Disowned(a, b) EXCEPT !.bots[b] = [Empty EXCEPT !.there = TRUE], !.dorefresh = TRUE]
    ELSE Owned(Disowned(a, b), b, owner, FALSE)

\* Every bot of h, the last one first, goes to the client with the least load.
removeai(a, valid, h) ==
    FoldLeft(LAMBDA x, b : shiftai(x, b, findaiclient(x, valid, h)), a, Reverse(a.owned[h]))

\* The last bot of the client with the greatest load goes to the one with the
\* least, if that makes a difference.
reassignai(a, valid) ==
    LET hi == Most(a, valid)
        lo == Least(a, valid)
    IN  IF May(a, valid) # {} /\ Load(a, hi) - Load(a, lo) > 1
        THEN shiftai(a, Last(a.owned[hi]), lo)
        ELSE a

\* Reassigning ends when the loads are balanced, after less steps than there
\* may be bots.
reassign(a, valid) == FoldLeft(LAMBDA x, i : reassignai(x, valid), a, [i \in 1..MaxBots |-> i])

checkai(a, valid) ==
    LET asked == [a EXCEPT !.dorefresh = FALSE]
    IN  IF ~a.dorefresh THEN a
        ELSE IF Connected(a) = {} THEN clearai(asked)
        ELSE reassign(checksetup(asked), valid)

-----------------------------------------------------------------------------
\* The handlers.

Free == [spectator |-> FALSE, privilege |-> "none"]

Nobody == [h \in Humans |-> Free]

NoBots == [clients |-> <<>>, bots |-> <<>>, owned |-> [h \in Humans |-> <<>>], dorefresh |-> FALSE]

Init == ci = Nobody /\ ai = NoBots /\ botlimit \in BotLimits /\ walk = 0

Busy == walk # 0

Refreshed == [ai EXCEPT !.dorefresh = TRUE]

connected(h) ==
    /\ h \notin Connected(ai)
    /\ \E spectator \in {FALSE} \cup {Asks("spectate")} :
          ci' = [ci EXCEPT ![h].spectator = spectator]
    /\ ai' = [Refreshed EXCEPT !.clients = Append(@, h)]
    /\ UNCHANGED botlimit

\* Faulty: the server has not emptied as long as there are bots.
DisconnectedWithBots(h) ==
    LET a == removeai([ai EXCEPT !.clients = RemoveFirst(@, h)], Valid(ci), h)
    IN  IF a.clients = <<>> THEN clearai(a) ELSE a

\* clientdisconnect: with the last client noclients removes all bots.
Disconnected(h) ==
    LET a == removeai([ai EXCEPT !.clients = RemoveFirst(@, h)], Valid(ci), h)
    IN  IF Connected(a) = {} THEN clearai(a) ELSE a

clientdisconnect(h) ==
    /\ h \in Connected(ai)
    /\ ai' = Disconnected(h) /\ ci' = [ci EXCEPT ![h] = Free]
    /\ UNCHANGED botlimit

\* Faulty: a client that only watches keeps its bots.
SpectateKeepsBots(h, warned) ==
    /\ Asks("spectate") /\ h \in Connected(ai)
    /\ ci' = [ci EXCEPT ![h].spectator = TRUE]
    /\ ai' = IF warned THEN removeai(ai, Valid(ci'), h) ELSE ai
    /\ UNCHANGED botlimit

\* N_SPECTATOR and forcespectator, for a client warned of its map or not.
Spectate(h, warned) ==
    /\ Asks("spectate") /\ h \in Connected(ai)
    /\ ci' = [ci EXCEPT ![h].spectator = TRUE]
    /\ ai' = IF ci[h].privilege = "none" \/ warned THEN removeai(ai, Valid(ci'), h) ELSE ai
    /\ UNCHANGED botlimit

unspectate(h) ==
    /\ h \in Connected(ai) /\ ci[h].spectator
    /\ ci' = [ci EXCEPT ![h].spectator = FALSE]
    /\ ai' = Refreshed
    /\ UNCHANGED botlimit

setmaster(h, privilege) ==
    /\ h \in Connected(ai) /\ ci[h].privilege # "admin" /\ privilege # ci[h].privilege
    /\ privilege = "master" => ~ci[h].spectator
    /\ ci' = [ci EXCEPT ![h].privilege = privilege]
    /\ UNCHANGED <<ai, botlimit>>

revokemaster(h) ==
    /\ h \in Connected(ai) /\ ci[h].privilege # "none"
    /\ ci' = [ci EXCEPT ![h].privilege = "none"]
    /\ ai' = IF ci[h].spectator THEN removeai(ai, Valid(ci'), h) ELSE ai
    /\ UNCHANGED botlimit

reqadd(h) ==
    /\ h \in Connected(ai) /\ ci[h].privilege # "none"
    /\ ai' = addai(ai, Valid(ci), IF ci[h].privilege = "admin" THEN MaxBots ELSE botlimit, FALSE)
    /\ UNCHANGED <<ci, botlimit>>

\* deleteai(): the last bot that has an owner.
reqdel(h) ==
    /\ h \in Connected(ai) /\ ci[h].privilege # "none"
    /\ \E b \in Bots(ai) :
          /\ ai.bots[b].ownernum # NoOne
          /\ \A k \in Bots(ai) : k > b => ai.bots[k].ownernum = NoOne
          /\ ai' = deleteai(ai, b)
    /\ UNCHANGED <<ci, botlimit>>

setbotlimit(h, limit) ==
    /\ h \in Connected(ai) /\ ci[h].privilege = "admin"
    /\ botlimit' = limit /\ ai' = Refreshed
    /\ UNCHANGED ci

\* N_SWITCHTEAM, N_SETTEAM and N_BOTBALANCE ask for a refresh.
changeteam ==
    /\ Connected(ai) # {} /\ ai' = Refreshed
    /\ UNCHANGED <<ci, botlimit>>

changemap ==
    /\ Connected(ai) # {} /\ ai' = [clearai(ai) EXCEPT !.dorefresh = TRUE]
    /\ UNCHANGED <<ci, botlimit>>

\* serverupdate, while a match is played.
refresh ==
    /\ ai.dorefresh /\ ai' = checkai(ai, Valid(ci))
    /\ UNCHANGED <<ci, botlimit>>

\* addBotHelper: h is a master while the bot is added.
addBotHelper(h) ==
    ai' = checkai(addai(ai, Valid(ci) \cup ({h} \cap Humans), botlimit, TRUE), Valid(ci))

\* The first bot of the list that has an owner.
removeBotHelper ==
    \E b \in Bots(ai), k \in DOMAIN ai.clients :
        /\ ai.clients[k] = b /\ ai.bots[b].ownernum # NoOne
        /\ \A c \in Bots(ai), j \in 1..k - 1 : ai.clients[j] = c => ai.bots[c].ownernum = NoOne
        /\ ai' = checkai(Deleted(ai, b), Valid(ci))

Playing == {h \in Connected(ai) : ~ci[h].spectator}

\* One bot for an odd number of players; two players are left to autoAddBot.
autoBotBalance ==
    /\ Asks("balance") /\ (Asks("autoadd") => Cardinality(Playing) >= 3)
    /\ LET target == IF Cardinality(Playing) >= 3 THEN Cardinality(Playing) % 2 ELSE 0
       IN  \/ /\ Cardinality(Bots(ai)) < target
              /\ \E k \in DOMAIN ai.clients :
                    /\ ai.clients[k] \notin Humans \ Playing
                    /\ \A j \in DOMAIN ai.clients : j > k => ai.clients[j] \in Humans \ Playing
                    /\ addBotHelper(ai.clients[k])
           \/ Cardinality(Bots(ai)) > target /\ removeBotHelper
    /\ UNCHANGED <<ci, botlimit>>

\* One bot for every client; the first client of the list gets a new one.
autoAddBot ==
    /\ Asks("autoadd") /\ (Asks("balance") => Cardinality(Connected(ai)) < 3)
    /\ \/ /\ Cardinality(Bots(ai)) < Cardinality(Connected(ai))
          /\ \E k \in DOMAIN ai.clients :
                /\ ai.clients[k] \in Humans
                /\ \A j \in 1..k - 1 : ai.clients[j] \notin Humans
                /\ addBotHelper(ai.clients[k])
       \/ Cardinality(Bots(ai)) > Cardinality(Connected(ai)) /\ removeBotHelper
    /\ UNCHANGED <<ci, botlimit>>

\* kickclients and the check for clients that exceed their position start with
\* the last entry of clients ...
StartWalk ==
    /\ Asks("kick") /\ ai.clients # <<>> /\ walk' = Len(ai.clients)
    /\ UNCHANGED <<ci, ai, botlimit>>

\* ... disconnect the clients that deserve it, and go on with the entry before.
WalkStep ==
    /\ walk \in DOMAIN ai.clients /\ walk' = walk - 1
    /\ \/ UNCHANGED <<ci, ai, botlimit>>
       \/ clientdisconnect(ai.clients[walk])

\* The memory after the end of the list still shows a bot that was freed, or
\* the server crashes and is started again.
WalkAstray ==
    /\ walk > Len(ai.clients)
    /\ \/ walk' = walk - 1 /\ UNCHANGED <<ci, ai, botlimit>>
       \/ ci' = Nobody /\ ai' = NoBots /\ botlimit' \in BotLimits /\ walk' = 0

Handler ==
    \/ \E h \in Humans :
          \/ connected(h) \/ clientdisconnect(h) \/ unspectate(h) \/ revokemaster(h)
          \/ \E warned \in BOOLEAN : Spectate(h, warned)
          \/ \E privilege \in {"master", "admin"} : setmaster(h, privilege)
          \/ \E limit \in BotLimits : setbotlimit(h, limit)
          \/ reqadd(h) \/ reqdel(h)
    \/ changeteam \/ changemap \/ refresh \/ autoBotBalance \/ autoAddBot

Next ==
    \/ ~Busy /\ Handler /\ UNCHANGED walk
    \/ ~Busy /\ StartWalk
    \/ WalkStep \/ WalkAstray

Spec == Init /\ [][Next]_vars

-----------------------------------------------------------------------------
\* ownernum of the bots and the lists of their owners agree: a bot is in the
\* list of its owner only, once, and owners are connected.
OwnersAgree ==
    /\ \A h \in Humans :
          /\ ToSet(ai.owned[h]) = {b \in Bots(ai) : ai.bots[b].ownernum = h}
          /\ Cardinality(ToSet(ai.owned[h])) = Len(ai.owned[h])
          /\ ai.owned[h] # <<>> => h \in Connected(ai)

\* A bot without an owner, or with one the players do not know of, is looked
\* at by the next checkai: nothing but dorefresh makes it do so.
Settled ==
    ~ai.dorefresh => \A b \in Bots(ai) : ai.bots[b].ownernum # NoOne /\ ~ai.bots[b].aireinit

\* validaiclient: a client that watches without privileges runs no bots, but
\* those that autoAddBot gave it.
OwnersMayPlay ==
    \A b \in Bots(ai) : ai.bots[b].ownernum \in Valid(ci) \cup {NoOne} \/ ai.bots[b].byauto

\* "Server has emptied": bots do not stay alone.
NoBotsAlone == Connected(ai) = {} => Bots(ai) = {}
=============================================================================
