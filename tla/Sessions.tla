------------------------------ MODULE Sessions ------------------------------
(***************************************************************************)
(* Client sessions of the game server: who is connecting or connected, who *)
(* holds which privilege, the master mode with its list of allowed         *)
(* addresses, the pause of the game, spectator locks, kicks and bans       *)
(* (src/fpsgame/server.cpp, with the chat commands of src/mod/QCom.cpp).   *)
(*                                                                         *)
(* The server is single threaded: every handler is one atomic action.      *)
(* Left out: clients of a local game (a dedicated server has none), bots,  *)
(* game time.  Which free slot a connection gets, when a ban expires, the  *)
(* order of the clients vector, who plays a modified map and whether a map *)
(* has run out of time are nondeterministic choices.  Definitions named    *)
(* after one of these and never used, such as ReassessAll, are the        *)
(* faulty variants that show what the properties detect.                   *)
(***************************************************************************)
EXTENDS Integers, FiniteSets

CONSTANTS
    Cns,        \* client slots
    Ips,        \* addresses clients connect from
    Requests,   \* the kinds of request the users of this server ever make
    maxclients, publicserver, serverpass,
    restrictpausegame, enablemultiplemasters, no_single_private,
    clearbansonempty,
    limitteamkills  \* is there a teamkillkick rule in the configuration

VARIABLES
    ci,             \* clientinfo of every slot
    mastermode, mastermask, allowedips,
    bannedips,      \* addresses of timed bans (the vector of BanList)
    ipbans,         \* addresses of permanent bans
    lockedSpecIPs,
    gamepaused,
    teamkillkicks,  \* are limits on team kills configured
    teamkills       \* addresses over the limit that were not yet dealt with

modes == <<mastermode, allowedips>>
bans  == <<bannedips, ipbans>>
limits == <<teamkillkicks, teamkills>>
vars == <<ci, mastermask, lockedSpecIPs, gamepaused, modes, bans, limits>>

PRIV_NONE == 0
PRIV_MASTER == 1
PRIV_AUTH == 2
PRIV_ADMIN == 3

MM_OPEN == 0
MM_VETO == 1
MM_LOCKED == 2
MM_PRIVATE == 3

\* A mask is the set of modes a master may set and whether anyone may claim.
MM_PRIVSERV == [modes |-> MM_OPEN..MM_PRIVATE, autoapprove |-> TRUE]
MM_PUBSERV  == [modes |-> {MM_OPEN, MM_VETO}, autoapprove |-> FALSE]
MM_COOPSERV == [modes |-> MM_OPEN..MM_LOCKED, autoapprove |-> TRUE]
Masks == {MM_PRIVSERV, MM_PUBSERV, MM_COOPSERV}

NoIp == 0

ClientInfo ==
    [conn : {"free", "connecting", "connected"}, ip : Ips \cup {NoIp},
     privilege : PRIV_NONE..PRIV_ADMIN, isInvAdmin : BOOLEAN,
     spectator : BOOLEAN, isSpecLocked : BOOLEAN, connectauth : BOOLEAN]

FreeSlot ==
    [conn |-> "free", ip |-> NoIp, privilege |-> PRIV_NONE,
     isInvAdmin |-> FALSE, spectator |-> FALSE, isSpecLocked |-> FALSE,
     connectauth |-> FALSE]

ASSUME ConfigAssumption ==
    /\ publicserver \in 0..2
    /\ maxclients \in Nat
    /\ {restrictpausegame, enablemultiplemasters, no_single_private,
         clearbansonempty, limitteamkills, serverpass} \subseteq BOOLEAN
    /\ NoIp \notin Ips

Asks(request) == request \in Requests

InClients(infos) == {c \in Cns : infos[c].conn = "connected"}
Clients == InClients(ci)

PausePriv == IF restrictpausegame THEN PRIV_ADMIN ELSE PRIV_MASTER

checkbans(ip) == ip \in bannedips \cup ipbans

-----------------------------------------------------------------------------
\* Faulty: a master who is still connecting counts.
ReassessAll(infos, paused) ==
    /\ IF \E c \in Cns : infos[c].privilege >= PRIV_MASTER
       THEN UNCHANGED modes
       ELSE mastermode' = MM_OPEN /\ allowedips' = {}
    /\ gamepaused' = /\ paused
                     /\ \E c \in InClients(infos) : infos[c].privilege >= PausePriv

\* Faulty: who may pause is not looked at again.
ReassessButPause(infos, paused) ==
    /\ IF \E c \in InClients(infos) : infos[c].privilege >= PRIV_MASTER
       THEN UNCHANGED modes
       ELSE mastermode' = MM_OPEN /\ allowedips' = {}
    /\ gamepaused' = paused

\* What setmaster does once a privilege has changed: with no master left the
\* mode falls back to open, with nobody left who may pause the game goes on.
Reassess(infos, paused) ==
    /\ IF \E c \in InClients(infos) : infos[c].privilege >= PRIV_MASTER
       THEN UNCHANGED modes
       ELSE mastermode' = MM_OPEN /\ allowedips' = {}
    /\ gamepaused' = /\ paused
                     /\ \E c \in InClients(infos) : infos[c].privilege >= PausePriv

setmaster(c, privilege) ==
    LET infos == [ci EXCEPT ![c].privilege = privilege]
    IN  ci' = infos /\ Reassess(infos, gamepaused)

\* Faulty: the server is empty only when nobody is connecting either.
noclientsNorConnects(K) ==
    K \cap Clients # {} /\ {c \in Cns : ci[c].conn # "free"} \subseteq K

\* The last client is among those who leave.
noclients(K) == K \cap Clients # {} /\ Clients \subseteq K

\* The clients K disconnect; allowed and banned are the lists as the caller
\* leaves them.  Only a departing client with a visible privilege goes through
\* setmaster; when clients with and without one leave together, the order of
\* the clients vector decides what the last setmaster call still sees.
Departure(K, allowed, banned) ==
    LET gone   == K \cap Clients
        rest   == Clients \ K
        told   == {c \in gone : ci[c].privilege # PRIV_NONE /\ ~ci[c].isInvAdmin}
        silent == {c \in gone : ci[c].privilege # PRIV_NONE /\ ci[c].isInvAdmin}
        nomaster == told # {} /\ \A c \in rest : ci[c].privilege = PRIV_NONE
        nopauser == told # {} /\ \A c \in rest : ci[c].privilege < PausePriv
        pausers  == {c \in silent : ci[c].privilege >= PausePriv}
    IN  /\ \/ nomaster /\ mastermode' = MM_OPEN /\ allowedips' = {}
           \/ /\ nomaster => silent # {}
              /\ mastermode' = mastermode /\ allowedips' = allowed
        /\ \/ nopauser /\ gamepaused' = FALSE
           \/ (nopauser => pausers # {}) /\ gamepaused' = gamepaused
        /\ bannedips' = IF clearbansonempty /\ noclients(K) THEN {} ELSE banned

Quiet == UNCHANGED <<mastermask, lockedSpecIPs>>
Larger(p, q) == IF p >= q THEN p ELSE q

Without(K) == [c \in Cns |-> IF c \in K THEN FreeSlot ELSE ci[c]]

Drop(K, allowed, banned) == ci' = Without(K) /\ Departure(K, allowed, banned)

\* The connected clients verifybans disconnects when perm is the permanent list.
Banned(perm) == {c \in Clients : /\ ci[c].privilege < PRIV_ADMIN
                                 /\ ci[c].ip \in bannedips \cup perm}

\* Without a map, or with a match that ran out of time while nobody played, a
\* client that starts to play rotates the map.
MayRotate(c) == \A d \in Clients \ {c} : ci[d].spectator /\ ci[d].privilege = PRIV_NONE

\* changemap ends a pause and forgets the team kills.
Rotate(c, rotated) ==
    /\ rotated => MayRotate(c)
    /\ teamkills' = IF rotated THEN {} ELSE teamkills
    /\ UNCHANGED teamkillkicks

-----------------------------------------------------------------------------
\* Connecting.

clientconnect(c, ip) ==
    /\ ci[c].conn = "free"
    /\ ci' = [Without(Banned(ipbans)) EXCEPT
                 ![c] = [FreeSlot EXCEPT !.conn = "connecting", !.ip = ip,
                                         !.isSpecLocked = ip \in lockedSpecIPs,
                                         !.spectator = ip \in lockedSpecIPs]]
    /\ Departure(Banned(ipbans), allowedips, bannedips)
    /\ UNCHANGED <<ipbans, limits>> /\ Quiet

allowconnect(c, pwd) ==
    IF serverpass THEN pwd = "server"
    ELSE \/ pwd = "admin"
         \/ /\ Cardinality(Clients) < maxclients
            /\ ~checkbans(ci[c].ip)
            /\ mastermode >= MM_PRIVATE => ci[c].ip \in allowedips

Passwords == {"none"} \cup {p \in {"server", "admin"} : Asks(p)}

connected(c) ==
    LET infos == [ci EXCEPT ![c].conn = "connected", ![c].connectauth = FALSE]
    IN  IF mastermode >= MM_LOCKED THEN [infos EXCEPT ![c].spectator = TRUE] ELSE infos

Awaiting(c) == ci[c].conn = "connecting" /\ ~ci[c].connectauth

Connect(c) ==
    /\ Awaiting(c)
    /\ \E pwd \in Passwords : allowconnect(c, pwd)
    /\ ci' = connected(c)
    /\ \E rotated \in BOOLEAN : Rotate(c, rotated) /\ gamepaused' = (gamepaused /\ ~rotated)
    /\ UNCHANGED <<modes, bans>> /\ Quiet

\* Refused, but the client names a user of the server's key domain.
ConnectByKey(c) ==
    /\ Awaiting(c) /\ Asks("auth")
    /\ \E pwd \in Passwords : ~allowconnect(c, pwd)
    /\ ci' = [ci EXCEPT ![c].connectauth = TRUE]
    /\ UNCHANGED <<modes, bans, limits, gamepaused>> /\ Quiet

\* Refused at connect, lost, or not connected within 15 seconds.
ConnectFails(c) ==
    /\ ci[c].conn = "connecting"
    /\ Drop({c}, allowedips, bannedips)
    /\ UNCHANGED <<ipbans, limits>> /\ Quiet

\* A refused client answers its challenge: it enters with its key's privilege.
ConnectAuthenticated(c, authpriv) ==
    /\ ci[c].conn = "connecting" /\ ci[c].connectauth
    /\ \E rotated \in BOOLEAN :
          /\ Rotate(c, rotated)
          /\ LET infos == [connected(c) EXCEPT ![c].privilege = Larger(@, authpriv)]
             IN  ci' = infos /\ Reassess(infos, gamepaused /\ ~rotated)
    /\ UNCHANGED bans /\ Quiet

clientdisconnect(c) ==
    /\ c \in Clients
    /\ Drop({c}, allowedips, bannedips)
    /\ UNCHANGED <<ipbans, limits>> /\ Quiet

-----------------------------------------------------------------------------
\* Privileges.

Stay == Quiet /\ UNCHANGED <<bans, limits>>

\* "/setmaster 1" without a password.
ClaimMaster(c) ==
    /\ c \in Clients /\ ci[c].privilege = PRIV_NONE /\ ~ci[c].spectator
    /\ \/ enablemultiplemasters
       \/ \A d \in Clients \ {c} : ci[d].privilege = PRIV_NONE
    /\ mastermask.autoapprove
    /\ setmaster(c, PRIV_MASTER) /\ Stay

\* "/setmaster 1 <adminpass>", or "/auth" confirmed by a key or by the master
\* server: neither is subject to the conditions on a plain claim.
ClaimByProof(c, privilege) ==
    /\ c \in Clients /\ privilege > ci[c].privilege
    /\ \/ Asks("admin") /\ privilege = PRIV_ADMIN
       \/ Asks("auth") /\ privilege \in {PRIV_AUTH, PRIV_ADMIN}
    /\ setmaster(c, privilege) /\ Stay

Relinquish(c) ==
    /\ c \in Clients /\ ci[c].privilege # PRIV_NONE
    /\ setmaster(c, PRIV_NONE) /\ Stay

\* "/setmaster" on somebody else, who may still be connecting.
GiveMaster(c, d) ==
    /\ c \in Clients /\ d # c /\ ci[d].conn # "free"
    /\ ci[c].privilege # PRIV_NONE /\ ci[d].privilege = PRIV_NONE
    /\ setmaster(d, PRIV_MASTER) /\ Stay

TakeMaster(c, d) ==
    /\ c \in Clients /\ d # c /\ ci[d].conn # "free"
    /\ ci[d].privilege \in PRIV_MASTER..(ci[c].privilege - 1)
    /\ setmaster(d, PRIV_NONE) /\ Stay

sendprivs_cmd(c, d) ==
    /\ enablemultiplemasters
    /\ {c, d} \subseteq Clients /\ c # d
    /\ ci[c].privilege \in {PRIV_MASTER, PRIV_ADMIN}
    /\ ci[d].privilege < ci[c].privilege
    /\ setmaster(d, ci[c].privilege) /\ Stay

Admin(c) == c \in Clients /\ ci[c].privilege = PRIV_ADMIN

revokepriv_cmd(c, d) ==
    /\ Admin(c) /\ d \in Clients /\ ci[d].privilege # PRIV_NONE
    /\ setmaster(d, PRIV_NONE) /\ Stay

invadmin_cmd(c) ==
    /\ Asks("invadmin") /\ c \in Clients
    /\ ci' = [ci EXCEPT ![c].privilege = PRIV_ADMIN, ![c].isInvAdmin = TRUE]
    /\ UNCHANGED <<modes, gamepaused>> /\ Stay

allowmaster_cmd(c) ==
    /\ Asks("allowmaster") /\ Admin(c)
    /\ \/ mastermask = MM_PUBSERV /\ mastermask' = MM_PRIVSERV
       \/ mastermask = MM_PRIVSERV /\ mastermask' = MM_PUBSERV
    /\ UNCHANGED <<ci, modes, gamepaused, bans, lockedSpecIPs, limits>>

\* Faulty: leaving private mode keeps the list of admitted addresses.
SetMasterModeKeepsList(c, mm) ==
    /\ c \in Clients /\ ci[c].privilege # PRIV_NONE
    /\ mm = MM_VETO => Asks("veto")
    /\ ci[c].privilege = PRIV_ADMIN \/ mm \in mastermask.modes
    /\ mastermode' = mm
    /\ allowedips' = IF mm >= MM_PRIVATE THEN {ci[d].ip : d \in Clients} ELSE allowedips
    /\ UNCHANGED <<ci, gamepaused>> /\ Stay

SetMasterMode(c, mm) ==
    /\ c \in Clients /\ ci[c].privilege # PRIV_NONE
    /\ mm = MM_VETO => Asks("veto")
    /\ ci[c].privilege = PRIV_ADMIN \/ mm \in mastermask.modes
    /\ \/ mm # MM_PRIVATE \/ ~no_single_private
       \/ Cardinality(Clients) > 1 \/ ci[c].privilege = PRIV_ADMIN
    /\ mastermode' = mm
    /\ allowedips' = IF mm >= MM_PRIVATE THEN {ci[d].ip : d \in Clients} ELSE {}
    /\ UNCHANGED <<ci, gamepaused>> /\ Stay

PauseGame(c, val) ==
    /\ Asks("pause") /\ c \in Clients /\ ci[c].privilege >= PausePriv
    /\ gamepaused' = val
    /\ UNCHANGED <<ci, modes>> /\ Stay

\* A vote, the end of an intermission or a command loads another map.
changemap ==
    /\ Clients # {} /\ gamepaused' = FALSE /\ teamkills' = {}
    /\ UNCHANGED <<ci, modes, bans, teamkillkicks>> /\ Quiet

-----------------------------------------------------------------------------
\* Spectators.

\* What checkmaps does to the players W it finds with a modified map.
Locked(infos, W) ==
    [c \in Cns |-> IF c \in W
                   THEN [infos[c] EXCEPT !.spectator = TRUE, !.isSpecLocked = TRUE]
                   ELSE infos[c]]

Cheaters(infos) ==
    IF Asks("cheat") THEN SUBSET {c \in InClients(infos) : ~infos[c].spectator} ELSE {{}}

\* A report of a map, or an attempt to edit where editing is not allowed.
LockCheaters ==
    /\ \E W \in Cheaters(ci) \ {{}} : ci' = Locked(ci, W)
    /\ UNCHANGED <<modes, gamepaused>> /\ Stay

MaySpectate(c, d) ==
    /\ c \in Clients /\ ci[d].conn # "free"
    /\ ci[c].privilege = PRIV_NONE =>
         (d = c /\ ~(ci[c].spectator /\ mastermode >= MM_LOCKED))

Spectate(c, d) ==
    /\ MaySpectate(c, d) /\ ~ci[d].spectator
    /\ ci' = [ci EXCEPT ![d].spectator = TRUE]
    /\ UNCHANGED <<modes, gamepaused>> /\ Stay

Play(d, rotated) ==
    Rotate(d, rotated) /\ gamepaused' = (gamepaused /\ ~rotated) /\ UNCHANGED <<modes, bans>>

\* Faulty: the lock is honoured only when the client asks for itself.
UnspectateByOthers(c, d) ==
    /\ MaySpectate(c, d) /\ ci[d].spectator
    /\ ci[d].isSpecLocked => c # d
    /\ ci' = [ci EXCEPT ![d].spectator = FALSE]
    /\ \E rotated \in BOOLEAN : Play(d, rotated)
    /\ Quiet

Unspectate(c, d) ==
    /\ MaySpectate(c, d) /\ ci[d].spectator /\ ~ci[d].isSpecLocked
    /\ LET infos == [ci EXCEPT ![d].spectator = FALSE]
       IN  \E W \in Cheaters(infos) : ci' = Locked(infos, W)
    /\ \E rotated \in BOOLEAN : Play(d, rotated)
    /\ Quiet

forcespectator_cmd(c, d) ==
    /\ Asks("lockspec") /\ Admin(c) /\ d \in Clients \ {c}
    /\ ci' = [ci EXCEPT ![d].spectator = TRUE]
    /\ UNCHANGED <<modes, gamepaused>> /\ Stay

unlock(d) == [ci EXCEPT ![d] = [@ EXCEPT !.spectator = FALSE, !.isSpecLocked = FALSE]]

unspectate_cmd(c, d) ==
    /\ Asks("lockspec") /\ Admin(c) /\ d \in Clients \ {c}
    /\ ci' = unlock(d)
    /\ \E rotated \in BOOLEAN : Play(d, rotated)
    /\ lockedSpecIPs' = IF ci[d].isSpecLocked THEN lockedSpecIPs \ {ci[d].ip}
                        ELSE lockedSpecIPs
    /\ UNCHANGED mastermask

togglelockspec_cmd(c, d) ==
    /\ Asks("lockspec") /\ Admin(c) /\ d \in Clients \ {c}
    /\ \/ /\ ~ci[d].isSpecLocked /\ ci' = Locked(ci, {d})
          /\ lockedSpecIPs' = lockedSpecIPs \cup {ci[d].ip}
          /\ UNCHANGED <<modes, gamepaused, bans, limits>>
       \/ /\ ci[d].isSpecLocked /\ ci' = unlock(d)
          /\ lockedSpecIPs' = lockedSpecIPs \ {ci[d].ip}
          /\ \E rotated \in BOOLEAN : Play(d, rotated)
    /\ UNCHANGED mastermask

-----------------------------------------------------------------------------
\* Kicks and bans.

MayKick(c, d, priv) ==
    /\ c \in Clients /\ d # c /\ ci[d].conn # "free"
    /\ priv # PRIV_NONE
    /\ priv >= ci[d].privilege /\ ci[d].privilege < PRIV_ADMIN

\* kickclients(ip, actor): everybody on the address but admins, the actor and
\* those who rank above the actor.
KickedBy(c, ip) ==
    {e \in Clients \ {c} : /\ ci[e].ip = ip /\ ci[e].privilege < PRIV_ADMIN
                           /\ ci[e].privilege <= ci[c].privilege}

trykick(c, d, priv) ==
    /\ MayKick(c, d, priv)
    /\ Drop(KickedBy(c, ci[d].ip), allowedips \ {ci[d].ip}, bannedips \cup {ci[d].ip})
    /\ UNCHANGED <<ipbans, teamkills>> /\ Quiet

\* "/kick", by anybody: refused or not, it drops the limits on team kills.
Kick(c, d) ==
    /\ Asks("kick") /\ teamkillkicks' = FALSE
    /\ trykick(c, d, ci[c].privilege)

KickRefused(c) ==
    /\ Asks("kick") /\ c \in Clients /\ teamkillkicks' = FALSE
    /\ UNCHANGED <<ci, modes, bans, gamepaused, teamkills>> /\ Quiet

\* "/authkick": the privilege of the key is borrowed for the check only.
AuthKick(c, d) ==
    /\ Asks("authkick")
    /\ \E authpriv \in {PRIV_AUTH, PRIV_ADMIN} :
         trykick(c, d, Larger(ci[c].privilege, authpriv))
    /\ UNCHANGED teamkillkicks

\* An unprivileged client kills its team mates up to the limit.
addteamkill(c) ==
    /\ Asks("teamkill") /\ c \in Clients /\ ci[c].privilege = PRIV_NONE
    /\ teamkills' = teamkills \cup {ci[c].ip}
    /\ UNCHANGED <<ci, modes, bans, gamepaused, teamkillkicks>> /\ Quiet

\* Faulty: kicks everybody on the address.
checkteamkillsKicksAdmins(ip) ==
    /\ teamkillkicks /\ ip \in teamkills
    /\ Drop({e \in Clients : ci[e].ip = ip}, allowedips \ {ip}, bannedips \cup {ip})
    /\ teamkills' = teamkills \ {ip}
    /\ UNCHANGED <<ipbans, teamkillkicks>> /\ Quiet

\* At the next update its address is banned, if the limit says so, and kicked.
checkteamkills(ip) ==
    /\ teamkillkicks /\ ip \in teamkills
    /\ \E ban \in BOOLEAN :
         Drop({e \in Clients : ci[e].ip = ip /\ ci[e].privilege < PRIV_ADMIN},
              IF ban THEN allowedips \ {ip} ELSE allowedips,
              IF ban THEN bannedips \cup {ip} ELSE bannedips)
    /\ teamkills' = teamkills \ {ip}
    /\ UNCHANGED <<ipbans, teamkillkicks>> /\ Quiet

\* A flag run too fast to be true: the ban that goes with it ends at once.
KickFlagrunner(c) ==
    /\ Asks("flagrun") /\ c \in Clients
    /\ Drop({c}, allowedips \ {ci[c].ip}, bannedips)
    /\ UNCHANGED <<ipbans, limits>> /\ Quiet

ban_cmd(c, d) ==
    /\ Asks("ban") /\ Admin(c) /\ d \in Clients \ {c}
    /\ Drop({d}, allowedips \ {ci[d].ip}, bannedips \cup {ci[d].ip})
    /\ UNCHANGED <<ipbans, limits>> /\ Quiet

pban_cmd(c, d) ==
    /\ Asks("pban") /\ Admin(c) /\ d \in Clients \ {c}
    /\ ipbans' = ipbans \cup {ci[d].ip}
    /\ Drop(Banned(ipbans') \cup {d}, allowedips, bannedips)
    /\ UNCHANGED limits /\ Quiet

ListsOnly == UNCHANGED <<ci, modes, gamepaused, limits>> /\ Quiet

\* "/clearbans" of a master, "#unban -1" or "clearbans" of an IRC operator.
clearbans ==
    /\ bannedips' = {} /\ UNCHANGED ipbans /\ ListsOnly

\* "#clearbans" of an admin.
clearpbans_cmd(c) ==
    /\ Asks("pban") /\ Admin(c)
    /\ ipbans' = {} /\ UNCHANGED bannedips /\ ListsOnly

\* An entry is taken out by "#unban" or has expired; another entry may be for
\* the same address, then nothing changes here.
BanEnds(ip) ==
    /\ ip \in bannedips
    /\ bannedips' = bannedips \ {ip} /\ UNCHANGED ipbans /\ ListsOnly

-----------------------------------------------------------------------------
InitialMask == CASE publicserver = 0 -> MM_PRIVSERV
                 [] publicserver = 1 -> MM_PUBSERV
                 [] publicserver = 2 -> MM_COOPSERV

Init ==
    /\ ci = [c \in Cns |-> FreeSlot]
    /\ mastermode = MM_OPEN /\ allowedips = {} /\ mastermask = InitialMask
    /\ bannedips = {} /\ ipbans = {} /\ lockedSpecIPs = {}
    /\ gamepaused = FALSE
    /\ teamkillkicks = limitteamkills /\ teamkills = {}

Connecting(c) ==
    \/ \E ip \in Ips : clientconnect(c, ip)
    \/ Connect(c) \/ ConnectByKey(c) \/ ConnectFails(c)
    \/ \E p \in {PRIV_AUTH, PRIV_ADMIN} : ConnectAuthenticated(c, p)
    \/ clientdisconnect(c)

Privileging(c) ==
    \/ ClaimMaster(c) \/ Relinquish(c) \/ invadmin_cmd(c) \/ allowmaster_cmd(c)
    \/ \E p \in {PRIV_AUTH, PRIV_ADMIN} : ClaimByProof(c, p)
    \/ \E d \in Cns : \/ GiveMaster(c, d) \/ TakeMaster(c, d)
                      \/ sendprivs_cmd(c, d) \/ revokepriv_cmd(c, d)
    \/ \E mm \in MM_OPEN..MM_PRIVATE : SetMasterMode(c, mm)
    \/ \E val \in BOOLEAN : PauseGame(c, val)

Spectating(c) ==
    \E d \in Cns : \/ Spectate(c, d) \/ Unspectate(c, d)
                   \/ forcespectator_cmd(c, d) \/ unspectate_cmd(c, d)
                   \/ togglelockspec_cmd(c, d)

Banning(c) ==
    \/ \E d \in Cns : Kick(c, d) \/ AuthKick(c, d) \/ ban_cmd(c, d) \/ pban_cmd(c, d)
    \/ KickRefused(c) \/ addteamkill(c) \/ KickFlagrunner(c) \/ clearpbans_cmd(c)

Next ==
    \/ \E c \in Cns : Connecting(c) \/ Privileging(c) \/ Spectating(c) \/ Banning(c)
    \/ changemap \/ LockCheaters \/ clearbans
    \/ \E ip \in Ips : checkteamkills(ip) \/ BanEnds(ip)

Spec == Init /\ [][Next]_vars

-----------------------------------------------------------------------------
TypeOK ==
    /\ ci \in [Cns -> ClientInfo]
    /\ mastermode \in MM_OPEN..MM_PRIVATE /\ mastermask \in Masks
    /\ allowedips \subseteq Ips /\ bannedips \subseteq Ips /\ ipbans \subseteq Ips
    /\ lockedSpecIPs \subseteq Ips /\ teamkills \subseteq Ips
    /\ gamepaused \in BOOLEAN /\ teamkillkicks \in BOOLEAN

\* A master mode other than open is held by somebody: however masters leave,
\* are kicked, revoked or banned, the server never stays locked or private
\* with nobody able to open it.  Invisible admins break this (see the README).
MastermodeHeld ==
    (~Asks("invadmin") /\ mastermode # MM_OPEN) =>
        \E c \in Clients : ci[c].privilege >= PRIV_MASTER

\* A paused game can be resumed: somebody connected may end the pause, whether
\* pausing is a right of masters or (restrictpausegame) of admins.
PauseHeld ==
    (~Asks("invadmin") /\ gamepaused) => \E c \in Clients : ci[c].privilege >= PausePriv

\* The list of admitted addresses never outlives the private mode that made it.
AllowedOnlyInPrivate == mastermode # MM_PRIVATE => allowedips = {}

\* A client locked to spectator mode never plays, by whatever handler it,
\* a master or an admin tries to bring it back.
LockedNeverPlays ==
    \A c \in Cns : ci[c].isSpecLocked => ci[c].spectator

\* The comment on noclients, "bans clear when server empties": also when the
\* kick or the team kill limit that sets a ban is what empties it.
EmptyingClearsBans ==
    [][(clearbansonempty /\ Clients # {} /\ Clients' = {}) => bannedips' = {}]_vars

\* An admin is never swept away with others, by a kick of a neighbour on its
\* address, a check of the ban lists or a limit on team kills: it leaves on its
\* own, for its own flag run, or by the command of an admin who names it.
AdminsStay ==
    [][\A d \in Cns : (Admin(d) /\ ci'[d].conn = "free") =>
         \/ clientdisconnect(d) \/ KickFlagrunner(d)
         \/ \E c \in Cns : ban_cmd(c, d) \/ pban_cmd(c, d)]_vars
=============================================================================
