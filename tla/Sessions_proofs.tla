--------------------------- MODULE Sessions_proofs ---------------------------
(***************************************************************************)
(* The invariants of Sessions hold for any number of slots and addresses,  *)
(* any configuration and any set of requests.                              *)
(***************************************************************************)
EXTENDS Sessions, TLAPS

\* Without "#invadmin" nobody is an invisible admin.
NoInvAdmins == ~Asks("invadmin") => \A c \in Cns : ~ci[c].isInvAdmin

\* Whoever is there has an address: the lists of addresses hold no empty entry.
Addressed == \A c \in Cns : ci[c].conn # "free" => ci[c].ip \in Ips

\* The conjunction that every step preserves.  The invisible admins matter
\* because their departure is the one that does not go through setmaster.
IInv ==
    /\ TypeOK /\ NoInvAdmins /\ Addressed
    /\ MastermodeHeld /\ PauseHeld /\ AllowedOnlyInPrivate /\ LockedNeverPlays

Infos == [Cns -> ClientInfo]

\* A server starts with one of the three masks.
LEMMA MasksType == Masks # {} /\ InitialMask \in Masks
  BY ConfigAssumption DEF Masks, InitialMask

\* Who may pause the game: masters, or admins only.
LEMMA PausePrivValue == PausePriv \in {PRIV_MASTER, PRIV_ADMIN}
  BY DEF PausePriv

\* Initially the server is empty, open and not paused.
LEMMA InitInv == Init => IInv
<1> SUFFICES ASSUME Init PROVE IInv
  OBVIOUS
<1>1. /\ ci = [c \in Cns |-> FreeSlot]
      /\ mastermode = MM_OPEN /\ allowedips = {} /\ mastermask = InitialMask
      /\ bannedips = {} /\ ipbans = {} /\ lockedSpecIPs = {} /\ teamkills = {}
      /\ gamepaused = FALSE /\ teamkillkicks = limitteamkills
  BY DEF Init
<1>2. limitteamkills \in BOOLEAN
  BY ConfigAssumption
<1>3. ci \in Infos
  BY <1>1 DEF Infos, ClientInfo, FreeSlot, PRIV_NONE, PRIV_ADMIN
<1>4. TypeOK
  <2>1. gamepaused \in BOOLEAN /\ teamkillkicks \in BOOLEAN
    BY <1>1, <1>2
  <2>2. mastermode \in MM_OPEN..MM_PRIVATE
    BY <1>1 DEF MM_OPEN, MM_PRIVATE
  <2>3. mastermask \in Masks
    BY <1>1, MasksType
  <2> QED
    BY <1>1, <1>3, <2>1, <2>2, <2>3 DEF TypeOK, Infos
<1>5. NoInvAdmins /\ Addressed /\ LockedNeverPlays
  BY <1>1 DEF FreeSlot, NoInvAdmins, Addressed, LockedNeverPlays
<1>6. MastermodeHeld /\ PauseHeld /\ AllowedOnlyInPrivate
  BY <1>1 DEF MastermodeHeld, PauseHeld, AllowedOnlyInPrivate
<1> QED
  BY <1>4, <1>5, <1>6 DEF IInv

-----------------------------------------------------------------------------
\* The parts of IInv that the steps below establish one by one.
ModesOK ==
    /\ mastermode \in MM_OPEN..MM_PRIVATE
    /\ allowedips \subseteq Ips
    /\ AllowedOnlyInPrivate

ListsOK ==
    /\ mastermask \in Masks /\ teamkillkicks \in BOOLEAN
    /\ bannedips \subseteq Ips /\ ipbans \subseteq Ips
    /\ lockedSpecIPs \subseteq Ips /\ teamkills \subseteq Ips

HeldOK == gamepaused \in BOOLEAN /\ MastermodeHeld /\ PauseHeld

SlotsOK == ci \in Infos /\ NoInvAdmins /\ Addressed /\ LockedNeverPlays

\* IInv is the conjunction of its parts.
LEMMA Parts == IInv <=> SlotsOK /\ ModesOK /\ ListsOK /\ HeldOK
  BY DEF IInv, TypeOK, SlotsOK, ModesOK, ListsOK, HeldOK, Infos

\* The same in the next state.
LEMMA PartsNext == IInv' <=> SlotsOK' /\ ModesOK' /\ ListsOK' /\ HeldOK'
  BY DEF IInv, TypeOK, SlotsOK, ModesOK, ListsOK, HeldOK, Infos

\* Whatever privileges setmaster finds, it leaves a mode and a pause that one
\* of the connected clients holds.
LEMMA ReassessHolds ==
  ASSUME NEW infos \in Infos, ci' = infos, NEW paused \in BOOLEAN, ModesOK,
         Reassess(infos, paused)
  PROVE  ModesOK' /\ HeldOK'
<1>1. Clients' = InClients(infos)
  BY DEF Clients
<1>2. gamepaused' \in BOOLEAN /\ PauseHeld'
  BY <1>1 DEF Reassess, PauseHeld, PausePriv
<1>3. CASE \E c \in InClients(infos) : infos[c].privilege >= PRIV_MASTER
  BY <1>1, <1>2, <1>3
  DEF Reassess, ModesOK, HeldOK, MastermodeHeld, AllowedOnlyInPrivate, modes
<1>4. CASE ~\E c \in InClients(infos) : infos[c].privilege >= PRIV_MASTER
  <2>1. mastermode' = MM_OPEN /\ allowedips' = {}
    BY <1>4 DEF Reassess
  <2> QED
    BY <1>2, <2>1 DEF ModesOK, HeldOK, MastermodeHeld, AllowedOnlyInPrivate,
        MM_OPEN, MM_PRIVATE
<1> QED
  BY <1>3, <1>4

-----------------------------------------------------------------------------
\* A step that takes no privilege from a connected client, disconnects nobody
\* and keeps the mode keeps the invariant, whatever it does to the lists.
LEMMA KeepHolds ==
  ASSUME IInv, SlotsOK', ListsOK', UNCHANGED modes,
         gamepaused' \in BOOLEAN, gamepaused' => gamepaused,
         \A e \in Clients : e \in Clients' /\ ci'[e].privilege >= ci[e].privilege
  PROVE  IInv'
<1>1. SlotsOK /\ ModesOK /\ HeldOK
  BY Parts
<1>2. ModesOK'
  BY <1>1 DEF ModesOK, AllowedOnlyInPrivate, modes
<1>3. \A e \in Clients : ci[e].privilege \in Int /\ ci'[e].privilege \in Int
  BY <1>1 DEF SlotsOK, Infos, ClientInfo, Clients, InClients, PRIV_NONE, PRIV_ADMIN
<1>4. MastermodeHeld'
  BY <1>1, <1>3 DEF HeldOK, MastermodeHeld, modes, PRIV_MASTER
<1>5. PauseHeld'
  BY <1>1, <1>3, PausePrivValue DEF HeldOK, PauseHeld, PRIV_MASTER, PRIV_ADMIN
<1> QED
  BY <1>2, <1>4, <1>5, PartsNext DEF HeldOK

\* A step that changes no slot and no mode keeps it.
LEMMA ListsHold ==
  ASSUME IInv, ListsOK', UNCHANGED <<ci, modes, gamepaused>>
  PROVE  IInv'
<1>1. SlotsOK' /\ gamepaused' \in BOOLEAN
  BY Parts DEF SlotsOK, HeldOK, NoInvAdmins, Addressed, LockedNeverPlays
<1>2. \A e \in Clients : e \in Clients' /\ ci'[e].privilege >= ci[e].privilege
  BY Parts DEF SlotsOK, Infos, ClientInfo, Clients, InClients, PRIV_NONE, PRIV_ADMIN
<1> QED
  BY <1>1, <1>2, KeepHolds

\* A privilege is changed: setmaster looks at the mode and the pause again.
LEMMA SetmasterHolds ==
  ASSUME IInv, NEW c \in Cns, NEW privilege \in PRIV_NONE..PRIV_ADMIN,
         setmaster(c, privilege), Stay
  PROVE  IInv'
<1>1. SlotsOK /\ ModesOK /\ ListsOK /\ gamepaused \in BOOLEAN
  BY Parts DEF HeldOK
<1>2. ci' = [ci EXCEPT ![c].privilege = privilege]
  BY DEF setmaster
<1>3. SlotsOK'
  BY <1>1, <1>2 DEF SlotsOK, Infos, ClientInfo, NoInvAdmins, Addressed, LockedNeverPlays
<1>4. Reassess([ci EXCEPT ![c].privilege = privilege], gamepaused)
  BY DEF setmaster
<1>5. ModesOK' /\ HeldOK'
  BY <1>1, <1>2, <1>3, <1>4, ReassessHolds DEF SlotsOK
<1>6. ListsOK'
  BY <1>1 DEF ListsOK, Stay, Quiet, bans, limits
<1> QED
  BY <1>3, <1>5, <1>6, PartsNext

\* Clients leave: only an invisible admin takes the right to the mode or the
\* pause along without a word.
LEMMA DepartureHolds ==
  ASSUME IInv, NEW K, NEW allowed \in SUBSET allowedips, NEW banned \in SUBSET Ips,
         Departure(K, allowed, banned), SlotsOK',
         \A e \in Clients \ K : e \in Clients' /\ ci'[e] = ci[e]
  PROVE  ModesOK' /\ HeldOK' /\ bannedips' \subseteq Ips
<1> DEFINE gone == K \cap Clients
           rest == Clients \ K
           told == {c \in gone : ci[c].privilege # PRIV_NONE /\ ~ci[c].isInvAdmin}
           silent == {c \in gone : ci[c].privilege # PRIV_NONE /\ ci[c].isInvAdmin}
           nomaster == told # {} /\ \A c \in rest : ci[c].privilege = PRIV_NONE
           nopauser == told # {} /\ \A c \in rest : ci[c].privilege < PausePriv
           pausers == {c \in silent : ci[c].privilege >= PausePriv}
<1>1. SlotsOK /\ ModesOK /\ HeldOK
  BY Parts
<1>2. /\ \/ nomaster /\ mastermode' = MM_OPEN /\ allowedips' = {}
         \/ /\ nomaster => silent # {}
            /\ mastermode' = mastermode /\ allowedips' = allowed
      /\ \/ nopauser /\ gamepaused' = FALSE
         \/ (nopauser => pausers # {}) /\ gamepaused' = gamepaused
      /\ bannedips' \in {{}, banned}
  BY DEF Departure
<1> HIDE DEF nomaster, nopauser
<1>3. bannedips' \subseteq Ips /\ gamepaused' \in BOOLEAN
  BY <1>1, <1>2 DEF HeldOK
<1>4. ModesOK'
  BY <1>1, <1>2 DEF ModesOK, AllowedOnlyInPrivate, MM_OPEN, MM_PRIVATE
<1>5. \A c \in Clients : c \in Cns /\ ci[c].privilege \in PRIV_NONE..PRIV_ADMIN
  BY <1>1 DEF SlotsOK, Infos, ClientInfo, Clients, InClients
<1>6. ~Asks("invadmin") => silent = {}
  BY <1>1, <1>5 DEF SlotsOK, NoInvAdmins
<1>7. MastermodeHeld'
  <2> SUFFICES ASSUME ~Asks("invadmin"), mastermode' # MM_OPEN
               PROVE  \E c \in Clients' : ci'[c].privilege >= PRIV_MASTER
    BY DEF MastermodeHeld
  <2>1. ~nomaster /\ mastermode # MM_OPEN
    BY <1>2, <1>6
  <2>2. PICK c \in Clients : ci[c].privilege >= PRIV_MASTER
    BY <1>1, <2>1 DEF HeldOK, MastermodeHeld
  <2>3. CASE c \in rest
    BY <2>2, <2>3
  <2>4. CASE c \notin rest
    <3>1. c \in told
      BY <1>5, <1>6, <2>2, <2>4 DEF PRIV_MASTER, PRIV_NONE, PRIV_ADMIN
    <3>2. PICK d \in rest : ci[d].privilege # PRIV_NONE
      BY <2>1, <3>1 DEF nomaster
    <3>3. ci[d].privilege >= PRIV_MASTER
      BY <1>5, <3>2 DEF PRIV_MASTER, PRIV_NONE, PRIV_ADMIN
    <3> QED
      BY <3>3
  <2> QED
    BY <2>3, <2>4
<1>8. PauseHeld'
  <2> SUFFICES ASSUME ~Asks("invadmin"), gamepaused'
               PROVE  \E c \in Clients' : ci'[c].privilege >= PausePriv
    BY DEF PauseHeld
  <2>1. ~nopauser /\ gamepaused
    BY <1>2, <1>6
  <2>2. PICK c \in Clients : ci[c].privilege >= PausePriv
    BY <1>1, <2>1 DEF HeldOK, PauseHeld
  <2>3. CASE c \in rest
    BY <2>2, <2>3
  <2>4. CASE c \notin rest
    <3>1. c \in told
      BY <1>5, <1>6, <2>2, <2>4, PausePrivValue DEF PRIV_MASTER, PRIV_NONE, PRIV_ADMIN
    <3>2. PICK d \in rest : ~(ci[d].privilege < PausePriv)
      BY <2>1, <3>1 DEF nopauser
    <3>3. ci[d].privilege >= PausePriv
      BY <1>5, <3>2, PausePrivValue DEF PRIV_MASTER, PRIV_NONE, PRIV_ADMIN
    <3> QED
      BY <3>3
  <2> QED
    BY <2>3, <2>4
<1> QED
  BY <1>3, <1>4, <1>7, <1>8 DEF HeldOK

\* An empty slot is a well-formed slot.
LEMMA FreeSlotType == FreeSlot \in ClientInfo
  BY DEF FreeSlot, ClientInfo, PRIV_NONE, PRIV_ADMIN

\* Any set of clients is dropped, whatever their addresses are then banned.
LEMMA DropHolds ==
  ASSUME IInv, NEW K, NEW allowed \in SUBSET allowedips, NEW banned \in SUBSET Ips,
         Drop(K, allowed, banned), ipbans' \subseteq Ips, teamkills' \subseteq Ips,
         teamkillkicks' \in BOOLEAN, Quiet
  PROVE  IInv'
<1>1. SlotsOK /\ ListsOK
  BY Parts
<1>2. ci' = [c \in Cns |-> IF c \in K THEN FreeSlot ELSE ci[c]]
  BY DEF Drop, Without
<1>3. SlotsOK'
  <2>1. ci' \in Infos
    BY <1>1, <1>2, FreeSlotType DEF SlotsOK, Infos
  <2> QED
    BY <1>1, <1>2, <2>1 DEF SlotsOK, NoInvAdmins, Addressed, LockedNeverPlays, FreeSlot
<1>4. \A e \in Clients \ K : e \in Clients' /\ ci'[e] = ci[e]
  BY <1>2 DEF Clients, InClients
<1>5. ModesOK' /\ HeldOK' /\ bannedips' \subseteq Ips
  BY <1>3, <1>4, DepartureHolds DEF Drop
<1>6. ListsOK'
  BY <1>1, <1>5 DEF ListsOK, Quiet
<1> QED
  BY <1>3, <1>5, <1>6, PartsNext

-----------------------------------------------------------------------------
\* One lemma per group of actions.

\* Connections come, are admitted or refused, and end.
LEMMA ConnectingHolds ==
  ASSUME IInv, NEW c \in Cns, Connecting(c)
  PROVE  IInv'
<1>1. SlotsOK /\ ModesOK /\ ListsOK /\ HeldOK
  BY Parts
<1>2. ASSUME NEW ip \in Ips, clientconnect(c, ip)
      PROVE  IInv'
  <2> DEFINE K == Banned(ipbans)
             new == [FreeSlot EXCEPT !.conn = "connecting", !.ip = ip,
                                     !.isSpecLocked = ip \in lockedSpecIPs,
                                     !.spectator = ip \in lockedSpecIPs]
  <2>1. ci' = [[e \in Cns |-> IF e \in K THEN FreeSlot ELSE ci[e]] EXCEPT ![c] = new]
    BY <1>2 DEF clientconnect, Without
  <2>2. new \in ClientInfo /\ (new.isSpecLocked => new.spectator) /\ ~new.isInvAdmin
        /\ new.ip = ip
    <3>1. ASSUME NEW f \in ClientInfo, NEW b \in BOOLEAN
          PROVE  LET slot == [f EXCEPT !.conn = "connecting", !.ip = ip,
                                       !.isSpecLocked = b, !.spectator = b]
                 IN  slot \in ClientInfo /\ slot.isSpecLocked = b
                       /\ slot.spectator = b /\ slot.isInvAdmin = f.isInvAdmin
                       /\ slot.ip = ip
      BY DEF ClientInfo
    <3>2. (ip \in lockedSpecIPs) \in BOOLEAN /\ FreeSlot.isInvAdmin = FALSE
      BY DEF FreeSlot
    <3> QED
      BY <3>1, <3>2, FreeSlotType, Zenon
  <2> HIDE DEF new
  <2>3. ci' \in Infos
    BY <1>1, <2>1, <2>2, FreeSlotType DEF SlotsOK, Infos
  <2>4. SlotsOK'
    BY <1>1, <2>1, <2>2, <2>3 DEF SlotsOK, NoInvAdmins, Addressed, LockedNeverPlays, FreeSlot
  <2>5. \A e \in Clients \ K : e \in Clients' /\ ci'[e] = ci[e]
    BY <1>2, <2>1 DEF clientconnect, Clients, InClients
  <2>6. Departure(K, allowedips, bannedips) /\ UNCHANGED <<ipbans, limits>> /\ Quiet
    BY <1>2 DEF clientconnect
  <2> HIDE DEF K
  <2>7. ModesOK' /\ HeldOK' /\ bannedips' \subseteq Ips
    BY <1>1, <2>4, <2>5, <2>6, DepartureHolds DEF ListsOK
  <2>8. ListsOK'
    BY <1>1, <2>6, <2>7 DEF ListsOK, Quiet, limits
  <2> QED
    BY <2>4, <2>7, <2>8, PartsNext
<1>3. connected(c) \in Infos
  <2> DEFINE infos == [ci EXCEPT ![c].conn = "connected", ![c].connectauth = FALSE]
  <2>1. infos \in Infos
    <3>1. ci[c] \in ClientInfo /\ ci \in Infos
      BY <1>1 DEF SlotsOK, Infos
    <3>2. [ci[c] EXCEPT !.conn = "connected", !.connectauth = FALSE] \in ClientInfo
      BY <3>1 DEF ClientInfo
    <3> QED
      BY <3>1, <3>2 DEF Infos
  <2>2. ASSUME NEW f \in Infos PROVE [f EXCEPT ![c].spectator = TRUE] \in Infos
    BY DEF Infos, ClientInfo
  <2> QED
    BY <2>1, <2>2 DEF connected
<1>9. \A e \in Cns : /\ connected(c)[e].isInvAdmin = ci[e].isInvAdmin
                     /\ connected(c)[e].isSpecLocked = ci[e].isSpecLocked
                     /\ ci[e].spectator => connected(c)[e].spectator
  BY <1>1 DEF connected, SlotsOK, Infos, ClientInfo
<1>10. \A e \in Cns : /\ connected(c)[e].ip = ci[e].ip
                      /\ connected(c)[e].conn = "free" <=> ci[e].conn = "free" /\ e # c
  BY <1>1 DEF connected, SlotsOK, Infos, ClientInfo
<1>4. CASE Connect(c)
  <2>1. ci' = connected(c)
    BY <1>4 DEF Connect
  <2>2. SlotsOK'
    BY <1>1, <1>3, <1>4, <1>9, <1>10, <2>1
    DEF SlotsOK, NoInvAdmins, Addressed, LockedNeverPlays, Connect, Awaiting
  <2>3. ListsOK' /\ UNCHANGED modes
    BY <1>1, <1>4 DEF Connect, Rotate, ListsOK, Quiet, bans
  <2>4. gamepaused' \in BOOLEAN /\ (gamepaused' => gamepaused)
    BY <1>1, <1>4 DEF Connect, HeldOK
  <2>5. \A e \in Clients : e \in Clients' /\ ci'[e].privilege >= ci[e].privilege
    BY <1>1, <1>4, <2>1
    DEF Connect, Awaiting, connected, Clients, InClients, SlotsOK, Infos, ClientInfo,
        PRIV_NONE, PRIV_ADMIN
  <2> QED
    BY <2>2, <2>3, <2>4, <2>5, KeepHolds
<1>5. CASE ConnectByKey(c)
  <2>1. ci' = [ci EXCEPT ![c].connectauth = TRUE]
    BY <1>5 DEF ConnectByKey
  <2>2. SlotsOK'
    <3>1. ci[c] \in ClientInfo /\ ci \in Infos
      BY <1>1 DEF SlotsOK, Infos
    <3>2. [ci[c] EXCEPT !.connectauth = TRUE] \in ClientInfo
      BY <3>1 DEF ClientInfo
    <3>3. ci' \in Infos
      BY <2>1, <3>1, <3>2 DEF Infos
    <3>4. \A e \in Cns : /\ ci'[e].conn = ci[e].conn /\ ci'[e].ip = ci[e].ip
                         /\ ci'[e].isInvAdmin = ci[e].isInvAdmin
                         /\ ci'[e].spectator = ci[e].spectator
                         /\ ci'[e].isSpecLocked = ci[e].isSpecLocked
      BY <2>1, <3>1 DEF Infos, ClientInfo
    <3> QED
      BY <1>1, <3>3, <3>4 DEF SlotsOK, NoInvAdmins, Addressed, LockedNeverPlays
  <2>3. ListsOK' /\ UNCHANGED modes
    BY <1>1, <1>5 DEF ConnectByKey, ListsOK, Quiet, bans, limits
  <2>4. gamepaused' \in BOOLEAN /\ (gamepaused' => gamepaused)
    BY <1>1, <1>5 DEF ConnectByKey, HeldOK
  <2>5. \A e \in Clients : e \in Clients' /\ ci'[e].privilege >= ci[e].privilege
    BY <1>1, <2>1
    DEF Clients, InClients, SlotsOK, Infos, ClientInfo, PRIV_NONE, PRIV_ADMIN
  <2> QED
    BY <2>2, <2>3, <2>4, <2>5, KeepHolds
<1>6. CASE ConnectFails(c)
  BY <1>1, <1>6, DropHolds DEF ConnectFails, ListsOK, limits
<1>7. ASSUME NEW p \in {PRIV_AUTH, PRIV_ADMIN}, ConnectAuthenticated(c, p)
      PROVE  IInv'
  <2>1. PICK rotated \in BOOLEAN :
          /\ Rotate(c, rotated)
          /\ ci' = [connected(c) EXCEPT ![c].privilege = Larger(@, p)]
          /\ Reassess([connected(c) EXCEPT ![c].privilege = Larger(@, p)],
                      gamepaused /\ ~rotated)
    BY <1>7 DEF ConnectAuthenticated
  <2>2. Larger(connected(c)[c].privilege, p) \in PRIV_NONE..PRIV_ADMIN
    BY <1>3 DEF Larger, Infos, ClientInfo, PRIV_NONE, PRIV_AUTH, PRIV_ADMIN
  <2>3. ci' \in Infos
    BY <1>3, <2>1, <2>2 DEF Infos, ClientInfo
  <2>4. SlotsOK'
    <3>1. \A e \in Cns : /\ ci'[e].isInvAdmin = connected(c)[e].isInvAdmin
                         /\ ci'[e].isSpecLocked = connected(c)[e].isSpecLocked
                         /\ ci'[e].spectator = connected(c)[e].spectator
                         /\ ci'[e].conn = connected(c)[e].conn
                         /\ ci'[e].ip = connected(c)[e].ip
      BY <1>3, <2>1 DEF Infos, ClientInfo
    <3>2. ci[c].conn = "connecting"
      BY <1>7 DEF ConnectAuthenticated
    <3>3. NoInvAdmins' /\ LockedNeverPlays'
      BY <1>1, <1>9, <3>1 DEF SlotsOK, NoInvAdmins, LockedNeverPlays
    <3>4. Addressed'
      BY <1>1, <1>10, <3>1, <3>2 DEF SlotsOK, Addressed
    <3> QED
      BY <2>3, <3>3, <3>4 DEF SlotsOK
  <2>5. (gamepaused /\ ~rotated) \in BOOLEAN
    OBVIOUS
  <2>6. ModesOK' /\ HeldOK'
    BY <1>1, <2>1, <2>3, <2>5, ReassessHolds
  <2>7. ListsOK'
    BY <1>1, <1>7, <2>1 DEF ConnectAuthenticated, Rotate, ListsOK, Quiet, bans
  <2> QED
    BY <2>4, <2>6, <2>7, PartsNext
<1>8. CASE clientdisconnect(c)
  BY <1>1, <1>8, DropHolds DEF clientdisconnect, ListsOK, limits
<1> QED
  BY <1>2, <1>4, <1>5, <1>6, <1>7, <1>8 DEF Connecting

\* Privileges are claimed, proved, given, taken, shared and revoked.
LEMMA PrivilegingHolds ==
  ASSUME IInv, NEW c \in Cns, Privileging(c)
  PROVE  IInv'
<1>1. SlotsOK /\ ModesOK /\ ListsOK /\ HeldOK
  BY Parts
<1>2. ASSUME NEW d \in Cns, NEW p \in PRIV_NONE..PRIV_ADMIN, setmaster(d, p), Stay
      PROVE  IInv'
  BY <1>2, SetmasterHolds
<1>3. /\ {PRIV_NONE, PRIV_MASTER, PRIV_AUTH, PRIV_ADMIN} \subseteq PRIV_NONE..PRIV_ADMIN
      /\ ci[c].privilege \in PRIV_NONE..PRIV_ADMIN
  BY <1>1 DEF SlotsOK, Infos, ClientInfo, PRIV_NONE, PRIV_MASTER, PRIV_AUTH, PRIV_ADMIN
<1>4. CASE ClaimMaster(c) \/ Relinquish(c)
  BY <1>2, <1>3, <1>4 DEF ClaimMaster, Relinquish
<1>5. CASE \E p \in {PRIV_AUTH, PRIV_ADMIN} : ClaimByProof(c, p)
  BY <1>2, <1>3, <1>5 DEF ClaimByProof
<1>6. ASSUME NEW d \in Cns,
             \/ GiveMaster(c, d) \/ TakeMaster(c, d)
             \/ sendprivs_cmd(c, d) \/ revokepriv_cmd(c, d)
      PROVE  IInv'
  BY <1>2, <1>3, <1>6 DEF GiveMaster, TakeMaster, sendprivs_cmd, revokepriv_cmd
<1>7. CASE invadmin_cmd(c)
  <2>1. ci' = [ci EXCEPT ![c].privilege = PRIV_ADMIN, ![c].isInvAdmin = TRUE]
    BY <1>7 DEF invadmin_cmd
  <2>5. ci' \in Infos
    <3>1. [ci EXCEPT ![c].privilege = PRIV_ADMIN] \in Infos
      BY <1>1 DEF SlotsOK, Infos, ClientInfo, PRIV_NONE, PRIV_ADMIN
    <3>2. ASSUME NEW f \in Infos PROVE [f EXCEPT ![c].isInvAdmin = TRUE] \in Infos
      BY DEF Infos, ClientInfo
    <3> QED
      BY <2>1, <3>1, <3>2
  <2>6. Asks("invadmin")
    BY <1>7 DEF invadmin_cmd
  <2>2. SlotsOK'
    BY <1>1, <2>1, <2>5, <2>6
    DEF SlotsOK, NoInvAdmins, Addressed, LockedNeverPlays, Infos, ClientInfo
  <2>3. ListsOK' /\ UNCHANGED modes /\ UNCHANGED gamepaused
    BY <1>1, <1>7 DEF invadmin_cmd, Stay, Quiet, bans, limits, ListsOK
  <2>4. \A e \in Clients : e \in Clients' /\ ci'[e].privilege >= ci[e].privilege
    BY <1>1, <2>1
    DEF Clients, InClients, SlotsOK, Infos, ClientInfo, PRIV_NONE, PRIV_ADMIN
  <2> QED
    BY <1>1, <2>2, <2>3, <2>4, KeepHolds DEF HeldOK
<1>8. CASE allowmaster_cmd(c)
  BY <1>1, <1>8, ListsHold
  DEF allowmaster_cmd, ListsOK, bans, limits, modes, Masks
<1>9. ASSUME NEW mm \in MM_OPEN..MM_PRIVATE, SetMasterMode(c, mm)
      PROVE  IInv'
  <2>1. /\ UNCHANGED <<ci, gamepaused>> /\ mastermode' = mm
        /\ allowedips' = IF mm >= MM_PRIVATE THEN {ci[d].ip : d \in Clients} ELSE {}
        /\ c \in Clients /\ ci[c].privilege # PRIV_NONE
    BY <1>9 DEF SetMasterMode
  <2>2. SlotsOK'
    BY <1>1, <2>1 DEF SlotsOK, NoInvAdmins, Addressed, LockedNeverPlays
  <2>3. \A d \in Clients : ci[d].ip \in Ips
    BY <1>1 DEF SlotsOK, Addressed, Clients, InClients
  <2>4. ModesOK'
    BY <1>1, <2>1, <2>3 DEF ModesOK, AllowedOnlyInPrivate, MM_OPEN, MM_PRIVATE
  <2>5. ci[c].privilege >= PRIV_MASTER
    BY <1>3, <2>1 DEF PRIV_NONE, PRIV_MASTER, PRIV_ADMIN
  <2>6. HeldOK'
    BY <1>1, <2>1, <2>5 DEF HeldOK, MastermodeHeld, PauseHeld, Clients, InClients
  <2>7. ListsOK'
    BY <1>1, <1>9 DEF SetMasterMode, Stay, Quiet, bans, limits, ListsOK
  <2> QED
    BY <2>2, <2>4, <2>6, <2>7, PartsNext
<1>10. ASSUME NEW val \in BOOLEAN, PauseGame(c, val)
       PROVE  IInv'
  <2>1. /\ UNCHANGED <<ci, modes>> /\ gamepaused' = val
        /\ c \in Clients /\ ci[c].privilege >= PausePriv
    BY <1>10 DEF PauseGame
  <2>2. SlotsOK' /\ ModesOK'
    BY <1>1, <2>1
    DEF SlotsOK, NoInvAdmins, Addressed, LockedNeverPlays, ModesOK, AllowedOnlyInPrivate, modes
  <2>3. HeldOK'
    BY <1>1, <2>1 DEF HeldOK, MastermodeHeld, PauseHeld, Clients, InClients, modes
  <2>4. ListsOK'
    BY <1>1, <1>10 DEF PauseGame, Stay, Quiet, bans, limits, ListsOK
  <2> QED
    BY <2>2, <2>3, <2>4, PartsNext
<1> QED
  BY <1>4, <1>5, <1>6, <1>7, <1>8, <1>9, <1>10 DEF Privileging

\* A step that only sends clients to the spectators or back, keeping the locked
\* ones there, keeps the invariant; the map may rotate, which ends a pause.
LEMMA SpectatingKeeps ==
  ASSUME IInv, ci' \in Infos, LockedNeverPlays', ListsOK', UNCHANGED modes,
         gamepaused' \in BOOLEAN, gamepaused' => gamepaused,
         \A e \in Cns : /\ ci'[e].conn = ci[e].conn /\ ci'[e].ip = ci[e].ip
                        /\ ci'[e].privilege = ci[e].privilege
                        /\ ci'[e].isInvAdmin = ci[e].isInvAdmin
  PROVE  IInv'
<1>1. SlotsOK'
  BY Parts DEF SlotsOK, NoInvAdmins, Addressed
<1>2. \A e \in Clients : e \in Clients' /\ ci'[e].privilege >= ci[e].privilege
  BY Parts DEF SlotsOK, Infos, ClientInfo, Clients, InClients, PRIV_NONE, PRIV_ADMIN
<1> QED
  BY <1>1, <1>2, KeepHolds

\* checkmaps changes nothing but who may play.
LEMMA LockedType ==
  ASSUME NEW infos \in Infos, NEW W
  PROVE  /\ Locked(infos, W) \in Infos
         /\ \A e \in Cns : /\ Locked(infos, W)[e].conn = infos[e].conn
                           /\ Locked(infos, W)[e].ip = infos[e].ip
                           /\ Locked(infos, W)[e].privilege = infos[e].privilege
                           /\ Locked(infos, W)[e].isInvAdmin = infos[e].isInvAdmin
                           /\ e \in W => Locked(infos, W)[e].spectator
                           /\ e \notin W => Locked(infos, W)[e] = infos[e]
<1>1. ASSUME NEW f \in ClientInfo
      PROVE  LET slot == [f EXCEPT !.spectator = TRUE, !.isSpecLocked = TRUE]
             IN  /\ slot \in ClientInfo /\ slot.conn = f.conn /\ slot.ip = f.ip
                 /\ slot.privilege = f.privilege /\ slot.isInvAdmin = f.isInvAdmin
                 /\ slot.spectator
  BY DEF ClientInfo
<1> QED
  BY <1>1 DEF Locked, Infos

\* A client joins the spectators.
LEMMA SpectateType ==
  ASSUME NEW infos \in Infos, NEW d \in Cns
  PROVE  LET new == [infos EXCEPT ![d].spectator = TRUE]
         IN  /\ new \in Infos
             /\ \A e \in Cns : /\ new[e].conn = infos[e].conn
                               /\ new[e].ip = infos[e].ip
                               /\ new[e].privilege = infos[e].privilege
                               /\ new[e].isInvAdmin = infos[e].isInvAdmin
                               /\ new[e].isSpecLocked = infos[e].isSpecLocked
                               /\ infos[e].spectator => new[e].spectator
  BY DEF Infos, ClientInfo

\* A client returns to the game.
LEMMA PlayType ==
  ASSUME NEW infos \in Infos, NEW d \in Cns
  PROVE  LET new == [infos EXCEPT ![d].spectator = FALSE]
         IN  /\ new \in Infos
             /\ \A e \in Cns : /\ new[e].conn = infos[e].conn
                               /\ new[e].ip = infos[e].ip
                               /\ new[e].privilege = infos[e].privilege
                               /\ new[e].isInvAdmin = infos[e].isInvAdmin
                               /\ new[e].isSpecLocked = infos[e].isSpecLocked
                               /\ e # d => new[e] = infos[e]
  BY DEF Infos, ClientInfo

\* A client is unlocked.
LEMMA UnlockType ==
  ASSUME ci \in Infos, NEW d \in Cns
  PROVE  /\ unlock(d) \in Infos
         /\ \A e \in Cns : /\ unlock(d)[e].conn = ci[e].conn
                           /\ unlock(d)[e].ip = ci[e].ip
                           /\ unlock(d)[e].privilege = ci[e].privilege
                           /\ unlock(d)[e].isInvAdmin = ci[e].isInvAdmin
                           /\ e = d => ~unlock(d)[e].isSpecLocked
                           /\ e # d => unlock(d)[e] = ci[e]
<1>1. ASSUME NEW f \in ClientInfo
      PROVE  LET slot == [f EXCEPT !.spectator = FALSE, !.isSpecLocked = FALSE]
             IN  /\ slot \in ClientInfo /\ slot.conn = f.conn /\ slot.ip = f.ip
                 /\ slot.privilege = f.privilege /\ slot.isInvAdmin = f.isInvAdmin
                 /\ ~slot.isSpecLocked
  BY DEF ClientInfo
<1> QED
  BY <1>1 DEF unlock, Infos

\* Clients spectate and play, are locked and unlocked.
LEMMA SpectatingHolds ==
  ASSUME IInv, NEW c \in Cns, Spectating(c)
  PROVE  IInv'
<1>1. SlotsOK /\ ModesOK /\ ListsOK /\ HeldOK
  BY Parts
<1>2. PICK d \in Cns : \/ Spectate(c, d) \/ Unspectate(c, d)
                       \/ forcespectator_cmd(c, d) \/ unspectate_cmd(c, d)
                       \/ togglelockspec_cmd(c, d)
  BY DEF Spectating
<1>3. CASE Spectate(c, d) \/ forcespectator_cmd(c, d)
  <2>1. /\ ci' = [ci EXCEPT ![d].spectator = TRUE]
        /\ UNCHANGED <<modes, gamepaused>> /\ Stay
    BY <1>3 DEF Spectate, forcespectator_cmd
  <2>2. ListsOK'
    BY <1>1, <2>1 DEF ListsOK, Stay, Quiet, bans, limits
  <2>3. LockedNeverPlays'
    BY <1>1, <2>1, SpectateType DEF SlotsOK, LockedNeverPlays
  <2>4. /\ ci' \in Infos
        /\ \A e \in Cns : /\ ci'[e].conn = ci[e].conn /\ ci'[e].ip = ci[e].ip
                          /\ ci'[e].privilege = ci[e].privilege
                          /\ ci'[e].isInvAdmin = ci[e].isInvAdmin
    <3> DEFINE infos == [ci EXCEPT ![d].spectator = TRUE]
    <3>1. /\ infos \in Infos
          /\ \A e \in Cns : /\ infos[e].conn = ci[e].conn /\ infos[e].ip = ci[e].ip
                            /\ infos[e].privilege = ci[e].privilege
                            /\ infos[e].isInvAdmin = ci[e].isInvAdmin
      BY <1>1, SpectateType DEF SlotsOK
    <3> QED
      BY <2>1, <3>1
  <2> QED
    BY <1>1, <2>1, <2>2, <2>3, <2>4, SpectatingKeeps DEF HeldOK
<1>4. ASSUME NEW rotated \in BOOLEAN, Play(d, rotated), mastermask' = mastermask,
             lockedSpecIPs' \subseteq lockedSpecIPs
      PROVE  /\ ListsOK' /\ UNCHANGED modes
             /\ gamepaused' \in BOOLEAN /\ (gamepaused' => gamepaused)
  BY <1>1, <1>4 DEF Play, Rotate, ListsOK, HeldOK, bans
<1>5. CASE Unspectate(c, d)
  <2> DEFINE infos == [ci EXCEPT ![d].spectator = FALSE]
  <2>1. ~ci[d].isSpecLocked
    BY <1>5 DEF Unspectate
  <2>2. PICK W : ci' = Locked(infos, W)
    BY <1>5 DEF Unspectate
  <2>3. PICK rotated \in BOOLEAN : Play(d, rotated)
    BY <1>5 DEF Unspectate
  <2>4. Quiet
    BY <1>5 DEF Unspectate
  <2>5. /\ ListsOK' /\ UNCHANGED modes
        /\ gamepaused' \in BOOLEAN /\ (gamepaused' => gamepaused)
    BY <1>4, <2>3, <2>4 DEF Quiet
  <2>6. /\ infos \in Infos
        /\ \A e \in Cns : /\ infos[e].conn = ci[e].conn /\ infos[e].ip = ci[e].ip
                          /\ infos[e].privilege = ci[e].privilege
                          /\ infos[e].isInvAdmin = ci[e].isInvAdmin
                          /\ infos[e].isSpecLocked = ci[e].isSpecLocked
                          /\ e # d => infos[e] = ci[e]
    BY <1>1, PlayType DEF SlotsOK
  <2>8. \A e \in Cns : infos[e].isSpecLocked => infos[e].spectator
    BY <1>1, <2>1, <2>6 DEF SlotsOK, LockedNeverPlays
  <2> HIDE DEF infos
  <2>7. LockedNeverPlays'
    BY <2>2, <2>6, <2>8, LockedType DEF LockedNeverPlays
  <2> QED
    BY <2>2, <2>5, <2>6, <2>7, LockedType, SpectatingKeeps
<1>6. ASSUME ci' = unlock(d), NEW rotated \in BOOLEAN, Play(d, rotated),
             mastermask' = mastermask, lockedSpecIPs' \subseteq lockedSpecIPs
      PROVE  IInv'
  <2>1. LockedNeverPlays'
    BY <1>1, <1>6, UnlockType DEF SlotsOK, LockedNeverPlays
  <2> QED
    BY <1>1, <1>4, <1>6, <2>1, UnlockType, SpectatingKeeps DEF SlotsOK
<1>7. CASE unspectate_cmd(c, d)
  BY <1>6, <1>7 DEF unspectate_cmd
<1>8. CASE togglelockspec_cmd(c, d)
  <2>1. CASE ci[d].isSpecLocked
    BY <1>6, <1>8, <2>1 DEF togglelockspec_cmd
  <2>2. CASE ~ci[d].isSpecLocked
    <3>1. /\ ci' = Locked(ci, {d}) /\ ci[d].conn # "free"
          /\ lockedSpecIPs' = lockedSpecIPs \cup {ci[d].ip}
          /\ UNCHANGED <<modes, gamepaused, bans, limits, mastermask>>
      BY <1>8, <2>2 DEF togglelockspec_cmd, Clients, InClients
    <3>2. ListsOK'
      BY <1>1, <3>1 DEF ListsOK, SlotsOK, Addressed, bans, limits
    <3>3. LockedNeverPlays'
      BY <1>1, <3>1, LockedType DEF SlotsOK, LockedNeverPlays
    <3> QED
      BY <1>1, <3>1, <3>2, <3>3, LockedType, SpectatingKeeps DEF SlotsOK, HeldOK
  <2> QED
    BY <2>1, <2>2
<1> QED
  BY <1>2, <1>3, <1>5, <1>7, <1>8

\* Clients are kicked and banned, by hand, by key or for what they do.
LEMMA BanningHolds ==
  ASSUME IInv, NEW c \in Cns, Banning(c)
  PROVE  IInv'
<1>1. SlotsOK /\ ModesOK /\ ListsOK /\ HeldOK
  BY Parts
<1>2. \A d \in Cns : ci[d].conn # "free" => ci[d].ip \in Ips
  BY <1>1 DEF SlotsOK, Addressed
<1>3. \A d \in Cns : d \in Clients => ci[d].conn # "free"
  BY DEF Clients, InClients
<1>4. ASSUME NEW d \in Cns, NEW priv, trykick(c, d, priv), teamkillkicks' \in BOOLEAN
      PROVE  IInv'
  <2>1. /\ Drop(KickedBy(c, ci[d].ip), allowedips \ {ci[d].ip}, bannedips \cup {ci[d].ip})
        /\ UNCHANGED <<ipbans, teamkills>> /\ Quiet /\ ci[d].conn # "free"
    BY <1>4 DEF trykick, MayKick
  <2>2. bannedips \cup {ci[d].ip} \in SUBSET Ips
    BY <1>1, <1>2, <2>1 DEF ListsOK
  <2> QED
    BY <1>1, <1>4, <2>1, <2>2, DropHolds DEF ListsOK
<1>5. ASSUME NEW d \in Cns, Kick(c, d) \/ AuthKick(c, d)
      PROVE  IInv'
  BY <1>1, <1>4, <1>5 DEF Kick, AuthKick, ListsOK
<1>6. ASSUME NEW d \in Cns, ban_cmd(c, d)
      PROVE  IInv'
  <2>1. /\ Drop({d}, allowedips \ {ci[d].ip}, bannedips \cup {ci[d].ip})
        /\ UNCHANGED <<ipbans, limits>> /\ Quiet /\ ci[d].conn # "free"
    BY <1>3, <1>6 DEF ban_cmd
  <2>2. bannedips \cup {ci[d].ip} \in SUBSET Ips
    BY <1>1, <1>2, <2>1 DEF ListsOK
  <2> QED
    BY <1>1, <2>1, <2>2, DropHolds DEF ListsOK, limits
<1>7. ASSUME NEW d \in Cns, pban_cmd(c, d)
      PROVE  IInv'
  <2>1. /\ Drop(Banned(ipbans') \cup {d}, allowedips, bannedips)
        /\ UNCHANGED limits /\ Quiet /\ ci[d].conn # "free"
        /\ ipbans' = ipbans \cup {ci[d].ip}
    BY <1>3, <1>7 DEF pban_cmd
  <2>2. ipbans' \subseteq Ips
    BY <1>1, <1>2, <2>1 DEF ListsOK
  <2> QED
    BY <1>1, <2>1, <2>2, DropHolds DEF ListsOK, limits
<1>8. CASE KickFlagrunner(c)
  BY <1>1, <1>8, DropHolds DEF KickFlagrunner, ListsOK, limits
<1>9. CASE KickRefused(c)
  BY <1>1, <1>9, ListsHold DEF KickRefused, ListsOK, Quiet, bans
<1>10. CASE addteamkill(c)
  BY <1>1, <1>2, <1>3, <1>10, ListsHold DEF addteamkill, ListsOK, Quiet, bans
<1>11. CASE clearpbans_cmd(c)
  BY <1>1, <1>11, ListsHold DEF clearpbans_cmd, ListsOnly, ListsOK, Quiet, limits
<1> QED
  BY <1>5, <1>6, <1>7, <1>8, <1>9, <1>10, <1>11 DEF Banning

\* The steps of the server itself.
LEMMA ServerHolds ==
  ASSUME IInv,
         \/ changemap \/ LockCheaters \/ clearbans
         \/ \E ip \in Ips : checkteamkills(ip) \/ BanEnds(ip)
  PROVE  IInv'
<1>1. SlotsOK /\ ModesOK /\ ListsOK /\ HeldOK
  BY Parts
<1>2. CASE changemap
  <2>1. /\ UNCHANGED ci /\ gamepaused' = FALSE /\ UNCHANGED modes
        /\ ListsOK'
    BY <1>1, <1>2 DEF changemap, ListsOK, Quiet, bans
  <2>2. SlotsOK'
    BY <1>1, <2>1 DEF SlotsOK, NoInvAdmins, Addressed, LockedNeverPlays
  <2> QED
    BY <1>1, <2>1, <2>2, SpectatingKeeps DEF SlotsOK
<1>3. CASE LockCheaters
  <2>1. PICK W : ci' = Locked(ci, W)
    BY <1>3 DEF LockCheaters
  <2>2. ListsOK' /\ UNCHANGED modes /\ UNCHANGED gamepaused
    BY <1>1, <1>3 DEF LockCheaters, ListsOK, Stay, Quiet, bans, limits
  <2>3. LockedNeverPlays'
    BY <1>1, <2>1, LockedType DEF SlotsOK, LockedNeverPlays
  <2> QED
    BY <1>1, <2>1, <2>2, <2>3, LockedType, SpectatingKeeps DEF SlotsOK, HeldOK
<1>4. CASE clearbans
  BY <1>1, <1>4, ListsHold DEF clearbans, ListsOnly, ListsOK, Quiet, limits
<1>5. ASSUME NEW ip \in Ips, BanEnds(ip)
      PROVE  IInv'
  BY <1>1, <1>5, ListsHold DEF BanEnds, ListsOnly, ListsOK, Quiet, limits
<1>6. ASSUME NEW ip \in Ips, checkteamkills(ip)
      PROVE  IInv'
  <2> DEFINE K == {e \in Clients : ci[e].ip = ip /\ ci[e].privilege < PRIV_ADMIN}
  <2>1. PICK allowed \in SUBSET allowedips, banned \in SUBSET Ips :
          Drop(K, allowed, banned)
    <3>1. PICK ban \in BOOLEAN :
            Drop(K, IF ban THEN allowedips \ {ip} ELSE allowedips,
                    IF ban THEN bannedips \cup {ip} ELSE bannedips)
      BY <1>6 DEF checkteamkills
    <3>2. (IF ban THEN allowedips \ {ip} ELSE allowedips) \in SUBSET allowedips
      OBVIOUS
    <3>3. (IF ban THEN bannedips \cup {ip} ELSE bannedips) \in SUBSET Ips
      BY <1>1 DEF ListsOK
    <3> QED
      BY <3>1, <3>2, <3>3
  <2>2. /\ teamkills' = teamkills \ {ip}
        /\ UNCHANGED <<ipbans, teamkillkicks>> /\ Quiet
    BY <1>6 DEF checkteamkills
  <2> QED
    BY <1>1, <2>1, <2>2, DropHolds DEF ListsOK
<1> QED
  BY <1>2, <1>3, <1>4, <1>5, <1>6

\* Every step preserves the invariant.
LEMMA NextInv == IInv /\ [Next]_vars => IInv'
<1> SUFFICES ASSUME IInv, [Next]_vars PROVE IInv'
  OBVIOUS
<1>1. ASSUME NEW c \in Cns, Connecting(c) PROVE IInv'
  BY <1>1, ConnectingHolds
<1>2. ASSUME NEW c \in Cns, Privileging(c) PROVE IInv'
  BY <1>2, PrivilegingHolds
<1>3. ASSUME NEW c \in Cns, Spectating(c) PROVE IInv'
  BY <1>3, SpectatingHolds
<1>4. ASSUME NEW c \in Cns, Banning(c) PROVE IInv'
  BY <1>4, BanningHolds
<1>5. CASE \/ changemap \/ LockCheaters \/ clearbans
           \/ \E ip \in Ips : checkteamkills(ip) \/ BanEnds(ip)
  BY <1>5, ServerHolds
<1>6. CASE UNCHANGED vars
  BY <1>6 DEF vars, modes, bans, limits, IInv, TypeOK, NoInvAdmins, Addressed,
      MastermodeHeld, PauseHeld, AllowedOnlyInPrivate, LockedNeverPlays,
      Clients, InClients
<1> QED
  BY <1>1, <1>2, <1>3, <1>4, <1>5, <1>6 DEF Next

-----------------------------------------------------------------------------
\* The inductive invariant holds in every reachable state.
THEOREM Invariance == Spec => []IInv
<1>1. Init => IInv
  BY InitInv
<1>2. IInv /\ [Next]_vars => IInv'
  BY NextInv
<1> QED
  BY <1>1, <1>2, PTL DEF Spec

\* Slots, modes and lists always have their types.
THEOREM TypeCorrect == Spec => []TypeOK
<1>1. IInv => TypeOK
  BY DEF IInv
<1> QED
  BY <1>1, Invariance, PTL

\* Without invisible admins somebody connected always holds the master mode.
THEOREM MastermodeIsHeld == Spec => []MastermodeHeld
<1>1. IInv => MastermodeHeld
  BY DEF IInv
<1> QED
  BY <1>1, Invariance, PTL

\* Without invisible admins a paused game can always be resumed by somebody.
THEOREM PauseIsHeld == Spec => []PauseHeld
<1>1. IInv => PauseHeld
  BY DEF IInv
<1> QED
  BY <1>1, Invariance, PTL

\* The admitted addresses are forgotten whenever the server is not private.
THEOREM NoStaleAdmission == Spec => []AllowedOnlyInPrivate
<1>1. IInv => AllowedOnlyInPrivate
  BY DEF IInv
<1> QED
  BY <1>1, Invariance, PTL

\* Nobody who is locked to the spectators ever plays.
THEOREM LockIsKept == Spec => []LockedNeverPlays
<1>1. IInv => LockedNeverPlays
  BY DEF IInv
<1> QED
  BY <1>1, Invariance, PTL
-----------------------------------------------------------------------------
(***************************************************************************)
(* Who leaves.  A step either leaves every connected client where it is,   *)
(* or it drops a set K of clients; the two action properties follow from   *)
(* what K may be.                                                          *)
(***************************************************************************)
NobodyLeaves == \A e \in Clients : e \in Clients'

\* Exactly the clients in K go, and with the last client go the timed bans.
Leave(K) ==
    /\ \A e \in Clients : e \in Clients' <=> e \notin K
    /\ \A e \in Cns \ K : ci'[e].conn = "free" => ci[e].conn = "free"
    /\ clearbansonempty /\ noclients(K) => bannedips' = {}

\* d leaves on its own, for its own flag run, or because an admin names it.
Named(d) == \/ clientdisconnect(d) \/ KickFlagrunner(d)
            \/ \E c \in Cns : ban_cmd(c, d) \/ pban_cmd(c, d)

AdminsNamed(K) == \A d \in K : Admin(d) => Named(d)

Leaving == \/ NobodyLeaves
           \/ \E K : Leave(K) /\ AdminsNamed(K)

\* Dropping K empties the slots of K and no other.
LEMMA DropLeaves ==
  ASSUME NEW K, NEW allowed, NEW banned, Drop(K, allowed, banned)
  PROVE  Leave(K)
<1>1. ci' = [c \in Cns |-> IF c \in K THEN FreeSlot ELSE ci[c]]
  BY DEF Drop, Without
<1>2. /\ \A e \in Cns \cap K : ci'[e].conn = "free"
      /\ \A e \in Cns \ K : ci'[e] = ci[e]
  BY <1>1 DEF FreeSlot
<1>3. clearbansonempty /\ noclients(K) => bannedips' = {}
  BY DEF Drop, Departure
<1> QED
  BY <1>2, <1>3 DEF Leave, Clients, InClients

\* A step that empties no slot disconnects nobody.
LEMMA NobodyFreed ==
  ASSUME \A e \in Cns : ci'[e].conn = ci[e].conn
  PROVE  NobodyLeaves
  BY DEF NobodyLeaves, Clients, InClients

\* A new connection may throw out those whom the lists of bans have caught up
\* with, an admin never.
LEMMA ConnectingLeaves ==
  ASSUME IInv, NEW c \in Cns, Connecting(c)
  PROVE  Leaving
<1>1. ci \in Infos
  BY Parts DEF SlotsOK
<1>2. ASSUME NEW ip \in Ips, clientconnect(c, ip) PROVE Leaving
  <2> DEFINE K == Banned(ipbans)
             new == [FreeSlot EXCEPT !.conn = "connecting", !.ip = ip,
                                     !.isSpecLocked = ip \in lockedSpecIPs,
                                     !.spectator = ip \in lockedSpecIPs]
  <2>1. /\ ci' = [[e \in Cns |-> IF e \in K THEN FreeSlot ELSE ci[e]] EXCEPT ![c] = new]
        /\ ci[c].conn = "free" /\ Departure(K, allowedips, bannedips)
    BY <1>2 DEF clientconnect, Without
  <2>2. new.conn = "connecting"
    BY DEF FreeSlot
  <2> HIDE DEF new
  <2>3. /\ ci'[c].conn = "connecting"
        /\ \A e \in (Cns \ {c}) \cap K : ci'[e].conn = "free"
        /\ \A e \in (Cns \ {c}) \ K : ci'[e] = ci[e]
    BY <2>1, <2>2 DEF FreeSlot
  <2>4. Leave(K)
    <3>1. clearbansonempty /\ noclients(K) => bannedips' = {}
      BY <2>1 DEF Departure
    <3> HIDE DEF K
    <3> QED
      BY <2>1, <2>3, <3>1 DEF Leave, Clients, InClients
  <2>5. AdminsNamed(K)
    BY DEF AdminsNamed, Admin, Banned, PRIV_ADMIN
  <2> QED
    BY <2>4, <2>5 DEF Leaving
<1>3. /\ connected(c) \in Infos
      /\ \A e \in Cns : connected(c)[e].conn = IF e = c THEN "connected" ELSE ci[e].conn
  <2> DEFINE infos == [ci EXCEPT ![c].conn = "connected", ![c].connectauth = FALSE]
  <2>1. ASSUME NEW e \in Cns
        PROVE  infos[e].conn = IF e = c THEN "connected" ELSE ci[e].conn
    BY <1>1 DEF Infos, ClientInfo
  <2>2. infos \in Infos
    <3>1. [ci EXCEPT ![c].conn = "connected"] \in Infos
      BY <1>1 DEF Infos, ClientInfo
    <3>2. ASSUME NEW f \in Infos PROVE [f EXCEPT ![c].connectauth = FALSE] \in Infos
      BY DEF Infos, ClientInfo
    <3> QED
      BY <3>1, <3>2
  <2> HIDE DEF infos
  <2>3. /\ [infos EXCEPT ![c].spectator = TRUE] \in Infos
        /\ \A e \in Cns : [infos EXCEPT ![c].spectator = TRUE][e].conn = infos[e].conn
    BY <2>2, SpectateType
  <2>4. connected(c) = infos \/ connected(c) = [infos EXCEPT ![c].spectator = TRUE]
    BY DEF connected, infos
  <2> QED
    BY <2>1, <2>2, <2>3, <2>4
<1>4. CASE Connect(c)
  BY <1>3, <1>4 DEF Connect, Leaving, NobodyLeaves, Clients, InClients
<1>5. CASE ConnectByKey(c)
  <2>1. ci' = [ci EXCEPT ![c].connectauth = TRUE]
    BY <1>5 DEF ConnectByKey
  <2>2. \A e \in Cns : ci'[e].conn = ci[e].conn
    BY <1>1, <2>1 DEF Infos, ClientInfo
  <2> QED
    BY <2>2, NobodyFreed DEF Leaving
<1>6. CASE ConnectFails(c)
  <2>1. Leave({c}) /\ ci[c].conn = "connecting"
    BY <1>6, DropLeaves DEF ConnectFails
  <2> QED
    BY <2>1 DEF Leaving, AdminsNamed, Admin, Clients, InClients
<1>7. ASSUME NEW p, ConnectAuthenticated(c, p) PROVE Leaving
  <2>1. ci' = [connected(c) EXCEPT ![c].privilege = Larger(@, p)]
    BY <1>7 DEF ConnectAuthenticated
  <2>2. \A e \in Cns : ci'[e].conn = connected(c)[e].conn
    <3>1. ASSUME NEW f \in Infos, NEW x, NEW e \in Cns
          PROVE  [f EXCEPT ![c] = [f[c] EXCEPT !.privilege = x]][e].conn = f[e].conn
      BY DEF Infos, ClientInfo
    <3> QED
      BY <1>3, <2>1, <3>1
  <2> QED
    BY <1>3, <2>2 DEF Leaving, NobodyLeaves, Clients, InClients
<1>8. CASE clientdisconnect(c)
  BY <1>8, DropLeaves DEF clientdisconnect, Leaving, AdminsNamed, Named
<1> QED
  BY <1>2, <1>4, <1>5, <1>6, <1>7, <1>8 DEF Connecting

\* Claiming, giving, sharing and revoking privileges disconnects nobody.
LEMMA PrivilegingLeaves ==
  ASSUME IInv, NEW c \in Cns, Privileging(c)
  PROVE  NobodyLeaves
<1>1. ci \in Infos
  BY Parts DEF SlotsOK
<1>2. ASSUME NEW d \in Cns, NEW p, setmaster(d, p)
      PROVE  NobodyLeaves
  <2>1. ci' = [ci EXCEPT ![d].privilege = p]
    BY <1>2 DEF setmaster
  <2>2. \A e \in Cns : ci'[e].conn = ci[e].conn
    BY <1>1, <2>1 DEF Infos, ClientInfo
  <2> QED
    BY <2>2, NobodyFreed
<1>3. CASE ClaimMaster(c) \/ Relinquish(c)
  BY <1>2, <1>3 DEF ClaimMaster, Relinquish
<1>4. ASSUME NEW p, ClaimByProof(c, p) PROVE NobodyLeaves
  BY <1>2, <1>4 DEF ClaimByProof
<1>5. ASSUME NEW d \in Cns,
             \/ GiveMaster(c, d) \/ TakeMaster(c, d)
             \/ sendprivs_cmd(c, d) \/ revokepriv_cmd(c, d)
      PROVE  NobodyLeaves
  BY <1>2, <1>5 DEF GiveMaster, TakeMaster, sendprivs_cmd, revokepriv_cmd
<1>6. CASE invadmin_cmd(c)
  <2>1. ci' = [ci EXCEPT ![c].privilege = PRIV_ADMIN, ![c].isInvAdmin = TRUE]
    BY <1>6 DEF invadmin_cmd
  <2>2. \A e \in Cns : ci'[e].conn = ci[e].conn
    BY <1>1, <2>1 DEF Infos, ClientInfo
  <2> QED
    BY <2>2, NobodyFreed
<1>7. ASSUME UNCHANGED ci PROVE NobodyLeaves
  BY <1>7 DEF NobodyLeaves, Clients, InClients
<1>8. CASE \/ allowmaster_cmd(c)
           \/ \E mm \in MM_OPEN..MM_PRIVATE : SetMasterMode(c, mm)
           \/ \E val \in BOOLEAN : PauseGame(c, val)
  BY <1>7, <1>8 DEF allowmaster_cmd, SetMasterMode, PauseGame
<1> QED
  BY <1>3, <1>4, <1>5, <1>6, <1>8 DEF Privileging

\* Nor does sending players to the spectators or back, or locking them there.
LEMMA SpectatingLeaves ==
  ASSUME IInv, NEW c \in Cns, Spectating(c)
  PROVE  NobodyLeaves
<1>1. ci \in Infos
  BY Parts DEF SlotsOK
<1>2. PICK d \in Cns : \/ Spectate(c, d) \/ Unspectate(c, d)
                       \/ forcespectator_cmd(c, d) \/ unspectate_cmd(c, d)
                       \/ togglelockspec_cmd(c, d)
  BY DEF Spectating
<1>3. CASE Spectate(c, d) \/ forcespectator_cmd(c, d)
  <2>1. ci' = [ci EXCEPT ![d].spectator = TRUE]
    BY <1>3 DEF Spectate, forcespectator_cmd
  <2>2. \A e \in Cns : ci'[e].conn = ci[e].conn
    BY <1>1, <2>1 DEF Infos, ClientInfo
  <2> QED
    BY <2>2, NobodyFreed
<1>4. CASE Unspectate(c, d)
  <2> DEFINE infos == [ci EXCEPT ![d].spectator = FALSE]
  <2>1. PICK W : ci' = Locked(infos, W)
    BY <1>4 DEF Unspectate
  <2>2. /\ infos \in Infos
        /\ \A e \in Cns : /\ infos[e].conn = ci[e].conn /\ infos[e].ip = ci[e].ip
                          /\ infos[e].privilege = ci[e].privilege
                          /\ infos[e].isInvAdmin = ci[e].isInvAdmin
                          /\ infos[e].isSpecLocked = ci[e].isSpecLocked
                          /\ e # d => infos[e] = ci[e]
    BY <1>1, PlayType
  <2> HIDE DEF infos
  <2>3. \A e \in Cns : ci'[e].conn = ci[e].conn
    BY <2>1, <2>2, LockedType
  <2> QED
    BY <2>3, NobodyFreed
<1>5. CASE unspectate_cmd(c, d) \/ togglelockspec_cmd(c, d)
  <2>1. ci' = unlock(d) \/ ci' = Locked(ci, {d})
    BY <1>5 DEF unspectate_cmd, togglelockspec_cmd
  <2>2. \A e \in Cns : ci'[e].conn = ci[e].conn
    BY <1>1, <2>1, UnlockType, LockedType
  <2> QED
    BY <2>2, NobodyFreed
<1> QED
  BY <1>2, <1>3, <1>4, <1>5

\* A kick, a ban or the limit on team kills never takes an admin along; the
\* commands that may take one name it.
LEMMA BanningLeaves ==
  ASSUME IInv, NEW c \in Cns, Banning(c)
  PROVE  Leaving
<1>1. ASSUME NEW d \in Cns, Kick(c, d) \/ AuthKick(c, d)
      PROVE  Leaving
  <2> DEFINE K == KickedBy(c, ci[d].ip)
  <2>1. Leave(K)
    BY <1>1, DropLeaves DEF Kick, AuthKick, trykick
  <2>2. AdminsNamed(K)
    BY DEF AdminsNamed, Admin, KickedBy, PRIV_ADMIN
  <2> QED
    BY <2>1, <2>2 DEF Leaving
<1>2. ASSUME NEW d \in Cns, ban_cmd(c, d)
      PROVE  Leaving
  <2>1. Leave({d})
    BY <1>2, DropLeaves DEF ban_cmd
  <2> QED
    BY <1>2, <2>1 DEF Leaving, AdminsNamed, Named
<1>3. ASSUME NEW d \in Cns, pban_cmd(c, d)
      PROVE  Leaving
  <2>1. Leave(Banned(ipbans') \cup {d})
    BY <1>3, DropLeaves DEF pban_cmd
  <2>2. AdminsNamed(Banned(ipbans') \cup {d})
    <3>1. ASSUME NEW e \in Banned(ipbans'), Admin(e) PROVE FALSE
      BY <3>1 DEF Admin, Banned, PRIV_ADMIN
    <3> QED
      BY <1>3, <3>1 DEF AdminsNamed, Named
  <2> QED
    BY <2>1, <2>2 DEF Leaving
<1>4. CASE KickFlagrunner(c)
  BY <1>4, DropLeaves DEF KickFlagrunner, Leaving, AdminsNamed, Named
<1>5. CASE KickRefused(c) \/ addteamkill(c) \/ clearpbans_cmd(c)
  <2>1. UNCHANGED ci
    BY <1>5 DEF KickRefused, addteamkill, clearpbans_cmd, ListsOnly
  <2> QED
    BY <2>1 DEF Leaving, NobodyLeaves, Clients, InClients
<1> QED
  BY <1>1, <1>2, <1>3, <1>4, <1>5 DEF Banning

\* Of the server's own steps only the limit on team kills drops anybody.
LEMMA ServerLeaves ==
  ASSUME IInv, \/ changemap \/ LockCheaters \/ clearbans
               \/ \E ip \in Ips : checkteamkills(ip) \/ BanEnds(ip)
  PROVE  Leaving
<1>1. ASSUME NEW ip \in Ips, checkteamkills(ip) PROVE Leaving
  <2> DEFINE K == {e \in Clients : ci[e].ip = ip /\ ci[e].privilege < PRIV_ADMIN}
  <2>1. Leave(K)
    BY <1>1, DropLeaves DEF checkteamkills
  <2>2. AdminsNamed(K)
    BY DEF AdminsNamed, Admin, PRIV_ADMIN
  <2> QED
    BY <2>1, <2>2 DEF Leaving
<1>2. CASE LockCheaters
  <2>1. ci \in Infos
    BY Parts DEF SlotsOK
  <2>2. PICK W : ci' = Locked(ci, W)
    BY <1>2 DEF LockCheaters
  <2>3. \A e \in Cns : ci'[e].conn = ci[e].conn
    BY <2>1, <2>2, LockedType
  <2> QED
    BY <2>3, NobodyFreed DEF Leaving
<1>3. CASE changemap \/ clearbans \/ \E ip \in Ips : BanEnds(ip)
  <2>1. UNCHANGED ci
    BY <1>3 DEF changemap, clearbans, BanEnds, ListsOnly
  <2> QED
    BY <2>1 DEF Leaving, NobodyLeaves, Clients, InClients
<1> QED
  BY <1>1, <1>2, <1>3

\* Every step leaves all connected clients in place or drops one such set.
LEMMA NextLeaves == IInv /\ [Next]_vars => Leaving
<1> SUFFICES ASSUME IInv, [Next]_vars PROVE Leaving
  OBVIOUS
<1>1. ASSUME NEW c \in Cns, Connecting(c) \/ Privileging(c) \/ Spectating(c) \/ Banning(c)
      PROVE  Leaving
  BY <1>1, ConnectingLeaves, PrivilegingLeaves, SpectatingLeaves, BanningLeaves DEF Leaving
<1>2. CASE \/ changemap \/ LockCheaters \/ clearbans
           \/ \E ip \in Ips : checkteamkills(ip) \/ BanEnds(ip)
  BY <1>2, ServerLeaves
<1>3. CASE UNCHANGED vars
  BY <1>3 DEF vars, Leaving, NobodyLeaves, Clients, InClients
<1> QED
  BY <1>1, <1>2, <1>3 DEF Next

\* Whatever empties the server, a kick that sets a ban included, no timed ban
\* is left (server.cpp, noclients).
THEOREM EmptyingClears == Spec => EmptyingClearsBans
<1>1. ASSUME IInv, [Next]_vars, clearbansonempty, Clients # {}, Clients' = {}
      PROVE  bannedips' = {}
  <2>1. ~NobodyLeaves
    BY <1>1 DEF NobodyLeaves
  <2>2. PICK K : Leave(K)
    BY <1>1, <2>1, NextLeaves DEF Leaving
  <2>3. Clients \subseteq K
    BY <1>1, <2>2 DEF Leave
  <2>4. noclients(K)
    BY <1>1, <2>3 DEF noclients
  <2> QED
    BY <1>1, <2>2, <2>4 DEF Leave
<1>2. IInv /\ [Next]_vars
        => [(clearbansonempty /\ Clients # {} /\ Clients' = {}) => bannedips' = {}]_vars
  BY <1>1
<1> QED
  BY <1>2, Invariance, PTL DEF Spec, EmptyingClearsBans

\* No kick of a neighbour, check of the lists or limit on team kills ever
\* takes an admin along (server.cpp, kickclients, verifybans, checkteamkills).
THEOREM AdminsAreNamed == Spec => AdminsStay
<1> DEFINE Stays == \A d \in Cns : (Admin(d) /\ ci'[d].conn = "free") =>
                      \/ clientdisconnect(d) \/ KickFlagrunner(d)
                      \/ \E c \in Cns : ban_cmd(c, d) \/ pban_cmd(c, d)
<1>1. ASSUME IInv, [Next]_vars, NEW d \in Cns, Admin(d), ci'[d].conn = "free"
      PROVE  Named(d)
  <2>1. d \in Clients /\ ci[d].conn = "connected"
    BY <1>1 DEF Admin, Clients, InClients
  <2>2. ~NobodyLeaves
    BY <1>1, <2>1 DEF NobodyLeaves, Clients, InClients
  <2>3. PICK K : Leave(K) /\ AdminsNamed(K)
    BY <1>1, <2>2, NextLeaves DEF Leaving
  <2>4. d \in K
    BY <1>1, <2>1, <2>3 DEF Leave
  <2> QED
    BY <1>1, <2>3, <2>4 DEF AdminsNamed
<1>2. IInv /\ [Next]_vars => [Stays]_vars
  BY <1>1 DEF Named
<1> QED
  BY <1>2, Invariance, PTL DEF Spec, AdminsStay
=============================================================================
