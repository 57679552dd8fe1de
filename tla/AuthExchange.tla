---------------------------- MODULE AuthExchange ----------------------------
(***************************************************************************)
(* Authentication (src/fpsgame/server.cpp) with keys of this server or of  *)
(* the master server, over a link that may be slow, full or lost           *)
(* (src/engine/server.cpp).  A client proves who it is to connect, to gain *)
(* privileges or to kick somebody, and others come and go meanwhile.       *)
(***************************************************************************)
EXTENDS Integers, Sequences

CONSTANTS
    Clients,        \* client numbers
    Names,          \* names that have keys
    NoOne,
    MaxRequests,    \* bound: requests in all
    MaxOut          \* stands for the 4096 bytes of masterout

ASSUME AuthAssumption ==
    NoOne \notin Clients /\ MaxRequests \in Nat /\ MaxOut \in Nat \ {0}

VARIABLES
    ci,             \* connects and clients
    nextauthreq,
    challenges,     \* of each client, on their way to it or not answered yet
    link,           \* "none", "connecting" or "connected"
    masterout, masterin,
    asked           \* who asked with which name, by request: not in the code

vars == <<ci, nextauthreq, challenges, link, masterout, masterin, asked>>

-----------------------------------------------------------------------------
\* An empty authdesc is for keys of the master server: "master".  mistaken: has
\* the one to be kicked left?  It is not in the code.
Free ==
    [is |-> "free", connectauth |-> FALSE, privilege |-> FALSE, authreq |-> 0,
     authname |-> NoOne, authdesc |-> "master", victim |-> NoOne, mistaken |-> FALSE]

Connected == {c \in Clients : ci[c].is = "connected"}

cleanauth(r) == [r EXCEPT !.authreq = 0, !.victim = NoOne, !.mistaken = FALSE]

\* findauth looks at clients, not at connects.
findauth(id) == {c \in Connected : ci[c].authreq = id}

\* Faulty: those who want to kick n go on.
LeftUnnoticed(clients, n) ==
    [c \in Clients |->
        IF c = n THEN Free
        ELSE IF clients[c].victim = n THEN [clients[c] EXCEPT !.mistaken = TRUE] ELSE clients[c]]

\* clientdisconnect(n) among the clients: who wants to kick n gives up.
Left(clients, n) ==
    [c \in Clients |->
        IF c = n THEN Free
        ELSE IF clients[c].victim = n THEN cleanauth(clients[c]) ELSE clients[c]]

\* What was asked by those who left is asked by nobody.
Settle(left) ==
    asked' = [id \in DOMAIN asked |->
                 IF asked[id].client \in left THEN [asked[id] EXCEPT !.client = NoOne] ELSE asked[id]]

Gone(left) ==
    /\ challenges' = [c \in Clients |-> IF c \in left THEN {} ELSE challenges[c]]
    /\ Settle(left)

\* connected(ci) and the key's privilege.
Admitted(r) == [r EXCEPT !.is = "connected", !.connectauth = FALSE]

\* setmaster or trykick for c, whose key was right; then cleanauth.
\* kickclients spares clients with more privileges than c.
Authenticated(c, r) ==
    LET clean == [ci EXCEPT ![c] = cleanauth(r)]
        kicks == r.victim # NoOne /\ ci[r.victim].is = "connected"
                 /\ (ci[r.victim].privilege => r.privilege)
        left  == IF kicks THEN {r.victim} ELSE {}
    IN  /\ ci' = CASE r.victim = NoOne -> [clean EXCEPT ![c].privilege = TRUE]
                   [] kicks            -> Left(clean, r.victim)
                   [] OTHER            -> clean
        /\ Gone(left)

\* requestmaster: opens the link if there is none, which may fail.
Request(m) ==
    /\ Len(masterout) < MaxOut
    /\ masterout' = Append(masterout, m)
    /\ link' = IF link = "none" THEN "connecting" ELSE link

RequestFails ==
    /\ link = "none" \/ Len(masterout) >= MaxOut
    /\ UNCHANGED <<link, masterout>>

\* Faulty: the number of the last request is used again.
RequestedAgain(c, name, desc, victim) ==
    /\ nextauthreq' = nextauthreq
    /\ asked' = IF asked = <<>> THEN <<[client |-> c, name |-> name]>> ELSE asked
    /\ ci' = [ci EXCEPT ![c].authreq = nextauthreq, ![c].authname = name,
                        ![c].authdesc = desc, ![c].victim = victim, ![c].mistaken = FALSE,
                        ![c].connectauth = ci[c].is = "connecting"]

\* tryauth goes on with a new request.
Requested(c, name, desc, victim) ==
    /\ nextauthreq <= MaxRequests
    /\ nextauthreq' = nextauthreq + 1
    /\ asked' = Append(asked, [client |-> c, name |-> name])
    /\ ci' = [ci EXCEPT ![c].authreq = nextauthreq, ![c].authname = name,
                        ![c].authdesc = desc, ![c].victim = victim, ![c].mistaken = FALSE,
                        ![c].connectauth = ci[c].is = "connecting"]

Init ==
    /\ ci = [c \in Clients |-> Free]
    /\ nextauthreq = 1 /\ asked = <<>>
    /\ challenges = [c \in Clients |-> {}]
    /\ link = "none" /\ masterout = <<>> /\ masterin = <<>>

clientconnect(c) ==
    /\ ci[c].is = "free" /\ ci' = [ci EXCEPT ![c].is = "connecting"]
    /\ UNCHANGED <<nextauthreq, challenges, link, masterout, masterin, asked>>

\* N_CONNECT of a client that allowconnect lets in.
Connect(c) ==
    /\ ci[c].is = "connecting" /\ ~ci[c].connectauth
    /\ ci' = [ci EXCEPT ![c] = Admitted(@)]
    /\ UNCHANGED <<nextauthreq, challenges, link, masterout, masterin, asked>>

\* tryauth with a key of this server: the challenge is sent at once.
TryLocal(c, name, victim) ==
    /\ Requested(c, name, "local", victim)
    /\ challenges' = [challenges EXCEPT ![c] = @ \cup {nextauthreq}]
    /\ UNCHANGED <<link, masterout, masterin>>

TryMaster(c, name, victim) ==
    /\ Requested(c, name, "master", victim)
    /\ Request([kind |-> "reqauth", id |-> nextauthreq])
    /\ UNCHANGED <<challenges, masterin>>

\* There is no such key, or no link: the number of the request is lost.
TryFails(c) ==
    /\ ci[c].authreq # 0
    /\ ci' = [ci EXCEPT ![c] = cleanauth(@)]
    /\ UNCHANGED <<nextauthreq, challenges, link, masterout, masterin, asked>>

\* N_CONNECT of a client that is refused unless it has a key of this server.
ConnectByKey(c, name) ==
    /\ ci[c].is = "connecting" /\ ~ci[c].connectauth
    /\ TryLocal(c, name, NoOne)

\* N_AUTHTRY and, with a victim, N_AUTHKICK.
AuthTry(c, name, victim) ==
    /\ c \in Connected /\ victim # c
    /\ victim # NoOne => ci[victim].is # "free"
    /\ TryLocal(c, name, victim) \/ TryMaster(c, name, victim) \/ TryFails(c)

\* The answer, right or wrong, to a challenge that is not the last request's,
\* gives up the last request.
AnswerOther(c, id) ==
    /\ id # ci[c].authreq /\ ci' = [ci EXCEPT ![c] = cleanauth(@)]
    /\ challenges' = [challenges EXCEPT ![c] = @ \ {id}]
    /\ UNCHANGED <<link, masterout, asked>>

AnswerLocal(c, id) ==
    /\ id = ci[c].authreq /\ ci[c].authdesc = "local"
    /\ \/ Authenticated(c, Admitted(ci[c]))
       \/ /\ ci' = [ci EXCEPT ![c] = cleanauth(@)]
          /\ challenges' = [challenges EXCEPT ![c] = @ \ {id}] /\ UNCHANGED asked
    /\ UNCHANGED <<link, masterout>>

AnswerMaster(c, id) ==
    /\ id = ci[c].authreq /\ ci[c].authdesc = "master"
    /\ challenges' = [challenges EXCEPT ![c] = @ \ {id}]
    /\ \/ Request([kind |-> "confauth", id |-> id]) /\ UNCHANGED ci
       \/ RequestFails /\ ci' = [ci EXCEPT ![c] = cleanauth(@)]
    /\ UNCHANGED asked

\* N_AUTHANS, before the client is connected only while it has to prove itself.
answerchallenge(c, id) ==
    /\ ci[c].is = "connected" \/ ci[c].connectauth
    /\ id \in challenges[c]
    /\ AnswerOther(c, id) \/ AnswerLocal(c, id) \/ AnswerMaster(c, id)
    /\ UNCHANGED <<nextauthreq, masterin>>

clientdisconnect(c) ==
    /\ ci[c].is # "free"
    /\ ci' = Left(ci, c) /\ Gone({c})
    /\ UNCHANGED <<nextauthreq, link, masterout, masterin>>

\* Faulty: who has to prove itself is left alone.
TimeoutSparesAuth(c) ==
    /\ ci[c].is = "connecting" /\ ~ci[c].connectauth /\ clientdisconnect(c)

\* serverupdate: 15 seconds to connect.
Timeout(c) == ci[c].is = "connecting" /\ clientdisconnect(c)

-----------------------------------------------------------------------------
\* The link to the master server, and the master server itself.

\* updatemasterserver opens the link too.
regserv ==
    /\ link = "none" /\ link' = "connecting"
    /\ UNCHANGED <<ci, nextauthreq, challenges, masterout, masterin, asked>>

masterconnected ==
    /\ link = "connecting" /\ link' = "connected"
    /\ UNCHANGED <<ci, nextauthreq, challenges, masterout, masterin, asked>>

\* Faulty: only those that have to prove themselves to connect are told.
masterdisconnectedConnects ==
    [c \in Clients |-> IF ci[c].connectauth /\ ci[c].authreq # 0 THEN cleanauth(ci[c]) ELSE ci[c]]

\* All requests of connected clients fail, those with keys of this server too.
masterdisconnected ==
    [c \in Clients |-> IF c \in Connected /\ ci[c].authreq # 0 THEN cleanauth(ci[c]) ELSE ci[c]]

disconnectmaster ==
    /\ link # "none" /\ link' = "none"
    /\ masterout' = <<>> /\ masterin' = <<>> /\ ci' = masterdisconnected
    /\ UNCHANGED <<nextauthreq, challenges, asked>>

Replies(kind) == IF kind = "reqauth" THEN {"chalauth", "failauth"} ELSE {"succauth", "failauth"}

\* The master server answers in order.
Reply ==
    /\ link = "connected" /\ masterout # <<>>
    /\ \E kind \in Replies(Head(masterout).kind) :
          masterin' = Append(masterin, [kind |-> kind, id |-> Head(masterout).id])
    /\ masterout' = Tail(masterout)
    /\ UNCHANGED <<ci, nextauthreq, challenges, link, asked>>

authfailed(id) ==
    /\ ci' = [c \in Clients |-> IF c \in findauth(id) THEN cleanauth(ci[c]) ELSE ci[c]]
    /\ UNCHANGED <<challenges, asked>>

authchallenged(id) ==
    /\ challenges' = [c \in Clients |-> challenges[c] \cup IF c \in findauth(id) THEN {id} ELSE {}]
    /\ UNCHANGED <<ci, asked>>

authsucceeded(id) ==
    \/ \E c \in findauth(id) : Authenticated(c, ci[c])
    \/ findauth(id) = {} /\ UNCHANGED <<ci, challenges, asked>>

processmasterinput ==
    /\ masterin # <<>> /\ masterin' = Tail(masterin)
    /\ LET m == Head(masterin)
       IN  \/ m.kind = "failauth" /\ authfailed(m.id)
           \/ m.kind = "chalauth" /\ authchallenged(m.id)
           \/ m.kind = "succauth" /\ authsucceeded(m.id)
    /\ UNCHANGED <<nextauthreq, link, masterout>>

Next ==
    \/ \E c \in Clients :
          \/ clientconnect(c) \/ Connect(c) \/ clientdisconnect(c) \/ Timeout(c)
          \/ \E name \in Names :
                \/ ConnectByKey(c, name)
                \/ \E victim \in Clients \cup {NoOne} : AuthTry(c, name, victim)
          \/ \E id \in 1..MaxRequests : answerchallenge(c, id)
    \/ regserv \/ masterconnected \/ disconnectmaster \/ Reply \/ processmasterinput

Spec == Init /\ [][Next]_vars

\* serverupdate runs in every turn of the main loop, paused or not.
FairSpec == Spec /\ \A c \in Clients : WF_vars(Timeout(c))

-----------------------------------------------------------------------------
\* findauth: the number of a request leads to the client that sent it with the
\* name it was sent with, so that no answer speaks of another name.
AnswersMatch ==
    \A c \in Clients : ci[c].authreq # 0 =>
        asked[ci[c].authreq] = [client |-> c, name |-> ci[c].authname]

\* clientdisconnect: whoever will be kicked by an answer is the one that was
\* to be kicked, and no newcomer with the same client number.
VictimStays ==
    \A c \in Clients : ci[c].victim # NoOne => ci[ci[c].victim].is # "free" /\ ~ci[c].mistaken

\* masterdisconnected and all failures: a request that is pending waits for an
\* answer of the master server or of the client.
PendingIsAlive ==
    \A c \in Clients : ci[c].authreq # 0 =>
        \/ ci[c].authreq \in challenges[c]
        \/ \E k \in DOMAIN masterout : masterout[k].id = ci[c].authreq
        \/ \E k \in DOMAIN masterin : masterin[k].id = ci[c].authreq

\* A client that has to prove itself and fails is not told to go: the time to
\* connect ends its visit, whatever it tries.
ConnectingEnds == \A c \in Clients : ci[c].is = "connecting" ~> ci[c].is # "connecting"
=============================================================================
