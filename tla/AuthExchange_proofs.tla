------------------------ MODULE AuthExchange_proofs -------------------------
(***************************************************************************)
(* Answers of clients and of the master server settle the requests they    *)
(* belong to, for any clients, names and capacity of the link, in whatever *)
(* order clients, answers and failures of the link come.                   *)
(***************************************************************************)
EXTENDS AuthExchange, SequenceTheorems, TLAPS

Info ==
    [is : {"free", "connecting", "connected"}, connectauth : BOOLEAN, privilege : BOOLEAN,
     authreq : Nat, authname : Names \cup {NoOne}, authdesc : {"master", "local"},
     victim : Clients \cup {NoOne}, mistaken : BOOLEAN]
Infos == [Clients -> Info]

Asked == [client : Clients \cup {NoOne}, name : Names]
Message(kinds) == [kind : kinds, id : Nat \ {0}]
Out == {"reqauth", "confauth"}
In == {"chalauth", "succauth", "failauth"}

\* Requests are numbered in the order in which they are made.
Numbered ==
    /\ nextauthreq \in Nat \ {0}
    /\ asked \in [1..nextauthreq - 1 -> Asked]
    /\ Len(asked) = nextauthreq - 1 /\ asked \in Seq(Asked)
    /\ \A c \in Clients : ci[c].authreq \in 0..nextauthreq - 1

Channels ==
    /\ challenges \in [Clients -> SUBSET Nat]
    /\ link \in {"none", "connecting", "connected"}
    /\ masterout \in Seq(Message(Out)) /\ masterin \in Seq(Message(In))

\* While a client is connecting it has to answer a challenge of this server, so
\* that a loss of the link, of which it is not told, takes nothing from it.
ConnectingByKey ==
    \A c \in Clients : ci[c].authreq # 0 =>
        /\ ci[c].is # "free"
        /\ ci[c].is = "connecting" => /\ ci[c].authdesc = "local"
                                      /\ ci[c].authreq \in challenges[c]

\* The conjunction that every step preserves.
IInv ==
    /\ ci \in Infos /\ Numbered /\ Channels
    /\ AnswersMatch /\ VictimStays /\ PendingIsAlive /\ ConnectingByKey

\* Is the answer to a request on the link, in one direction or the other?
OnLink(id, out, in) ==
    \/ \E k \in DOMAIN out : out[k].id = id
    \/ \E k \in DOMAIN in : in[k].id = id

-----------------------------------------------------------------------------
\* NoOne is not a client.
LEMMA NobodyIsNoClient == NoOne \notin Clients
  BY AuthAssumption

\* A free slot has no request.
LEMMA FreeIsClean ==
  Free \in Info /\ Free.authreq = 0 /\ Free.victim = NoOne /\ Free.is = "free"
  BY DEF Free, Info

\* At first nobody has asked anything.
LEMMA InitInv == Init => IInv
<1> SUFFICES ASSUME Init PROVE IInv
  OBVIOUS
<1>1. ci \in Infos /\ \A c \in Clients : ci[c] = Free
  BY DEF Init, Infos, Info, Free
<1>2. \A c \in Clients : ci[c].authreq = 0 /\ ci[c].victim = NoOne
  BY <1>1, FreeIsClean
<1>3. Numbered
  <2>1. nextauthreq = 1 /\ asked = <<>>
    BY DEF Init
  <2> QED
    BY <1>2, <2>1 DEF Numbered
<1>4. Channels
  BY DEF Init, Channels
<1> QED
  BY <1>1, <1>2, <1>3, <1>4
  DEF IInv, AnswersMatch, VictimStays, PendingIsAlive, ConnectingByKey

-----------------------------------------------------------------------------
\* What the helpers do to one client.

\* cleanauth takes the request and what belongs to it, nothing else.
LEMMA Cleaned ==
  ASSUME NEW r \in Info
  PROVE  /\ cleanauth(r) \in Info
         /\ cleanauth(r).authreq = 0 /\ cleanauth(r).victim = NoOne
         /\ cleanauth(r).is = r.is
  BY DEF cleanauth, Info

\* The request of r is the one of s, if it still has one.
SameRequest(r, s) ==
    \/ r.authreq = 0 /\ r.victim = NoOne
    \/ /\ r.authreq = s.authreq /\ r.authname = s.authname /\ r.authdesc = s.authdesc
       /\ r.victim = s.victim /\ r.mistaken = s.mistaken

\* A client as it was, without its request, or admitted.
Follows(r, s) ==
    /\ r \in Info /\ SameRequest(r, s)
    /\ r.is = "free" => s.is = "free"
    /\ r.authreq # 0 /\ r.is = "connecting" => s.is = "connecting"

\* Whoever is left when clientdisconnect is done with n keeps its request or
\* is without one, and none of them wants to kick n.
LEMMA LeftFollows ==
  ASSUME NEW cs \in Infos, NEW n \in Clients
  PROVE  /\ Left(cs, n) \in Infos /\ Left(cs, n)[n] = Free
         /\ \A c \in Clients \ {n} :
               Follows(Left(cs, n)[c], cs[c]) /\ Left(cs, n)[c].victim # n
<1>1. n # NoOne
  BY NobodyIsNoClient
<1>2. ASSUME NEW c \in Clients
      PROVE  /\ Left(cs, n)[c] \in Info
             /\ c = n => Left(cs, n)[c] = Free
             /\ c # n => Follows(Left(cs, n)[c], cs[c]) /\ Left(cs, n)[c].victim # n
  <2>1. cs[c] \in Info
    BY DEF Infos
  <2>2. CASE c = n
    <3>1. Left(cs, n)[c] = Free
      BY <2>2 DEF Left
    <3> QED
      BY <2>2, <3>1, FreeIsClean
  <2>3. CASE c # n /\ cs[c].victim = n
    <3>1. Left(cs, n)[c] = cleanauth(cs[c])
      BY <2>3 DEF Left
    <3> QED
      BY <1>1, <2>1, <2>3, <3>1, Cleaned DEF Follows, SameRequest
  <2>4. CASE c # n /\ cs[c].victim # n
    <3>1. Left(cs, n)[c] = cs[c]
      BY <2>4 DEF Left
    <3> QED
      BY <2>1, <2>4, <3>1 DEF Follows, SameRequest
  <2> QED
    BY <2>2, <2>3, <2>4
<1>3. Left(cs, n) = [c \in Clients |-> Left(cs, n)[c]]
  BY DEF Left
<1> QED
  BY <1>2, <1>3 DEF Infos

\* Settle forgets who asked and nothing else.
LEMMA Settled ==
  ASSUME Numbered, NEW left, Settle(left)
  PROVE  /\ asked' \in [1..nextauthreq - 1 -> Asked]
         /\ asked' \in Seq(Asked) /\ Len(asked') = nextauthreq - 1
         /\ \A id \in 1..nextauthreq - 1 :
               /\ asked'[id].name = asked[id].name
               /\ asked'[id].client = IF asked[id].client \in left THEN NoOne ELSE asked[id].client
<1> DEFINE n == nextauthreq - 1
<1>1. n \in Nat /\ DOMAIN asked = 1..n /\ \A id \in 1..n : asked[id] \in Asked
  BY DEF Numbered
<1>2. asked' = [id \in 1..n |-> IF asked[id].client \in left
                                THEN [asked[id] EXCEPT !.client = NoOne] ELSE asked[id]]
  BY <1>1 DEF Settle
<1> HIDE DEF n
<1>3. ASSUME NEW id \in 1..n
      PROVE  /\ asked'[id] \in Asked /\ asked'[id].name = asked[id].name
             /\ asked'[id].client = IF asked[id].client \in left THEN NoOne ELSE asked[id].client
  BY <1>1, <1>2 DEF Asked
<1>4. asked' \in [1..n -> Asked]
  BY <1>2, <1>3
<1>5. asked' \in Seq(Asked)
  BY <1>1, <1>4, SeqDef
<1>6. Len(asked') = n
  BY <1>1, <1>4, <1>5, LenProperties
<1> QED
  BY <1>3, <1>4, <1>5, <1>6 DEF n

-----------------------------------------------------------------------------
\* The main lemma: clients in left go, the others follow what they were, and
\* nobody who remains wants to kick one that goes.
LEMMA FollowingHolds ==
  ASSUME IInv, NEW left \in SUBSET Clients,
         ci' \in Infos, nextauthreq' = nextauthreq,
         Settle(left),
         \A c \in left : ci'[c] = Free,
         \A c \in Clients \ left : Follows(ci'[c], ci[c]) /\ ci'[c].victim \notin left
  PROVE  /\ Numbered' /\ AnswersMatch' /\ VictimStays'
         /\ \A c \in Clients : ci'[c].authreq # 0 =>
               /\ c \notin left /\ ci'[c].authreq = ci[c].authreq
               /\ ci'[c].authdesc = ci[c].authdesc /\ ci'[c].is # "free"
               /\ ci'[c].is = "connecting" => ci[c].is = "connecting"
<1>1. /\ Numbered /\ AnswersMatch /\ VictimStays /\ ConnectingByKey
      /\ ci \in Infos
  BY DEF IInv
<1>2. \A c \in Clients : ci'[c] \in Info /\ ci[c] \in Info
  BY <1>1 DEF Infos
<1>3. \A c \in Clients : ci'[c].authreq # 0 =>
        /\ c \notin left /\ ci'[c].authreq = ci[c].authreq
        /\ ci'[c].authname = ci[c].authname /\ ci'[c].authdesc = ci[c].authdesc
        /\ ci'[c].is # "free" /\ (ci'[c].is = "connecting" => ci[c].is = "connecting")
  BY <1>1, FreeIsClean DEF Follows, SameRequest, ConnectingByKey
<1>4. /\ asked' \in [1..nextauthreq - 1 -> Asked]
      /\ asked' \in Seq(Asked) /\ Len(asked') = nextauthreq - 1
      /\ \A id \in 1..nextauthreq - 1 :
            /\ asked'[id].name = asked[id].name
            /\ asked'[id].client = IF asked[id].client \in left THEN NoOne ELSE asked[id].client
  BY <1>1, Settled
<1>5. \A c \in Clients : ci'[c].authreq \in 0..nextauthreq - 1
  <2> SUFFICES ASSUME NEW c \in Clients PROVE ci'[c].authreq \in 0..nextauthreq - 1
    OBVIOUS
  <2>1. ci'[c].authreq = 0 \/ ci'[c].authreq = ci[c].authreq
    BY <1>3
  <2>2. ci[c].authreq \in 0..nextauthreq - 1 /\ nextauthreq \in Nat \ {0}
    BY <1>1 DEF Numbered
  <2> QED
    BY <2>1, <2>2
<1>6. Numbered'
  BY <1>1, <1>4, <1>5 DEF Numbered
<1>7. AnswersMatch'
  <2> SUFFICES ASSUME NEW c \in Clients, ci'[c].authreq # 0
               PROVE  asked'[ci'[c].authreq] = [client |-> c, name |-> ci'[c].authname]
    BY DEF AnswersMatch
  <2> DEFINE id == ci[c].authreq
  <2>1. /\ c \notin left /\ ci'[c].authreq = id /\ ci'[c].authname = ci[c].authname
        /\ id # 0
    BY <1>3
  <2>2. asked[id] = [client |-> c, name |-> ci[c].authname]
    BY <1>1, <2>1 DEF AnswersMatch
  <2>3. id \in 1..nextauthreq - 1
    BY <1>1, <2>1 DEF Numbered
  <2> HIDE DEF id
  <2>4. asked'[id] \in Asked /\ asked'[id].name = ci[c].authname /\ asked'[id].client = c
    BY <1>4, <2>1, <2>2, <2>3
  <2>5. asked'[id] = [client |-> c, name |-> ci[c].authname]
    BY <2>4 DEF Asked
  <2> QED
    BY <2>1, <2>5
<1>8. VictimStays'
  <2> SUFFICES ASSUME NEW c \in Clients, ci'[c].victim # NoOne
               PROVE  ci'[ci'[c].victim].is # "free" /\ ~ci'[c].mistaken
    BY DEF VictimStays
  <2>1. c \notin left /\ ci'[c].victim \notin left
    BY FreeIsClean
  <2>2. ci'[c].victim = ci[c].victim /\ ci'[c].mistaken = ci[c].mistaken
    BY <2>1 DEF Follows, SameRequest
  <2>3. ci[c].victim \in Clients \ left
    BY <1>2, <2>1, <2>2 DEF Info
  <2>4. ci[ci[c].victim].is # "free" /\ ~ci[c].mistaken
    BY <1>1, <2>2 DEF VictimStays
  <2>5. ci'[ci[c].victim].is # "free"
    BY <2>3, <2>4 DEF Follows
  <2> QED
    BY <2>2, <2>4, <2>5
<1> QED
  BY <1>3, <1>6, <1>7, <1>8

\* What a step does not change settles nobody.
LEMMA UnchangedSettles ==
  ASSUME Numbered, asked' = asked
  PROVE  Settle({})
<1>1. asked = [id \in DOMAIN asked |-> asked[id]]
  BY DEF Numbered
<1> QED
  BY <1>1 DEF Settle

\* A step after which everybody follows what it was, and everybody who still has
\* a request has somebody to wait for, preserves the invariant.
LEMMA StepHolds ==
  ASSUME IInv, NEW left \in SUBSET Clients,
         ci' \in Infos, nextauthreq' = nextauthreq, Settle(left), Channels',
         \A c \in left : ci'[c] = Free,
         \A c \in Clients \ left : Follows(ci'[c], ci[c]) /\ ci'[c].victim \notin left,
         \A c \in Clients : ci'[c].authreq # 0 =>
            \/ ci[c].authreq \in challenges'[c]
            \/ ci'[c].is # "connecting" /\ OnLink(ci[c].authreq, masterout', masterin')
  PROVE  IInv'
<1>1. /\ Numbered' /\ AnswersMatch' /\ VictimStays'
      /\ \A c \in Clients : ci'[c].authreq # 0 =>
            /\ c \notin left /\ ci'[c].authreq = ci[c].authreq
            /\ ci'[c].authdesc = ci[c].authdesc /\ ci'[c].is # "free"
            /\ ci'[c].is = "connecting" => ci[c].is = "connecting"
  BY FollowingHolds
<1>2. PendingIsAlive'
  BY <1>1 DEF PendingIsAlive, OnLink
<1>3. ConnectingByKey'
  BY <1>1 DEF ConnectingByKey, IInv
<1> QED
  BY <1>1, <1>2, <1>3 DEF IInv

\* Whoever has a request has somebody to wait for.
LEMMA Waiting ==
  ASSUME IInv, NEW c \in Clients, ci[c].authreq # 0
  PROVE  \/ ci[c].authreq \in challenges[c]
         \/ ci[c].is = "connected" /\ OnLink(ci[c].authreq, masterout, masterin)
<1>1. ci[c].is \in {"free", "connecting", "connected"}
  BY DEF IInv, Infos, Info
<1> QED
  BY <1>1 DEF IInv, PendingIsAlive, ConnectingByKey, OnLink

\* Sequences: what is appended comes last, what is taken off was first.
LEMMA Appended ==
  ASSUME NEW S, NEW s \in Seq(S), NEW e \in S
  PROVE  /\ Append(s, e) \in Seq(S)
         /\ \A k \in DOMAIN s : k \in DOMAIN Append(s, e) /\ Append(s, e)[k] = s[k]
         /\ \E k \in DOMAIN Append(s, e) : Append(s, e)[k] = e
<1>1. /\ Append(s, e) \in Seq(S) /\ Len(s) \in Nat /\ DOMAIN s = 1..Len(s)
      /\ DOMAIN Append(s, e) = 1..Len(s) + 1
  BY AppendProperties, LenProperties
<1>2. Append(s, e)[Len(s) + 1] = e /\ Len(s) + 1 \in DOMAIN Append(s, e)
  BY <1>1, AppendProperties
<1>3. \A k \in 1..Len(s) : k \in 1..Len(s) + 1 /\ Append(s, e)[k] = s[k]
  BY <1>1, AppendProperties
<1> QED
  BY <1>1, <1>2, <1>3

\* Taking the first message off a channel loses no other.
LEMMA TakenOff ==
  ASSUME NEW S, NEW s \in Seq(S), s # <<>>
  PROVE  /\ Head(s) \in S /\ Tail(s) \in Seq(S)
         /\ \A k \in DOMAIN s : s[k] = Head(s) \/ \E j \in DOMAIN Tail(s) : Tail(s)[j] = s[k]
<1>1. /\ Head(s) \in S /\ Tail(s) \in Seq(S) /\ Head(s) = s[1]
      /\ Len(s) \in Nat \ {0} /\ DOMAIN s = 1..Len(s)
      /\ Len(Tail(s)) = Len(s) - 1 /\ DOMAIN Tail(s) = 1..Len(Tail(s))
  BY HeadTailProperties, LenProperties, EmptySeq
<1>2. \A j \in 1..Len(Tail(s)) : Tail(s)[j] = s[j + 1]
  BY HeadTailProperties
<1>3. ASSUME NEW k \in 1..Len(s), k # 1
      PROVE  k - 1 \in 1..Len(Tail(s)) /\ Tail(s)[k - 1] = s[k]
  <2>1. k - 1 \in 1..Len(Tail(s)) /\ (k - 1) + 1 = k
    BY <1>1, <1>3
  <2> QED
    BY <1>2, <2>1
<1> QED
  BY <1>1, <1>3

-----------------------------------------------------------------------------
\* The helpers of the steps.

\* connected(ci) and cleanauth, for r that is the client c as it was or admitted.
LEMMA AuthenticatedFollows ==
  ASSUME IInv, NEW c \in Clients, NEW r, r \in {ci[c], Admitted(ci[c])},
         ci[c].authreq # 0, Authenticated(c, r)
  PROVE  \E left \in SUBSET Clients :
            /\ ci' \in Infos /\ Gone(left)
            /\ ci'[c].authreq = 0
            /\ \A d \in left : ci'[d] = Free
            /\ \A d \in Clients \ left : Follows(ci'[d], ci[d]) /\ ci'[d].victim \notin left
<1> DEFINE clean == [ci EXCEPT ![c] = cleanauth(r)]
           kicks == r.victim # NoOne /\ ci[r.victim].is = "connected"
                    /\ (ci[r.victim].privilege => r.privilege)
           left  == IF kicks THEN {r.victim} ELSE {}
<1>1. ci \in Infos /\ ci[c] \in Info /\ ci[c].is # "free"
  BY DEF IInv, Infos, ConnectingByKey
<1>2. r \in Info /\ r.is # "free" /\ (r.is = "connecting" => ci[c].is = "connecting")
  BY <1>1 DEF Admitted, Info
<1>3. r.victim = ci[c].victim /\ r.victim \in Clients \cup {NoOne}
  BY <1>1 DEF Admitted, Info
<1>4. /\ clean \in Infos /\ clean[c] = cleanauth(r)
      /\ \A d \in Clients : d # c => clean[d] = ci[d]
  BY <1>1, <1>2, Cleaned DEF Infos
<1>5. /\ clean[c].authreq = 0 /\ clean[c].victim = NoOne /\ clean[c].is = r.is
      /\ clean[c] \in Info
  BY <1>2, <1>4, Cleaned
<1>6. /\ ci' = CASE r.victim = NoOne -> [clean EXCEPT ![c].privilege = TRUE]
                  [] kicks            -> Left(clean, r.victim)
                  [] OTHER            -> clean
      /\ Gone(left)
  BY DEF Authenticated
<1> HIDE DEF clean
<1>7. \A d \in Clients : Follows(clean[d], ci[d])
  <2> SUFFICES ASSUME NEW d \in Clients PROVE Follows(clean[d], ci[d])
    OBVIOUS
  <2>1. CASE d = c
    BY <1>2, <1>5, <2>1 DEF Follows, SameRequest
  <2>2. CASE d # c
    BY <1>1, <1>4, <2>2 DEF Follows, SameRequest, Infos
  <2> QED
    BY <2>1, <2>2
<1>8. CASE r.victim = NoOne
  <2>1. ci' = [clean EXCEPT ![c].privilege = TRUE] /\ left = {}
    BY <1>6, <1>8
  <2>2. ci'[c] = [clean[c] EXCEPT !.privilege = TRUE] /\ \A d \in Clients : d # c => ci'[d] = clean[d]
    BY <1>4, <2>1 DEF Infos
  <2>3. /\ ci'[c] \in Info /\ ci'[c].authreq = 0 /\ ci'[c].victim = NoOne
        /\ ci'[c].is = clean[c].is
    BY <1>5, <2>2 DEF Info
  <2>4. ci' \in Infos
    BY <1>4, <2>1, <2>2, <2>3 DEF Infos
  <2>5. Follows(ci'[c], ci[c])
    BY <1>2, <1>5, <2>3 DEF Follows, SameRequest
  <2>6. \A d \in Clients \ left : Follows(ci'[d], ci[d]) /\ ci'[d].victim \notin left
    BY <1>7, <2>1, <2>2, <2>5
  <2> QED
    BY <1>6, <2>1, <2>3, <2>4, <2>6
<1>9. CASE kicks
  <2>1. ci' = Left(clean, r.victim) /\ left = {r.victim}
    BY <1>6, <1>9
  <2>2. r.victim \in Clients
    BY <1>3, <1>9
  <2>3. /\ ci' \in Infos /\ ci'[r.victim] = Free
        /\ \A d \in Clients \ {r.victim} :
              Follows(ci'[d], clean[d]) /\ ci'[d].victim # r.victim
    BY <1>4, <2>1, <2>2, LeftFollows
  <2>4. \A d \in Clients \ {r.victim} : Follows(ci'[d], ci[d])
    BY <1>7, <2>3 DEF Follows, SameRequest
  <2>5. ci'[c].authreq = 0
    <3>1. CASE c = r.victim
      BY <2>3, <3>1, FreeIsClean
    <3>2. CASE c # r.victim
      BY <1>5, <2>3, <3>2 DEF Follows, SameRequest
    <3> QED
      BY <3>1, <3>2
  <2> QED
    BY <1>6, <2>1, <2>2, <2>3, <2>4, <2>5
<1>10. CASE r.victim # NoOne /\ ~kicks
  <2>1. ci' = clean /\ left = {}
    BY <1>6, <1>10
  <2> QED
    BY <1>4, <1>5, <1>6, <1>7, <2>1
<1> QED
  BY <1>8, <1>9, <1>10

\* requestmaster keeps what is on the link.
LEMMA RequestKeeps ==
  ASSUME Channels, NEW m \in Message(Out), Request(m)
  PROVE  /\ masterout' \in Seq(Message(Out))
         /\ link' \in {"none", "connecting", "connected"}
         /\ \A id : OnLink(id, masterout, masterin) => OnLink(id, masterout', masterin)
         /\ OnLink(m.id, masterout', masterin)
<1>1. masterout' = Append(masterout, m) /\ masterout \in Seq(Message(Out))
  BY DEF Request, Channels
<1>2. link' \in {"none", "connecting", "connected"}
  BY DEF Request, Channels
<1>3. /\ masterout' \in Seq(Message(Out))
      /\ \A k \in DOMAIN masterout : k \in DOMAIN masterout' /\ masterout'[k] = masterout[k]
      /\ \E k \in DOMAIN masterout' : masterout'[k] = m
  BY <1>1, Appended
<1> QED
  BY <1>2, <1>3 DEF OnLink

\* Giving up the request of c, and forgetting its challenges or not.
LEMMA GivesUp ==
  ASSUME IInv, NEW c \in Clients, ci' = [ci EXCEPT ![c] = cleanauth(@)],
         nextauthreq' = nextauthreq, asked' = asked,
         \A d \in Clients : d # c => challenges'[d] = challenges[d],
         challenges' \in [Clients -> SUBSET Nat],
         UNCHANGED <<link, masterout, masterin>>
  PROVE  IInv'
<1>1. ci \in Infos /\ ci[c] \in Info /\ Channels /\ Numbered
  BY DEF IInv, Infos
<1>2. /\ ci'[c] = cleanauth(ci[c]) /\ \A d \in Clients : d # c => ci'[d] = ci[d]
      /\ ci'[c].authreq = 0 /\ ci'[c].victim = NoOne /\ ci'[c].is = ci[c].is
      /\ ci'[c] \in Info
  BY <1>1, Cleaned DEF Infos
<1>3. ci' \in Infos
  BY <1>1, <1>2 DEF Infos
<1>4. Channels'
  BY <1>1 DEF Channels
<1>5. ASSUME NEW d \in Clients PROVE Follows(ci'[d], ci[d])
  <2>1. ci[d] \in Info
    BY <1>1 DEF Infos
  <2> QED
    BY <1>2, <2>1 DEF Follows, SameRequest
<1>6. ASSUME NEW d \in Clients, ci'[d].authreq # 0
      PROVE  \/ ci[d].authreq \in challenges'[d]
             \/ ci'[d].is # "connecting" /\ OnLink(ci[d].authreq, masterout', masterin')
  <2>1. d # c /\ ci'[d] = ci[d]
    BY <1>2, <1>6
  <2> QED
    BY <1>6, <2>1, Waiting
<1>7. Settle({})
  BY <1>1, UnchangedSettles
<1> QED
  BY <1>3, <1>4, <1>5, <1>6, <1>7, StepHolds

\* Clients that go take their challenges along, and nobody else's.
LEMMA GoneHolds ==
  ASSUME IInv, NEW left \in SUBSET Clients, Gone(left),
         ci' \in Infos, nextauthreq' = nextauthreq,
         \A c \in left : ci'[c] = Free,
         \A c \in Clients \ left : Follows(ci'[c], ci[c]) /\ ci'[c].victim \notin left,
         link' = link,
         masterout' = masterout, masterin' \in Seq(Message(In)),
         \A c \in Clients : ci'[c].authreq # 0 /\ OnLink(ci[c].authreq, masterout, masterin) =>
            OnLink(ci[c].authreq, masterout', masterin')
  PROVE  IInv'
<1>1. Channels /\ Settle(left)
  BY DEF IInv, Gone
<1>2. challenges' = [c \in Clients |-> IF c \in left THEN {} ELSE challenges[c]]
  BY DEF Gone
<1>3. Channels'
  BY <1>1, <1>2 DEF Channels
<1>4. ASSUME NEW c \in Clients, ci'[c].authreq # 0
      PROVE  \/ ci[c].authreq \in challenges'[c]
             \/ ci'[c].is # "connecting" /\ OnLink(ci[c].authreq, masterout', masterin')
  <2>1. c \notin left
    BY <1>4, FreeIsClean
  <2>2. challenges'[c] = challenges[c] /\ Follows(ci'[c], ci[c])
    BY <1>2, <2>1
  <2>3. ci[c].authreq # 0 /\ (ci'[c].is = "connecting" => ci[c].is = "connecting")
    BY <1>4, <2>2 DEF Follows, SameRequest
  <2> QED
    BY <1>4, <2>2, <2>3, Waiting
<1> QED
  BY <1>1, <1>3, <1>4, StepHolds

\* Steps of the clients themselves that make no request.

\* A new connection finds a slot that nobody waits in.
LEMMA clientconnectHolds ==
  ASSUME IInv, NEW c \in Clients, clientconnect(c)
  PROVE  IInv'
<1>1. ci \in Infos /\ ci[c] \in Info /\ Channels /\ Numbered /\ ci[c].authreq = 0
  BY DEF IInv, Infos, ConnectingByKey, clientconnect
<1>2. ci' = [ci EXCEPT ![c].is = "connecting"]
  BY DEF clientconnect
<1>3. /\ ci'[c] = [ci[c] EXCEPT !.is = "connecting"]
      /\ \A d \in Clients : d # c => ci'[d] = ci[d]
  BY <1>1, <1>2 DEF Infos
<1>4. ci'[c] \in Info /\ Follows(ci'[c], ci[c]) /\ ci'[c].authreq = 0
  BY <1>1, <1>3 DEF Info, Follows, SameRequest
<1>5. ci' \in Infos
  BY <1>1, <1>2, <1>3, <1>4 DEF Infos
<1>6. \A d \in Clients : Follows(ci'[d], ci[d])
  BY <1>1, <1>3, <1>4 DEF Follows, SameRequest, Infos
<1>7. Channels' /\ Settle({})
  BY <1>1, UnchangedSettles DEF clientconnect, Channels
<1>8. \A d \in Clients : ci'[d].authreq # 0 =>
        \/ ci[d].authreq \in challenges'[d]
        \/ ci'[d].is # "connecting" /\ OnLink(ci[d].authreq, masterout', masterin')
  BY <1>3, <1>4, Waiting DEF clientconnect
<1> QED
  BY <1>5, <1>6, <1>7, <1>8, StepHolds DEF clientconnect

\* Whoever is let in without a key waits for nothing.
LEMMA ConnectHolds ==
  ASSUME IInv, NEW c \in Clients, Connect(c)
  PROVE  IInv'
<1>1. ci \in Infos /\ ci[c] \in Info /\ Channels /\ Numbered
  BY DEF IInv, Infos
<1>2. ci' = [ci EXCEPT ![c] = Admitted(@)]
  BY DEF Connect
<1>3. ci'[c] = Admitted(ci[c]) /\ \A d \in Clients : d # c => ci'[d] = ci[d]
  BY <1>1, <1>2 DEF Infos
<1>4. Admitted(ci[c]) \in Info /\ Admitted(ci[c]).is = "connected"
  BY <1>1 DEF Info, Admitted
<1>5. Follows(ci'[c], ci[c])
  BY <1>3, <1>4 DEF Admitted, Follows, SameRequest
<1>6. ci' \in Infos
  BY <1>1, <1>2, <1>3, <1>4 DEF Infos
<1>7. \A d \in Clients : Follows(ci'[d], ci[d])
  BY <1>1, <1>3, <1>5 DEF Follows, SameRequest, Infos
<1>8. Channels' /\ Settle({})
  BY <1>1, UnchangedSettles DEF Connect, Channels
<1>9. \A d \in Clients : ci'[d].authreq # 0 =>
        \/ ci[d].authreq \in challenges'[d]
        \/ ci'[d].is # "connecting" /\ OnLink(ci[d].authreq, masterout', masterin')
  <2> SUFFICES ASSUME NEW d \in Clients, ci'[d].authreq # 0
               PROVE  \/ ci[d].authreq \in challenges'[d]
                      \/ ci'[d].is # "connecting" /\ OnLink(ci[d].authreq, masterout', masterin')
    OBVIOUS
  <2>1. ci[d].authreq # 0 /\ (ci'[d].is = "connecting" => ci[d].is = "connecting")
    BY <1>7 DEF Follows, SameRequest
  <2> QED
    BY <2>1, Waiting DEF Connect
<1> QED
  BY <1>6, <1>7, <1>8, <1>9, StepHolds DEF Connect

\* Whoever leaves gives up its request, and nobody keeps it as a victim.
LEMMA clientdisconnectHolds ==
  ASSUME IInv, NEW c \in Clients, clientdisconnect(c)
  PROVE  IInv'
<1>1. ci \in Infos /\ Channels
  BY DEF IInv
<1>2. ci' = Left(ci, c) /\ Gone({c})
  BY DEF clientdisconnect
<1>3. /\ ci' \in Infos /\ ci'[c] = Free
      /\ \A d \in Clients \ {c} : Follows(ci'[d], ci[d]) /\ ci'[d].victim # c
  BY <1>1, <1>2, LeftFollows
<1>4. masterin' \in Seq(Message(In))
  BY <1>1 DEF clientdisconnect, Channels
<1> QED
  BY <1>2, <1>3, <1>4, GoneHolds DEF clientdisconnect

-----------------------------------------------------------------------------
\* Answers of clients.

\* An answer to a challenge that no longer counts.
LEMMA AnswerOtherHolds ==
  ASSUME IInv, NEW c \in Clients, NEW id \in 1..MaxRequests,
         AnswerOther(c, id), UNCHANGED <<nextauthreq, masterin>>
  PROVE  IInv'
<1>1. Channels
  BY DEF IInv
<1>2. challenges' = [challenges EXCEPT ![c] = @ \ {id}]
  BY DEF AnswerOther
<1>3. /\ challenges' \in [Clients -> SUBSET Nat]
      /\ \A d \in Clients : d # c => challenges'[d] = challenges[d]
  BY <1>1, <1>2 DEF Channels
<1> QED
  BY <1>3, GivesUp DEF AnswerOther

\* An answer to a challenge of the server's own keys.
LEMMA AnswerLocalHolds ==
  ASSUME IInv, NEW c \in Clients, NEW id \in 1..MaxRequests,
         AnswerLocal(c, id), UNCHANGED <<nextauthreq, masterin>>
  PROVE  IInv'
<1>1. Channels /\ id # 0 /\ ci[c].authreq # 0
  BY DEF IInv, AnswerLocal
<1>2. CASE Authenticated(c, Admitted(ci[c]))
  <2>1. PICK left \in SUBSET Clients :
            /\ ci' \in Infos /\ Gone(left)
            /\ ci'[c].authreq = 0
            /\ \A d \in left : ci'[d] = Free
            /\ \A d \in Clients \ left : Follows(ci'[d], ci[d]) /\ ci'[d].victim \notin left
    BY <1>1, <1>2, AuthenticatedFollows
  <2>2. masterin' \in Seq(Message(In))
    BY <1>1 DEF Channels
  <2> QED
    BY <2>1, <2>2, GoneHolds DEF AnswerLocal
<1>3. CASE /\ ci' = [ci EXCEPT ![c] = cleanauth(@)]
           /\ challenges' = [challenges EXCEPT ![c] = @ \ {id}] /\ UNCHANGED asked
  <2>1. /\ challenges' \in [Clients -> SUBSET Nat]
        /\ \A d \in Clients : d # c => challenges'[d] = challenges[d]
    BY <1>1, <1>3 DEF Channels
  <2> QED
    BY <1>3, <2>1, GivesUp DEF AnswerLocal
<1> QED
  BY <1>2, <1>3 DEF AnswerLocal

\* What goes on to the master server is no longer waited for by its client.
LEMMA AnswerMasterHolds ==
  ASSUME IInv, NEW c \in Clients, NEW id \in 1..MaxRequests,
         AnswerMaster(c, id), UNCHANGED <<nextauthreq, masterin>>
  PROVE  IInv'
<1>1. /\ ci \in Infos /\ Channels /\ Numbered /\ id # 0 /\ id \in Nat
      /\ ci[c].authreq = id /\ ci[c].authdesc = "master"
  <2>1. ci \in Infos /\ Channels /\ Numbered
    BY DEF IInv
  <2>2. ci[c].authreq = id /\ ci[c].authdesc = "master"
    BY DEF AnswerMaster
  <2>3. id # 0 /\ id \in Nat
    OBVIOUS
  <2> QED
    BY <2>1, <2>2, <2>3
<1>2. challenges' = [challenges EXCEPT ![c] = @ \ {id}] /\ asked' = asked
  BY DEF AnswerMaster
<1>3. /\ challenges' \in [Clients -> SUBSET Nat]
      /\ \A d \in Clients : d # c => challenges'[d] = challenges[d]
  BY <1>1, <1>2 DEF Channels
<1>4. CASE Request([kind |-> "confauth", id |-> id]) /\ UNCHANGED ci
  <2> DEFINE m == [kind |-> "confauth", id |-> id]
  <2>1. m \in Message(Out) /\ m.id = id
    BY <1>1 DEF Message, Out
  <2> HIDE DEF m
  <2>2. Request(m)
    BY <1>4 DEF m
  <2>3. /\ masterout' \in Seq(Message(Out))
        /\ link' \in {"none", "connecting", "connected"}
        /\ \A i : OnLink(i, masterout, masterin) => OnLink(i, masterout', masterin)
        /\ OnLink(id, masterout', masterin)
    BY <1>1, <2>1, <2>2, RequestKeeps
  <2>4. Channels'
    BY <1>1, <1>3, <2>3 DEF Channels
  <2>5. ci[c].is # "connecting"
    BY <1>1 DEF IInv, ConnectingByKey
  <2>6. ASSUME NEW d \in Clients, ci'[d].authreq # 0
        PROVE  \/ ci[d].authreq \in challenges'[d]
               \/ ci'[d].is # "connecting" /\ OnLink(ci[d].authreq, masterout', masterin')
    <3>1. CASE d = c
      BY <1>1, <1>4, <2>3, <2>5, <3>1
    <3>2. CASE d # c
      BY <1>3, <1>4, <2>3, <2>6, <3>2, Waiting
    <3> QED
      BY <3>1, <3>2
  <2>7. \A d \in Clients : Follows(ci'[d], ci[d])
    BY <1>1, <1>4 DEF Follows, SameRequest, Infos
  <2>8. Settle({}) /\ ci' \in Infos
    BY <1>1, <1>2, <1>4, UnchangedSettles
  <2> QED
    BY <2>4, <2>6, <2>7, <2>8, StepHolds
<1>5. CASE RequestFails /\ ci' = [ci EXCEPT ![c] = cleanauth(@)]
  BY <1>2, <1>3, <1>5, GivesUp DEF RequestFails
<1> QED
  BY <1>4, <1>5 DEF AnswerMaster

\* Every answer keeps the invariant.
LEMMA answerchallengeHolds ==
  ASSUME IInv, NEW c \in Clients, NEW id \in 1..MaxRequests, answerchallenge(c, id)
  PROVE  IInv'
  BY AnswerOtherHolds, AnswerLocalHolds, AnswerMasterHolds DEF answerchallenge

-----------------------------------------------------------------------------
\* New requests.

\* A step after which everybody has what was waited for.
KeepsWaiting ==
    /\ \A d \in Clients : challenges[d] \subseteq challenges'[d]
    /\ \A i : OnLink(i, masterout, masterin) => OnLink(i, masterout', masterin')

\* The new request waits for its client or for the master server.
Waits(c, desc) ==
    \/ desc = "local" /\ nextauthreq \in challenges'[c]
    \/ desc = "master" /\ OnLink(nextauthreq, masterout', masterin')

\* Requested: the new number is that of nobody else, and everything said of
\* earlier ones stays true.
LEMMA RequestedHolds ==
  ASSUME IInv, NEW c \in Clients, NEW name \in Names, NEW desc \in {"master", "local"},
         NEW victim \in Clients \cup {NoOne},
         Requested(c, name, desc, victim),
         ci[c].is # "free", victim # NoOne => ci[victim].is # "free",
         ci[c].is = "connecting" => desc = "local",
         Channels', KeepsWaiting,
         Waits(c, desc)
  PROVE  IInv'
<1>1. /\ ci \in Infos /\ ci[c] \in Info /\ Numbered
      /\ AnswersMatch /\ VictimStays /\ ConnectingByKey
  BY DEF IInv, Infos
<1>0. PICK n \in Nat : n = nextauthreq
  BY DEF IInv, Numbered
<1>2. /\ nextauthreq' = n + 1 /\ asked' = Append(asked, [client |-> c, name |-> name])
      /\ ci' = [ci EXCEPT ![c].authreq = n, ![c].authname = name, ![c].authdesc = desc,
                         ![c].victim = victim, ![c].mistaken = FALSE,
                         ![c].connectauth = ci[c].is = "connecting"]
  BY <1>0 DEF Requested
<1>3. /\ n \in Nat \ {0} /\ asked \in Seq(Asked) /\ Len(asked) = n - 1
      /\ \A d \in Clients : ci[d].authreq \in 0..n - 1
  BY <1>0, <1>1 DEF Numbered
<1>4. \A d \in Clients : d # c => ci'[d] = ci[d]
  BY <1>1, <1>2 DEF Infos
<1>5. ci'[c] = [ci[c] EXCEPT !.authreq = n, !.authname = name, !.authdesc = desc,
                            !.victim = victim, !.mistaken = FALSE,
                            !.connectauth = ci[c].is = "connecting"]
  BY <1>1, <1>2 DEF Infos
<1>6. /\ ci'[c].authreq = n /\ ci'[c].authname = name /\ ci'[c].authdesc = desc
      /\ ci'[c].victim = victim /\ ci'[c].mistaken = FALSE /\ ci'[c].is = ci[c].is
      /\ ci'[c] \in Info
  <2>1. (ci[c].is = "connecting") \in BOOLEAN
    OBVIOUS
  <2> QED
    BY <1>1, <1>3, <1>5, <2>1 DEF Info
<1>7. ci' \in Infos
  BY <1>1, <1>2, <1>4, <1>6 DEF Infos
<1>8. [client |-> c, name |-> name] \in Asked
  BY DEF Asked
<1>9. /\ asked' \in Seq(Asked) /\ Len(asked') = n
      /\ asked'[n] = [client |-> c, name |-> name]
      /\ \A i \in 1..n - 1 : asked'[i] = asked[i]
  <2>1. /\ asked' \in Seq(Asked) /\ Len(asked') = Len(asked) + 1
        /\ \A i \in 1..Len(asked) : asked'[i] = asked[i]
        /\ asked'[Len(asked) + 1] = [client |-> c, name |-> name]
    BY <1>2, <1>3, <1>8, AppendProperties
  <2>2. Len(asked) + 1 = n /\ Len(asked) = n - 1
    BY <1>3
  <2> QED
    BY <2>1, <2>2
<1>10. Numbered'
  <2>1. nextauthreq' \in Nat \ {0} /\ nextauthreq' - 1 = n
    BY <1>2, <1>3
  <2>2. asked' \in [1..n -> Asked]
    BY <1>9, LenProperties
  <2>3. ASSUME NEW d \in Clients PROVE ci'[d].authreq \in 0..n
    <3>1. CASE d = c
      BY <1>3, <1>6, <3>1
    <3>2. CASE d # c
      BY <1>3, <1>4, <3>2
    <3> QED
      BY <3>1, <3>2
  <2> QED
    BY <1>9, <2>1, <2>2, <2>3 DEF Numbered
<1>11. AnswersMatch'
  <2> SUFFICES ASSUME NEW d \in Clients, ci'[d].authreq # 0
               PROVE  asked'[ci'[d].authreq] = [client |-> d, name |-> ci'[d].authname]
    BY DEF AnswersMatch
  <2>1. CASE d = c
    BY <1>6, <1>9, <2>1
  <2>2. CASE d # c
    <3>1. ci[d].authreq \in 1..n - 1 /\ ci'[d] = ci[d]
      BY <1>3, <1>4, <2>2
    <3>2. asked[ci[d].authreq] = [client |-> d, name |-> ci[d].authname]
      BY <1>1, <3>1 DEF AnswersMatch
    <3> QED
      BY <1>9, <3>1, <3>2
  <2> QED
    BY <2>1, <2>2
<1>12. \A d \in Clients : ci'[d].is = ci[d].is
  BY <1>4, <1>6
<1>13. VictimStays'
  <2> SUFFICES ASSUME NEW d \in Clients, ci'[d].victim # NoOne
               PROVE  ci'[ci'[d].victim].is # "free" /\ ~ci'[d].mistaken
    BY DEF VictimStays
  <2>1. CASE d = c
    BY <1>6, <1>12, <2>1
  <2>2. CASE d # c
    <3>1. ci'[d] = ci[d] /\ ci[d].victim \in Clients
      BY <1>1, <1>4, <2>2 DEF Infos, Info
    <3>2. ci[ci[d].victim].is # "free" /\ ~ci[d].mistaken
      BY <1>1, <3>1 DEF VictimStays
    <3> QED
      BY <1>12, <3>1, <3>2
  <2> QED
    BY <2>1, <2>2
<1>14. ASSUME NEW d \in Clients, ci'[d].authreq # 0
       PROVE  /\ \/ ci'[d].authreq \in challenges'[d]
                 \/ OnLink(ci'[d].authreq, masterout', masterin')
              /\ ci'[d].is # "free"
              /\ ci'[d].is = "connecting" => /\ ci'[d].authdesc = "local"
                                             /\ ci'[d].authreq \in challenges'[d]
  <2>1. CASE d = c
    BY <1>0, <1>6, <2>1 DEF Waits
  <2>2. CASE d # c
    <3>1. ci'[d] = ci[d] /\ ci[d].authreq # 0
      BY <1>4, <1>14, <2>2
    <3> QED
      BY <1>1, <3>1, Waiting DEF ConnectingByKey, KeepsWaiting
  <2> QED
    BY <2>1, <2>2
<1>15. PendingIsAlive'
  BY <1>14 DEF PendingIsAlive, OnLink
<1>16. ConnectingByKey'
  BY <1>14 DEF ConnectingByKey
<1> QED
  BY <1>7, <1>10, <1>11, <1>13, <1>15, <1>16 DEF IInv

\* A request that the server's own keys can settle.
LEMMA TryLocalHolds ==
  ASSUME IInv, NEW c \in Clients, NEW name \in Names, NEW victim \in Clients \cup {NoOne},
         TryLocal(c, name, victim),
         ci[c].is # "free", victim # NoOne => ci[victim].is # "free"
  PROVE  IInv'
<1>1. Channels /\ nextauthreq \in Nat
  BY DEF IInv, Numbered
<1>2. challenges' = [challenges EXCEPT ![c] = @ \cup {nextauthreq}]
  BY DEF TryLocal
<1>3. /\ challenges' \in [Clients -> SUBSET Nat]
      /\ \A d \in Clients : challenges[d] \subseteq challenges'[d]
      /\ nextauthreq \in challenges'[c]
  BY <1>1, <1>2 DEF Channels
<1>4. Channels'
  BY <1>1, <1>3 DEF Channels, TryLocal
<1>5. Requested(c, name, "local", victim) /\ UNCHANGED <<masterout, masterin>>
  BY DEF TryLocal
<1> QED
  BY <1>3, <1>4, <1>5, RequestedHolds DEF KeepsWaiting, Waits

\* A request that goes to the master server.
LEMMA TryMasterHolds ==
  ASSUME IInv, NEW c \in Clients, NEW name \in Names, NEW victim \in Clients \cup {NoOne},
         TryMaster(c, name, victim),
         ci[c].is = "connected", victim # NoOne => ci[victim].is # "free"
  PROVE  IInv'
<1> DEFINE m == [kind |-> "reqauth", id |-> nextauthreq]
<1>1. Channels /\ nextauthreq \in Nat \ {0}
  BY DEF IInv, Numbered
<1>2. m \in Message(Out) /\ m.id = nextauthreq
  BY <1>1 DEF Message, Out
<1>3. /\ Request(m) /\ Requested(c, name, "master", victim)
      /\ UNCHANGED <<challenges, masterin>>
  BY DEF TryMaster
<1> HIDE DEF m
<1>4. /\ masterout' \in Seq(Message(Out))
      /\ link' \in {"none", "connecting", "connected"}
      /\ \A i : OnLink(i, masterout, masterin) => OnLink(i, masterout', masterin)
      /\ OnLink(nextauthreq, masterout', masterin)
  BY <1>1, <1>2, <1>3, RequestKeeps
<1>5. Channels'
  BY <1>1, <1>3, <1>4 DEF Channels
<1> QED
  BY <1>3, <1>4, <1>5, RequestedHolds DEF KeepsWaiting, Waits

\* A request that nobody can settle ends at once.
LEMMA TryFailsHolds ==
  ASSUME IInv, NEW c \in Clients, TryFails(c)
  PROVE  IInv'
<1>1. challenges' \in [Clients -> SUBSET Nat] /\ challenges' = challenges
  BY DEF IInv, Channels, TryFails
<1> QED
  BY <1>1, GivesUp DEF TryFails

\* Every request keeps the invariant.
LEMMA AsksHolds ==
  ASSUME IInv, NEW c \in Clients, NEW name \in Names,
         \/ ConnectByKey(c, name)
         \/ \E victim \in Clients \cup {NoOne} : AuthTry(c, name, victim)
  PROVE  IInv'
<1>1. CASE ConnectByKey(c, name)
  BY <1>1, TryLocalHolds DEF ConnectByKey
<1>2. ASSUME NEW victim \in Clients \cup {NoOne}, AuthTry(c, name, victim)
      PROVE  IInv'
  <2>1. ci[c].is = "connected" /\ (victim # NoOne => ci[victim].is # "free")
    BY <1>2 DEF AuthTry, Connected
  <2>2. TryLocal(c, name, victim) \/ TryMaster(c, name, victim) \/ TryFails(c)
    BY <1>2 DEF AuthTry
  <2>3. CASE TryLocal(c, name, victim)
    BY <2>1, <2>3, TryLocalHolds
  <2>4. CASE TryMaster(c, name, victim)
    BY <2>1, <2>4, TryMasterHolds
  <2> QED
    BY <2>2, <2>3, <2>4, TryFailsHolds
<1> QED
  BY <1>1, <1>2

-----------------------------------------------------------------------------
\* The link to the master server.

\* Steps of the link alone.
LEMMA LinkHolds ==
  ASSUME IInv, link' \in {"none", "connecting", "connected"},
         UNCHANGED <<ci, nextauthreq, challenges, masterout, masterin, asked>>
  PROVE  IInv'
<1>1. ci \in Infos /\ Numbered /\ Channels
  BY DEF IInv
<1>2. ci' \in Infos /\ Numbered' /\ Channels'
  BY <1>1 DEF Numbered, Channels
<1>3. AnswersMatch' /\ VictimStays'
  BY DEF IInv, AnswersMatch, VictimStays
<1>4. PendingIsAlive' /\ ConnectingByKey'
  BY DEF IInv, PendingIsAlive, ConnectingByKey
<1> QED
  BY <1>2, <1>3, <1>4 DEF IInv

\* Clients of which some give up their requests, whoever goes on having what it
\* waits for; nobody comes or goes.
LEMMA SomeGiveUp ==
  ASSUME IInv, Channels', nextauthreq' = nextauthreq, asked' = asked,
         DOMAIN ci' = Clients, ci' = [c \in Clients |-> ci'[c]],
         \A c \in Clients : ci'[c] \in {ci[c], cleanauth(ci[c])},
         \A c \in Clients : ci[c].authreq # 0 /\ ci'[c] = ci[c] =>
            \/ ci[c].authreq \in challenges'[c]
            \/ ci[c].is # "connecting" /\ OnLink(ci[c].authreq, masterout', masterin')
  PROVE  IInv'
<1>1. ci \in Infos /\ Numbered
  BY DEF IInv
<1>2. ASSUME NEW c \in Clients
      PROVE  /\ ci'[c] \in Info /\ Follows(ci'[c], ci[c])
             /\ ci'[c].authreq # 0 => ci'[c] = ci[c]
  <2>1. ci[c] \in Info
    BY <1>1 DEF Infos
  <2>2. CASE ci'[c] = ci[c]
    BY <2>1, <2>2 DEF Follows, SameRequest
  <2>3. CASE ci'[c] = cleanauth(ci[c])
    <3>1. /\ ci'[c] \in Info /\ ci'[c].authreq = 0 /\ ci'[c].victim = NoOne
          /\ ci'[c].is = ci[c].is
      BY <2>1, <2>3, Cleaned
    <3> QED
      BY <3>1 DEF Follows, SameRequest
  <2> QED
    BY <2>2, <2>3
<1>3. ci' \in Infos
  BY <1>2 DEF Infos
<1>4. ASSUME NEW c \in Clients, ci'[c].authreq # 0
      PROVE  \/ ci[c].authreq \in challenges'[c]
             \/ ci'[c].is # "connecting" /\ OnLink(ci[c].authreq, masterout', masterin')
  <2>1. ci'[c] = ci[c]
    BY <1>2, <1>4
  <2> QED
    BY <1>4, <2>1
<1>5. Settle({})
  BY <1>1, UnchangedSettles
<1> QED
  BY <1>2, <1>3, <1>4, <1>5, StepHolds

\* The connected clients are told, the connecting ones wait for nothing there.
LEMMA disconnectmasterHolds ==
  ASSUME IInv, disconnectmaster
  PROVE  IInv'
<1>1. Channels /\ ci \in Infos
  BY DEF IInv
<1>2. /\ ci' = [c \in Clients |-> IF c \in Connected /\ ci[c].authreq # 0
                                THEN cleanauth(ci[c]) ELSE ci[c]]
      /\ link' = "none" /\ masterout' = <<>> /\ masterin' = <<>>
      /\ UNCHANGED <<nextauthreq, challenges, asked>>
  BY DEF disconnectmaster, masterdisconnected
<1>3. Channels'
  BY <1>1, <1>2 DEF Channels
<1>4. DOMAIN ci' = Clients /\ \A c \in Clients : ci'[c] \in {ci[c], cleanauth(ci[c])}
  BY <1>2
<1>5. ASSUME NEW c \in Clients, ci[c].authreq # 0, ci'[c] = ci[c]
      PROVE  ci[c].authreq \in challenges'[c]
  <2>1. CASE ci[c].is = "connected"
    <3>1. ci'[c] = cleanauth(ci[c]) /\ ci[c] \in Info
      BY <1>1, <1>2, <1>5, <2>1 DEF Connected, Infos
    <3> QED
      BY <1>5, <3>1, Cleaned
  <2>2. CASE ci[c].is # "connected"
    BY <1>2, <1>5, <2>2, Waiting
  <2> QED
    BY <2>1, <2>2
<1> QED
  BY <1>2, <1>3, <1>4, <1>5, SomeGiveUp

\* The master server answers about the request it read.
LEMMA ReplyHolds ==
  ASSUME IInv, Reply
  PROVE  IInv'
<1>1. Channels /\ ci \in Infos /\ masterout # <<>> /\ masterout \in Seq(Message(Out))
  BY DEF IInv, Reply, Channels
<1>2. PICK kind \in Replies(Head(masterout).kind) :
         masterin' = Append(masterin, [kind |-> kind, id |-> Head(masterout).id])
  BY DEF Reply
<1>3. /\ masterout' = Tail(masterout)
      /\ UNCHANGED <<ci, nextauthreq, challenges, link, asked>>
  BY DEF Reply
<1> DEFINE m == [kind |-> kind, id |-> Head(masterout).id]
<1>4. /\ Head(masterout) \in Message(Out) /\ masterout' \in Seq(Message(Out))
      /\ \A k \in DOMAIN masterout :
            \/ masterout[k] = Head(masterout)
            \/ \E j \in DOMAIN masterout' : masterout'[j] = masterout[k]
  BY <1>1, <1>3, TakenOff
<1>5. kind \in In
  BY <1>2 DEF Replies, In
<1>6. m \in Message(In) /\ m.id = Head(masterout).id
  BY <1>4, <1>5 DEF Message
<1> HIDE DEF m
<1>7. masterin' = Append(masterin, m) /\ masterin \in Seq(Message(In))
  BY <1>1, <1>2 DEF Channels, m
<1>8. /\ masterin' \in Seq(Message(In))
      /\ \A k \in DOMAIN masterin : k \in DOMAIN masterin' /\ masterin'[k] = masterin[k]
      /\ \E k \in DOMAIN masterin' : masterin'[k] = m
  BY <1>6, <1>7, Appended
<1>9. Channels'
  BY <1>1, <1>3, <1>4, <1>8 DEF Channels
<1>10. ASSUME NEW id, OnLink(id, masterout, masterin) PROVE OnLink(id, masterout', masterin')
  <2>1. CASE \E k \in DOMAIN masterout : masterout[k].id = id
    BY <1>4, <1>6, <1>8, <2>1 DEF OnLink
  <2>2. CASE \E k \in DOMAIN masterin : masterin[k].id = id
    BY <1>8, <2>2 DEF OnLink
  <2> QED
    BY <1>10, <2>1, <2>2 DEF OnLink
<1>11. DOMAIN ci' = Clients /\ ci' = [c \in Clients |-> ci'[c]]
  BY <1>1, <1>3 DEF Infos
<1>12. ASSUME NEW c \in Clients, ci[c].authreq # 0
       PROVE  \/ ci[c].authreq \in challenges'[c]
              \/ ci[c].is # "connecting" /\ OnLink(ci[c].authreq, masterout', masterin')
  BY <1>3, <1>10, <1>12, Waiting
<1> QED
  BY <1>3, <1>9, <1>11, <1>12, SomeGiveUp

\* An answer takes itself off the link: whoever has another number keeps what it
\* waits for.
LEMMA AnswerTaken ==
  ASSUME IInv, masterin # <<>>, masterin' = Tail(masterin), masterout' = masterout
  PROVE  /\ Head(masterin) \in Message(In) /\ masterin' \in Seq(Message(In))
         /\ \A id : id # Head(masterin).id /\ OnLink(id, masterout, masterin) =>
               OnLink(id, masterout', masterin')
<1>1. masterin \in Seq(Message(In))
  BY DEF IInv, Channels
<1>2. /\ Head(masterin) \in Message(In) /\ masterin' \in Seq(Message(In))
      /\ \A k \in DOMAIN masterin :
            \/ masterin[k] = Head(masterin)
            \/ \E j \in DOMAIN masterin' : masterin'[j] = masterin[k]
  BY <1>1, TakenOff
<1>3. ASSUME NEW id, id # Head(masterin).id, OnLink(id, masterout, masterin)
      PROVE  OnLink(id, masterout', masterin')
  BY <1>2, <1>3 DEF OnLink
<1> QED
  BY <1>2, <1>3

\* A number leads to at most one client.
LEMMA OneClient ==
  ASSUME IInv, NEW c \in Clients, NEW d \in Clients,
         ci[c].authreq # 0, ci[c].authreq = ci[d].authreq
  PROVE  c = d
<1>1. /\ asked[ci[c].authreq] = [client |-> c, name |-> ci[c].authname]
      /\ asked[ci[c].authreq] = [client |-> d, name |-> ci[d].authname]
  BY DEF IInv, AnswersMatch
<1> QED
  BY <1>1

\* Each kind of answer finds the request that it is about, or none.
LEMMA processmasterinputHolds ==
  ASSUME IInv, processmasterinput
  PROVE  IInv'
<1> DEFINE m == Head(masterin)
<1>1. /\ masterin # <<>> /\ masterin' = Tail(masterin)
      /\ UNCHANGED <<nextauthreq, link, masterout>>
      /\ \/ authfailed(m.id) \/ authchallenged(m.id) \/ authsucceeded(m.id)
  BY DEF processmasterinput
<1>2. /\ m \in Message(In) /\ masterin' \in Seq(Message(In))
      /\ \A id : id # m.id /\ OnLink(id, masterout, masterin) =>
            OnLink(id, masterout', masterin')
  BY <1>1, AnswerTaken
<1>3. m.id \in Nat \ {0} /\ ci \in Infos /\ Channels
  BY <1>2 DEF Message, IInv
<1> HIDE DEF m
<1>4. \A c \in Clients : ci[c].authreq # 0 /\ ci[c].authreq # m.id =>
        \/ ci[c].authreq \in challenges[c]
        \/ ci[c].is # "connecting" /\ OnLink(ci[c].authreq, masterout', masterin')
  BY <1>2, Waiting
<1>5. \A c \in Clients : ci[c].authreq = m.id /\ ci[c].authreq # 0 =>
        ci[c].authreq \in challenges[c] \/ c \in findauth(m.id)
  BY Waiting DEF findauth, Connected
<1>6. DOMAIN ci = Clients /\ ci = [c \in Clients |-> ci[c]]
  BY <1>3 DEF Infos
<1>7. CASE authfailed(m.id)
  <2>1. /\ ci' = [c \in Clients |-> IF c \in findauth(m.id) THEN cleanauth(ci[c]) ELSE ci[c]]
        /\ UNCHANGED <<challenges, asked>>
    BY <1>7 DEF authfailed
  <2>2. Channels'
    BY <1>1, <1>2, <1>3, <2>1 DEF Channels
  <2>3. ASSUME NEW c \in Clients, ci[c].authreq # 0, ci'[c] = ci[c]
        PROVE  \/ ci[c].authreq \in challenges'[c]
               \/ ci[c].is # "connecting" /\ OnLink(ci[c].authreq, masterout', masterin')
    <3>1. ci[c] \in Info
      BY <1>3 DEF Infos
    <3>2. c \notin findauth(m.id)
      BY <2>1, <2>3, <3>1, Cleaned
    <3> QED
      BY <1>4, <1>5, <2>1, <2>3, <3>2
  <2>4. DOMAIN ci' = Clients /\ \A c \in Clients : ci'[c] \in {ci[c], cleanauth(ci[c])}
    BY <2>1
  <2> QED
    BY <1>1, <2>1, <2>2, <2>3, <2>4, SomeGiveUp
<1>8. CASE authchallenged(m.id)
  <2>1. /\ challenges' = [c \in Clients |-> challenges[c]
                                \cup IF c \in findauth(m.id) THEN {m.id} ELSE {}]
        /\ UNCHANGED <<ci, asked>>
    BY <1>8 DEF authchallenged
  <2>2. \A c \in Clients :
            /\ challenges[c] \subseteq challenges'[c]
            /\ c \in findauth(m.id) => m.id \in challenges'[c]
    BY <2>1
  <2>3. challenges' \in [Clients -> SUBSET Nat]
    BY <1>3, <2>1 DEF Channels
  <2>4. Channels'
    BY <1>1, <1>2, <1>3, <2>3 DEF Channels
  <2>5. ASSUME NEW c \in Clients, ci[c].authreq # 0
        PROVE  \/ ci[c].authreq \in challenges'[c]
               \/ ci[c].is # "connecting" /\ OnLink(ci[c].authreq, masterout', masterin')
    BY <1>4, <1>5, <2>2, <2>5
  <2> QED
    BY <1>1, <1>6, <2>1, <2>4, <2>5, SomeGiveUp
<1>9. CASE authsucceeded(m.id)
  <2>1. ASSUME NEW c \in findauth(m.id), Authenticated(c, ci[c])
        PROVE  IInv'
    <3>1. c \in Clients /\ ci[c].authreq = m.id /\ ci[c].authreq # 0
      BY <1>3 DEF findauth, Connected
    <3>2. PICK left \in SUBSET Clients :
              /\ ci' \in Infos /\ Gone(left)
              /\ ci'[c].authreq = 0
              /\ \A d \in left : ci'[d] = Free
              /\ \A d \in Clients \ left : Follows(ci'[d], ci[d]) /\ ci'[d].victim \notin left
      BY <2>1, <3>1, AuthenticatedFollows
    <3>3. ASSUME NEW d \in Clients, ci'[d].authreq # 0,
                 OnLink(ci[d].authreq, masterout, masterin)
          PROVE  OnLink(ci[d].authreq, masterout', masterin')
      <4>1. d # c
        BY <3>2, <3>3
      <4>2. ci[d].authreq # m.id
        BY <3>1, <4>1, OneClient
      <4> QED
        BY <1>2, <3>3, <4>2
    <3> QED
      BY <1>1, <1>2, <3>2, <3>3, GoneHolds
  <2>2. CASE findauth(m.id) = {} /\ UNCHANGED <<ci, challenges, asked>>
    <3>1. Channels'
      BY <1>1, <1>2, <1>3, <2>2 DEF Channels
    <3>2. ASSUME NEW c \in Clients, ci[c].authreq # 0
          PROVE  \/ ci[c].authreq \in challenges'[c]
                 \/ ci[c].is # "connecting" /\ OnLink(ci[c].authreq, masterout', masterin')
      BY <1>4, <1>5, <2>2, <3>2
    <3> QED
      BY <1>1, <1>6, <2>2, <3>1, <3>2, SomeGiveUp
  <2> QED
    BY <1>9, <2>1, <2>2 DEF authsucceeded
<1> QED
  BY <1>1, <1>7, <1>8, <1>9 DEF m

-----------------------------------------------------------------------------
\* Every step keeps the invariant.
LEMMA NextInv == IInv /\ [Next]_vars => IInv'
<1> SUFFICES ASSUME IInv, [Next]_vars PROVE IInv'
  OBVIOUS
<1>1. ASSUME NEW c \in Clients, clientconnect(c) PROVE IInv'
  BY <1>1, clientconnectHolds
<1>2. ASSUME NEW c \in Clients, Connect(c) PROVE IInv'
  BY <1>2, ConnectHolds
<1>3. ASSUME NEW c \in Clients, clientdisconnect(c) PROVE IInv'
  BY <1>3, clientdisconnectHolds
<1>4. ASSUME NEW c \in Clients, Timeout(c) PROVE IInv'
  BY <1>4, clientdisconnectHolds DEF Timeout
<1>5. ASSUME NEW c \in Clients, NEW name \in Names,
             \/ ConnectByKey(c, name)
             \/ \E victim \in Clients \cup {NoOne} : AuthTry(c, name, victim)
      PROVE  IInv'
  BY <1>5, AsksHolds
<1>6. ASSUME NEW c \in Clients, NEW id \in 1..MaxRequests, answerchallenge(c, id) PROVE IInv'
  BY <1>6, answerchallengeHolds
<1>7. CASE regserv
  BY <1>7, LinkHolds DEF regserv
<1>8. CASE masterconnected
  BY <1>8, LinkHolds DEF masterconnected
<1>9. CASE UNCHANGED vars
  <2>1. UNCHANGED <<ci, nextauthreq, challenges, masterout, masterin, asked>> /\ link' = link
    BY <1>9 DEF vars
  <2>2. link \in {"none", "connecting", "connected"}
    BY DEF IInv, Channels
  <2> QED
    BY <2>1, <2>2, LinkHolds
<1> QED
  BY <1>1, <1>2, <1>3, <1>4, <1>5, <1>6, <1>7, <1>8, <1>9,
     disconnectmasterHolds, ReplyHolds, processmasterinputHolds DEF Next

\* All that the theorems below rest on holds in every state.
THEOREM Invariance == Spec => []IInv
<1> QED
  BY InitInv, NextInv, PTL DEF Spec

\* findauth: an answer of the master server settles the request that it is about,
\* of the client that made it with the name it was made with.
THEOREM AnswersFindTheirRequest == Spec => []AnswersMatch
<1>1. IInv => AnswersMatch
  BY DEF IInv
<1> QED
  BY <1>1, Invariance, PTL

\* clientdisconnect: who is to be kicked when the answer comes is who was to be
\* kicked when it was asked for.
THEOREM NoNewcomerKicked == Spec => []VictimStays
<1>1. IInv => VictimStays
  BY DEF IInv
<1> QED
  BY <1>1, Invariance, PTL

\* masterdisconnected: no request waits for an answer that cannot come.
THEOREM NobodyWaitsInVain == Spec => []PendingIsAlive
<1>1. IInv => PendingIsAlive
  BY DEF IInv
<1> QED
  BY <1>1, Invariance, PTL
=============================================================================
