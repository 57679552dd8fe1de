------------------------------ MODULE BanList -------------------------------
(***************************************************************************)
(* The vector of timed bans (src/fpsgame/server.cpp): addban keeps it      *)
(* sorted by expiry and serverupdate takes expired bans off its head only. *)
(* Times are 32-bit milliseconds in the code and Width-valued here: they   *)
(* wrap around.  Who is banned and kicked is the business of Sessions.     *)
(***************************************************************************)
EXTENDS Integers, SequencesExt

CONSTANTS
    Ips,
    Durations,  \* of the bans that are given, below half of Width
    Width,      \* number of values of the type int
    Horizon,    \* bound: how long the server runs
    MaxBans     \* bound: length of the list

ASSUME WidthAssumption ==
    /\ Width \in Nat \ {0} /\ Width % 2 = 0
    /\ Horizon \in Nat /\ MaxBans \in Nat
    /\ Durations \subseteq 0..(Width \div 2 - 1)

VARIABLES
    now,        \* the time since the server started, as it really is
    bannedips   \* the list; ends is when a ban should end and not in the code

banvars == <<now, bannedips>>

\* The conversion to int: what is stored and compared.
ToInt(n) == ((n + Width \div 2) % Width) - Width \div 2

totalmillis == ToInt(now)

Ban == [ip : Ips, expire : Int, ends : Int]

BansInit == now = 0 /\ bannedips = <<>>

\* Faulty: the newest ban goes to the end.
addbanAtEnd(ip, duration) ==
    /\ Len(bannedips) < MaxBans
    /\ bannedips' = Append(bannedips, [ip |-> ip, ends |-> now + duration,
                                       expire |-> ToInt(totalmillis + duration)])
    /\ UNCHANGED now

\* Inserted before the first ban that expires later.
addban(ip, duration) ==
    LET b == [ip |-> ip, expire |-> ToInt(totalmillis + duration), ends |-> now + duration]
    IN  /\ Len(bannedips) < MaxBans
        /\ \E i \in 1..Len(bannedips) + 1 :
              /\ \A j \in 1..(i - 1) : b.expire >= bannedips[j].expire
              /\ i <= Len(bannedips) => b.expire < bannedips[i].expire
              /\ bannedips' = InsertAt(bannedips, i, b)
        /\ UNCHANGED now

\* Faulty: a ban that ends right now stays.
ExpiredLate(ban, time) == ToInt(ban.expire - time) < 0

Expired(ban, time) == ToInt(ban.expire - time) <= 0

\* A turn of the main loop: the clock is read, then the head of the list is
\* taken off as long as it has expired.
serverupdate(elapsed) ==
    /\ now + elapsed <= Horizon
    /\ now' = now + elapsed
    /\ \E k \in 0..Len(bannedips) :
          /\ \A j \in 1..k : Expired(bannedips[j], totalmillis')
          /\ k < Len(bannedips) => ~Expired(bannedips[k + 1], totalmillis')
          /\ bannedips' = SubSeq(bannedips, k + 1, Len(bannedips))

unkickban(banid) ==
    /\ banid \in 1..Len(bannedips)
    /\ bannedips' = RemoveAt(bannedips, banid) /\ UNCHANGED now

\* "/clearbans", "#unban -1", or the server empties.
clearbans == bannedips' = <<>> /\ UNCHANGED now

BansNext ==
    \/ \E ip \in Ips, duration \in Durations : addban(ip, duration)
    \/ \E elapsed \in 0..Width \div 2 - 1 : serverupdate(elapsed)
    \/ \E banid \in 1..MaxBans : unkickban(banid)
    \/ clearbans

BansSpec == BansInit /\ [][BansNext]_banvars

-----------------------------------------------------------------------------
\* No time of a run reaches half of the values of an int, 24 days.
NoWrap == \A d \in Durations \cup {0} : Horizon + d < Width \div 2

TypeOK ==
    /\ now \in 0..Horizon
    /\ bannedips \in Seq(Ban) /\ Len(bannedips) <= MaxBans

\* The list is sorted by the times at which the bans should really end: the
\* head is the one that ends first, so looking at the head is enough.
SortedByEnd ==
    \A i, j \in 1..Len(bannedips) : i < j => bannedips[i].ends <= bannedips[j].ends

\* "has been banned for %d minute(s)" (#ban): no ban outlives its time, however
\* bans of different lengths are mixed.
NoOverdueBan == \A i \in 1..Len(bannedips) : bannedips[i].ends >= now

\* The list does what a set of bans with an end should do.
Abstract == INSTANCE BanSpec WITH
    banned <- {[ip |-> bannedips[i].ip, ends |-> bannedips[i].ends] :
               i \in 1..Len(bannedips)}

\* Every step of the list is a step of the set of bans: each ban is in force
\* exactly until its time is over or it is lifted.
ImplementsBanSpec == Abstract!Spec
=============================================================================
