------------------------------ MODULE BanSpec -------------------------------
(***************************************************************************)
(* What a list of timed bans promises: a ban is in force until its time is *)
(* over or somebody lifts it, neither shorter nor longer.                  *)
(***************************************************************************)
EXTENDS Integers

CONSTANTS Ips, Durations

VARIABLES now, banned

Bans == [ip : Ips, ends : Int]

Init == now = 0 /\ banned = {}

Add(ip, duration) ==
    /\ banned' = banned \cup {[ip |-> ip, ends |-> now + duration]}
    /\ UNCHANGED now

\* One of two bans with the same address and end may be lifted: then the other
\* still holds.
Lift(ban) == banned' \in {banned, banned \ {ban}} /\ UNCHANGED now

LiftAll == banned' = {} /\ UNCHANGED now

Pass ==
    /\ now' \in Int /\ now' >= now
    /\ banned' = {b \in banned : b.ends > now'}

Next ==
    \/ \E ip \in Ips, d \in Durations : Add(ip, d)
    \/ \E ban \in banned : Lift(ban)
    \/ LiftAll
    \/ Pass

Spec == Init /\ [][Next]_<<now, banned>>
=============================================================================
