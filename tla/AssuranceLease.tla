--------------------------- MODULE AssuranceLease ---------------------------
(***************************************************************************)
(* What a holder of decisions is promised, without saying how: each claim  *)
(* has an assurance level with a lease on it.  Levels 3 to 5 are positive. *)
(* A positive level drops the moment its lease ends, a new level is only   *)
(* ever granted, and everything else weakens a level or shortens a lease.  *)
(***************************************************************************)
EXTENDS Integers

CONSTANTS Claim, NoEnd

VARIABLES now,    \* the time
          level,  \* the assurance level of each claim
          until   \* the end of the lease on it, NoEnd for none

lease == <<now, level, until>>

Level == 0..5
IsPositive(l) == l >= 3
Ended(u, t) == u # NoEnd /\ u <= t

Init ==
    /\ now = 0
    /\ level = [c \in Claim |-> 1]
    /\ until = [c \in Claim |-> NoEnd]

\* Time passes; every positive level whose lease ends drops at that instant.
Advance ==
    /\ now' = now + 1
    /\ level' = [c \in Claim |->
                   IF Ended(until[c], now') /\ IsPositive(level[c])
                   THEN 1 ELSE level[c]]
    /\ UNCHANGED until

Only(c) ==
    /\ UNCHANGED now
    /\ level' = [level EXCEPT ![c] = level'[c]]
    /\ until' = [until EXCEPT ![c] = until'[c]]

\* A level is granted afresh, positive only under a lease that has not ended.
Grant(c) ==
    /\ Only(c)
    /\ level'[c] \in Level
    /\ IsPositive(level'[c]) => ~ Ended(until'[c], now)

\* Reuse of the claim: the level may fall and the lease may shorten.
Weaken(c) ==
    /\ Only(c)
    /\ level'[c] \in Level
    /\ level'[c] <= level[c]
    /\ until[c] # NoEnd => until'[c] # NoEnd /\ until'[c] <= until[c]
    /\ IsPositive(level'[c]) => ~ Ended(until'[c], now)

Next == Advance \/ \E c \in Claim : Grant(c) \/ Weaken(c)

Spec == Init /\ [][Next]_lease
=============================================================================
