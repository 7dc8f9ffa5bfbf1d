---------------------------- MODULE MCSemaphore ----------------------------
(***************************************************************************)
(* Small semaphores.  The callers of one tier can be exchanged for each    *)
(* other, so the runs without liveness take them as symmetric.             *)
(***************************************************************************)
EXTENDS Semaphore, TLC

CONSTANTS r1, r2, r3, r4

\* Three callers in the first of two tiers, the last one in the second.
ThreeAndOne == [r \in Requests |-> IF r = r4 THEN 1 ELSE 0]
FirstThreeAlike == Permutations({r1, r2, r3})

\* One caller in each of three tiers.
OneEach == [r \in Requests |-> IF r = r1 THEN 0 ELSE IF r = r2 THEN 1 ELSE 2]

\* One tier.
AllEqual == [r \in Requests |-> 0]
=============================================================================
