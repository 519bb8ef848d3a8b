-------------------------------- MODULE Reach --------------------------------
(***************************************************************************)
(* Reachability in a number of steps, the yardstick for the walks of the   *)
(* code: no levels, no queue and no visited set.                           *)
(***************************************************************************)
EXTENDS Naturals

(* What is at most k steps of next away from A.                            *)
Within(next, A, k) ==
    LET reach[j \in 0..k] ==
            IF j = 0 THEN A
            ELSE LET r == reach[j - 1] IN r \cup UNION {next[b] : b \in r}
    IN  reach[k]
=============================================================================
