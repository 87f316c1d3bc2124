----------------------------- MODULE MCRunners ------------------------------
(***************************************************************************)
(* Two runners that compete for one task, which is due at once and retried *)
(* at once, twice.                                                         *)
(***************************************************************************)
EXTENDS Gearsloth, TLC

CONSTANTS a, r1, r2

MCAt == a :> "due"
MCRunnerRetryCount == a :> 2
MCRunnerRetryAt == a :> "due"
MCRetryCount == a :> 0

RunnerSymmetry == Permutations({r1, r2})

(* The behaviours in which no lease runs out.                              *)
PromptSpec == Init /\ [][Next /\ ~TimeStep]_vars
=============================================================================
