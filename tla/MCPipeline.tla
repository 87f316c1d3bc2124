----------------------------- MODULE MCPipeline -----------------------------
(***************************************************************************)
(* The pipeline with one runner and three requests: `a` is due at once and *)
(* is retried at once; `b` was given an expiry that is NULL, so that its   *)
(* row stays where a statement left over from `a` can meet it; `n` has an  *)
(* expiry that is refused.                                                 *)
(***************************************************************************)
EXTENDS Gearsloth, TLC

CONSTANTS a, b, n

MCAt == a :> "due" @@ b :> "null" @@ n :> "invalid"
MCRunnerRetryCount == a :> 1 @@ b :> Unlimited @@ n :> Unlimited
MCRunnerRetryAt == a :> "due" @@ b :> "null" @@ n :> "later"
MCRetryCount == a :> 0 @@ b :> 0 @@ n :> 0

(* A request that is refused touches nothing that another one reads, so    *)
(* that it is enough to let it come first.                                 *)
RefusedFirst == request[n] = "failed" \/ \A k \in {a, b} : request[k] = "idle"
=============================================================================
