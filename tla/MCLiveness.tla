----------------------------- MODULE MCLiveness -----------------------------
(***************************************************************************)
(* Two runners and one task that is retried for ever, for the temporal     *)
(* properties.  No expiry is "null".                                       *)
(***************************************************************************)
EXTENDS Gearsloth, TLC

CONSTANTS a

MCAt == a :> "later"
MCRunnerRetryCount == a :> Unlimited
MCRunnerRetryAt == a :> "later"
MCRetryCount == a :> 1
=============================================================================
