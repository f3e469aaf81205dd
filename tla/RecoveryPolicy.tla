---------------------------- MODULE RecoveryPolicy ----------------------------
(***************************************************************************)
(* Failures of a connection attempt as the recovery policy tells them      *)
(* apart (crates/usque-transport/src/recovery_policy.rs, h2.rs             *)
(* TransportError::failure, crates/usque-core/src/failure.rs).             *)
(*                                                                         *)
(*   retry    a network failure: try again                                 *)
(*   closed   TunnelClosed, which cancellation also reports; retried       *)
(*   pin      the endpoint's key is not the pinned one                     *)
(*   network  UnderlyingNetworkChanged                                     *)
(*   stop     identity, configuration, protection, a panic: never retried  *)
(***************************************************************************)
EXTENDS Naturals

Failures == {"retry", "closed", "pin", "network", "stop"}

\* RecoveryDecision::for_failure
Decision(f) ==
    CASE f = "pin"  -> "RefreshPin"
      [] f = "stop" -> "Stop"
      [] OTHER      -> "Retry"

\* RacePolicy::stops
Stops(policy, f) ==
    \/ policy = "Automatic" /\ f = "network"
    \/ Decision(f) = "Stop"
    \/ Decision(f) = "RefreshPin" /\ policy = "Strict"

recovery_priority(f) ==
    CASE f = "network" -> 2
      [] Decision(f) = "Stop" -> 3
      [] Decision(f) = "RefreshPin" -> 1
      [] OTHER -> 0

\* None stands for the absence of a failure.
None == "none"
Outranks(f, g) == g = None \/ recovery_priority(f) > recovery_priority(g)
=============================================================================
