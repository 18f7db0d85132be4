---------------------------- MODULE MCLiveBridge ----------------------------
(* LiveBridge for TLC: a few calls, two accounts, short runs. *)
EXTENDS LiveBridgeService, TLC

\* Accounts are interchangeable; so are the calls that use the same flow.
Symmetry == Permutations(Accounts) \cup Permutations(Calls \ QrCalls)
=============================================================================
