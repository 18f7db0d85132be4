------------------------- MODULE LiveBridgeService --------------------------
(* The refinement: LiveBridge implements LoginService. *)
EXTENDS LiveBridgeInv

\* The state a client of the bridge is told.
Phase == IF logins = NoLogin THEN "absent" ELSE st[logins]

Service == INSTANCE LoginService WITH
    phase <- Phase,
    asked <- LogoutPending,
    who   <- jar,
    chats <- rows

\* Seen from outside, every step of the threads is a step of the service: no
\* state is reached out of turn, connected shows one account's chats only, and
\* only a logout that was asked for ends a login, its traces already deleted.
ImplementsService == Service!ServiceSpec
=============================================================================
