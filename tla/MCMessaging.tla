---------------------------- MODULE MCMessaging ----------------------------
(* Instance of Messaging: the bounds are in the configuration.             *)
EXTENDS Messaging
=============================================================================
