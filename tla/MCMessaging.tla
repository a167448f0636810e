------------------------------ MODULE MCMessaging ------------------------------
(* Messaging for TLC.                                                        *)
EXTENDS Messaging
=============================================================================
