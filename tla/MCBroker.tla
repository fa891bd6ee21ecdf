------------------------------ MODULE MCBroker ------------------------------
(* The broker with one sandbox of one user and one POST handler. *)
EXTENDS Broker
=============================================================================
