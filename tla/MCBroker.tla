------------------------------ MODULE MCBroker ------------------------------
(* An instance of Broker for TLC. *)
EXTENDS BrokerProps, TLC

CONSTANT e1

\* A client that was given up half subscribed receives events of the spot leg.
SpotLeg == e1 :> "spot"
=============================================================================
