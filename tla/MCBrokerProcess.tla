-------------------------- MODULE MCBrokerProcess --------------------------
(***************************************************************************)
(* An HTTP and an MQTT forwarder, two threads, and one slot.               *)
(***************************************************************************)
EXTENDS BrokerProcess

MCForwarders == <<"http", "mqtt">>
MCMqtt == {"mqtt"}

=============================================================================
