----------------------------- MODULE MCServices -----------------------------
(* A server of any services starts and shuts down (UnifiedServer); one of  *)
(* the broker alone routes predictions (MLBroker); one of the telemetry    *)
(* service alone takes the reports of devices (DeviceStatus).              *)
EXTENDS MCMLBroker, DeviceStatus, UnifiedServer

Alone(service) == cfg = [services |-> {service}, role |-> "edge"]

MCInit ==
  /\ UnifiedInit /\ BrokerInit /\ Init
  /\ devices = {} \/ Alone("telemetry")

MCNext ==
  \/ /\ BrokerInit /\ Init /\ devices = {}
     /\ UnifiedNext /\ UNCHANGED <<broker, vars>>
  \/ /\ UnifiedInit /\ Alone("ml_inference") /\ Init
     /\ BrokerNext /\ UNCHANGED <<unified, vars>>
  \/ /\ UnifiedInit /\ Alone("telemetry") /\ BrokerInit
     /\ Next /\ UNCHANGED <<unified, broker>>

MCSpec == MCInit /\ [][MCNext]_<<unified, broker, vars>> /\ UnifiedFairness
=============================================================================
