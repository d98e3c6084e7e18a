--------------------------- MODULE MCGatewayFanIn ---------------------------
(* The gateway's calls to its edges (GatewayProxy), then one stream of     *)
(* their images (GatewayFanIn).                                            *)
EXTENDS GatewayProxy

MCInit == Init /\ ProxyInit

MCNext ==
  \/ Init /\ ProxyNext /\ UNCHANGED vars
  \/ calls = 0 /\ stubs = Edges /\ Next /\ UNCHANGED proxyVars

MCSpec == MCInit /\ [][MCNext]_<<vars, proxyVars>> /\ Fairness /\ ProxyFairness
=============================================================================
