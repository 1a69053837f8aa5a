---------------------------- MODULE MCGatewayRun ----------------------------
(* GatewayRun for TLC: every constant is given by the configurations.      *)
EXTENDS GatewayRun
=============================================================================
