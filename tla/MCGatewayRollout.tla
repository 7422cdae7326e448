-------------------------- MODULE MCGatewayRollout --------------------------
(* Instances of GatewayRollout for TLC.                                     *)
EXTENDS GatewayRollout

CONSTANTS g,      \* a Gateway
          v1, v2  \* images
=============================================================================
