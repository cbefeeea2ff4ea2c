---------------------------- MODULE MCGatewayLink ----------------------------
(* GatewayLink with a few processes of the gateway and a few callers. *)
EXTENDS GatewayLink, TLC
=============================================================================
