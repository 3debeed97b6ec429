-------------------------- MODULE MCGatewayRestart --------------------------
(***************************************************************************)
(* Instances of GatewayRestart for TLC.                                    *)
(***************************************************************************)
EXTENDS GatewayRestart

CONSTANTS gateway, credentials, accounts
=============================================================================
