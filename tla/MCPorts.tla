------------------------------ MODULE MCPorts ------------------------------
(* An instance of Ports for TLC.                                            *)
EXTENDS Ports

CONSTANTS sub, ifc, a, b, c1, c2
=============================================================================
