-------------------------- MODULE MCRdmaTransport --------------------------
(* Small instances of RdmaTransport: a flow of a few packets.              *)
EXTENDS RdmaTransport

AnyOffset == 0 .. FlowSize
(* Every offset but the last packet's, and no final answer.                *)
NotTheTail == 0 .. FlowSize - Mtu - 1
=============================================================================
