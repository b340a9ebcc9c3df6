----------------------- MODULE MCMultipathTransport -----------------------
(* A small instance of MultipathTransport: a flow of a few packets.        *)
EXTENDS MultipathTransport
=============================================================================
