--------------------------- MODULE MCFabricClient ---------------------------
(* Two threads of the gateway submitting through one client.               *)
EXTENDS FabricClientProperties

CONSTANTS w1, w2

MCThreads == {w1, w2}
=============================================================================
