---------------------------- MODULE MCBridgePool ----------------------------
(* Instances of BridgePool; the displays are interchangeable                *)
EXTENDS BridgePool, TLC

Displays == Permutations(Users)

=============================================================================
