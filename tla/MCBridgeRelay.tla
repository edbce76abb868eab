---------------------------- MODULE MCBridgeRelay ----------------------------
(***************************************************************************)
(* The messages that BridgeRelay relays in the run.                        *)
(***************************************************************************)
EXTENDS BridgeRelay

(* Three messages of two bytes each, the fewest to be cut; or of one,      *)
(* three and two.                                                          *)
MCEnds == {<<6, 8, 10>>, <<5, 8, 10>>}

=============================================================================
