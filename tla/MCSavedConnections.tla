------------------------- MODULE MCSavedConnections -------------------------
(***************************************************************************)
(* A small repository for TLC: one device saved with a private key, and    *)
(* room for a second.                                                      *)
(***************************************************************************)
EXTENDS SavedConnections, TLC

CONSTANTS i1, i2, m1

OneDevice == (i1 :> m1) @@ (i2 :> Absent)
OneKind == (i1 :> "privateKeyPath") @@ (i2 :> "none")
=============================================================================
