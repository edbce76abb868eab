--------------------------- MODULE MCRfbHandshake ---------------------------
(***************************************************************************)
(* The servers RfbHandshake meets in the runs.                             *)
(***************************************************************************)
EXTENDS RfbHandshake

AnyServer(minors, offers) ==
  [minor : minors, offers : offers, valid : BOOLEAN]

(* 3.8 and what is clamped to it, with every list of types; 3.7 without    *)
(* None; 3.3 and what is clamped to it, with every type demanded; a        *)
(* version too old, or no RFB at all.                                      *)
MCServers ==
  AnyServer({8, 889}, SUBSET Types)
    \cup AnyServer({7}, SUBSET (Types \ {"none"}))
    \cup AnyServer({0, 2, 3, 5}, {{}} \cup {{t} : t \in Types})

=============================================================================
