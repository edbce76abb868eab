-------------------------- MODULE MCConnectionStore --------------------------
(***************************************************************************)
(* Small instances of ConnectionStore for TLC.                             *)
(***************************************************************************)
EXTENDS ConnectionStore, TLC

(* The fault sites a run allows.                                           *)
WriteFaults == Backends \cup {"persist", "settings"}

(* Ids, metadata and secrets are interchangeable: nothing orders them.     *)
DataSymmetry ==
  Permutations(Ids) \cup Permutations(Metas) \cup Permutations(Secrets)

=============================================================================
