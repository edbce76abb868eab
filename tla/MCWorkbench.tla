---------------------------- MODULE MCWorkbench ----------------------------
(***************************************************************************)
(* A small workbench for TLC: one saved device, used over SSH (two tabs),  *)
(* whose host answers a scan as VNC, and a second host that is not saved   *)
(* and answers as SSH.                                                     *)
(***************************************************************************)
EXTENDS Workbench

CONSTANTS h1, h2, d1, u1

SavedEntry == [d \in {d1} |-> [host |-> h1, user |-> u1, protocols |-> {"ssh"}]]
ScanFinds == [h \in {h1, h2} |-> IF h = h1 THEN {"vnc"} ELSE {"ssh"}]
=============================================================================
