------------------------------ MODULE SavedList ------------------------------
(***************************************************************************)
(* What a page that mirrors a repository promises, whatever calls it makes *)
(* and however their answers overtake one another: what it shows is always *)
(* a list the repository held, and a write is acknowledged only with a     *)
(* list on the page that has the write in it.                              *)
(***************************************************************************)
EXTENDS Naturals, Sequences

CONSTANTS
  Writers,  \* whoever writes and waits for the acknowledgement
  Nothing   \* shown before the first list

VARIABLES
  past,     \* the lists the repository has held, the present one last
  shown,    \* the list on the page
  waiting   \* the length of past after a writer's write; 0 when it has none

mirrorVars == <<past, shown, waiting>>

Present == past[Len(past)]

MirrorInit == Len(past) = 1 /\ shown = Nothing /\ waiting = [w \in Writers |-> 0]

(* A write of something already so changes nothing.                        *)
Write(w) ==
  /\ waiting[w] = 0
  /\ \/ past' = past
     \/ Len(past') = Len(past) + 1 /\ SubSeq(past', 1, Len(past)) = past
  /\ waiting' = [waiting EXCEPT ![w] = Len(past')]
  /\ UNCHANGED shown

Refresh ==
  /\ \E at \in 1 .. Len(past) : shown' = past[at]
  /\ UNCHANGED <<past, waiting>>

Acknowledge(w) ==
  /\ waiting[w] # 0
  /\ \E at \in waiting[w] .. Len(past) : shown' = past[at]
  /\ waiting' = [waiting EXCEPT ![w] = 0]
  /\ UNCHANGED past

(* The writer is told that it failed, if only to list.                     *)
GiveUp(w) ==
  /\ waiting[w] # 0
  /\ waiting' = [waiting EXCEPT ![w] = 0]
  /\ UNCHANGED <<past, shown>>

MirrorNext == Refresh \/ \E w \in Writers : Write(w) \/ Acknowledge(w) \/ GiveUp(w)

MirrorSpec == MirrorInit /\ [][MirrorNext]_mirrorVars
=============================================================================
