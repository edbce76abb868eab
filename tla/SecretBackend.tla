---------------------------- MODULE SecretBackend ----------------------------
(***************************************************************************)
(* What the store may count on in a backend of secrets (store.go,          *)
(* SecretStore), and what it may not: a call takes effect at once or not   *)
(* at all; what is held stays, but for one moment in the life of the       *)
(* directory, before an instance has settled on its key, at which          *)
(* everything that is held may become unreadable together.                 *)
(***************************************************************************)
CONSTANTS
  Names,   \* the keys of the entries
  Values,
  None     \* no entry

VARIABLES
  held,      \* what Get would return
  settled,   \* the instance in use has its key
  orphaned   \* what was held has been lost once

backendVars == <<held, settled, orphaned>>

BackendInit ==
  held = [n \in Names |-> None] /\ settled = FALSE /\ orphaned = FALSE

Put(n, v) ==
  /\ settled
  /\ held' = [held EXCEPT ![n] = v]
  /\ UNCHANGED <<settled, orphaned>>

Remove(n) ==
  /\ held' = [held EXCEPT ![n] = None]
  /\ UNCHANGED <<settled, orphaned>>

(* A new instance, in this process or in one started later.                *)
Open ==
  /\ settled' = FALSE
  /\ UNCHANGED <<held, orphaned>>

Settle ==
  /\ settled' = TRUE
  /\ UNCHANGED <<held, orphaned>>

Orphan ==
  /\ ~settled /\ ~orphaned
  /\ held' = [n \in Names |-> None]
  /\ orphaned' = TRUE
  /\ UNCHANGED settled

BackendNext ==
  \/ Open \/ Settle \/ Orphan
  \/ \E n \in Names : Remove(n) \/ \E v \in Values : Put(n, v)

BackendSpec == BackendInit /\ [][BackendNext]_backendVars
=============================================================================
