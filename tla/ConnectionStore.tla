--------------------------- MODULE ConnectionStore ---------------------------
(***************************************************************************)
(* The saved-connection repository of internal/store: bookmark metadata in *)
(* connections.json, one secret per connection in the active SecretStore   *)
(* backend (OS keychain or encrypted local file), the choice of backend in *)
(* settings.json, and SetSecretStorage (bindings.go), which moves every    *)
(* secret from one backend to the other.                                   *)
(*                                                                         *)
(* Store.mu serialises the operations, so at most one is under way: `op`.  *)
(* An operation is cut into one action per durable effect (a backend call, *)
(* the rename that replaces a JSON file), because the process can die      *)
(* between two of them, and because each can fail on its own.  A failing   *)
(* backend call or rename changes nothing (the rename is the last step of  *)
(* persistLocked; the tmp file is never read).                             *)
(*                                                                         *)
(* The slice order of the connections is abstracted: memory and file are   *)
(* functions of the id, and the migration loop takes entries in any order. *)
(* A fresh UUID is an id that happens to be absent, so creating and        *)
(* updating are the one action the code makes of them.                     *)
(***************************************************************************)
EXTENDS FiniteSets

CONSTANTS
  Ids,        \* connection ids
  Metas,      \* bookmark metadata (name, host, protocols, username)
  Secrets,    \* non-empty secrets
  Switchers,  \* callers that may be inside SetSecretStorage at once
  Faults,     \* the places where the environment may make a call fail
  CanCrash,   \* whether the process may die and be started again
  Absent, NoSecret, Keep, Unknown, Nobody

Backends == {"keychain", "localFile"}

(* "keychain", "localFile": a call of that backend; "persist", "settings": *)
(* writing connections.json, settings.json; "load", "loadSettings":        *)
(* reading them at start-up.                                               *)
FaultSites == Backends \cup {"persist", "settings", "load", "loadSettings"}

ASSUME FaultsAssumption == Faults \subseteq FaultSites
ASSUME CanCrashAssumption == CanCrash \in BOOLEAN
ASSUME SentinelAssumption ==
  /\ Absent \notin Metas /\ Unknown \notin Metas /\ Absent # Unknown
  /\ {NoSecret, Keep, Unknown} \cap Secrets = {}
  /\ NoSecret # Keep /\ NoSecret # Unknown
  /\ Nobody \notin Switchers /\ Nobody \notin Backends

VARIABLES
  connections,  \* Store.connections: what memory holds
  file,         \* connections.json
  vault,        \* what each backend holds
  settings,     \* settings.json: the persisted choice of backend
  mode,         \* Store.secrets and Store.mode: the backend in use
  op,           \* the operation that holds Store.mu
  asked,        \* asked[c]: the backend caller c of SetSecretStorage wants
  result,       \* what the last finished call returned
  ackMeta,      \* history: the metadata the last acknowledged call promised
  ackSecret     \* history: the secret the last acknowledged call promised

vars == <<connections, file, vault, settings, mode, op, asked, result,
          ackMeta, ackSecret>>

Nothing == [id \in Ids |-> Absent]

Idle == [phase |-> "idle", id |-> Nobody, meta |-> Absent,
         secret |-> NoSecret, todo |-> {}, caller |-> Nobody]

Other(b) == IF b = "keychain" THEN "localFile" ELSE "keychain"

Saved(book) == {id \in Ids : book[id] # Absent}

(* An installation with no saved connection, on either backend.            *)
Init ==
  /\ connections = Nothing
  /\ file = Nothing
  /\ vault = [b \in Backends |-> [id \in Ids |-> NoSecret]]
  /\ settings \in Backends
  /\ mode = settings
  /\ op = Idle
  /\ asked = [c \in Switchers |-> Nobody]
  /\ result = "none"
  /\ ackMeta = Nothing
  /\ ackSecret = [id \in Ids |-> NoSecret]

-----------------------------------------------------------------------------
(* The end of an operation: it returns r and releases Store.mu.            *)
Return(r) == /\ op' = Idle
             /\ result' = r

(* Save, up to and including its backend call: an omitted secret makes no  *)
(* call, an empty one deletes (a missing entry is no error), any other is  *)
(* set.  A failing call returns before memory or the file changed.         *)
SaveSecret(id, meta, secret) ==
  /\ op.phase = "idle"
  /\ \/ /\ op' = [Idle EXCEPT !.phase = "save", !.id = id,
                              !.meta = meta, !.secret = secret]
        /\ IF secret = Keep
             THEN UNCHANGED <<vault, ackSecret>>
             ELSE /\ vault' = [vault EXCEPT ![mode][id] = secret]
                  /\ ackSecret' = [ackSecret EXCEPT ![id] = Unknown]
        /\ UNCHANGED result
     \/ /\ secret # Keep
        /\ mode \in Faults
        /\ Return("ENCRYPTION_UNAVAILABLE")
        /\ UNCHANGED <<vault, ackSecret>>
  /\ UNCHANGED <<connections, file, settings, mode, asked, ackMeta>>

(* Mutant: the file is replaced before memory takes the record.            *)
MutSavePersist ==
  /\ op.phase = "save"
  /\ file' = connections
  /\ connections' = [connections EXCEPT ![op.id] = op.meta]
  /\ ackMeta' = [ackMeta EXCEPT ![op.id] = op.meta]
  /\ ackSecret' = IF op.secret = Keep THEN ackSecret
                  ELSE [ackSecret EXCEPT ![op.id] = op.secret]
  /\ Return("ok")
  /\ UNCHANGED <<vault, settings, mode, asked>>

(* The rest of Save: the record enters memory, then the file is replaced.  *)
(* When that fails, memory keeps the record.                               *)
SavePersist ==
  /\ op.phase = "save"
  /\ connections' = [connections EXCEPT ![op.id] = op.meta]
  /\ \/ /\ file' = connections'
        /\ ackMeta' = [ackMeta EXCEPT ![op.id] = op.meta]
        /\ ackSecret' = IF op.secret = Keep THEN ackSecret
                        ELSE [ackSecret EXCEPT ![op.id] = op.secret]
        /\ Return("ok")
     \/ /\ "persist" \in Faults
        /\ ackMeta' = [ackMeta EXCEPT ![op.id] = Unknown]
        /\ Return("error")
        /\ UNCHANGED <<file, ackSecret>>
  /\ UNCHANGED <<vault, settings, mode, asked>>

(* Delete of an id memory does not hold is a successful no-op.             *)
DeleteUnknown(id) ==
  /\ op.phase = "idle"
  /\ connections[id] = Absent
  /\ Return("ok")
  /\ ackMeta' = [ackMeta EXCEPT ![id] = Absent]
  /\ UNCHANGED <<connections, file, vault, settings, mode, asked, ackSecret>>

(* Delete, up to the file: memory forgets the entry even when the file     *)
(* cannot be replaced.                                                     *)
DeletePersist(id) ==
  /\ op.phase = "idle"
  /\ connections[id] # Absent
  /\ connections' = [connections EXCEPT ![id] = Absent]
  /\ ackMeta' = [ackMeta EXCEPT ![id] = Unknown]
  /\ ackSecret' = [ackSecret EXCEPT ![id] = Unknown]
  /\ \/ /\ file' = connections'
        /\ op' = [Idle EXCEPT !.phase = "delete", !.id = id]
        /\ UNCHANGED result
     \/ /\ "persist" \in Faults
        /\ Return("error")
        /\ UNCHANGED file
  /\ UNCHANGED <<vault, settings, mode, asked>>

(* The rest of Delete: deleteSecretLocked on the active backend.           *)
DeleteSecret ==
  /\ op.phase = "delete"
  /\ \/ /\ vault' = [vault EXCEPT ![mode][op.id] = NoSecret]
        /\ ackMeta' = [ackMeta EXCEPT ![op.id] = Absent]
        /\ ackSecret' = [ackSecret EXCEPT ![op.id] = NoSecret]
        /\ Return("ok")
     \/ /\ mode \in Faults
        /\ Return("ENCRYPTION_UNAVAILABLE")
        /\ UNCHANGED <<vault, ackMeta, ackSecret>>
  /\ UNCHANGED <<connections, file, settings, mode, asked>>

-----------------------------------------------------------------------------
(* SetSecretStorage reads Mode() under the mutex, and releases it, before  *)
(* it calls MigrateSecrets: equal modes return at once.                    *)
ReadMode(c, target) ==
  /\ op.phase = "idle"
  /\ asked[c] = Nobody
  /\ IF target = mode
       THEN result' = "ok" /\ UNCHANGED asked
       ELSE asked' = [asked EXCEPT ![c] = target] /\ UNCHANGED result
  /\ UNCHANGED <<connections, file, vault, settings, mode, op, ackMeta,
                 ackSecret>>

(* MigrateSecrets takes the mutex; the loop is over the entries in memory. *)
MigrateBegin(c) ==
  /\ op.phase = "idle"
  /\ asked[c] # Nobody
  /\ op' = [Idle EXCEPT !.phase = "copy", !.todo = Saved(connections),
                        !.caller = c]
  /\ UNCHANGED <<connections, file, vault, settings, mode, asked, result,
                 ackMeta, ackSecret>>

(* A failing entry aborts the migration: backend and settings stay.        *)
MigrateAbort ==
  /\ asked' = [asked EXCEPT ![op.caller] = Nobody]
  /\ Return("ENCRYPTION_UNAVAILABLE")
  /\ UNCHANGED <<connections, file, vault, settings, mode, ackMeta, ackSecret>>

(* Mutant: the loop ignores a failing Set and goes on to the Delete.       *)
MutCopyIgnoresSet(id) ==
  /\ op.phase = "copy"
  /\ id \in op.todo
  /\ IF vault[mode][id] = NoSecret
       THEN op' = [op EXCEPT !.todo = @ \ {id}]
       ELSE op' = [op EXCEPT !.phase = "remove", !.id = id]
  /\ \/ vault' = [vault EXCEPT ![asked[op.caller]][id] = vault[mode][id]]
     \/ asked[op.caller] \in Faults /\ UNCHANGED vault
  /\ UNCHANGED <<connections, file, settings, mode, asked, result, ackMeta,
                 ackSecret>>

(* Mutant: the loop takes a failing Get for a missing entry.               *)
MutCopySkipsUnread(id) ==
  /\ op.phase = "copy"
  /\ id \in op.todo
  /\ \/ /\ vault[mode][id] = NoSecret \/ mode \in Faults
        /\ op' = [op EXCEPT !.todo = @ \ {id}]
        /\ UNCHANGED vault
     \/ /\ vault[mode][id] # NoSecret
        /\ vault' = [vault EXCEPT ![asked[op.caller]][id] = vault[mode][id]]
        /\ op' = [op EXCEPT !.phase = "remove", !.id = id]
  /\ UNCHANGED <<connections, file, settings, mode, asked, result, ackMeta,
                 ackSecret>>

(* One entry: read from the current backend, skipped when it holds none,   *)
(* else set in the new one.  Either call may fail.                         *)
MigrateCopy(id) ==
  /\ op.phase = "copy"
  /\ id \in op.todo
  /\ \/ /\ vault[mode][id] = NoSecret
        /\ op' = [op EXCEPT !.todo = @ \ {id}]
        /\ UNCHANGED vault
     \/ /\ vault[mode][id] # NoSecret
        /\ vault' = [vault EXCEPT ![asked[op.caller]][id] = vault[mode][id]]
        /\ op' = [op EXCEPT !.phase = "remove", !.id = id]
  /\ UNCHANGED <<connections, file, settings, mode, asked, result, ackMeta,
                 ackSecret>>

MigrateCopyFails ==
  /\ op.phase = "copy"
  /\ \E id \in op.todo :
       \/ mode \in Faults
       \/ vault[mode][id] # NoSecret /\ asked[op.caller] \in Faults
  /\ MigrateAbort

(* The same entry is then deleted from the current backend.                *)
MigrateRemove ==
  /\ op.phase = "remove"
  /\ vault' = [vault EXCEPT ![mode][op.id] = NoSecret]
  /\ op' = [op EXCEPT !.phase = "copy", !.id = Nobody, !.todo = @ \ {op.id}]
  /\ UNCHANGED <<connections, file, settings, mode, asked, result, ackMeta,
                 ackSecret>>

MigrateRemoveFails ==
  /\ op.phase = "remove"
  /\ mode \in Faults
  /\ MigrateAbort

(* All entries done: settings.json is replaced, then the store hot-swaps.  *)
(* Memory dies with the process, so a crash between the two is a crash     *)
(* after both.                                                             *)
MigrateSwap ==
  /\ op.phase = "copy"
  /\ op.todo = {}
  /\ settings' = asked[op.caller]
  /\ mode' = asked[op.caller]
  /\ asked' = [asked EXCEPT ![op.caller] = Nobody]
  /\ Return("ok")
  /\ UNCHANGED <<connections, file, vault, ackMeta, ackSecret>>

MigrateSwapFails ==
  /\ op.phase = "copy"
  /\ op.todo = {}
  /\ "settings" \in Faults
  /\ asked' = [asked EXCEPT ![op.caller] = Nobody]
  /\ Return("error")
  /\ UNCHANGED <<connections, file, vault, settings, mode, ackMeta, ackSecret>>

-----------------------------------------------------------------------------
(* load: connections.json becomes memory.  One that cannot be read is set  *)
(* aside (best effort), and the store starts empty.                        *)
Load ==
  \/ connections' = file /\ UNCHANGED file
  \/ /\ "load" \in Faults
     /\ connections' = Nothing
     /\ file' \in {file, Nothing}

(* LoadSecretBackend: any failure to read settings.json means the default. *)
LoadSecretBackend ==
  \/ mode' = settings
  \/ "loadSettings" \in Faults /\ mode' = "keychain"

(* The process dies, whatever it was doing, and NewWithMode opens the      *)
(* store again.                                                            *)
Restart ==
  /\ CanCrash
  /\ Load
  /\ LoadSecretBackend
  /\ op' = Idle
  /\ asked' = [c \in Switchers |-> Nobody]
  /\ result' = "none"
  /\ UNCHANGED <<vault, settings, ackMeta, ackSecret>>

Save == \/ \E id \in Ids, meta \in Metas, secret \in Secrets \cup {Keep, NoSecret} :
             SaveSecret(id, meta, secret)
        \/ SavePersist

Delete == \/ \E id \in Ids : DeleteUnknown(id) \/ DeletePersist(id)
          \/ DeleteSecret

MigrateSecrets ==
  \/ \E c \in Switchers : MigrateBegin(c)
  \/ \E id \in Ids : MigrateCopy(id)
  \/ MigrateCopyFails
  \/ MigrateRemove
  \/ MigrateRemoveFails
  \/ MigrateSwap
  \/ MigrateSwapFails

SetSecretStorage ==
  \/ \E c \in Switchers, target \in Backends : ReadMode(c, target)
  \/ MigrateSecrets

Next == Save \/ Delete \/ SetSecretStorage \/ Restart

Spec == Init /\ [][Next]_vars

-----------------------------------------------------------------------------
(* Every variable has its type; in particular an operation under way holds *)
(* the id, metadata or migration target its phase goes on to use.          *)
TypeOK ==
  /\ connections \in [Ids -> Metas \cup {Absent}]
  /\ file \in [Ids -> Metas \cup {Absent}]
  /\ vault \in [Backends -> [Ids -> Secrets \cup {NoSecret}]]
  /\ settings \in Backends
  /\ mode \in Backends
  /\ op \in [phase: {"idle", "save", "delete", "copy", "remove"},
             id: Ids \cup {Nobody}, meta: Metas \cup {Absent},
             secret: Secrets \cup {Keep, NoSecret}, todo: SUBSET Ids,
             caller: Switchers \cup {Nobody}]
  /\ op.phase \in {"save", "delete", "remove"} => op.id \in Ids
  /\ op.phase = "save" => op.meta \in Metas
  /\ op.phase \in {"copy", "remove"} =>
       op.caller \in Switchers /\ asked[op.caller] \in Backends
  /\ asked \in [Switchers -> Backends \cup {Nobody}]
  /\ result \in {"none", "ok", "error", "ENCRYPTION_UNAVAILABLE"}
  /\ ackMeta \in [Ids -> Metas \cup {Absent, Unknown}]
  /\ ackSecret \in [Ids -> Secrets \cup {NoSecret, Unknown}]

(* A secret that Save acknowledged is never lost and never replaced by an  *)
(* older one: the active backend holds it, or holds nothing for that id    *)
(* and the other backend has it (an unfinished migration).  So Get answers *)
(* with the acknowledged secret or with none, whatever backend calls and   *)
(* file writes failed and wherever the process died in MigrateSecrets.     *)
AckedSecretHeld ==
  \A id \in Ids : ackSecret[id] \in Secrets =>
    \/ vault[mode][id] = ackSecret[id]
    \/ vault[mode][id] = NoSecret /\ vault[Other(mode)][id] = ackSecret[id]

(* Metadata that Save acknowledged is in connections.json and in memory    *)
(* until another call touches that id, also when a later Save or Delete of *)
(* another id fails half-way and persistLocked writes what it left behind. *)
AckedBookmarkDurable ==
  \A id \in Ids : ackMeta[id] \in Metas =>
    file[id] = ackMeta[id] /\ connections[id] = ackMeta[id]

(* When MigrateSecrets succeeds, every acknowledged secret is readable from *)
(* the backend the store swapped to, also after earlier aborted attempts   *)
(* left some secrets in the one backend and some in the other.             *)
SwitchDelivers ==
  [][MigrateSwap => \A id \in Ids :
       ackSecret[id] \in Secrets => vault'[mode'][id] = ackSecret[id]]_vars

-----------------------------------------------------------------------------
(* The inductive strengthening of AckedSecretHeld used by the proofs: the  *)
(* running and the persisted backend agree, a migration goes to the other  *)
(* one, an acknowledged secret belongs to a saved connection (so that the  *)
(* migration loop meets it), a Save under way has its secret in the active *)
(* backend, an entry about to be removed has been copied, and the loop has *)
(* emptied the current backend of the entries it has passed.               *)
ModePersisted == mode = settings

TargetIsOther ==
  \A c \in Switchers : asked[c] # Nobody => asked[c] = Other(mode)

AckedSecretIsListed ==
  \A id \in Ids : ackSecret[id] \in Secrets =>
    connections[id] # Absent /\ file[id] # Absent

SaveInFlight ==
  op.phase = "save" /\ op.secret # Keep => vault[mode][op.id] = op.secret

RemoveInFlight ==
  op.phase = "remove" => vault[Other(mode)][op.id] = vault[mode][op.id]

PassedIsMoved ==
  op.phase \in {"copy", "remove"} =>
    \A id \in Saved(connections) \ op.todo : vault[mode][id] = NoSecret

SecretInv == /\ ModePersisted
             /\ TargetIsOther
             /\ AckedSecretIsListed
             /\ SaveInFlight
             /\ RemoveInFlight
             /\ PassedIsMoved
             /\ AckedSecretHeld

=============================================================================
