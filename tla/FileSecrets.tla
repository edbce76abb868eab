----------------------------- MODULE FileSecrets -----------------------------
(***************************************************************************)
(* The local-file backend (secrets_file.go): secrets.json with its sealed  *)
(* entries, secrets.key, and the choice of the key between the machine's   *)
(* UUID and that file.  The lookup of the UUID runs an external command    *)
(* and may work one time and fail the next; the process may die at any     *)
(* point, also while it writes secrets.key, which is not written           *)
(* atomically (secrets.json is).                                           *)
(*                                                                         *)
(* Set, Get and Delete hold f.mu throughout and the store uses one         *)
(* instance at a time, so one call is under way at a time.  A sealed entry *)
(* is its value with the key it needs.  Reading secrets.key fails only     *)
(* when it is not there.                                                   *)
(***************************************************************************)
CONSTANTS
  Names,       \* keys of the entries, one for each connection
  Values,
  None,        \* no entry
  Uuid,        \* the key derived from the machine's UUID
  RandomKeys,  \* keys that may be drawn for secrets.key
  NoKey,       \* the instance has not resolved its key yet
  Absent,      \* there is no secrets.key
  Partial      \* secrets.key does not have its 32 bytes

AesKeys == {Uuid} \cup RandomKeys

ASSUME FileSecretsAssumption ==
  /\ None \notin Values
  /\ None \notin [value : Values, key : AesKeys]
  /\ Uuid \notin RandomKeys
  /\ NoKey \notin AesKeys
  /\ Absent \notin RandomKeys /\ Partial \notin RandomKeys /\ Absent # Partial

VARIABLES
  keyFile,   \* secrets.key
  entries,   \* secrets.json
  key,       \* the key the instance has cached
  call,      \* the call under way
  lookups    \* what lookups of the UUID have done so far

vars == <<keyFile, entries, key, call, lookups>>

Idle == [op |-> "none"]

Init ==
  /\ keyFile = Absent
  /\ entries = [n \in Names |-> None]
  /\ key = NoKey
  /\ call = Idle
  /\ lookups = {}

-----------------------------------------------------------------------------
(* The calls.  Each first reads secrets.json; one that cannot changes      *)
(* nothing, and neither does Get or Delete of an entry that is not there.  *)
Set(n, v) ==
  /\ call = Idle
  /\ call' = [op |-> "set", name |-> n, value |-> v]
  /\ UNCHANGED <<keyFile, entries, key, lookups>>

Get(n) ==
  /\ call = Idle /\ entries[n] # None
  /\ call' = [op |-> "get", name |-> n]
  /\ UNCHANGED <<keyFile, entries, key, lookups>>

Delete(n) ==
  /\ call = Idle /\ entries[n] # None
  /\ call' = [op |-> "delete", name |-> n]
  /\ UNCHANGED <<keyFile, entries, key, lookups>>

(* The call returns, with an error or not, having done nothing further.    *)
Returns ==
  /\ call # Idle
  /\ call' = Idle
  /\ UNCHANGED <<keyFile, entries, key, lookups>>

-----------------------------------------------------------------------------
(* Set and Get need the key: the cached one, else that of secrets.key,     *)
(* else that of the machine, else one that is drawn and written to         *)
(* secrets.key.  A secrets.key of the wrong length is an error.            *)
NeedsKey == call.op \in {"set", "get"} /\ key = NoKey

ReadKeyFile ==
  /\ NeedsKey /\ keyFile \in RandomKeys
  /\ key' = keyFile
  /\ UNCHANGED <<keyFile, entries, call, lookups>>

(* Mutant: the machine's key goes before that of secrets.key.              *)
MutLookupWorks ==
  /\ NeedsKey /\ keyFile # Partial
  /\ key' = Uuid
  /\ lookups' = lookups \cup {"works"}
  /\ UNCHANGED <<keyFile, entries, call>>

LookupWorks ==
  /\ NeedsKey /\ keyFile = Absent
  /\ key' = Uuid
  /\ lookups' = lookups \cup {"works"}
  /\ UNCHANGED <<keyFile, entries, call>>

(* The file is created, with nothing in it so far; or it cannot be.        *)
LookupFails ==
  /\ NeedsKey /\ keyFile = Absent
  /\ lookups' = lookups \cup {"fails"}
  /\ \/ /\ keyFile' = Partial
        /\ \E k \in RandomKeys : call' = [op |-> "writeKey", key |-> k, for |-> call]
     \/ call' = Idle /\ UNCHANGED keyFile
  /\ UNCHANGED <<entries, key>>

(* Mutant: a key that could not be written is used all the same.           *)
MutKeyWritten ==
  /\ call.op = "writeKey"
  /\ key' = call.key /\ call' = call.for
  /\ keyFile' \in {call.key, keyFile}
  /\ UNCHANGED <<entries, lookups>>

(* The key is whole on disk, and used unless the mode cannot be set.       *)
KeyWritten ==
  /\ call.op = "writeKey"
  /\ keyFile' = call.key
  /\ \/ key' = call.key /\ call' = call.for
     \/ call' = Idle /\ UNCHANGED key
  /\ UNCHANGED <<entries, lookups>>

-----------------------------------------------------------------------------
(* The rename of the new secrets.json.                                     *)
PersistSet ==
  /\ call.op = "set" /\ key # NoKey
  /\ entries' = [entries EXCEPT ![call.name] = [value |-> call.value, key |-> key]]
  /\ call' = Idle
  /\ UNCHANGED <<keyFile, key, lookups>>

PersistDelete ==
  /\ call.op = "delete"
  /\ entries' = [entries EXCEPT ![call.name] = None]
  /\ call' = Idle
  /\ UNCHANGED <<keyFile, key, lookups>>

(* The process dies and comes up again; or, with no call under way, a      *)
(* switch of backends makes an instance of its own.                        *)
NewInstance ==
  /\ key' = NoKey /\ call' = Idle
  /\ UNCHANGED <<keyFile, entries, lookups>>

Next ==
  \/ \E n \in Names : Get(n) \/ Delete(n) \/ \E v \in Values : Set(n, v)
  \/ Returns
  \/ ReadKeyFile \/ LookupWorks \/ LookupFails \/ KeyWritten
  \/ PersistSet \/ PersistDelete
  \/ NewInstance

Spec == Init /\ [][Next]_vars

-----------------------------------------------------------------------------
Requests ==
  [op : {"get", "delete"}, name : Names]
    \cup [op : {"set"}, name : Names, value : Values]
Calls == {Idle} \cup Requests \cup [op : {"writeKey"}, key : RandomKeys, for : Requests]

(* Every variable has its type.                                            *)
TypeOK ==
  /\ keyFile \in {Absent, Partial} \cup RandomKeys
  /\ entries \in [Names -> {None} \cup [value : Values, key : AesKeys]]
  /\ key \in {NoKey} \cup AesKeys
  /\ call \in Calls
  /\ lookups \subseteq {"works", "fails"}

(* The key that entries are read with: the cached one, or what an instance *)
(* would take now if the lookup worked.                                    *)
ReadingKey ==
  IF key # NoKey THEN key
  ELSE CASE keyFile = Absent -> Uuid
         [] keyFile = Partial -> NoKey
         [] OTHER -> keyFile

Readable(n) == entries[n] # None /\ entries[n].key = ReadingKey

(* A machine whose UUID lookup always works, or never does, loses no       *)
(* entry, however often and wherever the process dies: whatever is in      *)
(* secrets.json can be read.                                               *)
SteadyLookupLosesNothing ==
  lookups # {"works", "fails"} =>
    \A n \in Names : entries[n] # None => Readable(n)

(* With lookups that work and fail in any order the backend is still what  *)
(* SecretBackend says: no call loses or changes another's entry, an        *)
(* instance can read what it wrote ("a transient lookup failure cannot     *)
(* flip the key mid-session"), and once there is a secrets.key it wins, so *)
(* that entries are orphaned once at most.                                 *)
Backend == INSTANCE SecretBackend
  WITH held <- [n \in Names |-> IF Readable(n) THEN entries[n].value ELSE None],
       settled <- key # NoKey,
       orphaned <- keyFile # Absent
ImplementsBackend == Backend!BackendSpec
=============================================================================
