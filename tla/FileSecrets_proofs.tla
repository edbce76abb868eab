------------------------- MODULE FileSecrets_proofs -------------------------
(***************************************************************************)
(* Proofs about FileSecrets, for any names, values and keys: its types,    *)
(* that a steady lookup loses nothing, and that it is the backend which    *)
(* SecretBackend describes.                                                *)
(***************************************************************************)
EXTENDS FileSecrets, TLAPS

-----------------------------------------------------------------------------
(* The instance's key, the entries and secrets.key fit together.           *)
KeyOK ==
  /\ keyFile = Absent => key \in {NoKey, Uuid}
  /\ keyFile = Partial => key = NoKey
  /\ keyFile \in RandomKeys => key \in {NoKey, keyFile}
  /\ call.op = "writeKey" => keyFile = Partial

EntriesOK ==
  \A n \in Names : entries[n] # None => entries[n].key \in {Uuid, keyFile}

(* What the lookups must have done for the state to be this one.           *)
LookupsOK ==
  /\ keyFile # Absent => "fails" \in lookups
  /\ key = Uuid => "works" \in lookups
  /\ \A n \in Names : entries[n] # None /\ entries[n].key = Uuid => "works" \in lookups

Inv == TypeOK /\ KeyOK /\ EntriesOK /\ LookupsOK

Held == [n \in Names |-> IF Readable(n) THEN entries[n].value ELSE None]
Settled == key # NoKey
Orphaned == keyFile # Absent

BackendStep == Backend!BackendNext \/ UNCHANGED <<Held, Settled, Orphaned>>
Kept == Inv' /\ BackendStep

-----------------------------------------------------------------------------
LEMMA InitOK == Init => Inv /\ Backend!BackendInit
<1> SUFFICES ASSUME Init PROVE Inv /\ Backend!BackendInit
  OBVIOUS
<1>1. TypeOK
  BY DEF Init, TypeOK, Calls, Idle
<1>2. KeyOK /\ EntriesOK /\ LookupsOK
  BY FileSecretsAssumption DEF Init, KeyOK, EntriesOK, LookupsOK, Idle, AesKeys
<1>3. Backend!BackendInit
  BY DEF Init, Backend!BackendInit, Readable
<1> QED
  BY <1>1, <1>2, <1>3 DEF Inv

(* What is read before and after an instance takes its key is the same.    *)
LEMMA ReadingKeyIs ==
  ASSUME Inv
  PROVE  /\ keyFile = Absent => ReadingKey = Uuid
         /\ keyFile = Partial => ReadingKey = NoKey
         /\ keyFile \in RandomKeys => ReadingKey = keyFile
BY FileSecretsAssumption DEF Inv, KeyOK, ReadingKey, AesKeys

LEMMA SameKeyReadsTheSame ==
  ASSUME Inv, Inv', UNCHANGED <<keyFile, entries>>
  PROVE  UNCHANGED Held
<1>1. ReadingKey' = ReadingKey
  <2>1. /\ keyFile' = Absent => ReadingKey' = Uuid
        /\ keyFile' = Partial => ReadingKey' = NoKey
        /\ keyFile' \in RandomKeys => ReadingKey' = keyFile'
    BY FileSecretsAssumption DEF Inv, KeyOK, ReadingKey, AesKeys
  <2> QED
    BY <2>1, ReadingKeyIs DEF Inv, TypeOK
<1> QED
  BY <1>1 DEF Held, Readable

(* With secrets.key cut short nothing is readable.                         *)
LEMMA PartialReadsNothing ==
  ASSUME Inv, keyFile = Partial
  PROVE  Held = [n \in Names |-> None]
<1>1. ReadingKey = NoKey
  BY ReadingKeyIs
<1>2. \A n \in Names : entries[n] # None => entries[n].key \in AesKeys
  BY DEF Inv, TypeOK
<1> QED
  BY <1>1, <1>2, FileSecretsAssumption DEF Held, Readable

-----------------------------------------------------------------------------
LEMMA CallKeeps ==
  ASSUME Inv, call' \in {Idle} \cup Requests, UNCHANGED <<keyFile, entries, key, lookups>>
  PROVE  Kept
<1>1. call'.op # "writeKey"
  BY DEF Idle, Requests
<1>2. Inv'
  BY <1>1 DEF Inv, TypeOK, Calls, KeyOK, EntriesOK, LookupsOK
<1>3. UNCHANGED Held
  BY <1>2, SameKeyReadsTheSame
<1> QED
  BY <1>2, <1>3 DEF Kept, BackendStep, Settled, Orphaned

LEMMA RequestKeeps ==
  ASSUME Inv, NEW n \in Names,
         Get(n) \/ Delete(n) \/ \E v \in Values : Set(n, v)
  PROVE  Kept
<1>1. call' \in {Idle} \cup Requests
  BY DEF Get, Delete, Set, Requests
<1>2. UNCHANGED <<keyFile, entries, key, lookups>>
  BY DEF Get, Delete, Set
<1> QED
  BY <1>1, <1>2, CallKeeps

LEMMA ReturnsKeeps == Inv /\ Returns => Kept
BY CallKeeps DEF Returns

(* The instance settles on the key that entries are read with anyway.      *)
LEMMA SettleKeeps ==
  ASSUME Inv, ReadKeyFile \/ LookupWorks
  PROVE  Kept
<1>1. NeedsKey /\ key' \in AesKeys /\ UNCHANGED <<keyFile, entries, call>>
  BY DEF ReadKeyFile, LookupWorks, AesKeys
<1>2. TypeOK'
  BY <1>1 DEF ReadKeyFile, LookupWorks, Inv, TypeOK
<1>3. KeyOK'
  BY <1>1, FileSecretsAssumption DEF ReadKeyFile, LookupWorks, Inv, KeyOK, AesKeys, NeedsKey
<1>4. EntriesOK' /\ LookupsOK'
  BY <1>1, FileSecretsAssumption DEF ReadKeyFile, LookupWorks, Inv, EntriesOK, LookupsOK
<1>5. Inv'
  BY <1>2, <1>3, <1>4 DEF Inv
<1>6. UNCHANGED Held
  BY <1>1, <1>5, SameKeyReadsTheSame
<1>7. Settled' /\ UNCHANGED Orphaned
  BY <1>1, FileSecretsAssumption DEF Settled, Orphaned
<1>8. Backend!Settle
  BY <1>6, <1>7 DEF Backend!Settle, Held, Settled, Orphaned
<1> QED
  BY <1>5, <1>8 DEF Kept, BackendStep, Backend!BackendNext

LEMMA LookupFailsKeeps == Inv /\ LookupFails => Kept
<1> SUFFICES ASSUME Inv, LookupFails PROVE Kept
  OBVIOUS
<1>1. /\ NeedsKey /\ keyFile = Absent /\ UNCHANGED <<entries, key>>
      /\ lookups' = lookups \cup {"fails"}
  BY DEF LookupFails
<1>2. CASE call' = Idle /\ UNCHANGED keyFile
  <2>1. Inv'
    BY <1>1, <1>2 DEF Inv, TypeOK, Calls, KeyOK, EntriesOK, LookupsOK, Idle
  <2>2. UNCHANGED Held
    BY <1>1, <1>2, <2>1, SameKeyReadsTheSame
  <2> QED
    BY <1>1, <1>2, <2>1, <2>2 DEF Kept, BackendStep, Settled, Orphaned
<1>3. CASE /\ keyFile' = Partial
           /\ \E k \in RandomKeys : call' = [op |-> "writeKey", key |-> k, for |-> call]
  <2>1. call \in Requests
    BY <1>1 DEF NeedsKey, Inv, TypeOK, Calls, Idle, Requests
  <2>2. TypeOK'
    BY <1>1, <1>3, <2>1 DEF Inv, TypeOK, Calls
  <2>3. key = NoKey
    BY <1>1 DEF NeedsKey
  <2>4. KeyOK'
    BY <1>1, <1>3, <2>3, FileSecretsAssumption DEF KeyOK
  <2>5. EntriesOK' /\ LookupsOK'
    <3>1. \A n \in Names : entries[n] # None => entries[n].key = Uuid
      BY <1>1, FileSecretsAssumption DEF Inv, TypeOK, EntriesOK, AesKeys
    <3> QED
      BY <1>1, <1>3, <3>1 DEF Inv, EntriesOK, LookupsOK
  <2>6. Inv'
    BY <2>2, <2>4, <2>5 DEF Inv
  <2>7. Held' = [n \in Names |-> None]
    <3>1. ReadingKey' = NoKey
      BY <1>1, <1>3, <2>3, FileSecretsAssumption DEF ReadingKey
    <3>2. \A n \in Names : entries'[n] # None => entries'[n].key \in AesKeys
      BY <2>2 DEF TypeOK
    <3> QED
      BY <3>1, <3>2, FileSecretsAssumption DEF Held, Readable
  <2>8. ~Settled /\ ~Orphaned /\ Orphaned' /\ UNCHANGED Settled
    BY <1>1, <1>3, <2>3, FileSecretsAssumption DEF Settled, Orphaned
  <2>9. Backend!Orphan
    BY <2>7, <2>8 DEF Backend!Orphan, Held, Settled, Orphaned
  <2> QED
    BY <2>6, <2>9 DEF Kept, BackendStep, Backend!BackendNext
<1> QED
  BY <1>2, <1>3 DEF LookupFails

(* Nothing was sealed with the key that is now on disk: what could not be  *)
(* read before it cannot be read after it.                                 *)
LEMMA KeyWrittenKeeps == Inv /\ KeyWritten => Kept
<1> SUFFICES ASSUME Inv, KeyWritten PROVE Kept
  OBVIOUS
<1>1. /\ call.key \in RandomKeys /\ call.for \in Requests
      /\ keyFile' = call.key /\ UNCHANGED <<entries, lookups>>
      /\ keyFile = Partial /\ key = NoKey
  BY DEF KeyWritten, Inv, TypeOK, Calls, Idle, Requests, KeyOK
<1>2. (key' = call.key /\ call' = call.for) \/ (call' = Idle /\ UNCHANGED key)
  BY DEF KeyWritten
<1>3. call'.op # "writeKey"
  BY <1>1, <1>2 DEF Requests, Idle
<1>4. TypeOK'
  BY <1>1, <1>2 DEF Inv, TypeOK, Calls, AesKeys
<1>5. \A n \in Names : entries[n] # None => entries[n].key = Uuid
  BY <1>1, FileSecretsAssumption DEF Inv, TypeOK, EntriesOK, AesKeys
<1>6. KeyOK' /\ EntriesOK' /\ LookupsOK'
  <2>1. KeyOK'
    BY <1>1, <1>2, <1>3, FileSecretsAssumption DEF KeyOK
  <2>2. EntriesOK'
    BY <1>1, <1>5 DEF EntriesOK
  <2>3. LookupsOK'
    BY <1>1, <1>2, FileSecretsAssumption DEF Inv, LookupsOK, AesKeys
  <2> QED
    BY <2>1, <2>2, <2>3
<1>7. Inv'
  BY <1>4, <1>6 DEF Inv
<1>8. ReadingKey' = call.key
  BY <1>1, <1>2, FileSecretsAssumption DEF ReadingKey, AesKeys
<1>9. Held' = [n \in Names |-> None]
  BY <1>1, <1>5, <1>8, FileSecretsAssumption DEF Held, Readable
<1>10. UNCHANGED Held
  BY <1>1, <1>9, PartialReadsNothing
<1>11. UNCHANGED Orphaned
  BY <1>1, FileSecretsAssumption DEF Orphaned
<1>12. CASE key' = call.key
  <2>1. Settled'
    BY <1>1, <1>12, FileSecretsAssumption DEF Settled, AesKeys
  <2>2. Backend!Settle
    BY <1>10, <1>11, <2>1 DEF Backend!Settle, Held, Settled, Orphaned
  <2> QED
    BY <1>7, <2>2 DEF Kept, BackendStep, Backend!BackendNext
<1>13. CASE UNCHANGED key
  BY <1>7, <1>10, <1>11, <1>13 DEF Kept, BackendStep, Settled
<1> QED
  BY <1>2, <1>12, <1>13

LEMMA PersistSetKeeps == Inv /\ PersistSet => Kept
<1> SUFFICES ASSUME Inv, PersistSet PROVE Kept
  OBVIOUS
<1>1. PICK n \in Names, v \in Values : call = [op |-> "set", name |-> n, value |-> v]
  BY DEF PersistSet, Inv, TypeOK, Calls, Idle, Requests
<1> DEFINE entry == [value |-> v, key |-> key]
<1>2. /\ entries' = [entries EXCEPT ![n] = entry]
      /\ key \in AesKeys /\ key # NoKey /\ call' = Idle
      /\ UNCHANGED <<keyFile, key, lookups>>
  BY <1>1 DEF PersistSet, Inv, TypeOK
<1>3. entry \in [value : Values, key : AesKeys] /\ entry # None
  BY <1>2, FileSecretsAssumption
<1>4. entry.key = key /\ entry.value = v
  OBVIOUS
<1> HIDE DEF entry
<1>5. TypeOK'
  BY <1>2, <1>3 DEF Inv, TypeOK, Calls
<1>6. KeyOK' /\ EntriesOK' /\ LookupsOK'
  <2>1. KeyOK'
    BY <1>2 DEF Inv, KeyOK, Idle
  <2>2. key \in {Uuid, keyFile}
    BY <1>2 DEF Inv, TypeOK, KeyOK
  <2>3. EntriesOK'
    BY <1>2, <1>3, <1>4, <2>2 DEF Inv, TypeOK, EntriesOK
  <2>4. LookupsOK'
    BY <1>2, <1>3, <1>4 DEF Inv, TypeOK, LookupsOK
  <2> QED
    BY <2>1, <2>3, <2>4
<1>7. ReadingKey = key /\ ReadingKey' = key
  BY <1>2 DEF ReadingKey
<1>8. Held' = [Held EXCEPT ![n] = v]
  BY <1>2, <1>3, <1>4, <1>7 DEF Held, Readable, Inv, TypeOK
<1>9. Backend!Put(n, v)
  BY <1>2, <1>8 DEF Backend!Put, Held
<1> QED
  BY <1>5, <1>6, <1>9 DEF Kept, Inv, BackendStep, Backend!BackendNext

LEMMA PersistDeleteKeeps == Inv /\ PersistDelete => Kept
<1> SUFFICES ASSUME Inv, PersistDelete PROVE Kept
  OBVIOUS
<1>1. PICK n \in Names : call = [op |-> "delete", name |-> n]
  BY DEF PersistDelete, Inv, TypeOK, Calls, Idle, Requests
<1>2. /\ entries' = [entries EXCEPT ![n] = None] /\ call' = Idle
      /\ UNCHANGED <<keyFile, key, lookups>>
  BY <1>1 DEF PersistDelete
<1>3. Inv'
  <2>1. TypeOK'
    BY <1>2 DEF Inv, TypeOK, Calls
  <2>2. KeyOK'
    BY <1>2 DEF Inv, KeyOK, Idle
  <2>3. EntriesOK' /\ LookupsOK'
    BY <1>2 DEF Inv, TypeOK, EntriesOK, LookupsOK
  <2> QED
    BY <2>1, <2>2, <2>3 DEF Inv
<1>4. ReadingKey' = ReadingKey
  BY <1>2 DEF ReadingKey
<1>5. Held' = [Held EXCEPT ![n] = None]
  BY <1>2, <1>4 DEF Held, Readable, Inv, TypeOK
<1>6. Backend!Remove(n)
  BY <1>2, <1>5 DEF Backend!Remove, Held
<1> QED
  BY <1>3, <1>6 DEF Kept, BackendStep, Backend!BackendNext

LEMMA NewInstanceKeeps == Inv /\ NewInstance => Kept
<1> SUFFICES ASSUME Inv, NewInstance PROVE Kept
  OBVIOUS
<1>1. key' = NoKey /\ call' = Idle /\ UNCHANGED <<keyFile, entries, lookups>>
  BY DEF NewInstance
<1>2. Inv'
  BY <1>1, FileSecretsAssumption
     DEF Inv, TypeOK, Calls, KeyOK, EntriesOK, LookupsOK, Idle, AesKeys
<1>3. UNCHANGED Held
  BY <1>1, <1>2, SameKeyReadsTheSame
<1>4. ~Settled' /\ UNCHANGED Orphaned
  BY <1>1 DEF Settled, Orphaned
<1>5. Backend!Open
  BY <1>3, <1>4 DEF Backend!Open, Held, Settled, Orphaned
<1> QED
  BY <1>2, <1>5 DEF Kept, BackendStep, Backend!BackendNext

LEMMA StepKeeps == Inv /\ [Next]_vars => Kept
<1> SUFFICES ASSUME Inv, [Next]_vars PROVE Kept
  OBVIOUS
<1>1. CASE UNCHANGED vars
  <2>1. UNCHANGED <<keyFile, entries, key, call, lookups>>
    BY <1>1 DEF vars
  <2>2. Inv'
    BY <2>1 DEF Inv, TypeOK, KeyOK, EntriesOK, LookupsOK
  <2>3. UNCHANGED <<Held, Settled, Orphaned>>
    BY <2>1, <2>2, SameKeyReadsTheSame DEF Settled, Orphaned
  <2> QED
    BY <2>2, <2>3 DEF Kept, BackendStep
<1>2. CASE \E n \in Names : Get(n) \/ Delete(n) \/ \E v \in Values : Set(n, v)
  BY <1>2, RequestKeeps
<1>3. CASE Returns
  BY <1>3, ReturnsKeeps
<1>4. CASE ReadKeyFile \/ LookupWorks
  BY <1>4, SettleKeeps
<1>5. CASE LookupFails \/ KeyWritten
  BY <1>5, LookupFailsKeeps, KeyWrittenKeeps
<1>6. CASE PersistSet \/ PersistDelete \/ NewInstance
  BY <1>6, PersistSetKeeps, PersistDeleteKeeps, NewInstanceKeeps
<1> QED
  BY <1>1, <1>2, <1>3, <1>4, <1>5, <1>6 DEF Next

LEMMA FileSecretsInv == Spec => []Inv
<1>1. Init => Inv
  BY InitOK
<1>2. Inv /\ [Next]_vars => Inv'
  BY StepKeeps DEF Kept
<1> QED
  BY <1>1, <1>2, PTL DEF Spec

-----------------------------------------------------------------------------
(* Every variable of the backend has its type.                             *)
THEOREM FileSecretsTypeOK == Spec => []TypeOK
<1>1. Inv => TypeOK
  BY DEF Inv
<1> QED
  BY <1>1, FileSecretsInv, PTL

(* On a machine whose UUID lookup always works, or never does, every entry *)
(* of secrets.json can be read, wherever the process died (deriveKey).     *)
THEOREM FileSecretsSteady == Spec => []SteadyLookupLosesNothing
<1>1. Inv => SteadyLookupLosesNothing
  <2> SUFFICES ASSUME Inv, lookups # {"works", "fails"},
                      NEW n \in Names, entries[n] # None
               PROVE  entries[n].key = ReadingKey
    BY DEF SteadyLookupLosesNothing, Readable
  <2>1. "works" \notin lookups \/ "fails" \notin lookups
    BY DEF Inv, TypeOK
  <2>2. entries[n].key \in {Uuid, keyFile} /\ entries[n].key \in AesKeys
    BY DEF Inv, TypeOK, EntriesOK
  <2>3. CASE "works" \notin lookups
    <3>1. entries[n].key \in RandomKeys /\ entries[n].key = keyFile
      BY <2>2, <2>3 DEF Inv, LookupsOK, AesKeys
    <3> QED
      BY <3>1, ReadingKeyIs
  <2>4. CASE "fails" \notin lookups
    <3>1. keyFile = Absent
      BY <2>4 DEF Inv, LookupsOK
    <3>2. entries[n].key = Uuid
      BY <2>2, <3>1, FileSecretsAssumption DEF AesKeys
    <3> QED
      BY <3>1, <3>2, ReadingKeyIs
  <2> QED
    BY <2>1, <2>3, <2>4
<1> QED
  BY <1>1, FileSecretsInv, PTL

(* FileSecrets is the backend that SecretBackend describes: a write is     *)
(* atomic, an instance reads what it wrote, and a key of the machine that  *)
(* cannot be found orphans the entries once at most (deriveKey,            *)
(* encryptionKeyLocked, persistLocked).                                    *)
THEOREM FileSecretsImplementsBackend == Spec => ImplementsBackend
<1>1. Init => Backend!BackendInit
  BY InitOK
<1>2. Inv /\ [Next]_vars => [Backend!BackendNext]_(Backend!backendVars)
  BY StepKeeps DEF Kept, BackendStep, Backend!backendVars, Held, Settled, Orphaned
<1> QED
  BY <1>1, <1>2, FileSecretsInv, PTL DEF Spec, ImplementsBackend, Backend!BackendSpec
=============================================================================
