------------------------ MODULE ConnectionStore_proofs ------------------------
(***************************************************************************)
(* Safety proofs for ConnectionStore, for any sets of ids, metadata and    *)
(* secrets, any set of write faults and crashes anywhere.                  *)
(***************************************************************************)
EXTENDS ConnectionStore, TLAPS

(* Type correctness: memory, both files, both backends and the operation   *)
(* under way keep their types, whatever fails.                             *)
THEOREM TypeCorrect == Spec => []TypeOK
<1> USE FaultsAssumption, SentinelAssumption
<1>1. Init => TypeOK
  BY DEF Init, TypeOK, Nothing, Idle, Backends
<1>2. TypeOK /\ [Next]_vars => TypeOK'
  <2> SUFFICES ASSUME TypeOK, [Next]_vars
               PROVE  TypeOK'
    OBVIOUS
  <2> USE DEF TypeOK
  <2>1. ASSUME NEW id \in Ids, NEW meta \in Metas,
               NEW secret \in Secrets \cup {Keep, NoSecret},
               SaveSecret(id, meta, secret)
        PROVE  TypeOK'
    <3>1. vault' \in [Backends -> [Ids -> Secrets \cup {NoSecret}]]
      BY <2>1 DEF SaveSecret
    <3>2. ackSecret' \in [Ids -> Secrets \cup {NoSecret, Unknown}]
      BY <2>1 DEF SaveSecret
    <3>3. \/ op' = Idle
          \/ op' = [phase |-> "save", id |-> id, meta |-> meta,
                    secret |-> secret, todo |-> {}, caller |-> Nobody]
      <4> HIDE DEF TypeOK
      <4> QED
        BY <2>1 DEF SaveSecret, Return, Idle
    <3>4. result' \in {"none", "ok", "error", "ENCRYPTION_UNAVAILABLE"}
      BY <2>1 DEF SaveSecret, Return
    <3>5. UNCHANGED <<connections, file, settings, mode, asked, ackMeta>>
      BY <2>1 DEF SaveSecret
    <3>6. QED
      BY <3>1, <3>2, <3>3, <3>4, <3>5 DEF Idle
  <2>2. CASE SavePersist
    BY <2>2 DEF SavePersist, Return, Idle
  <2>3. ASSUME NEW id \in Ids, DeleteUnknown(id) \/ DeletePersist(id)
        PROVE  TypeOK'
    <3>1. CASE DeleteUnknown(id)
      BY <3>1 DEF DeleteUnknown, Return, Idle
    <3>2. CASE DeletePersist(id)
      <4>1. op' = Idle \/ op' = [phase |-> "delete", id |-> id, meta |-> Absent,
                                secret |-> NoSecret, todo |-> {}, caller |-> Nobody]
        <5> HIDE DEF TypeOK
        <5> QED
          BY <3>2 DEF DeletePersist, Return, Idle
      <4>2. file' \in [Ids -> Metas \cup {Absent}]
        BY <3>2 DEF DeletePersist
      <4>3. /\ connections' \in [Ids -> Metas \cup {Absent}]
            /\ ackMeta' \in [Ids -> Metas \cup {Absent, Unknown}]
            /\ ackSecret' \in [Ids -> Secrets \cup {NoSecret, Unknown}]
            /\ result' \in {"none", "ok", "error", "ENCRYPTION_UNAVAILABLE"}
        BY <3>2 DEF DeletePersist, Return
      <4>4. UNCHANGED <<vault, settings, mode, asked>>
        BY <3>2 DEF DeletePersist
      <4>5. QED
        BY <4>1, <4>2, <4>3, <4>4 DEF Idle
    <3>3. QED
      BY <2>3, <3>1, <3>2
  <2>4. CASE DeleteSecret
    <3>0. op.id \in Ids /\ mode \in Backends
      BY <2>4 DEF DeleteSecret
    <3>1. vault' \in [Backends -> [Ids -> Secrets \cup {NoSecret}]]
      BY <2>4, <3>0 DEF DeleteSecret
    <3>2. /\ ackMeta' \in [Ids -> Metas \cup {Absent, Unknown}]
          /\ ackSecret' \in [Ids -> Secrets \cup {NoSecret, Unknown}]
          /\ op' = Idle
          /\ result' \in {"none", "ok", "error", "ENCRYPTION_UNAVAILABLE"}
      BY <2>4 DEF DeleteSecret, Return
    <3>3. UNCHANGED <<connections, file, settings, mode, asked>>
      BY <2>4 DEF DeleteSecret
    <3>4. QED
      BY <3>1, <3>2, <3>3 DEF Idle
  <2>5. ASSUME NEW c \in Switchers, NEW target \in Backends, ReadMode(c, target)
        PROVE  TypeOK'
    BY <2>5 DEF ReadMode
  <2>6. ASSUME NEW c \in Switchers, MigrateBegin(c)
        PROVE  TypeOK'
    BY <2>6 DEF MigrateBegin, Idle, Saved
  <2>7. ASSUME NEW id \in Ids, MigrateCopy(id)
        PROVE  TypeOK'
    <3>1. CASE vault[mode][id] = NoSecret
      <4>1. /\ op.phase = "copy"
            /\ op' = [op EXCEPT !.todo = @ \ {id}]
            /\ UNCHANGED <<connections, file, vault, settings, mode, asked, result,
                           ackMeta, ackSecret>>
        BY <2>7, <3>1 DEF MigrateCopy
      <4>2. QED
        BY <4>1
    <3>2. CASE vault[mode][id] # NoSecret
      <4>1. op.caller \in Switchers /\ asked[op.caller] \in Backends
        BY <2>7 DEF MigrateCopy
      <4>2. vault' \in [Backends -> [Ids -> Secrets \cup {NoSecret}]]
        BY <2>7, <3>2, <4>1 DEF MigrateCopy
      <4>3. /\ op' = [op EXCEPT !.phase = "remove", !.id = id]
            /\ UNCHANGED <<connections, file, settings, mode, asked, result,
                           ackMeta, ackSecret>>
        BY <2>7, <3>2 DEF MigrateCopy
      <4>4. QED
        BY <4>1, <4>2, <4>3
    <3>3. QED
      BY <3>1, <3>2
  <2>8. CASE MigrateCopyFails \/ MigrateRemoveFails
    BY <2>8 DEF MigrateCopyFails, MigrateRemoveFails, MigrateAbort, Return, Idle
  <2>9. CASE MigrateRemove
    BY <2>9 DEF MigrateRemove
  <2>10. CASE MigrateSwap \/ MigrateSwapFails
    BY <2>10 DEF MigrateSwap, MigrateSwapFails, Return, Idle
  <2>11. CASE Restart
    BY <2>11 DEF Restart, Load, LoadSecretBackend, Nothing, Idle, Backends
  <2>12. CASE UNCHANGED vars
    BY <2>12 DEF vars
  <2>13. QED
    BY <2>1, <2>2, <2>3, <2>4, <2>5, <2>6, <2>7, <2>8, <2>9, <2>10, <2>11, <2>12
       DEF Next, Save, Delete, SetSecretStorage, MigrateSecrets
<1>3. QED
  BY <1>1, <1>2, PTL DEF Spec

-----------------------------------------------------------------------------
(* One call of SetSecretStorage at a time: the settings dialog disables    *)
(* its choice while a migration runs (SettingsModal.tsx).                  *)
OneSwitcher == \A c, d \in Switchers : c = d

(* connections.json and settings.json can be read at start-up.             *)
StartupReads == {"load", "loadSettings"} \cap Faults = {}

(* Metadata that Save acknowledged stays in connections.json and in memory *)
(* until another call touches its id: no failure of persistLocked on any   *)
(* other id, no aborted migration and no crash takes it away.              *)
THEOREM BookmarkDurable ==
  ASSUME StartupReads
  PROVE  Spec => []AckedBookmarkDurable
<1> USE FaultsAssumption, SentinelAssumption
<1>1. Init => AckedBookmarkDurable
  BY DEF Init, AckedBookmarkDurable, Nothing
<1>2. TypeOK /\ AckedBookmarkDurable /\ [Next]_vars => AckedBookmarkDurable'
  <2> SUFFICES ASSUME TypeOK, AckedBookmarkDurable, [Next]_vars,
                      NEW i \in Ids, ackMeta'[i] \in Metas
               PROVE  file'[i] = ackMeta'[i] /\ connections'[i] = ackMeta'[i]
    BY DEF AckedBookmarkDurable
  <2>0. ackMeta[i] \in Metas => file[i] = ackMeta[i] /\ connections[i] = ackMeta[i]
    BY DEF AckedBookmarkDurable
  <2>1. CASE SavePersist
    BY <2>0, <2>1 DEF SavePersist, TypeOK
  <2>2. ASSUME NEW id \in Ids, DeleteUnknown(id) \/ DeletePersist(id)
        PROVE  file'[i] = ackMeta'[i] /\ connections'[i] = ackMeta'[i]
    BY <2>0, <2>2 DEF DeleteUnknown, DeletePersist, TypeOK
  <2>3. CASE DeleteSecret
    BY <2>0, <2>3 DEF DeleteSecret, TypeOK
  <2>4. CASE Restart
    BY <2>0, <2>4 DEF Restart, Load, StartupReads
  <2>5. CASE UNCHANGED <<connections, file, ackMeta>>
    BY <2>0, <2>5
  <2>6. ASSUME NEW id \in Ids, NEW meta \in Metas,
               NEW secret \in Secrets \cup {Keep, NoSecret},
               SaveSecret(id, meta, secret)
        PROVE  UNCHANGED <<connections, file, ackMeta>>
    BY <2>6 DEF SaveSecret
  <2>7. SetSecretStorage => UNCHANGED <<connections, file, ackMeta>>
    BY DEF SetSecretStorage, MigrateSecrets, ReadMode, MigrateBegin, MigrateCopy,
           MigrateCopyFails, MigrateRemove, MigrateRemoveFails, MigrateAbort,
           MigrateSwap, MigrateSwapFails
  <2>8. QED
    BY <2>1, <2>2, <2>3, <2>4, <2>5, <2>6, <2>7 DEF Next, Save, Delete, vars
<1>3. QED
  BY <1>1, <1>2, TypeCorrect, PTL DEF Spec

-----------------------------------------------------------------------------
(* SecretInv is inductive.                                                 *)
LEMMA SecretInvInductive ==
  ASSUME OneSwitcher, StartupReads, TypeOK, SecretInv, [Next]_vars
  PROVE  SecretInv'
<1> USE FaultsAssumption, SentinelAssumption
<1> USE DEF SecretInv, ModePersisted, TargetIsOther, AckedSecretIsListed,
            SaveInFlight, RemoveInFlight, PassedIsMoved, AckedSecretHeld,
            Backends, Other, Saved
<1>1. ASSUME NEW id \in Ids, NEW meta \in Metas,
             NEW secret \in Secrets \cup {Keep, NoSecret},
             SaveSecret(id, meta, secret)
      PROVE  SecretInv'
  <2>1. UNCHANGED <<connections, file, settings, mode, asked>>
    BY <1>1 DEF SaveSecret
  <2>2. \/ op'.phase = "idle"
        \/ op'.phase = "save" /\ op'.id = id /\ op'.secret = secret
    <3>1. \/ op' = Idle
          \/ op' = [phase |-> "save", id |-> id, meta |-> meta,
                    secret |-> secret, todo |-> {}, caller |-> Nobody]
      BY <1>1 DEF SaveSecret, Return, Idle
    <3>2. QED
      BY <3>1 DEF Idle
  <2>3. \/ UNCHANGED <<vault, ackSecret>> /\ (op'.phase = "save" => secret = Keep)
        \/ /\ vault' = [vault EXCEPT ![mode][id] = secret]
           /\ ackSecret' = [ackSecret EXCEPT ![id] = Unknown]
    BY <1>1 DEF SaveSecret, Return, Idle
  <2>4. QED
    BY <2>1, <2>2, <2>3 DEF TypeOK
<1>2. CASE SavePersist
  BY <1>2 DEF SavePersist, Return, Idle, TypeOK
<1>3. ASSUME NEW id \in Ids, DeleteUnknown(id)
      PROVE  SecretInv'
  BY <1>3 DEF DeleteUnknown, Return, Idle, TypeOK
<1>4. ASSUME NEW id \in Ids, DeletePersist(id)
      PROVE  SecretInv'
  <2>1. UNCHANGED <<vault, settings, mode, asked>>
    BY <1>4 DEF DeletePersist
  <2>2. op'.phase \in {"idle", "delete"}
    <3>1. \/ op' = Idle
          \/ op' = [phase |-> "delete", id |-> id, meta |-> Absent,
                    secret |-> NoSecret, todo |-> {}, caller |-> Nobody]
      BY <1>4 DEF DeletePersist, Return, Idle
    <3>2. QED
      BY <3>1 DEF Idle
  <2>3. /\ connections' = [connections EXCEPT ![id] = Absent]
        /\ file' \in {connections', file}
        /\ ackSecret' = [ackSecret EXCEPT ![id] = Unknown]
    BY <1>4 DEF DeletePersist
  <2>4. QED
    BY <2>1, <2>2, <2>3 DEF TypeOK
<1>5. CASE DeleteSecret
  BY <1>5 DEF DeleteSecret, Return, Idle, TypeOK
<1>6. ASSUME NEW c \in Switchers, NEW target \in Backends, ReadMode(c, target)
      PROVE  SecretInv'
  BY <1>6 DEF ReadMode, TypeOK
<1>7. ASSUME NEW c \in Switchers, MigrateBegin(c)
      PROVE  SecretInv'
  BY <1>7 DEF MigrateBegin, Idle, TypeOK
<1>8. ASSUME NEW id \in Ids, MigrateCopy(id)
      PROVE  SecretInv'
  <2>1. UNCHANGED <<connections, file, settings, mode, asked, ackSecret>>
    BY <1>8 DEF MigrateCopy
  <2>2. CASE vault[mode][id] = NoSecret
    BY <1>8, <2>1, <2>2 DEF MigrateCopy, TypeOK
  <2>3. CASE vault[mode][id] # NoSecret
    <3>1. /\ vault' = [vault EXCEPT ![asked[op.caller]][id] = vault[mode][id]]
          /\ op'.phase = "remove" /\ op'.id = id /\ op'.todo = op.todo
      BY <1>8, <2>3 DEF MigrateCopy, TypeOK
    <3>2. asked[op.caller] = Other(mode) /\ Other(mode) # mode
      BY <1>8 DEF MigrateCopy, TypeOK
    <3>3. op.phase = "copy" /\ id \in op.todo
      BY <1>8 DEF MigrateCopy
    <3>4. QED
      BY <2>1, <2>3, <3>1, <3>2, <3>3 DEF TypeOK
  <2>4. QED
    BY <2>2, <2>3
<1>9. CASE MigrateCopyFails \/ MigrateRemoveFails
  BY <1>9 DEF MigrateCopyFails, MigrateRemoveFails, MigrateAbort, Return, Idle,
              TypeOK
<1>10. CASE MigrateRemove
  BY <1>10 DEF MigrateRemove, TypeOK
<1>11. CASE MigrateSwap
  BY <1>11 DEF MigrateSwap, Return, Idle, TypeOK, OneSwitcher
<1>12. CASE MigrateSwapFails
  BY <1>12 DEF MigrateSwapFails, Return, Idle, TypeOK
<1>13. CASE Restart
  BY <1>13 DEF Restart, Load, LoadSecretBackend, StartupReads, Idle, TypeOK
<1>14. CASE UNCHANGED vars
  BY <1>14 DEF vars
<1>15. QED
  BY <1>1, <1>2, <1>3, <1>4, <1>5, <1>6, <1>7, <1>8, <1>9, <1>10, <1>11, <1>12,
     <1>13, <1>14
     DEF Next, Save, Delete, SetSecretStorage, MigrateSecrets

(* No acknowledged secret is lost, and Get never answers with an older     *)
(* one: for any number of ids, with backend calls and file writes that     *)
(* fail and with crashes anywhere, also inside MigrateSecrets.             *)
THEOREM SecretHeld ==
  ASSUME OneSwitcher, StartupReads
  PROVE  Spec => []AckedSecretHeld
<1>1. Init => SecretInv
  BY SentinelAssumption
     DEF Init, SecretInv, ModePersisted, TargetIsOther, AckedSecretIsListed,
         SaveInFlight, RemoveInFlight, PassedIsMoved, AckedSecretHeld, Idle
<1>2. TypeOK /\ SecretInv /\ [Next]_vars => SecretInv'
  BY SecretInvInductive
<1>3. SecretInv => AckedSecretHeld
  BY DEF SecretInv
<1>4. QED
  BY <1>1, <1>2, <1>3, TypeCorrect, PTL DEF Spec

(* A migration that succeeds leaves every acknowledged secret readable     *)
(* from the backend the store swapped to, whatever earlier attempts did.   *)
THEOREM SwitchDeliversAll ==
  ASSUME OneSwitcher, StartupReads
  PROVE  Spec => SwitchDelivers
<1> DEFINE Delivers == MigrateSwap => \A id \in Ids :
             ackSecret[id] \in Secrets => vault'[mode'][id] = ackSecret[id]
<1>1. Init => SecretInv
  BY SentinelAssumption
     DEF Init, SecretInv, ModePersisted, TargetIsOther, AckedSecretIsListed,
         SaveInFlight, RemoveInFlight, PassedIsMoved, AckedSecretHeld, Idle
<1>2. TypeOK /\ SecretInv /\ [Next]_vars => SecretInv'
  BY SecretInvInductive
<1>3. TypeOK /\ SecretInv => Delivers
  BY SentinelAssumption
     DEF TypeOK, SecretInv, TargetIsOther, AckedSecretIsListed, PassedIsMoved,
         AckedSecretHeld, MigrateSwap, Saved, Other, Backends
<1>4. TypeOK /\ SecretInv /\ [Next]_vars => [Delivers]_vars
  BY <1>3
<1>5. QED
  BY <1>1, <1>2, <1>4, TypeCorrect, PTL DEF Spec, SwitchDelivers

=============================================================================
