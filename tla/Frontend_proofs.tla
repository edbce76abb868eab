--------------------------- MODULE Frontend_proofs ---------------------------
(***************************************************************************)
(* Proofs about the page's sessions and tabs (Workbench) and about a file  *)
(* manager panel (FileManager), for any hosts, devices, users, directories *)
(* and bounds.                                                             *)
(*                                                                         *)
(* Workbench: its types, that what the page shows exists, that one scan    *)
(* runs at a time, and that no step touches the panels of a session it is  *)
(* not about.  FileManager: that no SSH session is left behind, that the   *)
(* panel cannot be left loading, and that listings come in order.          *)
(***************************************************************************)
EXTENDS Workbench, FileManager, FiniteSetTheorems, WellFoundedInduction, TLAPS

-----------------------------------------------------------------------------
(* A set of numbers up to n has a least and a greatest element: what       *)
(* Neighbour chooses exists.                                               *)
LEMMA LeastExists ==
  ASSUME NEW n \in Nat, NEW S \in SUBSET (1 .. n), S # {}
  PROVE  \E j \in S : \A k \in S : j <= k
<1> DEFINE R == StrictSubsetOrdering(1 .. n)
           T == {1 .. j : j \in S}
<1>1. IsWellFoundedOn(R, SUBSET (1 .. n))
  <2>1. IsFiniteSet(1 .. n)
    BY FS_Interval
  <2> QED
    BY <2>1, FS_FiniteSubsetsOfFinite, FS_StrictSubsetOrderingWellFounded
<1>2. T \subseteq SUBSET (1 .. n) /\ T # {}
  <2>1. \A j \in S : 1 .. j \in SUBSET (1 .. n)
    OBVIOUS
  <2> QED
    BY <2>1
<1>3. \E x \in T : \A y \in T : <<y, x>> \notin R
  BY <1>1, <1>2, WFMin
<1>4. PICK j \in S : \A k \in S : <<1 .. k, 1 .. j>> \notin R
  BY <1>3
<1>5. ASSUME NEW k \in S, k < j PROVE FALSE
  <2>1. 1 .. k \in SUBSET (1 .. n) /\ 1 .. j \in SUBSET (1 .. n)
    OBVIOUS
  <2>2. 1 .. k \subseteq 1 .. j /\ j \in 1 .. j /\ j \notin 1 .. k
    BY <1>5
  <2>3. <<1 .. k, 1 .. j>> \in R
    BY <2>1, <2>2 DEF StrictSubsetOrdering
  <2> QED
    BY <1>4, <2>3
<1> QED
  BY <1>5

LEMMA GreatestExists ==
  ASSUME NEW n \in Nat, NEW S \in SUBSET (1 .. n), S # {}
  PROVE  \E j \in S : \A k \in S : k <= j
<1> DEFINE T == {n + 1 - k : k \in S}
<1>1. T \in SUBSET (1 .. n) /\ T # {}
  <2>1. \A k \in S : n + 1 - k \in 1 .. n
    OBVIOUS
  <2> QED
    BY <2>1
<1>2. PICK m \in T : \A k \in T : m <= k
  <2> HIDE DEF T
  <2> QED
    BY <1>1, LeastExists
<1>3. PICK j \in S : m = n + 1 - j
  OBVIOUS
<1>4. \A k \in S : n + 1 - j <= n + 1 - k
  BY <1>2, <1>3
<1> QED
  BY <1>4

(* The neighbour of a closed session is one of the rest.                   *)
LEMMA NeighbourIsLeft ==
  ASSUME NEW n \in Nat, NEW rest \in SUBSET (1 .. n), NEW i \in 1 .. n, rest # {}
  PROVE  Neighbour(i, rest) \in rest
<1> DEFINE after == {j \in rest : j > i}
<1>1. CASE after # {}
  <2>1. after \in SUBSET (1 .. n)
    OBVIOUS
  <2>2. \E j \in after : \A k \in after : j <= k
    <3> HIDE DEF after
    <3> QED
      BY <1>1, <2>1, LeastExists
  <2>3. (CHOOSE j \in after : \A k \in after : j <= k) \in after
    <3> HIDE DEF after
    <3> QED
      BY <2>2
  <2> QED
    BY <1>1, <2>3 DEF Neighbour
<1>2. CASE after = {}
  <2>1. \E j \in rest : \A k \in rest : k <= j
    BY GreatestExists
  <2>2. (CHOOSE j \in rest : \A k \in rest : k <= j) \in rest
    BY <2>1
  <2> QED
    BY <1>2, <2>2 DEF Neighbour
<1> QED
  BY <1>1, <1>2

-----------------------------------------------------------------------------
(* The invariant, by part of the state.                                    *)

(* A session record shows a tab it has, and mounts no other panels.        *)
Sound(s) ==
  /\ s \in SessionRecord
  /\ s.mounted \subseteq s.tabs
  /\ IF s.tabs = {} THEN s.activeTab = "none" ELSE s.activeTab \in s.mounted

SessionsOK ==
  /\ sessionSeq \in Nat
  /\ Live \subseteq 1 .. sessionSeq
  /\ sessions = [i \in Live |-> sessions[i]]
  /\ \A i \in Live : Sound(sessions[i])
  /\ IF Live = {} THEN activeSessionId = 0 ELSE activeSessionId \in Live

FormOK ==
  /\ targetAddress \in Hosts \cup {NoHost}
  /\ selected \subseteq Protocols

ScanOK ==
  /\ scans \subseteq Hosts
  /\ scanning \in BOOLEAN
  /\ scanReport \in Hosts \cup {NoHost}
  /\ OneScan

ViewOK ==
  /\ activeView \in {"sessions", "devices"}
  /\ paletteOpen \in BOOLEAN
  /\ newConnectionOpen \in BOOLEAN
  /\ credsOpen \in BOOLEAN

CallsOK == calls \in [1 .. MaxCalls -> Calls]

PageOK == FormOK /\ ScanOK /\ ViewOK /\ CallsOK

-----------------------------------------------------------------------------
(* What the operations do to the sessions.                                 *)
LEMMA FirstTabIsThere ==
  ASSUME NEW tabs \in SUBSET TabKinds
  PROVE  IF tabs = {} THEN FirstTab(tabs) = "none" ELSE FirstTab(tabs) \in tabs
BY DEF FirstTab, TabKinds

LEMMA LastTabIsThere ==
  ASSUME NEW tabs \in SUBSET TabKinds, tabs # {}
  PROVE  LastTab(tabs) \in tabs
BY DEF LastTab, TabKinds

LEMMA NewSessionIsSound ==
  ASSUME NEW target \in Hosts \cup {NoHost}, NEW user \in Users,
         NEW ps \in SUBSET Protocols, NEW saved \in Devices \cup {NoDevice}
  PROVE  Sound(NewSession(target, user, ps, saved))
<1> DEFINE tabs == TabsForProtocols(ps)
           top == FirstTab(tabs)
           s == [target |-> target, user |-> user, savedId |-> saved, tabs |-> tabs,
                 activeTab |-> top, mounted |-> {}]
<1>1. tabs \in SUBSET TabKinds
  BY DEF TabsForProtocols, TabKinds
<1>2. IF tabs = {} THEN top = "none" ELSE top \in tabs
  <2> HIDE DEF tabs
  <2> QED
    BY <1>1, FirstTabIsThere
<1>3. Mount(s) = [target |-> target, user |-> user, savedId |-> saved, tabs |-> tabs,
                  activeTab |-> top, mounted |-> {top} \cap tabs]
  <2> HIDE DEF tabs, top
  <2> QED
    BY DEF Mount
<1>4. Sound(Mount(s))
  <2> HIDE DEF tabs, top
  <2>1. top \in TabKinds \cup {"none"}
    BY <1>1, <1>2
  <2> QED
    BY <1>1, <1>2, <1>3, <2>1 DEF Sound, SessionRecord
<1> QED
  BY <1>4 DEF NewSession

(* A tab brought to the top is mounted; nothing else of the record moves.  *)
LEMMA MountIsSound ==
  ASSUME NEW s, Sound(s), NEW left \in SUBSET s.tabs, NEW tab \in left
  PROVE  LET m == Mount([s EXCEPT !.tabs = left, !.activeTab = tab])
         IN Sound(m) /\ m.mounted = (s.mounted \cup {tab}) \cap left
BY DEF Mount, Sound, SessionRecord

LEMMA TabsOfSound ==
  ASSUME NEW s, Sound(s)
  PROVE  s.tabs \in SUBSET TabKinds
BY DEF Sound, SessionRecord

LEMMA AddSessionKeeps ==
  ASSUME SessionsOK, NEW s, Sound(s), AddSession(s)
  PROVE  SessionsOK' /\ Untouched
<1>1. /\ sessionSeq' = sessionSeq + 1
      /\ Live' = Live \cup {sessionSeq + 1}
      /\ sessionSeq + 1 \notin Live
      /\ \A i \in Live : sessions'[i] = sessions[i]
      /\ sessions'[sessionSeq + 1] = s
      /\ activeSessionId' \in Live'
      /\ sessions' = [i \in Live' |-> sessions'[i]]
  BY DEF AddSession, SessionsOK, Live
<1>2. SessionsOK'
  <2>1. sessionSeq' \in Nat /\ Live' \subseteq 1 .. sessionSeq'
    BY <1>1 DEF SessionsOK
  <2>2. \A i \in Live' : Sound(sessions'[i])
    BY <1>1 DEF SessionsOK
  <2> QED
    BY <1>1, <2>1, <2>2 DEF SessionsOK
<1>3. Untouched
  BY <1>1 DEF Untouched
<1> QED
  BY <1>2, <1>3

LEMMA SwitchKeeps ==
  ASSUME SessionsOK, NEW i, SetActiveSession(i)
  PROVE  SessionsOK' /\ Untouched
<1>1. i \in Live /\ activeSessionId' = i /\ UNCHANGED <<sessions, sessionSeq, Live>>
  BY DEF SetActiveSession, Live
<1> QED
  BY <1>1 DEF SessionsOK, Untouched

LEMMA CloseSessionKeeps ==
  ASSUME SessionsOK, NEW i, CloseSession(i)
  PROVE  SessionsOK' /\ Untouched
<1> DEFINE rest == Live \ {i}
<1>1. /\ i \in Live
      /\ sessionSeq' = sessionSeq
      /\ Live' = rest
      /\ \A j \in rest : sessions'[j] = sessions[j]
      /\ sessions' = [j \in Live' |-> sessions'[j]]
      /\ activeSessionId' = IF activeSessionId = i THEN Neighbour(i, rest) ELSE activeSessionId
  BY DEF CloseSession, Live
<1>2. IF rest = {} THEN activeSessionId' = 0 ELSE activeSessionId' \in rest
  <2>1. CASE rest = {}
    <3>1. activeSessionId = i
      BY <1>1, <2>1 DEF SessionsOK
    <3> QED
      BY <1>1, <2>1, <3>1 DEF Neighbour
  <2>2. CASE rest # {}
    <3>1. sessionSeq \in Nat /\ rest \in SUBSET (1 .. sessionSeq) /\ i \in 1 .. sessionSeq
      BY <1>1 DEF SessionsOK
    <3>2. Neighbour(i, rest) \in rest
      <4> HIDE DEF rest
      <4> QED
        BY <2>2, <3>1, NeighbourIsLeft
    <3>3. activeSessionId \in Live
      BY <1>1 DEF SessionsOK
    <3> QED
      BY <1>1, <2>2, <3>2, <3>3
  <2> QED
    BY <2>1, <2>2
<1>3. SessionsOK'
  BY <1>1, <1>2 DEF SessionsOK
<1>4. Untouched
  BY <1>1 DEF Untouched
<1> QED
  BY <1>3, <1>4

(* The active session's record is replaced by one that keeps its panels,   *)
(* or all but the closed tab's.                                            *)
LEMMA ReplaceActiveKeeps ==
  ASSUME SessionsOK, activeSessionId \in Live, NEW m, Sound(m),
         sessions' = [sessions EXCEPT ![activeSessionId] = m],
         UNCHANGED <<sessionSeq, activeSessionId>>
  PROVE  SessionsOK' /\ Untouched
<1>1. /\ Live' = Live
      /\ \A i \in Live : i # activeSessionId => sessions'[i] = sessions[i]
      /\ sessions'[activeSessionId] = m
      /\ sessions' = [i \in Live' |-> sessions'[i]]
  BY DEF SessionsOK, Live
<1>2. SessionsOK'
  BY <1>1 DEF SessionsOK
<1>3. Untouched
  BY <1>1 DEF Untouched
<1> QED
  BY <1>2, <1>3

LEMMA SetActiveTabKeeps ==
  ASSUME SessionsOK, activeSessionId \in Live, NEW tab \in Active.tabs, SetActiveTab(tab)
  PROVE  SessionsOK' /\ Untouched
<1> DEFINE m == Mount([Active EXCEPT !.tabs = Active.tabs, !.activeTab = tab])
<1>1. Sound(Active)
  BY DEF SessionsOK, Active
<1>2. Sound(m)
  BY <1>1, MountIsSound
<1>3. [Active EXCEPT !.tabs = Active.tabs, !.activeTab = tab] = [Active EXCEPT !.activeTab = tab]
  BY <1>1 DEF Sound, SessionRecord
<1>4. sessions' = [sessions EXCEPT ![activeSessionId] = m]
  BY <1>3 DEF SetActiveTab
<1> QED
  <2> HIDE DEF m
  <2> QED
    BY <1>2, <1>4, ReplaceActiveKeeps DEF SetActiveTab

LEMMA CloseTabKeeps ==
  ASSUME SessionsOK, NEW tab, CloseTab(tab)
  PROVE  SessionsOK' /\ Untouched
<1> DEFINE left == Active.tabs \ {tab}
           top == IF Active.activeTab = tab THEN LastTab(left) ELSE Active.activeTab
           m == Mount([Active EXCEPT !.tabs = left, !.activeTab = top])
<1>1. activeSessionId \in Live /\ Sound(Active)
  BY DEF CloseTab, SessionsOK, Active
<1>2. CASE left = {}
  BY <1>2, CloseSessionKeeps DEF CloseTab
<1>3. CASE left # {}
  <2>1. left \in SUBSET TabKinds
    BY <1>1, TabsOfSound
  <2>2. LastTab(left) \in left
    <3> HIDE DEF left
    <3> QED
      BY <1>3, <2>1, LastTabIsThere
  <2>3. Active.activeTab \in Active.tabs
    BY <1>1, <1>3 DEF Sound
  <2>4. top \in left
    BY <2>2, <2>3
  <2>5. Sound(m)
    <3> HIDE DEF top
    <3> QED
      BY <1>1, <2>4, MountIsSound
  <2>6. sessions' = [sessions EXCEPT ![activeSessionId] = m] /\ UNCHANGED <<sessionSeq, activeSessionId>>
    BY <1>3 DEF CloseTab
  <2> QED
    <3> HIDE DEF m
    <3> QED
      BY <1>1, <2>5, <2>6, ReplaceActiveKeeps
<1> QED
  BY <1>2, <1>3

LEMMA IdleSessionsKeep ==
  ASSUME SessionsOK, UNCHANGED sessionVars
  PROVE  SessionsOK' /\ Untouched
BY DEF SessionsOK, Untouched, sessionVars, Live

-----------------------------------------------------------------------------
(* What the operations do to the rest of the page.                         *)
LEMMA StartScanKeeps ==
  ASSUME ScanOK, selected \subseteq Protocols, NEW host \in Hosts \cup {NoHost},
         StartScan(host)
  PROVE  ScanOK' /\ selected' \subseteq Protocols
BY DEF ScanOK, OneScan, StartScan, scanVars

LEMMA IdleScanKeeps ==
  ASSUME ScanOK, UNCHANGED scanVars
  PROVE  ScanOK'
BY DEF ScanOK, OneScan, scanVars

LEMMA IssueKeeps ==
  ASSUME CallsOK, NEW c \in Calls, Issue(c)
  PROVE  CallsOK'
BY DEF CallsOK, Issue

LEMMA AnsweredKeeps ==
  ASSUME CallsOK, NEW n \in 1 .. MaxCalls, Answered(n)
  PROVE  CallsOK'
BY DEF CallsOK, Answered, Calls

LEMMA ConnectKeeps ==
  ASSUME CallsOK, NEW d \in Devices, NEW ps \in SUBSET Protocols,
         NEW by \in {"hook", "dialog"}, Connect(d, ps, by)
  PROVE  CallsOK'
<1>1. [call |-> by, device |-> d, protocols |-> ps] \in Calls
  BY DEF Calls
<1> QED
  BY <1>1, IssueKeeps DEF Connect

LEMMA BeginSessionKeeps ==
  ASSUME SessionsOK, FormOK, NEW user \in Users, BeginSession(user)
  PROVE  SessionsOK' /\ Untouched
<1>1. Sound(NewSession(targetAddress, user, selected, NoDevice))
  BY NewSessionIsSound DEF FormOK
<1> QED
  BY <1>1, AddSessionKeeps DEF BeginSession

LEMMA EntryType ==
  ASSUME NEW d \in Devices
  PROVE  /\ Entry[d].host \in Hosts
         /\ Entry[d].user \in Users
         /\ Entry[d].protocols \in SUBSET Protocols
BY WorkbenchAssumption

LEMMA BeginSavedSessionKeeps ==
  ASSUME SessionsOK, FormOK, ScanOK, NEW d \in Devices, NEW ps \in SUBSET Protocols,
         BeginSavedSession(d, ps)
  PROVE  SessionsOK' /\ Untouched /\ FormOK' /\ ScanOK'
<1>1. Sound(NewSession(Entry[d].host, Entry[d].user, ps, d))
  BY EntryType, NewSessionIsSound
<1>2. SessionsOK' /\ Untouched
  BY <1>1, AddSessionKeeps DEF BeginSavedSession
<1>3. FormOK'
  BY EntryType DEF BeginSavedSession, FormOK
<1>4. ScanOK'
  BY IdleScanKeeps DEF BeginSavedSession
<1> QED
  BY <1>2, <1>3, <1>4

LEMMA IdleFormKeeps ==
  ASSUME FormOK, ScanOK, UNCHANGED formVars
  PROVE  FormOK' /\ ScanOK'
BY IdleScanKeeps DEF FormOK, formVars, scanVars

LEMMA CloseFormKeeps ==
  ASSUME FormOK, ScanOK, NEW i, CloseSession(i)
  PROVE  FormOK' /\ ScanOK'
BY IdleScanKeeps DEF FormOK, CloseSession

LEMMA CloseTabFormKeeps ==
  ASSUME FormOK, ScanOK, NEW tab, CloseTab(tab)
  PROVE  FormOK' /\ ScanOK'
BY CloseFormKeeps, IdleFormKeeps DEF CloseTab

LEMMA ConnectOrSwitchKeeps ==
  ASSUME SessionsOK, FormOK, ScanOK, CallsOK, NEW d \in Devices, ConnectOrSwitch(d)
  PROVE  /\ SessionsOK' /\ Untouched
         /\ FormOK' /\ ScanOK' /\ CallsOK'
         /\ UNCHANGED <<newConnectionOpen, credsOpen>>
<1> DEFINE live == LiveSessionFor(d)
<1>1. CASE live # 0
  <2>1. SwitchTo(live)
    BY <1>1 DEF ConnectOrSwitch
  <2> QED
    BY <2>1, SwitchKeeps, IdleFormKeeps DEF SwitchTo, CallsOK
<1>2. CASE live = 0
  <2>1. /\ Connect(d, Entry[d].protocols, "hook")
        /\ UNCHANGED <<formVars, sessionVars, newConnectionOpen, credsOpen>>
    BY <1>2 DEF ConnectOrSwitch
  <2>2. CallsOK'
    BY <2>1, EntryType, ConnectKeeps
  <2> QED
    BY <2>1, <2>2, IdleFormKeeps, IdleSessionsKeep
<1> QED
  BY <1>1, <1>2

-----------------------------------------------------------------------------
(* The steps, one lemma per component.                                     *)
Kept == SessionsOK' /\ PageOK' /\ Untouched

LEMMA WelcomePanelKeeps == SessionsOK /\ PageOK /\ WelcomePanel => Kept
<1> SUFFICES ASSUME SessionsOK, PageOK, WelcomePanel PROVE Kept
  OBVIOUS
<1> USE DEF PageOK, Kept
<1>1. ASSUME NEW host \in Hosts \cup {NoHost}, TypeTarget(host) PROVE Kept
  <2>1. FormOK' /\ ViewOK' /\ CallsOK'
    BY <1>1 DEF TypeTarget, FormOK, ViewOK, dialogVars, CallsOK
  <2> QED
    BY <1>1, <2>1, IdleScanKeeps, IdleSessionsKeep DEF TypeTarget
<1>2. ASSUME NEW d \in Devices, Connect(d, Entry[d].protocols, "hook"),
             UNCHANGED <<formVars, sessionVars, activeView, dialogVars>>
      PROVE  Kept
  <2>1. CallsOK'
    BY <1>2, EntryType, ConnectKeeps
  <2>2. ViewOK'
    BY <1>2 DEF ViewOK, dialogVars
  <2> QED
    BY <1>2, <2>1, <2>2, IdleFormKeeps, IdleSessionsKeep
<1>3. ASSUME StartScan(targetAddress), newConnectionOpen' = TRUE,
             UNCHANGED <<targetAddress, sessionVars, activeView, paletteOpen, credsOpen, calls>>
      PROVE  Kept
  <2>1. ScanOK' /\ selected' \subseteq Protocols
    BY <1>3, StartScanKeeps DEF FormOK
  <2>2. FormOK' /\ ViewOK' /\ CallsOK'
    BY <1>3, <2>1 DEF FormOK, ViewOK, CallsOK
  <2> QED
    BY <1>3, <2>1, <2>2, IdleSessionsKeep
<1> QED
  BY <1>1, <1>2, <1>3 DEF WelcomePanel

LEMMA RailKeeps == SessionsOK /\ PageOK /\ Rail => Kept
<1> SUFFICES ASSUME SessionsOK, PageOK, Rail PROVE Kept
  OBVIOUS
<1> USE DEF PageOK, Kept
<1>0. UNCHANGED <<activeView, paletteOpen>>
  BY DEF Rail
<1>1. ASSUME NEW i \in Live, SwitchTo(i) PROVE Kept
  <2>1. ViewOK' /\ CallsOK'
    BY <1>0, <1>1 DEF SwitchTo, ViewOK, CallsOK
  <2> QED
    BY <1>1, <2>1, SwitchKeeps, IdleFormKeeps DEF SwitchTo
<1>2. ASSUME NEW i \in Live, CloseSession(i), UNCHANGED <<newConnectionOpen, credsOpen, calls>>
      PROVE  Kept
  <2>1. ViewOK' /\ CallsOK'
    BY <1>0, <1>2 DEF ViewOK, CallsOK
  <2> QED
    BY <1>2, <2>1, CloseSessionKeeps, CloseFormKeeps
<1>3. ASSUME NEW d \in Devices, ConnectOrSwitch(d) PROVE Kept
  <2>1. ViewOK'
    BY <1>0, <1>3, ConnectOrSwitchKeeps DEF ViewOK
  <2> QED
    BY <1>3, <2>1, ConnectOrSwitchKeeps
<1>4. ASSUME NEW d \in Devices, Connect(d, Entry[d].protocols, "hook"),
             UNCHANGED <<formVars, sessionVars, newConnectionOpen, credsOpen>>
      PROVE  Kept
  <2>1. CallsOK'
    BY <1>4, EntryType, ConnectKeeps
  <2>2. ViewOK'
    BY <1>0, <1>4 DEF ViewOK
  <2> QED
    BY <1>4, <2>1, <2>2, IdleFormKeeps, IdleSessionsKeep
<1> QED
  BY <1>1, <1>2, <1>3, <1>4 DEF Rail

LEMMA DevicesViewKeeps == SessionsOK /\ PageOK /\ DevicesView => Kept
<1> SUFFICES ASSUME SessionsOK, PageOK, DevicesView PROVE Kept
  OBVIOUS
<1> USE DEF PageOK, Kept
<1>1. /\ UNCHANGED <<formVars, sessionVars, activeView, paletteOpen, credsOpen>>
      /\ newConnectionOpen' \in {TRUE, newConnectionOpen}
  BY DEF DevicesView
<1>2. ViewOK'
  BY <1>1 DEF ViewOK
<1>3. CallsOK'
  <2>1. CASE UNCHANGED calls
    BY <2>1 DEF CallsOK
  <2>2. ASSUME NEW d \in Devices,
               NEW ps \in {Entry[d].protocols} \cup {{p} : p \in Entry[d].protocols},
               Connect(d, ps, "hook")
        PROVE  CallsOK'
    <3>1. ps \in SUBSET Protocols
      BY EntryType
    <3> QED
      BY <2>2, <3>1, ConnectKeeps
  <2> QED
    BY <2>1, <2>2 DEF DevicesView
<1> QED
  BY <1>1, <1>2, <1>3, IdleFormKeeps, IdleSessionsKeep

LEMMA StageKeeps ==
  SessionsOK /\ PageOK /\ (SessionPane \/ Disconnect \/ ActivityBar) => Kept
<1> SUFFICES ASSUME SessionsOK, PageOK, SessionPane \/ Disconnect \/ ActivityBar PROVE Kept
  OBVIOUS
<1> USE DEF PageOK, Kept
<1>1. CASE SessionPane
  <2>1. ViewOK' /\ CallsOK' /\ activeSessionId \in Live
    BY <1>1 DEF SessionPane, ViewOK, dialogVars, CallsOK, SessionsOK
  <2>2. ASSUME NEW tab \in Active.tabs, SetActiveTab(tab), UNCHANGED formVars
        PROVE  Kept
    BY <2>1, <2>2, SetActiveTabKeeps, IdleFormKeeps
  <2>3. ASSUME NEW tab \in Active.tabs, CloseTab(tab) PROVE Kept
    BY <2>1, <2>3, CloseTabKeeps, CloseTabFormKeeps
  <2> QED
    BY <1>1, <2>2, <2>3 DEF SessionPane
<1>2. CASE Disconnect
  <2>1. ViewOK' /\ CallsOK'
    BY <1>2 DEF Disconnect, ViewOK, dialogVars, CallsOK
  <2> QED
    BY <1>2, <2>1, CloseSessionKeeps, CloseFormKeeps DEF Disconnect
<1>3. CASE ActivityBar
  <2>1. ViewOK' /\ CallsOK'
    BY <1>3 DEF ActivityBar, ViewOK, CallsOK
  <2> QED
    BY <1>3, <2>1, IdleFormKeeps, IdleSessionsKeep DEF ActivityBar
<1> QED
  BY <1>1, <1>2, <1>3

LEMMA CommandPaletteKeeps == SessionsOK /\ PageOK /\ CommandPalette => Kept
<1> SUFFICES ASSUME SessionsOK, PageOK, CommandPalette PROVE Kept
  OBVIOUS
<1> USE DEF PageOK, Kept
<1>0. paletteOpen' = FALSE
  BY DEF CommandPalette
<1>1. ASSUME NEW host \in Hosts, targetAddress' = host, StartScan(host), newConnectionOpen' = TRUE,
             UNCHANGED <<sessionVars, activeView, credsOpen, calls>>
      PROVE  Kept
  <2>1. ScanOK' /\ selected' \subseteq Protocols
    BY <1>1, StartScanKeeps DEF FormOK
  <2>2. FormOK' /\ ViewOK' /\ CallsOK'
    BY <1>0, <1>1, <2>1 DEF FormOK, ViewOK, CallsOK
  <2> QED
    BY <1>1, <2>1, <2>2, IdleSessionsKeep
<1>2. ASSUME NEW i \in Live, SwitchTo(i), activeView' = "sessions" PROVE Kept
  <2>1. ViewOK' /\ CallsOK'
    BY <1>0, <1>2 DEF SwitchTo, ViewOK, CallsOK
  <2> QED
    BY <1>2, <2>1, SwitchKeeps, IdleFormKeeps DEF SwitchTo
<1>3. ASSUME NEW d \in Devices, ConnectOrSwitch(d), activeView' \in {"sessions",
             activeView}
      PROVE  Kept
  <2>1. ViewOK'
    BY <1>0, <1>3, ConnectOrSwitchKeeps DEF ViewOK
  <2> QED
    BY <1>3, <2>1, ConnectOrSwitchKeeps
<1>4. ASSUME newConnectionOpen' \in {TRUE, newConnectionOpen},
             UNCHANGED <<formVars, sessionVars, activeView, credsOpen, calls>>
      PROVE  Kept
  <2>1. ViewOK' /\ CallsOK'
    BY <1>0, <1>4 DEF ViewOK, CallsOK
  <2> QED
    BY <1>4, <2>1, IdleFormKeeps, IdleSessionsKeep
<1> QED
  BY <1>1, <1>2, <1>3, <1>4 DEF CommandPalette

LEMMA ShortcutsKeep == SessionsOK /\ PageOK /\ Shortcuts => Kept
<1> SUFFICES ASSUME SessionsOK, PageOK, Shortcuts PROVE Kept
  OBVIOUS
<1> USE DEF PageOK, Kept
<1>1. ViewOK' /\ CallsOK'
  BY DEF Shortcuts, SwitchTo, ViewOK, CallsOK
<1>2. CASE UNCHANGED <<formVars, sessionVars>>
  BY <1>1, <1>2, IdleFormKeeps, IdleSessionsKeep
<1>3. CASE CloseTab(Active.activeTab)
  BY <1>1, <1>3, CloseTabKeeps, CloseTabFormKeeps
<1>4. ASSUME NEW i \in Live, SwitchTo(i) PROVE Kept
  BY <1>1, <1>4, SwitchKeeps, IdleFormKeeps DEF SwitchTo
<1> QED
  BY <1>2, <1>3, <1>4 DEF Shortcuts

LEMMA NewConnectionModalKeeps == SessionsOK /\ PageOK /\ NewConnectionModal => Kept
<1> SUFFICES ASSUME SessionsOK, PageOK, NewConnectionModal PROVE Kept
  OBVIOUS
<1> USE DEF PageOK, Kept
<1>0. UNCHANGED <<sessionVars, activeView, paletteOpen>> /\ SessionsOK' /\ Untouched
  BY IdleSessionsKeep DEF NewConnectionModal
<1>1. ASSUME NEW host \in Hosts \cup {NoHost}, TypeTarget(host) PROVE Kept
  <2>1. FormOK' /\ ViewOK' /\ CallsOK'
    BY <1>1 DEF TypeTarget, FormOK, ViewOK, dialogVars, CallsOK
  <2> QED
    BY <1>0, <1>1, <2>1, IdleScanKeeps DEF TypeTarget
<1>2. ASSUME StartScan(targetAddress), UNCHANGED <<targetAddress, newConnectionOpen, credsOpen, calls>>
      PROVE  Kept
  <2>1. ScanOK' /\ selected' \subseteq Protocols
    BY <1>2, StartScanKeeps DEF FormOK
  <2>2. FormOK' /\ ViewOK' /\ CallsOK'
    BY <1>0, <1>2, <2>1 DEF FormOK, ViewOK, CallsOK
  <2> QED
    BY <1>0, <2>1, <2>2
<1>3. ASSUME NEW p \in Protocols, ToggleProtocol(p) PROVE Kept
  <2>1. FormOK' /\ ViewOK' /\ CallsOK'
    BY <1>0, <1>3 DEF ToggleProtocol, FormOK, ViewOK, CallsOK
  <2> QED
    BY <1>0, <1>3, <2>1, IdleScanKeeps DEF ToggleProtocol
<1>4. ASSUME NEW d \in Devices, Connect(d, Entry[d].protocols, "dialog"),
             UNCHANGED <<formVars, newConnectionOpen, credsOpen>>
      PROVE  Kept
  <2>1. CallsOK'
    BY <1>4, EntryType, ConnectKeeps
  <2>2. ViewOK'
    BY <1>0, <1>4 DEF ViewOK
  <2> QED
    BY <1>0, <1>4, <2>1, <2>2, IdleFormKeeps
<1>5. ASSUME newConnectionOpen' \in BOOLEAN, credsOpen' \in BOOLEAN, UNCHANGED <<formVars, calls>>
      PROVE  Kept
  <2>1. ViewOK' /\ CallsOK'
    BY <1>0, <1>5 DEF ViewOK, CallsOK
  <2> QED
    BY <1>0, <1>5, <2>1, IdleFormKeeps
<1>6. newConnectionOpen \in BOOLEAN /\ credsOpen \in BOOLEAN
  BY DEF ViewOK
<1> QED
  BY <1>1, <1>2, <1>3, <1>4, <1>5, <1>6 DEF NewConnectionModal

LEMMA CredentialsModalKeeps == SessionsOK /\ PageOK /\ CredentialsModal => Kept
<1> SUFFICES ASSUME SessionsOK, PageOK, CredentialsModal PROVE Kept
  OBVIOUS
<1> USE DEF PageOK, Kept
<1>0. /\ UNCHANGED <<formVars, activeView, paletteOpen>> /\ credsOpen' = FALSE
      /\ FormOK' /\ ScanOK'
  BY IdleFormKeeps DEF CredentialsModal
<1>1. CASE UNCHANGED <<sessionVars, newConnectionOpen, calls>>
  <2>1. ViewOK' /\ CallsOK'
    BY <1>0, <1>1 DEF ViewOK, CallsOK
  <2> QED
    BY <1>0, <1>1, <2>1, IdleSessionsKeep
<1>2. ASSUME NEW user \in Users, newConnectionOpen' = FALSE, BeginSession(user), UNCHANGED calls
      PROVE  Kept
  <2>1. ViewOK' /\ CallsOK'
    BY <1>0, <1>2 DEF ViewOK, CallsOK
  <2> QED
    BY <1>0, <1>2, <2>1, BeginSessionKeeps
<1>3. ASSUME NEW user \in Users, newConnectionOpen' = FALSE,
             Issue([call |-> "save", user |-> user, target |-> targetAddress, protocols |-> selected]),
             UNCHANGED sessionVars
      PROVE  Kept
  <2>1. [call |-> "save", user |-> user, target |-> targetAddress, protocols |-> selected] \in Calls
    BY DEF Calls, FormOK
  <2>2. CallsOK'
    BY <1>3, <2>1, IssueKeeps
  <2>3. ViewOK'
    BY <1>0, <1>3 DEF ViewOK
  <2> QED
    BY <1>0, <1>3, <2>2, <2>3, IdleSessionsKeep
<1> QED
  BY <1>1, <1>2, <1>3 DEF CredentialsModal

LEMMA AnswersKeep ==
  SessionsOK /\ PageOK
    /\ ((\E host \in Hosts : ScanAnswered(host))
         \/ (\E n \in 1 .. MaxCalls : Fetched(n) \/ Saved(n)))
    => Kept
<1> SUFFICES ASSUME SessionsOK, PageOK,
                    \/ \E host \in Hosts : ScanAnswered(host)
                    \/ \E n \in 1 .. MaxCalls : Fetched(n) \/ Saved(n)
             PROVE  Kept
  OBVIOUS
<1> USE DEF PageOK, Kept
<1>1. ASSUME NEW host \in Hosts, ScanAnswered(host) PROVE Kept
  <2>1. FormOK' /\ ViewOK' /\ CallsOK'
    BY <1>1 DEF ScanAnswered, FormOK, ViewOK, dialogVars, CallsOK
  <2>2. ScanOK'
    BY <1>1 DEF ScanAnswered, ScanOK, OneScan
  <2> QED
    BY <1>1, <2>1, <2>2, IdleSessionsKeep DEF ScanAnswered
<1>2. ASSUME NEW n \in 1 .. MaxCalls, Fetched(n) PROVE Kept
  <2>1. CallsOK'
    BY <1>2, AnsweredKeeps DEF Fetched
  <2>2. calls[n].device \in Devices /\ calls[n].protocols \in SUBSET Protocols
    <3>1. calls[n] \in Calls /\ calls[n].call \in {"hook", "dialog"}
      BY <1>2 DEF Fetched, CallsOK
    <3> QED
      BY <3>1 DEF Calls
  <2>3. CASE /\ BeginSavedSession(calls[n].device, calls[n].protocols)
             /\ activeView' \in {"sessions", activeView}
             /\ UNCHANGED <<paletteOpen, credsOpen>>
    <3>1. ViewOK'
      BY <2>3 DEF ViewOK, BeginSavedSession
    <3> QED
      BY <2>1, <2>2, <2>3, <3>1, BeginSavedSessionKeeps
  <2>4. CASE UNCHANGED <<formVars, sessionVars, activeView, dialogVars>>
    <3>1. ViewOK'
      BY <2>4 DEF ViewOK, dialogVars
    <3> QED
      BY <2>1, <2>4, <3>1, IdleFormKeeps, IdleSessionsKeep
  <2> QED
    BY <1>2, <2>3, <2>4 DEF Fetched
<1>3. ASSUME NEW n \in 1 .. MaxCalls, Saved(n) PROVE Kept
  <2>1. CallsOK'
    BY <1>3, AnsweredKeeps DEF Saved
  <2>2. calls[n].user \in Users
    <3>1. calls[n] \in Calls /\ calls[n].call = "save"
      BY <1>3 DEF Saved, CallsOK
    <3> QED
      BY <3>1 DEF Calls
  <2>3. BeginSession(calls[n].user) /\ UNCHANGED <<paletteOpen, credsOpen>>
    BY <1>3 DEF Saved
  <2>4. ViewOK' /\ UNCHANGED formVars
    BY <2>3 DEF ViewOK, BeginSession
  <2> QED
    BY <2>1, <2>2, <2>3, <2>4, BeginSessionKeeps, IdleFormKeeps
<1> QED
  BY <1>1, <1>2, <1>3

-----------------------------------------------------------------------------
LEMMA InitOK == Init => SessionsOK /\ PageOK
<1> SUFFICES ASSUME Init PROVE SessionsOK /\ PageOK
  OBVIOUS
<1>1. SessionsOK
  BY DEF Init, SessionsOK, Live
<1>2. FormOK /\ ScanOK /\ ViewOK
  BY DEF Init, FormOK, ScanOK, OneScan, ViewOK
<1>3. CallsOK
  BY DEF Init, CallsOK, Calls
<1> QED
  BY <1>1, <1>2, <1>3 DEF PageOK

LEMMA NextKeeps == SessionsOK /\ PageOK /\ Next => Kept
BY WelcomePanelKeeps, RailKeeps, DevicesViewKeeps, StageKeeps, CommandPaletteKeeps,
   ShortcutsKeep, NewConnectionModalKeeps, CredentialsModalKeeps, AnswersKeep DEF Next

LEMMA StutterKeeps == SessionsOK /\ PageOK /\ UNCHANGED vars => SessionsOK' /\ PageOK'
<1> SUFFICES ASSUME SessionsOK, PageOK, UNCHANGED vars PROVE SessionsOK' /\ PageOK'
  OBVIOUS
<1>1. SessionsOK'
  BY IdleSessionsKeep DEF vars
<1>2. FormOK' /\ ScanOK'
  BY IdleFormKeeps DEF vars, PageOK
<1>3. ViewOK' /\ CallsOK'
  BY DEF vars, dialogVars, ViewOK, CallsOK, PageOK
<1> QED
  BY <1>1, <1>2, <1>3 DEF PageOK

LEMMA InvariantHolds == Spec => [](SessionsOK /\ PageOK)
<1>1. (SessionsOK /\ PageOK) /\ [Next]_vars => (SessionsOK /\ PageOK)'
  BY NextKeeps, StutterKeeps DEF Kept
<1> QED
  BY <1>1, InitOK, PTL DEF Spec

(* Every variable has its type, for any instance.                          *)
THEOREM WorkbenchTypeOK == Spec => []TypeOK
<1>1. SessionsOK /\ PageOK => TypeOK
  BY DEF SessionsOK, Sound, PageOK, FormOK, ScanOK, ViewOK, CallsOK, TypeOK
<1> QED
  BY <1>1, InvariantHolds, PTL

(* While a session lives one is active, and every session shows a tab it   *)
(* has, with its panel mounted: closeTab and closeSession always find the  *)
(* neighbour (index.ts).                                                   *)
THEOREM WorkbenchActiveIsLive == Spec => []ActiveIsLive
<1>1. SessionsOK => ActiveIsLive
  BY DEF SessionsOK, Sound, ActiveIsLive
<1> QED
  BY <1>1, InvariantHolds, PTL

(* One scan at a time, whoever asks (startScan's guard, index.ts).         *)
THEOREM WorkbenchOneScan == Spec => []OneScan
<1>1. PageOK => OneScan
  BY DEF PageOK, ScanOK
<1> QED
  BY <1>1, InvariantHolds, PTL

(* Connecting adds, closing takes from one session, and the active session *)
(* stays in front of what closes behind it.                                *)
THEOREM WorkbenchOthersUntouched == Spec => OthersUntouched
<1>1. SessionsOK /\ PageOK /\ [Next]_vars => [Untouched]_vars
  BY NextKeeps DEF Kept
<1> QED
  BY <1>1, InvariantHolds, PTL DEF Spec, OthersUntouched

-----------------------------------------------------------------------------
(* The file manager panel.                                                 *)

(* How far the runs of the effect are: they come in order, a panel on the  *)
(* page has had one, and the session reference is that of the last.        *)
RunsInOrder ==
  /\ run \in Runs /\ wanted \in run .. MaxRuns
  /\ at \in [Runs -> {"none", "connecting", "homes", "stopped"}]
  /\ \A a \in Runs : a > run => at[a] = "none"
  /\ sid \in {0, run}
  /\ ~mounted => sid = 0

(* A run has no session before it asks for one, and while it waits a       *)
(* session of it is about to be announced.                                 *)
SessionFollowsRun ==
  /\ session \in [Runs -> {"none", "alive", "closed"}]
  /\ answer \in [Runs -> {"none", "ok", "error"}]
  /\ closing \subseteq Runs
  /\ \A a \in Runs : session[a] = "alive" =>
       at[a] # "none" /\ (at[a] = "connecting" => answer[a] = "ok")

FilesInv == RunsInOrder /\ SessionFollowsRun /\ NoSessionLeaked

(* The first run of the effect is under way when the panel appears.        *)
LEMMA FilesInvInit ==
  ASSUME FilesInit PROVE FilesInv
<1>1. RunsInOrder /\ SessionFollowsRun /\ NoSessionLeaked
  BY BoundsAssumption
     DEF FilesInit, Runs, RunsInOrder, SessionFollowsRun, NoSessionLeaked
<1> QED
  BY <1>1 DEF FilesInv

(* A run of the effect, and the end of the panel: the cleanup closes the   *)
(* session that the reference names.                                       *)
LEMMA FilesInvKeptByEffect ==
  ASSUME FilesInv, AskForRerun \/ Rerun \/ Unmount PROVE FilesInv'
<1> USE BoundsAssumption DEF Runs
<1>1. RunsInOrder /\ SessionFollowsRun /\ NoSessionLeaked
  BY DEF FilesInv
<1>2. CASE AskForRerun
  BY <1>1, <1>2
     DEF AskForRerun, FilesInv, RunsInOrder, SessionFollowsRun, NoSessionLeaked
<1>3. CASE Rerun
  <2>1. /\ run' = run + 1 /\ run' \in Runs /\ wanted' = wanted /\ mounted' = mounted
        /\ mounted /\ wanted > run
        /\ at' = [at EXCEPT ![run + 1] = "connecting"] /\ at[run + 1] = "none"
        /\ sid' = 0 /\ session' = session /\ answer' = answer
        /\ closing' = IF sid = 0 THEN closing ELSE closing \cup {sid}
    BY <1>1, <1>3 DEF Rerun, Cleanup, RunsInOrder
  <2>2. RunsInOrder'
    BY <1>1, <2>1 DEF RunsInOrder
  <2>3. SessionFollowsRun'
    BY <1>1, <2>1 DEF RunsInOrder, SessionFollowsRun
  <2>4. NoSessionLeaked'
    BY <1>1, <2>1 DEF RunsInOrder, SessionFollowsRun, NoSessionLeaked
  <2> QED
    BY <2>2, <2>3, <2>4 DEF FilesInv
<1>4. CASE Unmount
  <2>1. /\ UNCHANGED <<run, wanted, at, session, answer>> /\ ~mounted' /\ sid' = 0
        /\ closing' = IF sid = 0 THEN closing ELSE closing \cup {sid}
    BY <1>4 DEF Unmount, Cleanup
  <2> QED
    BY <1>1, <2>1 DEF FilesInv, RunsInOrder, SessionFollowsRun, NoSessionLeaked
<1> QED
  BY <1>2, <1>3, <1>4

(* The answers to a run: a session that comes too late is put in closing.  *)
LEMMA FilesInvKeptByAnswers ==
  ASSUME FilesInv, NEW a \in Runs,
         Connected(a) \/ HomesKnown(a) \/ ConnectFails(a)
  PROVE  FilesInv'
<1> USE BoundsAssumption DEF Runs
<1>1. RunsInOrder /\ SessionFollowsRun /\ NoSessionLeaked
  BY DEF FilesInv
<1>2. /\ UNCHANGED <<mounted, wanted, run, session>>
      /\ answer' = [answer EXCEPT ![a] = "none"]
      /\ at[a] \in {"connecting", "homes"}
  BY DEF Connected, HomesKnown, ConnectFails, Takes
<1>3. a <= run
  BY <1>1, <1>2 DEF RunsInOrder
<1>4. CASE Connected(a)
  <2>1. at' = [at EXCEPT ![a] = IF Cancelled(a) THEN "stopped" ELSE "homes"]
    BY <1>4 DEF Connected
  <2>2. /\ Cancelled(a) => closing' = closing \cup {a} /\ sid' = sid
        /\ ~Cancelled(a) => closing' = closing /\ sid' = a /\ a = run /\ mounted
    BY <1>1, <1>3, <1>4 DEF Connected, Cancelled, RunsInOrder
  <2>3. RunsInOrder' /\ SessionFollowsRun'
    BY <1>1, <1>2, <1>3, <2>1, <2>2 DEF RunsInOrder, SessionFollowsRun
  <2>4. NoSessionLeaked'
    BY <1>1, <1>2, <2>1, <2>2 DEF RunsInOrder, SessionFollowsRun, NoSessionLeaked
  <2> QED
    BY <2>3, <2>4 DEF FilesInv
<1>5. CASE HomesKnown(a) \/ ConnectFails(a)
  <2>1. /\ at' = [at EXCEPT ![a] = "stopped"] /\ UNCHANGED <<sid, closing>>
        /\ ~(at[a] = "connecting" /\ answer[a] = "ok")
    BY <1>5 DEF HomesKnown, ConnectFails, Takes
  <2>2. RunsInOrder' /\ SessionFollowsRun'
    BY <1>1, <1>2, <1>3, <2>1 DEF RunsInOrder, SessionFollowsRun
  <2>3. NoSessionLeaked'
    BY <1>1, <1>2, <2>1 DEF RunsInOrder, SessionFollowsRun, NoSessionLeaked
  <2> QED
    BY <2>2, <2>3 DEF FilesInv
<1> QED
  BY <1>4, <1>5

(* The backend announces the sessions it opens, and ends others.           *)
LEMMA FilesInvKeptByBackend ==
  ASSUME FilesInv, NEW a \in Runs,
         Answers(a) \/ SessionDrops(a) \/ SshClose(a)
  PROVE  FilesInv'
<1> USE BoundsAssumption DEF Runs
<1>1. RunsInOrder /\ SessionFollowsRun /\ NoSessionLeaked
  BY DEF FilesInv
<1>2. UNCHANGED <<mounted, wanted, run, at, sid>>
  BY DEF Answers, SessionDrops, SshClose
<1>3. RunsInOrder'
  BY <1>1, <1>2 DEF RunsInOrder
<1>4. CASE Answers(a)
  <2>1. /\ answer[a] = "none" /\ closing' = closing
        /\ \/ /\ at[a] = "connecting" /\ session' = [session EXCEPT ![a] = "alive"]
              /\ answer' = [answer EXCEPT ![a] = "ok"]
           \/ /\ session' = session
              /\ answer' = [answer EXCEPT ![a] = answer'[a]]
              /\ answer'[a] \in {"ok", "error"}
    BY <1>1, <1>4 DEF Answers, SessionFollowsRun
  <2>2. SessionFollowsRun'
    BY <1>1, <1>2, <2>1 DEF SessionFollowsRun
  <2>3. NoSessionLeaked'
    BY <1>1, <1>2, <2>1 DEF SessionFollowsRun, NoSessionLeaked
  <2> QED
    BY <1>3, <2>2, <2>3 DEF FilesInv
<1>5. CASE SessionDrops(a) \/ SshClose(a)
  <2>1. /\ session' = [session EXCEPT ![a] = "closed"] /\ answer' = answer
        /\ closing' \in {closing, closing \ {a}}
    BY <1>5 DEF SessionDrops, SshClose
  <2>2. SessionFollowsRun'
    BY <1>1, <1>2, <2>1 DEF SessionFollowsRun
  <2>3. NoSessionLeaked'
    BY <1>1, <1>2, <2>1 DEF SessionFollowsRun, NoSessionLeaked
  <2> QED
    BY <1>3, <2>2, <2>3 DEF FilesInv
<1> QED
  BY <1>4, <1>5

(* What the user does, the queue and the answers of operations leave the   *)
(* runs and their sessions alone.                                          *)
LEMMA FilesInvKept ==
  ASSUME FilesInv, [FilesNext]_filesVars PROVE FilesInv'
<1>1. CASE UNCHANGED runVars
  BY <1>1 DEF runVars, FilesInv, RunsInOrder, SessionFollowsRun, NoSessionLeaked
<1>2. CASE Lifecycle
  BY <1>2, FilesInvKeptByEffect, FilesInvKeptByAnswers DEF Lifecycle
<1>3. CASE User
  <2>1. UNCHANGED runVars
    BY <1>3 DEF User, Navigate, StartOp, OpenDialog, CancelDialog, Upload, Download
  <2> QED
    BY <1>1, <2>1
<1>4. CASE Chain
  <2>1. UNCHANGED runVars
    BY <1>4 DEF Chain, StartTransfer, StartRefresh, EndRefresh, EndTransfer
  <2> QED
    BY <1>1, <2>1
<1>5. CASE Backend
  <2>1. ASSUME NEW r \in requests, NEW ok \in BOOLEAN, Listed(r, ok)
        PROVE  UNCHANGED runVars
    BY <2>1 DEF Listed
  <2>2. ASSUME NEW ok \in BOOLEAN, NEW delete \in BOOLEAN, EndOp(ok, delete)
        PROVE  UNCHANGED runVars
    BY <2>2 DEF EndOp
  <2> QED
    BY <1>1, <1>5, <2>1, <2>2, FilesInvKeptByBackend DEF Backend
<1> QED
  BY <1>1, <1>2, <1>3, <1>4, <1>5 DEF FilesNext, filesVars

(* No SSH session of the panel is left behind: one that the panel no       *)
(* longer uses is being closed, however late its announcement came.        *)
THEOREM FilesNoLeak == FilesSpec => []NoSessionLeaked
<1>1. FilesInv => NoSessionLeaked
  BY DEF FilesInv
<1> QED
  BY <1>1, FilesInvInit, FilesInvKept, PTL DEF FilesSpec

-----------------------------------------------------------------------------
(* Requests are numbered as they are made and answered once; what is shown *)
(* is no longer asked for.                                                 *)
RequestsNumbered ==
  /\ req \in Nat
  /\ \A r \in requests : r.req \in 1 .. req /\ (shown # None => r.req # shown.req)
  /\ \A r, s \in requests : r.req = s.req => r = s
  /\ shown # None => shown.req \in 1 .. req

ListInv == RequestsNumbered /\ LoadingIsAwaited

(* Nothing is asked for at first.                                          *)
LEMMA ListInvInit == FilesInit => ListInv
  BY DEF FilesInit, ListInv, RequestsNumbered, LoadingIsAwaited

(* What a step can do to the listings: nothing, forget what is shown, ask  *)
(* for one more, or take an answer.                                        *)
AsksForOne ==
  \E path, on :
    /\ req' = req + 1
    /\ requests' = requests \cup {[req |-> req + 1, path |-> path, on |-> on]}
    /\ shown' = shown
Forgets == UNCHANGED <<req, requests>> /\ shown' = None /\ loading' = FALSE
TakesOne ==
  \E r \in requests :
    /\ req' = req
    /\ requests' = requests \ {r}
    /\ IF r.req = req
       THEN /\ shown' = shown \/ shown' = [path |-> r.path, on |-> r.on, req |-> r.req]
            /\ loading' = FALSE
       ELSE UNCHANGED <<shown, loading>>

(* Every step does one of these.                                           *)
LEMMA ListStep ==
  ASSUME [FilesNext]_filesVars
  PROVE  UNCHANGED listVars \/ Forgets \/ AsksForOne \/ TakesOne
<1> DEFINE Goal == UNCHANGED listVars \/ Forgets \/ AsksForOne \/ TakesOne
<1>1. ASSUME NEW path, NEW on, LoadRemote(path, on) PROVE Goal
  BY <1>1 DEF LoadRemote, AsksForOne
<1>2. CASE Lifecycle
  <2>1. CASE AskForRerun
    BY <2>1 DEF AskForRerun
  <2>2. CASE Rerun \/ Unmount
    BY <2>2 DEF Rerun, Unmount, Cleanup, Forgets
  <2>3. ASSUME NEW a \in Runs, Connected(a) \/ ConnectFails(a) PROVE Goal
    BY <2>3 DEF Connected, ConnectFails
  <2>4. ASSUME NEW a \in Runs, HomesKnown(a) PROVE Goal
    <3>1. UNCHANGED listVars \/ LoadRemote(Home, sid)
      BY <2>4 DEF HomesKnown
    <3> QED
      BY <1>1, <3>1
  <2> QED
    BY <1>2, <2>1, <2>2, <2>3, <2>4 DEF Lifecycle
<1>3. CASE User
  <2>1. ASSUME NEW path \in Dirs, Navigate(path) PROVE Goal
    BY <1>1, <2>1 DEF Navigate
  <2>2. CASE StartOp \/ OpenDialog \/ CancelDialog \/ Download \/ \E n \in Ids : Upload(n)
    BY <2>2 DEF StartOp, OpenDialog, CancelDialog, Download, Upload
  <2> QED
    BY <1>3, <2>1, <2>2 DEF User
<1>4. CASE Chain
  <2>1. CASE StartRefresh
    <3>1. UNCHANGED listVars \/ LoadRemote(shown.path, sid)
      BY <2>1 DEF StartRefresh, listVars
    <3> QED
      BY <1>1, <3>1
  <2>2. CASE StartTransfer \/ EndRefresh \/ \E ok \in BOOLEAN : EndTransfer(ok)
    BY <2>2 DEF StartTransfer, EndRefresh, EndTransfer
  <2> QED
    BY <1>4, <2>1, <2>2 DEF Chain
<1>5. CASE Backend
  <2>1. ASSUME NEW a \in Runs, Answers(a) \/ SessionDrops(a) \/ SshClose(a)
        PROVE  Goal
    BY <2>1 DEF Answers, SessionDrops, SshClose
  <2>2. ASSUME NEW r \in requests, NEW ok \in BOOLEAN, Listed(r, ok) PROVE Goal
    BY <2>2 DEF Listed, TakesOne
  <2>3. ASSUME NEW ok \in BOOLEAN, NEW delete \in BOOLEAN, EndOp(ok, delete)
        PROVE  Goal
    <3>1. UNCHANGED listVars \/ LoadRemote(op.path, sid)
      BY <2>3 DEF EndOp
    <3> QED
      BY <1>1, <3>1
  <2> QED
    BY <1>5, <2>1, <2>2, <2>3 DEF Backend
<1>6. CASE UNCHANGED filesVars
  BY <1>6 DEF filesVars
<1> QED
  BY <1>2, <1>3, <1>4, <1>5, <1>6 DEF FilesNext

(* The answer that is taken is of the last request, or changes nothing.    *)
LEMMA ListInvKept == ListInv /\ [FilesNext]_filesVars => ListInv'
<1> SUFFICES ASSUME ListInv, [FilesNext]_filesVars PROVE ListInv'
  OBVIOUS
<1> USE DEF ListInv, RequestsNumbered, LoadingIsAwaited
<1>1. None.req = 0
  BY DEF None
<1>2. CASE UNCHANGED listVars
  BY <1>2 DEF listVars
<1>3. CASE Forgets
  BY <1>3 DEF Forgets
<1>4. CASE AsksForOne
  <2>1. PICK path, on :
          /\ req' = req + 1
          /\ requests' = requests \cup {[req |-> req + 1, path |-> path, on |-> on]}
          /\ shown' = shown
    BY <1>4 DEF AsksForOne
  <2>2. RequestsNumbered'
    BY <2>1
  <2>3. \E r \in requests' : r.req = req'
    <3> DEFINE new == [req |-> req + 1, path |-> path, on |-> on]
    <3>1. new \in requests' /\ new.req = req'
      BY <2>1
    <3> QED
      BY <3>1
  <2> QED
    BY <2>2, <2>3
<1>5. CASE TakesOne
  <2>1. PICK r \in requests :
          /\ req' = req
          /\ requests' = requests \ {r}
          /\ IF r.req = req
             THEN /\ shown' = shown \/ shown' = [path |-> r.path, on |-> r.on, req |-> r.req]
                  /\ loading' = FALSE
             ELSE UNCHANGED <<shown, loading>>
    BY <1>5 DEF TakesOne
  <2>2. LoadingIsAwaited'
    BY <2>1
  <2>3. CASE shown' = shown
    BY <2>1, <2>2, <2>3
  <2>4. CASE shown' # shown
    <3>1. r.req = req /\ shown'.req = req
      BY <2>1, <2>4
    <3> QED
      BY <2>1, <2>2, <3>1
  <2> QED
    BY <2>3, <2>4
<1> QED
  BY <1>2, <1>3, <1>4, <1>5, ListStep

(* The panel shows that it loads only while the answer to its last request *)
(* is on its way: it cannot be left loading.                               *)
THEOREM FilesLoadingAwaited == FilesSpec => []LoadingIsAwaited
<1>1. ListInv => LoadingIsAwaited
  BY DEF ListInv
<1> QED
  BY <1>1, ListInvInit, ListInvKept, PTL DEF FilesSpec

(* A listing never replaces one that was asked for later.                  *)
THEOREM FilesInOrder == FilesSpec => ListingsInOrder
<1>1. ASSUME ListInv, [FilesNext]_filesVars
      PROVE  [shown # None /\ shown' # shown /\ shown' # None
                => shown'.req > shown.req]_filesVars
  <2> SUFFICES ASSUME shown # None, shown' # shown, shown' # None
               PROVE  shown'.req > shown.req
    OBVIOUS
  <2>1. TakesOne
    BY <1>1, ListStep DEF Forgets, AsksForOne, listVars
  <2>2. PICK r \in requests :
          r.req = req /\ shown' = [path |-> r.path, on |-> r.on, req |-> r.req]
    BY <2>1 DEF TakesOne
  <2>3. shown'.req = req
    BY <2>2
  <2>4. shown.req \in 1 .. req /\ shown.req # req /\ req \in Nat
    BY <1>1, <2>2 DEF ListInv, RequestsNumbered
  <2> QED
    BY <2>3, <2>4
<1> QED
  BY <1>1, ListInvInit, ListInvKept, PTL DEF FilesSpec, ListingsInOrder

-----------------------------------------------------------------------------
(* The transfer the store shows as active is the one that runs.            *)
MarkedIsRunning ==
  /\ marked # {} => working = "transfer" /\ marked = {active} /\ active = seq
  /\ working = "transfer" => active = seq

(* A transfer that the store shows as active is the only one, and it is    *)
(* the one that runs: progress is never shown for a job that has ended.    *)
THEOREM FilesMarkedIsRunning == FilesSpec => []MarkedIsRunning
<1>1. FilesInit => MarkedIsRunning
  BY DEF FilesInit, MarkedIsRunning
<1>2. MarkedIsRunning /\ [FilesNext]_filesVars => MarkedIsRunning'
  <2> SUFFICES ASSUME MarkedIsRunning, [FilesNext]_filesVars PROVE MarkedIsRunning'
    OBVIOUS
  <2> USE DEF MarkedIsRunning
  <2>1. CASE Lifecycle
    <3>1. UNCHANGED <<working, active, seq>> /\ marked' \in {marked, {}}
      BY <2>1
         DEF Lifecycle, AskForRerun, Rerun, Unmount, Cleanup, Connected, HomesKnown,
             ConnectFails, queueVars
    <3> QED
      BY <3>1
  <2>2. CASE User
    BY <2>2
       DEF User, Navigate, StartOp, OpenDialog, CancelDialog, Upload, Download,
           queueVars
  <2>3. CASE Chain
    BY <2>3 DEF Chain, StartTransfer, EndTransfer, StartRefresh, EndRefresh
  <2>4. CASE Backend
    BY <2>4 DEF Backend, Answers, SessionDrops, SshClose, Listed, EndOp, queueVars
  <2>5. CASE UNCHANGED filesVars
    BY <2>5 DEF filesVars, queueVars
  <2> QED
    BY <2>1, <2>2, <2>3, <2>4, <2>5 DEF FilesNext
<1> QED
  BY <1>1, <1>2, PTL DEF FilesSpec

-----------------------------------------------------------------------------
(* The types of the panel's own variables, and of what its lists hold.     *)
Listing == [req : 1 .. req, path : Dirs, on : Runs]
PanelTyped ==
  /\ mounted \in BOOLEAN
  /\ wanted \in {run, run + 1}
  /\ phase \in {"connecting", "ready", "error"}
ListsTyped ==
  /\ req \in Nat /\ requests \subseteq Listing
  /\ shown = None \/ shown \in Listing
  /\ loading \in BOOLEAN
OpsTyped ==
  /\ op = None \/ op \in [path : Dirs, on : Runs]
  /\ dialog \in 0 .. MaxRuns
QueueTyped ==
  /\ queue \in Seq(0 .. MaxRuns) /\ (working # "idle" => queue # <<>>)
  /\ working \in {"idle", "transfer", "refresh"}
  /\ awaited \in 0 .. req
  /\ seq \in Nat /\ active \in 0 .. seq
  /\ marked \subseteq 1 .. seq

LEMMA FilesTyped ==
  RunsInOrder /\ SessionFollowsRun /\ PanelTyped /\ ListsTyped /\ OpsTyped /\ QueueTyped
    => FilesTypeOK
  BY DEF RunsInOrder, SessionFollowsRun, PanelTyped, ListsTyped, OpsTyped, QueueTyped,
         FilesTypeOK, Listing, Runs

(* One more listing asked for, of a directory and with a session.          *)
LEMMA LoadRemoteTyped ==
  ASSUME ListsTyped, NEW path \in Dirs, NEW on, on = 0 \/ on \in Runs,
         LoadRemote(path, on)
  PROVE  ListsTyped' /\ req' \in {req, req + 1}
<1>1. CASE on = 0
  BY <1>1 DEF LoadRemote, listVars, ListsTyped, Listing
<1>2. CASE on # 0
  <2>1. /\ req' = req + 1 /\ shown' = shown /\ loading' = TRUE
        /\ requests' = requests \cup {[req |-> req + 1, path |-> path, on |-> on]}
    BY <1>2 DEF LoadRemote
  <2>2. req \in Nat /\ req' \in Nat /\ 1 .. req \subseteq 1 .. req'
    BY <2>1 DEF ListsTyped
  <2>3. Listing \subseteq Listing'
    BY <2>2 DEF Listing, Runs
  <2>4. [req |-> req + 1, path |-> path, on |-> on] \in Listing'
    BY <1>2, <2>1, <2>2 DEF Listing, Runs
  <2> QED
    BY <2>1, <2>2, <2>3, <2>4 DEF ListsTyped
<1> QED
  BY <1>1, <1>2

(* The listings, at every step.                                            *)
LEMMA ListsTypedKept ==
  ASSUME RunsInOrder, ListsTyped, OpsTyped, [FilesNext]_filesVars
  PROVE  ListsTyped' /\ req' \in {req, req + 1}
<1> DEFINE Goal == ListsTyped' /\ req' \in {req, req + 1}
<1>1. ASSUME UNCHANGED listVars PROVE Goal
  BY <1>1 DEF listVars, ListsTyped, Listing
<1>2. ASSUME NEW path \in Dirs, LoadRemote(path, sid) PROVE Goal
  BY <1>2, LoadRemoteTyped DEF RunsInOrder
<1>3. CASE Lifecycle
  <2>1. CASE Rerun \/ Unmount
    <3>1. UNCHANGED <<req, requests>> /\ shown' = None /\ loading' = FALSE
      BY <2>1 DEF Rerun, Unmount, Cleanup
    <3> QED
      BY <3>1 DEF ListsTyped, Listing
  <2>2. ASSUME NEW a \in Runs, Connected(a) \/ HomesKnown(a) \/ ConnectFails(a)
        PROVE  Goal
    <3>1. UNCHANGED listVars \/ LoadRemote(Home, sid)
      BY <2>2 DEF Connected, HomesKnown, ConnectFails
    <3> QED
      BY <1>1, <1>2, <3>1, HomeAssumption
  <2>3. CASE AskForRerun
    BY <1>1, <2>3 DEF AskForRerun
  <2> QED
    BY <1>3, <2>1, <2>2, <2>3 DEF Lifecycle
<1>4. CASE User
  <2>1. ASSUME NEW path \in Dirs, Navigate(path) PROVE Goal
    BY <1>2, <2>1 DEF Navigate
  <2>2. CASE StartOp \/ OpenDialog \/ CancelDialog \/ Download \/ \E n \in Ids : Upload(n)
    BY <1>1, <2>2 DEF StartOp, OpenDialog, CancelDialog, Download, Upload
  <2> QED
    BY <1>4, <2>1, <2>2 DEF User
<1>5. CASE Chain
  <2>1. UNCHANGED listVars \/ (shown # None /\ LoadRemote(shown.path, sid))
    BY <1>5 DEF Chain, StartTransfer, StartRefresh, EndRefresh, EndTransfer, listVars
  <2>2. shown # None => shown.path \in Dirs
    BY DEF ListsTyped, Listing
  <2> QED
    BY <1>1, <1>2, <2>1, <2>2
<1>6. CASE Backend
  <2>1. ASSUME NEW a \in Runs, Answers(a) \/ SessionDrops(a) \/ SshClose(a)
        PROVE  Goal
    BY <1>1, <2>1 DEF Answers, SessionDrops, SshClose
  <2>2. ASSUME NEW r \in requests, NEW ok \in BOOLEAN, Listed(r, ok) PROVE Goal
    <3>1. r \in Listing
      BY DEF ListsTyped
    <3>2. r = [path |-> r.path, on |-> r.on, req |-> r.req]
      BY <3>1 DEF Listing
    <3>3. /\ req' = req /\ requests' \subseteq requests
          /\ shown' = shown \/ shown' = r
          /\ loading' \in {loading, FALSE}
      BY <2>2, <3>2 DEF Listed
    <3> QED
      BY <3>1, <3>3 DEF ListsTyped, Listing
  <2>3. ASSUME NEW ok \in BOOLEAN, NEW delete \in BOOLEAN, EndOp(ok, delete)
        PROVE  Goal
    <3>1. UNCHANGED listVars \/ LoadRemote(op.path, sid)
      BY <2>3 DEF EndOp
    <3>2. op.path \in Dirs
      BY <2>3 DEF EndOp, OpsTyped
    <3> QED
      BY <1>1, <1>2, <3>1, <3>2
  <2> QED
    BY <1>6, <2>1, <2>2, <2>3 DEF Backend
<1>7. CASE UNCHANGED filesVars
  BY <1>1, <1>7 DEF filesVars
<1> QED
  BY <1>3, <1>4, <1>5, <1>6, <1>7 DEF FilesNext

(* The panel and its operations.                                           *)
LEMMA PanelTypedKept ==
  ASSUME RunsInOrder, PanelTyped, ListsTyped, OpsTyped, [FilesNext]_filesVars
  PROVE  PanelTyped' /\ OpsTyped'
<1> DEFINE Goal == PanelTyped' /\ OpsTyped'
<1> USE DEF PanelTyped, OpsTyped
<1>1. CASE Lifecycle
  <2>1. OpsTyped'
    BY <1>1
       DEF Lifecycle, AskForRerun, Rerun, Unmount, Connected, HomesKnown, ConnectFails,
           opVars
  <2>2. ASSUME NEW a \in Runs, Connected(a) \/ HomesKnown(a) \/ ConnectFails(a)
        PROVE  PanelTyped'
    BY <2>2 DEF Connected, HomesKnown, ConnectFails
  <2>3. ASSUME AskForRerun \/ Rerun \/ Unmount PROVE PanelTyped'
    <3>1. run \in Nat /\ wanted \in Nat
      BY BoundsAssumption DEF RunsInOrder, Runs
    <3>2. CASE AskForRerun
      BY <3>1, <3>2 DEF AskForRerun
    <3>3. CASE Rerun
      BY <3>1, <3>3 DEF Rerun
    <3>4. CASE Unmount
      BY <3>1, <3>4 DEF Unmount
    <3> QED
      BY <2>3, <3>2, <3>3, <3>4
  <2> QED
    BY <1>1, <2>1, <2>2, <2>3 DEF Lifecycle
<1>2. CASE User
  <2>1. PanelTyped'
    BY <1>2
       DEF User, Navigate, StartOp, OpenDialog, CancelDialog, Upload, Download, runVars
  <2>2. sid \in 0 .. MaxRuns /\ (sid # 0 => sid \in Runs)
    BY BoundsAssumption DEF RunsInOrder, Runs
  <2>3. CASE StartOp
    <3>1. shown.path \in Dirs /\ sid \in Runs
      BY <2>2, <2>3 DEF StartOp, Usable, ListsTyped, Listing
    <3> QED
      BY <2>1, <2>3, <3>1 DEF StartOp
  <2>4. 0 \in 0 .. MaxRuns
    BY BoundsAssumption
  <2>5. CASE OpenDialog \/ CancelDialog \/ Download \/ \E n \in Ids : Upload(n)
    <3>1. op' = op /\ dialog' \in {0, sid}
      BY <2>5 DEF OpenDialog, CancelDialog, Upload, Download
    <3> QED
      BY <2>1, <2>2, <2>4, <3>1
  <2>6. CASE \E path \in Dirs : Navigate(path)
    BY <2>1, <2>6 DEF Navigate, opVars
  <2> QED
    BY <1>2, <2>3, <2>5, <2>6 DEF User
<1>3. CASE Chain
  BY <1>3 DEF Chain, StartTransfer, StartRefresh, EndRefresh, EndTransfer, runVars, opVars
<1>4. CASE Backend
  BY <1>4 DEF Backend, Answers, SessionDrops, SshClose, Listed, EndOp, runVars, opVars
<1>5. CASE UNCHANGED filesVars
  BY <1>5 DEF filesVars, runVars, opVars
<1> QED
  BY <1>1, <1>2, <1>3, <1>4, <1>5 DEF FilesNext

(* The queue: what a dialog adds is a session, or the refresh.             *)
LEMMA QueueTypedKept ==
  ASSUME ListsTyped, OpsTyped, QueueTyped, req' \in {req, req + 1},
         [FilesNext]_filesVars
  PROVE  QueueTyped'
<1> USE DEF QueueTyped, ListsTyped
<1>1. awaited \in 0 .. req'
  OBVIOUS
<1>2. CASE UNCHANGED <<queue, working, awaited, seq, active>> /\ marked' \in {marked, {}}
  BY <1>1, <1>2
<1>3. CASE Lifecycle
  <2>1. UNCHANGED <<queue, working, awaited, seq, active>> /\ marked' \in {marked, {}}
    BY <1>3
       DEF Lifecycle, AskForRerun, Rerun, Unmount, Cleanup, Connected, HomesKnown,
           ConnectFails, queueVars
  <2> QED
    BY <1>2, <2>1
<1>4. CASE User
  <2> DEFINE Longer == queue' \in Seq(0 .. MaxRuns) /\ (queue # <<>> => queue' # <<>>)
  <2>1. Longer
    <3>1. ASSUME NEW n \in Ids, Upload(n) PROVE Longer
      <4> DEFINE jobs == [i \in 1 .. n |-> dialog]  last == <<0>>
      <4>1. queue' = queue \o jobs \o last
        BY <3>1 DEF Upload
      <4>2. n \in Nat /\ dialog \in 0 .. MaxRuns /\ 0 \in 0 .. MaxRuns
        BY BoundsAssumption DEF Ids, OpsTyped
      <4>3. jobs \in Seq(0 .. MaxRuns) /\ last \in Seq(0 .. MaxRuns)
        BY <4>2
      <4>4. Len(last) = 1
        OBVIOUS
      <4> HIDE DEF jobs, last
      <4>5. /\ queue \o jobs \in Seq(0 .. MaxRuns)
            /\ Len(queue \o jobs) = Len(queue) + Len(jobs)
        BY <4>3
      <4> DEFINE longer == queue \o jobs
      <4>6. queue' = longer \o last /\ longer \in Seq(0 .. MaxRuns)
        BY <4>1, <4>5
      <4> HIDE DEF longer
      <4>7. queue' \in Seq(0 .. MaxRuns) /\ Len(queue') = Len(longer) + Len(last)
        BY <4>3, <4>6
      <4> QED
        BY <4>4, <4>6, <4>7
    <3>2. Download => Longer
      BY DEF Download, OpsTyped
    <3>3. ASSUME StartOp \/ OpenDialog \/ CancelDialog \/ \E path \in Dirs : Navigate(path)
          PROVE  Longer
      BY <3>3 DEF Navigate, StartOp, OpenDialog, CancelDialog, queueVars
    <3> QED
      BY <1>4, <3>1, <3>2, <3>3 DEF User
  <2>2. UNCHANGED <<working, awaited, seq, active, marked>>
    BY <1>4
       DEF User, Navigate, StartOp, OpenDialog, CancelDialog, Upload, Download, queueVars
  <2> QED
    BY <1>1, <2>1, <2>2
<1>5. CASE Chain
  <2>1. CASE StartTransfer
    BY <1>1, <2>1 DEF StartTransfer
  <2>2. ASSUME NEW ok \in BOOLEAN, EndTransfer(ok) PROVE QueueTyped'
    <3>1. queue' \in Seq(0 .. MaxRuns)
      BY <2>2 DEF EndTransfer
    <3>2. UNCHANGED <<awaited, seq>> /\ active' = 0 /\ working' = "idle"
          /\ marked' \subseteq marked
      BY <2>2 DEF EndTransfer
    <3> QED
      BY <1>1, <3>1, <3>2
  <2>3. CASE StartRefresh
    <3>1. queue' \in Seq(0 .. MaxRuns)
      BY <2>3 DEF StartRefresh
    <3>2. awaited' \in {awaited, req'}
      BY <2>3 DEF StartRefresh
    <3> QED
      BY <1>1, <2>3, <3>1, <3>2 DEF StartRefresh
  <2>4. CASE EndRefresh
    <3>1. queue' \in Seq(0 .. MaxRuns)
      BY <2>4 DEF EndRefresh
    <3>2. awaited' = 0 /\ working' = "idle" /\ UNCHANGED <<seq, active, marked>>
      BY <2>4 DEF EndRefresh
    <3>3. 0 \in 0 .. req'
      BY <1>1
    <3> QED
      BY <3>1, <3>2, <3>3
  <2> QED
    BY <1>5, <2>1, <2>2, <2>3, <2>4 DEF Chain
<1>6. CASE Backend
  <2>1. UNCHANGED queueVars
    BY <1>6 DEF Backend, Answers, SessionDrops, SshClose, Listed, EndOp
  <2> QED
    BY <1>2, <2>1 DEF queueVars
<1>7. CASE UNCHANGED filesVars
  BY <1>2, <1>7 DEF filesVars, queueVars
<1> QED
  BY <1>3, <1>4, <1>5, <1>6, <1>7 DEF FilesNext

(* Every variable of the panel has its type.                               *)
THEOREM FilesTypes == FilesSpec => []FilesTypeOK
<1> DEFINE Typed == PanelTyped /\ ListsTyped /\ OpsTyped /\ QueueTyped
<1>1. FilesInit => Typed
  <2> SUFFICES ASSUME FilesInit PROVE Typed
    OBVIOUS
  <2>1. PanelTyped /\ ListsTyped
    BY DEF FilesInit, PanelTyped, ListsTyped
  <2>2. OpsTyped /\ QueueTyped
    BY BoundsAssumption DEF FilesInit, OpsTyped, QueueTyped
  <2> QED
    BY <2>1, <2>2
<1>2. FilesInv /\ Typed /\ [FilesNext]_filesVars => Typed'
  BY ListsTypedKept, PanelTypedKept, QueueTypedKept DEF FilesInv
<1>3. FilesInv /\ Typed => FilesTypeOK
  BY FilesTyped DEF FilesInv
<1> QED
  BY <1>1, <1>2, <1>3, FilesInvInit, FilesInvKept, PTL DEF FilesSpec

=============================================================================
