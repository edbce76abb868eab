------------------------------ MODULE Workbench ------------------------------
(***************************************************************************)
(* The workbench: the store of the live sessions with their tabs, and the  *)
(* components that drive it (welcome panel, rail, device fleet, palette,   *)
(* new-connection dialog, credentials dialog, shortcuts).  The store acts  *)
(* at once; a scan, the save of a new connection and the fetch of a saved  *)
(* one are calls to the backend that answer in a step of their own, and    *)
(* what follows the await reads the store as it is THEN.                   *)
(*                                                                         *)
(* The list of saved devices stands still here (module SavedConnections    *)
(* moves it); of a report only the protocols that ProtocolCard lets the    *)
(* user check are kept.                                                    *)
(***************************************************************************)
EXTENDS Naturals, FiniteSets

CONSTANTS
  Hosts,        \* addresses one may type or scan
  NoHost,       \* the empty address
  Devices,      \* the saved connections
  NoDevice,     \* SessionContext.savedId left out
  Entry,        \* a device's [host, user, protocols]
  Users,        \* user names typed in the credentials dialog
  Detected,     \* what a scan of a host finds
  MaxSessions,  \* bound: sessions opened in one run
  MaxCalls      \* bound: saves and fetches under way at a time

Protocols == {"ssh", "vnc"}
TabKinds == {"desktop", "terminal", "files"}

ASSUME WorkbenchAssumption ==
  /\ NoHost \notin Hosts
  /\ NoDevice \notin Devices
  /\ Entry \in [Devices -> [host : Hosts, user : Users, protocols : SUBSET Protocols]]
  /\ Detected \in [Hosts -> SUBSET Protocols]
  /\ MaxSessions \in Nat
  /\ MaxCalls \in Nat

VARIABLES
  targetAddress,
  scans,              \* hosts of the scan calls under way
  scanning,
  scanReport,         \* the host reported on, NoHost when there is no report
  selected,
  sessions,           \* live sessions by number, which is also their order
  sessionSeq,
  activeSessionId,    \* 0 when there is none
  activeView,
  paletteOpen,
  newConnectionOpen,
  credsOpen,
  calls               \* saves and fetches under way, by slot

scanVars == <<scans, scanning, scanReport>>
formVars == <<targetAddress, scanVars, selected>>
sessionVars == <<sessions, sessionSeq, activeSessionId>>
dialogVars == <<paletteOpen, newConnectionOpen, credsOpen>>
vars == <<formVars, sessionVars, activeView, dialogVars, calls>>

(* The tabs the protocols of a session imply; the first and the last of    *)
(* some tabs in the order of the strip (desktop, terminal, files).         *)
TabsForProtocols(ps) ==
  (IF "vnc" \in ps THEN {"desktop"} ELSE {})
    \cup (IF "ssh" \in ps THEN {"terminal", "files"} ELSE {})
FirstTab(tabs) ==
  CASE "desktop" \in tabs -> "desktop"
    [] "terminal" \in tabs /\ "desktop" \notin tabs -> "terminal"
    [] tabs = {"files"} -> "files"
    [] OTHER -> "none"
LastTab(tabs) ==
  CASE "files" \in tabs -> "files"
    [] "terminal" \in tabs /\ "files" \notin tabs -> "terminal"
    [] tabs = {"desktop"} -> "desktop"
    [] OTHER -> "none"

Live == DOMAIN sessions
Active == sessions[activeSessionId]

(* A panel is mounted when its tab is first on top, and stays.             *)
Mount(s) == [s EXCEPT !.mounted = (@ \cup {s.activeTab}) \cap s.tabs]

NewSession(target, user, ps, saved) ==
  LET tabs == TabsForProtocols(ps)
  IN Mount([target |-> target, user |-> user, savedId |-> saved, tabs |-> tabs,
            activeTab |-> FirstTab(tabs), mounted |-> {}])

Init ==
  /\ targetAddress = NoHost /\ selected = {}
  /\ scans = {} /\ scanning = FALSE /\ scanReport = NoHost
  /\ sessions = [i \in {} |-> {}] /\ sessionSeq = 0 /\ activeSessionId = 0
  /\ activeView = "sessions"
  /\ paletteOpen = FALSE /\ newConnectionOpen = FALSE /\ credsOpen = FALSE
  /\ calls = [n \in 1 .. MaxCalls |-> [call |-> "none"]]

-----------------------------------------------------------------------------
(* The store's operations.                                                 *)

(* Mutant: a scan is started while another is under way.                   *)
MutStartScan(host) ==
  IF host = NoHost
  THEN UNCHANGED <<scanVars, selected>>
  ELSE /\ scanning' = TRUE /\ scanReport' = NoHost /\ selected' = {}
       /\ scans' = scans \cup {host}

StartScan(host) ==
  IF scanning \/ host = NoHost
  THEN UNCHANGED <<scanVars, selected>>
  ELSE /\ scanning' = TRUE /\ scanReport' = NoHost /\ selected' = {}
       /\ scans' = scans \cup {host}

ScanAnswered(host) ==
  /\ host \in scans
  /\ scans' = scans \ {host}
  /\ scanning' = FALSE
  /\ scanReport' \in {host, scanReport}    \* an error leaves the report alone
  /\ UNCHANGED <<targetAddress, selected, sessionVars, activeView, dialogVars, calls>>

(* Mutant: the session model of one session, which connecting replaces.    *)
MutAddSession(s) ==
  /\ sessionSeq' = sessionSeq + 1
  /\ sessions' = [i \in {sessionSeq + 1} |-> s]
  /\ activeSessionId' = sessionSeq + 1

AddSession(s) ==
  /\ sessionSeq' = sessionSeq + 1
  /\ sessions' = [i \in Live \cup {sessionSeq + 1} |->
                    IF i \in Live THEN sessions[i] ELSE s]
  /\ activeSessionId' = sessionSeq + 1

BeginSession(user) ==
  /\ AddSession(NewSession(targetAddress, user, selected, NoDevice))
  /\ newConnectionOpen' = FALSE
  /\ UNCHANGED <<formVars, activeView>>

BeginSavedSession(device, ps) ==
  /\ AddSession(NewSession(Entry[device].host, Entry[device].user, ps, device))
  /\ targetAddress' = Entry[device].host
  /\ selected' = ps
  /\ newConnectionOpen' = FALSE
  /\ UNCHANGED scanVars

SetActiveSession(i) ==
  /\ i \in Live
  /\ activeSessionId' = i
  /\ UNCHANGED <<sessions, sessionSeq>>

SetActiveTab(tab) ==
  /\ sessions' = [sessions EXCEPT ![activeSessionId] = Mount([Active EXCEPT !.activeTab = tab])]
  /\ UNCHANGED <<sessionSeq, activeSessionId>>

(* Mutant: the closed session stays the active one.                        *)
MutNeighbour(i, rest) == IF rest = {} THEN 0 ELSE i

(* The one that takes the closed session's place in the list, or the new   *)
(* last one.                                                               *)
Neighbour(i, rest) ==
  IF rest = {} THEN 0
  ELSE LET after == {j \in rest : j > i}
       IN IF after # {}
          THEN CHOOSE j \in after : \A k \in after : j <= k
          ELSE CHOOSE j \in rest : \A k \in rest : k <= j

CloseSession(i) ==
  LET rest == Live \ {i} IN
  /\ i \in Live
  /\ sessions' = [j \in rest |-> sessions[j]]
  /\ activeSessionId' = IF activeSessionId = i THEN Neighbour(i, rest) ELSE activeSessionId
  /\ IF rest = {} THEN targetAddress' = NoHost /\ selected' = {}
                  ELSE UNCHANGED <<targetAddress, selected>>
  /\ UNCHANGED <<sessionSeq, scanVars>>

CloseTab(tab) ==
  /\ activeSessionId \in Live
  /\ LET left == Active.tabs \ {tab}
         top == IF Active.activeTab = tab THEN LastTab(left) ELSE Active.activeTab
     IN IF left = {} THEN CloseSession(activeSessionId)
        ELSE /\ sessions' = [sessions EXCEPT ![activeSessionId] =
                   Mount([Active EXCEPT !.tabs = left, !.activeTab = top])]
             /\ UNCHANGED <<sessionSeq, activeSessionId, formVars>>

-----------------------------------------------------------------------------
(* Calls to the saved-connection store.                                    *)

Pending == {n \in DOMAIN calls : calls[n].call # "none"}

(* Bound: there is a slot for the call and a number for its session.       *)
Room == /\ Cardinality(Pending) < MaxCalls
        /\ sessionSeq + Cardinality(Pending) < MaxSessions

Issue(c) ==
  /\ Room
  /\ \E n \in DOMAIN calls \ Pending :
       /\ \A m \in 1 .. n - 1 : m \in Pending
       /\ calls' = [calls EXCEPT ![n] = c]

Answered(n) == calls' = [calls EXCEPT ![n] = [call |-> "none"]]

(* connections.get, asked by the hook useConnectSaved ("hook") or by the   *)
(* new-connection dialog ("dialog").                                       *)
Connect(device, ps, by) ==
  Issue([call |-> by, device |-> device, protocols |-> ps])

(* The entry is found; one that is gone, or an error, only frees the call. *)
Fetched(n) ==
  /\ calls[n].call \in {"hook", "dialog"}
  /\ Answered(n)
  /\ \/ /\ BeginSavedSession(calls[n].device, calls[n].protocols)
        /\ activeView' = IF calls[n].call = "hook" THEN "sessions" ELSE activeView
        /\ UNCHANGED <<paletteOpen, credsOpen>>
     \/ UNCHANGED <<formVars, sessionVars, activeView, dialogVars>>

(* Mutant: a save that fails keeps its submission from connecting.         *)
MutSaved(n) ==
  /\ calls[n].call = "save"
  /\ Answered(n)
  /\ \/ BeginSession(calls[n].user) /\ UNCHANGED <<paletteOpen, credsOpen>>
     \/ UNCHANGED <<formVars, sessionVars, activeView, dialogVars>>

(* The save answers or fails: either way the session begins.               *)
Saved(n) ==
  /\ calls[n].call = "save"
  /\ Answered(n)
  /\ BeginSession(calls[n].user)
  /\ UNCHANGED <<paletteOpen, credsOpen>>

-----------------------------------------------------------------------------
(* The components.  A dialog covers the page for the mouse; the palette    *)
(* covers the page but not a dialog, and its input takes the keys even     *)
(* over one.                                                               *)

Uncovered == ~paletteOpen /\ ~newConnectionOpen
InDialog == newConnectionOpen /\ ~credsOpen
InCreds == newConnectionOpen /\ credsOpen

(* The session a saved device is shown as live with: the one opened from   *)
(* it, else the first on its host as its user; 0 when there is none.       *)
LiveSessionFor(device) ==
  LET byId == {i \in Live : sessions[i].savedId = device}
      same == {i \in Live : /\ sessions[i].target = Entry[device].host
                            /\ sessions[i].user = Entry[device].user}
      candidates == IF byId # {} THEN byId ELSE same
  IN IF candidates = {} THEN 0
     ELSE CHOOSE i \in candidates : \A j \in candidates : i <= j

SwitchTo(i) ==
  /\ SetActiveSession(i)
  /\ UNCHANGED <<formVars, newConnectionOpen, credsOpen, calls>>

ConnectOrSwitch(device) ==
  LET live == LiveSessionFor(device) IN
  IF live # 0 THEN SwitchTo(live)
  ELSE /\ Connect(device, Entry[device].protocols, "hook")
       /\ UNCHANGED <<formVars, sessionVars, newConnectionOpen, credsOpen>>

TypeTarget(host) ==
  /\ targetAddress' = host
  /\ UNCHANGED <<scanVars, selected, sessionVars, activeView, dialogVars, calls>>

WelcomePanel ==
  /\ Uncovered /\ activeView = "sessions" /\ Live = {}
  /\ \/ \E host \in Hosts \cup {NoHost} : TypeTarget(host)
     \/ \E d \in Devices :                               \* Enter on a saved address
          /\ Entry[d].host = targetAddress
          /\ Connect(d, Entry[d].protocols, "hook")
          /\ UNCHANGED <<formVars, sessionVars, activeView, dialogVars>>
     \/ /\ StartScan(targetAddress)                      \* Enter otherwise, or the button
        /\ newConnectionOpen' = TRUE
        /\ UNCHANGED <<targetAddress, sessionVars, activeView, paletteOpen, credsOpen, calls>>

Rail ==
  /\ Uncovered
  /\ UNCHANGED <<activeView, paletteOpen>>
  /\ \/ /\ activeView = "sessions"
        /\ \/ \E i \in Live : SwitchTo(i)
           \/ \E i \in Live : CloseSession(i) /\ UNCHANGED <<newConnectionOpen, credsOpen, calls>>
           \/ \E d \in Devices : ConnectOrSwitch(d)
     \/ /\ activeView = "devices"                        \* double click
        /\ \E d \in Devices : Connect(d, Entry[d].protocols, "hook")
        /\ UNCHANGED <<formVars, sessionVars, newConnectionOpen, credsOpen>>

DevicesView ==
  /\ Uncovered /\ activeView = "devices"
  /\ UNCHANGED <<formVars, sessionVars, activeView, paletteOpen, credsOpen>>
  /\ \/ newConnectionOpen' = TRUE /\ UNCHANGED calls
     \/ /\ \E d \in Devices :                            \* double click, 终端, 桌面
             \E ps \in {Entry[d].protocols} \cup {{p} : p \in Entry[d].protocols} :
               Connect(d, ps, "hook")
        /\ UNCHANGED newConnectionOpen

(* The tab strip of the active pane.                                       *)
SessionPane ==
  /\ Uncovered /\ activeView = "sessions" /\ Live # {}
  /\ \E tab \in Active.tabs :
       \/ SetActiveTab(tab) /\ UNCHANGED formVars
       \/ CloseTab(tab)
  /\ UNCHANGED <<activeView, dialogVars, calls>>

(* The disconnect button of the stage head.                                *)
Disconnect ==
  /\ Uncovered /\ activeView = "sessions" /\ Live # {}
  /\ CloseSession(activeSessionId)
  /\ UNCHANGED <<activeView, dialogVars, calls>>

ActivityBar ==
  /\ Uncovered
  /\ \/ activeView' \in {"sessions", "devices"} /\ UNCHANGED paletteOpen
     \/ paletteOpen' = TRUE /\ UNCHANGED activeView
  /\ UNCHANGED <<formVars, sessionVars, newConnectionOpen, credsOpen, calls>>

CommandPalette ==
  /\ paletteOpen /\ paletteOpen' = FALSE
  /\ \/ /\ \E host \in Hosts \ {Entry[d].host : d \in Devices} :
             targetAddress' = host /\ StartScan(host)
        /\ newConnectionOpen' = TRUE
        /\ UNCHANGED <<sessionVars, activeView, credsOpen, calls>>
     \/ \E i \in Live : SwitchTo(i) /\ activeView' = "sessions"
     \/ \E d \in Devices :
          /\ ConnectOrSwitch(d)
          /\ activeView' = IF LiveSessionFor(d) # 0 THEN "sessions" ELSE activeView
     \/ /\ newConnectionOpen' \in {TRUE, newConnectionOpen}   \* the last item, or Escape
        /\ UNCHANGED <<formVars, sessionVars, activeView, credsOpen, calls>>

(* Meta-K, Meta-W and Meta-1..9 are caught before anything else sees them. *)
Shortcuts ==
  /\ UNCHANGED <<newConnectionOpen, credsOpen, calls>>
  /\ \/ paletteOpen' = ~paletteOpen /\ UNCHANGED <<formVars, sessionVars, activeView>>
     \/ /\ Live # {} /\ Active.activeTab # "none"
        /\ CloseTab(Active.activeTab)
        /\ UNCHANGED <<activeView, paletteOpen>>
     \/ /\ \E i \in Live : SwitchTo(i)
        /\ activeView' = "sessions"
        /\ UNCHANGED paletteOpen

(* The check box of a protocol's card: only for one the scan identified.   *)
ToggleProtocol(p) ==
  /\ scanReport # NoHost /\ p \in Detected[scanReport]
  /\ selected' = IF p \in selected THEN selected \ {p} ELSE selected \cup {p}
  /\ UNCHANGED <<targetAddress, scanVars, newConnectionOpen, credsOpen, calls>>

NewConnectionModal ==
  /\ InDialog
  /\ UNCHANGED <<sessionVars, activeView, paletteOpen>>
  /\ \/ ~scanning /\ \E host \in Hosts \cup {NoHost} : TypeTarget(host)
     \/ /\ StartScan(targetAddress)
        /\ UNCHANGED <<targetAddress, newConnectionOpen, credsOpen, calls>>
     \/ \E p \in Protocols : ToggleProtocol(p)
     \/ /\ \E d \in Devices : Connect(d, Entry[d].protocols, "dialog")
        /\ UNCHANGED <<formVars, newConnectionOpen, credsOpen>>
     \/ /\ scanReport # NoHost /\ selected # {} /\ credsOpen' = TRUE
        /\ UNCHANGED <<formVars, newConnectionOpen, calls>>
     \/ newConnectionOpen' = FALSE /\ UNCHANGED <<formVars, credsOpen, calls>>

(* Cancel, or submit with or without saving first.  Submitting closes both *)
(* dialogs; a save carries the target and the protocols the dialog shows.  *)
CredentialsModal ==
  /\ InCreds
  /\ credsOpen' = FALSE
  /\ UNCHANGED <<formVars, activeView, paletteOpen>>
  /\ \/ UNCHANGED <<sessionVars, newConnectionOpen, calls>>
     \/ \E user \in Users :
          /\ newConnectionOpen' = FALSE
          /\ \/ Room /\ BeginSession(user) /\ UNCHANGED calls
             \/ /\ Issue([call |-> "save", user |-> user,
                          target |-> targetAddress, protocols |-> selected])
                /\ UNCHANGED sessionVars

Next ==
  \/ WelcomePanel \/ Rail \/ DevicesView \/ SessionPane \/ Disconnect
  \/ ActivityBar \/ CommandPalette \/ Shortcuts
  \/ NewConnectionModal \/ CredentialsModal
  \/ \E host \in Hosts : ScanAnswered(host)
  \/ \E n \in 1 .. MaxCalls : Fetched(n) \/ Saved(n)

Spec == Init /\ [][Next]_vars

(* The backend answers every call; the user may stop at any point.         *)
FairSpec == Spec /\ \A n \in 1 .. MaxCalls : WF_vars(Saved(n))

-----------------------------------------------------------------------------
SessionRecord ==
  [target : Hosts \cup {NoHost}, user : Users, savedId : Devices \cup {NoDevice},
   tabs : SUBSET TabKinds, activeTab : TabKinds \cup {"none"}, mounted : SUBSET TabKinds]

Calls ==
  [call : {"none"}]
    \cup [call : {"hook", "dialog"}, device : Devices, protocols : SUBSET Protocols]
    \cup [call : {"save"}, user : Users, target : Hosts \cup {NoHost},
          protocols : SUBSET Protocols]

(* Every variable has its type; the live sessions are numbered in the      *)
(* order they were opened (sessionSeq never goes back).                    *)
TypeOK ==
  /\ targetAddress \in Hosts \cup {NoHost}
  /\ scans \subseteq Hosts /\ scanning \in BOOLEAN
  /\ scanReport \in Hosts \cup {NoHost}
  /\ selected \subseteq Protocols
  /\ sessionSeq \in Nat
  /\ Live \subseteq 1 .. sessionSeq
  /\ sessions \in [Live -> SessionRecord]
  /\ activeSessionId \in Nat
  /\ activeView \in {"sessions", "devices"}
  /\ paletteOpen \in BOOLEAN /\ newConnectionOpen \in BOOLEAN /\ credsOpen \in BOOLEAN
  /\ calls \in [1 .. MaxCalls -> Calls]

(* What the page shows exists.  While a session lives, one of the live     *)
(* sessions is the active one, and its tab on top is one it still has and  *)
(* whose panel is mounted (no blank stage, no shortcut into the void); a   *)
(* session without tabs has none on top.  closeTab hands its last tab to   *)
(* closeSession, and closeSession picks the neighbour.                     *)
ActiveIsLive ==
  /\ IF Live = {} THEN activeSessionId = 0 ELSE activeSessionId \in Live
  /\ \A i \in Live :
       LET s == sessions[i] IN
       IF s.tabs = {} THEN s.activeTab = "none" ELSE s.activeTab \in s.mounted

(* However the scan is asked for (welcome panel, palette, dialog), at most *)
(* one runs, the spinner turns exactly while it does, and no report of an  *)
(* earlier one is on the page meanwhile.                                   *)
OneScan ==
  /\ scanning <=> scans # {}
  /\ \A g, h \in scans : g = h
  /\ scanning => scanReport = NoHost

(* Connecting always ADDS a session: panels (a terminal's scrollback, a    *)
(* transfer, a desktop) are taken by closing only, from one session at a   *)
(* time, and what closes in the background leaves the active session in    *)
(* front.                                                                  *)
Untouched ==
  LET lost == {i \in Live : \/ i \notin Live'
                           \/ ~ (sessions[i].mounted \subseteq sessions'[i].mounted)}
  IN /\ sessionSeq' # sessionSeq => lost = {}
     /\ \A i, j \in lost : i = j
     /\ lost # {} /\ activeSessionId' # activeSessionId => lost = {activeSessionId}
OthersUntouched == [][Untouched]_vars

(* "failures toast but never block connecting": a submission that saves    *)
(* first ends in a session of its own, whatever becomes of the save and of *)
(* the dialogs meanwhile.                                                  *)
SubmittedConnects ==
  \A n \in 1 .. MaxCalls, k \in 0 .. MaxSessions :
    (calls[n].call = "save" /\ sessionSeq = k) ~> sessionSeq > k

(* NewConnectionModal opens the session for what the dialogs showed when   *)
(* the user submitted, saved first or not: "Opens a new session for the    *)
(* scanned target + checked protocols".                                    *)
ConnectsToShownTarget ==
  [][\A n \in 1 .. MaxCalls :
       calls[n].call = "save" /\ calls'[n].call = "none"
         => LET s == sessions'[activeSessionId'] IN
            /\ s.target = calls[n].target
            /\ s.tabs = TabsForProtocols(calls[n].protocols)]_vars
=============================================================================
