----------------------------- MODULE Workspace -----------------------------
(***************************************************************************)
(* Tabs and panes (pages/Index.ets over AppViewModel): which tabs keep      *)
(* their web pages.  The active tab, the tabs with a session and the tab    *)
(* left last (the warm tab, for a while) are mounted; another tab goes      *)
(* after a checkpoint, the snapshots of its panes.  Handlers of the UI       *)
(* thread change the state; components follow when the page is drawn.       *)
(*                                                                         *)
(* A snapshot that arrives and one that times out end a capture alike.      *)
(* Closing the last tab ends the application and is left out.                *)
(***************************************************************************)
EXTENDS Naturals, Sequences, FiniteSets, SequencesExt

CONSTANTS
  MaxTabs,    \* bound: tabs ever opened
  MaxPanes,   \* bound: panes ever opened
  MaxSessions \* bound: panes busy at once

ASSUME WorkspaceAssumption == {MaxTabs, MaxPanes, MaxSessions} \subseteq Nat \ {0}

VARIABLES
  tabs,           \* the tabs: id, panes, activePaneId
  activeTab,      \* activeTabIndex
  nextTab, nextPane,
  busy,           \* the panes whose mode is not IDLE
  windowVisible,  \* mainWindowVisible
  warm,           \* warmTabId, NoTab for none
  warmTimer,      \* the tab the eviction timer is for, or NoTab
  checkpointing,  \* checkpointingTabIds
  captures,       \* snapshots a checkpoint waits for: tab and pane
  attached,       \* the panes whose surface has a bridge
  components,     \* the state of each pane's web component
  dialog,         \* the confirmation on show: what closes, or NoDialog
  saved           \* history: tabs with a checkpoint since they were active or had a session

model == <<tabs, activeTab, nextTab, nextPane>>
retention == <<warm, warmTimer>>
surfaces == <<checkpointing, captures, attached, saved>>
workspaceVars ==
  <<model, busy, windowVisible, retention, surfaces, components, dialog>>

NoTab == 0
NoDialog == [closes |-> "nothing", index |-> 0]

Tab(id, pane) == [id |-> id, panes |-> <<pane>>, active |-> pane]
TabIds == {tabs[i].id : i \in DOMAIN tabs}
PanesOf(id) == UNION {Range(tabs[i].panes) : i \in {j \in DOMAIN tabs : tabs[j].id = id}}
AllPanes == UNION {Range(tabs[i].panes) : i \in DOMAIN tabs}

WorkspaceInit ==
  /\ tabs = <<Tab(1, 1)>> /\ activeTab = 1
  /\ nextTab = 2 /\ nextPane = 2
  /\ busy = {}
  /\ windowVisible = TRUE
  /\ warm = NoTab /\ warmTimer = NoTab
  /\ checkpointing = {} /\ captures = {} /\ attached = {}
  /\ components = [p \in 1..MaxPanes |-> "none"]
  /\ dialog = NoDialog
  /\ saved = {}

ActiveTab == tabs[activeTab]
HasActiveSession(id) == PanesOf(id) \cap busy # {}

\* InteractionPolicy.shouldMountTab.
ShouldMountTab(id) ==
  HasActiveSession(id) \/ id = ActiveTab.id \/ (windowVisible /\ id = warm)

\* Keys and clicks reach a window that is on show and has no dialog over it.
UserActs == windowVisible /\ dialog = NoDialog

-----------------------------------------------------------------------------
(* Checkpoints.                                                            *)

\* finishTabCheckpoint of the checkpoints with no capture left, once the surfaces are what
\* they are; the tabs and the warm tab are already those of the next state.
FinishTabCheckpoint(left, bridges) ==
  LET done == {id \in checkpointing : \A c \in left : c.tab # id} IN
  /\ captures' = left
  /\ checkpointing' = checkpointing \ done
  /\ attached' = bridges \ UNION {PanesOf(id)' : id \in {d \in done : ~ShouldMountTab(d)'}}
  /\ saved' = {id \in saved \cup done : id # ActiveTab.id' /\ ~HasActiveSession(id)'}

\* checkpointAndDestroyTabBridge; panes without a bridge answer at once.
CheckpointTab(id) ==
  LET begins == id \in TabIds /\ ~HasActiveSession(id)' /\ id \notin checkpointing
      wanted == {[tab |-> id, pane |-> p] : p \in PanesOf(id) \cap attached}
      kept == {t \in saved : t # ActiveTab.id' /\ ~HasActiveSession(t)'}
  IN /\ checkpointing' = IF begins /\ wanted # {} THEN checkpointing \cup {id} ELSE checkpointing
     /\ captures' = IF begins THEN captures \cup wanted ELSE captures
     /\ saved' = IF begins /\ wanted = {} THEN kept \cup {id} ELSE kept
     /\ UNCHANGED attached

NoCheckpoint == CheckpointTab(NoTab)

\* A capture is answered or times out.
CaptureEnds(capture) ==
  /\ capture \in captures
  /\ UNCHANGED <<model, busy, windowVisible, retention, components, dialog>>
  /\ FinishTabCheckpoint(captures \ {capture}, attached)

\* detachSurface: captures of these panes end too.
DetachSurface(panes) ==
  FinishTabCheckpoint({c \in captures : c.pane \notin panes}, attached \ panes)

-----------------------------------------------------------------------------
(* The warm tab.                                                           *)

\* Fault: the tab that was warm is forgotten.
DeactivateActiveTabOnly(target) ==
  /\ NoCheckpoint
  /\ warm' = ActiveTab.id /\ warmTimer' = ActiveTab.id

\* deactivateActiveTab and InteractionPolicy.evictedWarmTab.
DeactivateActiveTab(target) ==
  /\ \E evicted \in {IF warm \in {target, ActiveTab.id} THEN NoTab ELSE warm} : CheckpointTab(evicted)
  /\ warm' = ActiveTab.id /\ warmTimer' = ActiveTab.id

SelectTabAt(i) ==
  /\ UserActs
  /\ i \in DOMAIN tabs /\ i # activeTab
  /\ activeTab' = i
  /\ UNCHANGED <<tabs, nextTab, nextPane, busy, windowVisible, components, dialog>>
  /\ \E target \in {tabs[i].id} : DeactivateActiveTab(target)

NewTab ==
  /\ UserActs
  /\ nextTab <= MaxTabs /\ nextPane <= MaxPanes
  /\ tabs' = Append(tabs, Tab(nextTab, nextPane))
  /\ activeTab' = Len(tabs) + 1
  /\ nextTab' = nextTab + 1 /\ nextPane' = nextPane + 1
  /\ UNCHANGED <<busy, windowVisible, components, dialog>>
  /\ DeactivateActiveTab(NoTab)

\* The timer of scheduleWarmTabEviction.
WarmTabTimeout ==
  /\ warmTimer # NoTab
  /\ warmTimer' = NoTab
  /\ warm' = IF warm = warmTimer THEN NoTab ELSE warm
  /\ UNCHANGED <<model, busy, windowVisible, components, dialog>>
  /\ \E evicted \in {IF warm # warmTimer \/ ActiveTab.id = warm THEN NoTab ELSE warm} :
       CheckpointTab(evicted)

\* onMainWindowVisibilityChanged.
ChangeVisibility ==
  /\ windowVisible' = ~windowVisible
  /\ UNCHANGED <<model, busy, components, dialog>>
  /\ IF windowVisible
     THEN /\ \E evicted \in {warm} : CheckpointTab(evicted)
          /\ warm' = NoTab /\ warmTimer' = NoTab
     ELSE NoCheckpoint /\ UNCHANGED retention

-----------------------------------------------------------------------------
(* Panes and sessions.                                                     *)

ToggleSplit ==
  /\ UserActs
  /\ Len(ActiveTab.panes) = 1 /\ nextPane <= MaxPanes
  /\ tabs' = [tabs EXCEPT ![activeTab] =
                [ActiveTab EXCEPT !.panes = Append(ActiveTab.panes, nextPane), !.active = nextPane]]
  /\ nextPane' = nextPane + 1
  /\ UNCHANGED <<activeTab, nextTab, busy, windowVisible, retention, surfaces, components, dialog>>

FocusTabPane(p) ==
  /\ UserActs
  /\ p \in Range(ActiveTab.panes)
  /\ tabs' = [tabs EXCEPT ![activeTab].active = p]
  /\ UNCHANGED <<activeTab, nextTab, nextPane, busy, windowVisible, retention, surfaces,
                 components, dialog>>

\* A command of the focused pane begins a session: updatePaneMode.
SessionBegins ==
  /\ UserActs
  /\ Cardinality(busy) < MaxSessions
  /\ busy' = busy \cup {ActiveTab.active}
  /\ UNCHANGED <<model, windowVisible, retention, surfaces, components, dialog>>

\* A session ends: updatePaneMode, then updatePaneState, in one turn.
SessionEnds(p) ==
  /\ p \in busy
  /\ busy' = busy \ {p}
  /\ UNCHANGED <<model, windowVisible, retention, components, dialog>>
  /\ LET hidden == {id \in TabIds : p \in PanesOf(id) /\ ~ShouldMountTab(id)'}
     IN IF hidden = {} THEN NoCheckpoint ELSE \E id \in hidden : CheckpointTab(id)

-----------------------------------------------------------------------------
(* Closing.                                                                *)

NextActiveTab(i) ==
  IF i < activeTab THEN activeTab - 1
  ELSE IF i = activeTab /\ i = Len(tabs) THEN i - 1 ELSE activeTab

\* Fault: a warm tab that becomes the active one stays warm.
CloseTabKeepingWarm(i) ==
  /\ tabs' = RemoveAt(tabs, i)
  /\ activeTab' = NextActiveTab(i)
  /\ LET gone == tabs[i].id = warm IN
     /\ warm' = IF gone THEN NoTab ELSE warm
     /\ warmTimer' = IF gone THEN NoTab ELSE warmTimer
  /\ UNCHANGED <<nextTab, nextPane, busy>>
  /\ NoCheckpoint

\* closeTab, up to the disposal of its panes.
CloseTab(i) ==
  /\ tabs' = RemoveAt(tabs, i)
  /\ activeTab' = NextActiveTab(i)
  /\ LET cooled == warm \in {tabs[i].id, ActiveTab.id'} IN
     /\ warm' = IF cooled THEN NoTab ELSE warm
     /\ warmTimer' = IF cooled THEN NoTab ELSE warmTimer
  /\ UNCHANGED <<nextTab, nextPane, busy>>
  /\ NoCheckpoint

TabIndexOf(p) == CHOOSE i \in DOMAIN tabs : p \in Range(tabs[i].panes)

\* closePane: a tab's only pane closes the tab; the pane beside an active one takes its place.
ClosePane(p) ==
  LET i == TabIndexOf(p)
      tab == tabs[i]
      rest == RemoveAt(tab.panes, CHOOSE n \in DOMAIN tab.panes : tab.panes[n] = p)
  IN IF Len(tab.panes) = 1 THEN Len(tabs) > 1 /\ CloseTab(i)
     ELSE /\ tabs' = [tabs EXCEPT ![i] =
               [tab EXCEPT !.panes = rest, !.active = IF tab.active = p THEN Head(rest) ELSE tab.active]]
          /\ UNCHANGED <<activeTab, nextTab, nextPane, busy, retention>>
          /\ NoCheckpoint

RequestCloseTab(i) ==
  /\ UserActs
  /\ i \in DOMAIN tabs /\ Len(tabs) > 1
  /\ IF HasActiveSession(tabs[i].id)
     THEN /\ dialog' = [closes |-> "tab", index |-> i]
          /\ UNCHANGED <<model, busy, retention, surfaces>>
     ELSE CloseTab(i) /\ UNCHANGED dialog
  /\ UNCHANGED <<windowVisible, components>>

RequestCloseActivePane ==
  /\ UserActs
  /\ IF ActiveTab.active \in busy
     THEN /\ dialog' = [closes |-> "pane", index |-> 0]
          /\ UNCHANGED <<model, busy, retention, surfaces>>
     ELSE ClosePane(ActiveTab.active) /\ UNCHANGED dialog
  /\ UNCHANGED <<windowVisible, components>>

\* The answer closes the tab at the index that was asked about, or the pane active by now.
Confirm ==
  /\ windowVisible /\ dialog # NoDialog
  /\ dialog' = NoDialog
  /\ IF dialog.closes = "pane" THEN ClosePane(ActiveTab.active)
     ELSE dialog.index \in DOMAIN tabs /\ Len(tabs) > 1 /\ CloseTab(dialog.index)
  /\ UNCHANGED <<windowVisible, components>>

Cancel ==
  /\ windowVisible /\ dialog # NoDialog
  /\ dialog' = NoDialog
  /\ UNCHANGED <<model, busy, windowVisible, retention, surfaces, components>>

\* requestLocalExit: the line "exit" of an idle pane arrives from its page.
LocalExit(p) ==
  /\ p \in (AllPanes \cap attached) \ busy
  /\ ClosePane(p)
  /\ UNCHANGED <<windowVisible, components, dialog>>

\* disposeRuntime, after the session's disconnection.
DisposeRuntime(p) ==
  /\ p \in (attached \cup busy) \ AllPanes
  /\ busy' = busy \ {p}
  /\ UNCHANGED <<model, windowVisible, retention, components, dialog>>
  /\ DetachSurface({p})

-----------------------------------------------------------------------------
(* Web components.                                                         *)

\* mountedPaneRuntimes.
MountedTabs == {id \in TabIds : id \in checkpointing \/ ShouldMountTab(id)}
MountedPanes == UNION {PanesOf(id) : id \in MountedTabs}

\* The page is drawn: components come, and go with their surfaces (onPaneDisappear).
Render ==
  LET leaving == {p \in DOMAIN components : components[p] # "none"} \ MountedPanes
      coming == {p \in MountedPanes : components[p] = "none"}
  IN /\ leaving # {} \/ coming # {}
     /\ components' = [p \in DOMAIN components |->
          CASE p \in leaving -> "none" [] p \in coming -> "loading" [] OTHER -> components[p]]
     /\ UNCHANGED <<model, busy, windowVisible, retention, dialog>>
     /\ DetachSurface(leaving)

\* onWebControllerReady.
PageEnds(p) ==
  /\ components[p] = "loading"
  /\ components' = [components EXCEPT ![p] = "loaded"]
  /\ attached' = attached \cup {p}
  /\ UNCHANGED <<model, busy, windowVisible, retention, checkpointing, captures, saved, dialog>>

\* recyclePaneWebView: the next drawing makes a new component.
RecyclePaneWebView(p) ==
  /\ components[p] = "loaded" /\ p \in AllPanes
  /\ components' = [components EXCEPT ![p] = "none"]
  /\ UNCHANGED <<model, busy, windowVisible, retention, dialog>>
  /\ DetachSurface({p})

WorkspaceNext ==
  \/ \E i \in DOMAIN tabs : SelectTabAt(i) \/ RequestCloseTab(i)
  \/ NewTab \/ WarmTabTimeout \/ ChangeVisibility \/ ToggleSplit \/ SessionBegins
  \/ RequestCloseActivePane \/ Confirm \/ Cancel \/ Render
  \/ \E c \in captures : CaptureEnds(c)
  \/ \E p \in 1..MaxPanes :
       \/ FocusTabPane(p) \/ SessionEnds(p) \/ LocalExit(p) \/ DisposeRuntime(p)
       \/ PageEnds(p) \/ RecyclePaneWebView(p)

WorkspaceSpec == WorkspaceInit /\ [][WorkspaceNext]_workspaceVars

WorkspaceTypeOK ==
  /\ activeTab \in DOMAIN tabs
  /\ \A t \in Range(tabs) : t.id \in 1..MaxTabs /\ t.active \in Range(t.panes) /\ Len(t.panes) \in 1..2
  /\ {warm, warmTimer} \subseteq 0..MaxTabs
  /\ checkpointing \subseteq 1..MaxTabs /\ saved \subseteq 1..MaxTabs
  /\ captures \subseteq [tab : checkpointing, pane : 1..MaxPanes]
  /\ attached \cup busy \subseteq 1..MaxPanes
  /\ components \in [1..MaxPanes -> {"none", "loading", "loaded"}]

(* No tab's pages go without a checkpoint: when a tab that is still there loses its components  *)
(* a checkpoint of it has ended since it was last active and since its last session ended,      *)
(* however quickly tabs are left and returned to, warm tabs replaced, windows hidden and        *)
(* sessions ended while a checkpoint is under way (checkpointAndDestroyTabBridge).             *)
CheckpointBeforeUnmount ==
  [][\A id \in TabIds :
       (\E p \in PanesOf(id) : components[p] # "none" /\ components'[p] = "none" /\ id \notin MountedTabs)
         => id \in saved']_workspaceVars

(* The warm tab is kept for a while only: it is a tab in the background and has its timer, in    *)
(* whatever order tabs are selected, opened and closed (deactivateActiveTab, closeTab).          *)
WarmTabExpires ==
  /\ warm # NoTab => warm \in TabIds /\ warm # ActiveTab.id /\ warmTimer = warm
  /\ warmTimer # NoTab => warm = warmTimer
=============================================================================
