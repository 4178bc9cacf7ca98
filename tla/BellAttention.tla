--------------------------- MODULE BellAttention ---------------------------
(***************************************************************************)
(* The bell of one pane, from the program's BEL to the amber mark on the    *)
(* pane's tab: the page's gate (createBellAttentionGate), the messages      *)
(* between the page and the application, and Index, which marks the pane    *)
(* when the bell reaches it while the pane is not in view and clears the    *)
(* mark when the user enters the pane or types in it.                      *)
(***************************************************************************)
EXTENDS TerminalPolicy, Sequences, SequencesExt

CONSTANT MaxMessages   \* bound: messages under way in one direction

ASSUME BellAssumption == MaxMessages \in Nat \ {0}

VARIABLES
  front,      \* the pane's tab is the active tab
  chosen,     \* the pane is its tab's active pane
  visible,    \* mainWindowVisible
  menu,       \* menuOpen
  focusing,   \* restoreActivePaneFocus has set a timer for the pane
  attention,  \* the pane's needsAttention
  gate,       \* the page's bellAttentionGate
  toBellPage, \* focus messages under way to the page
  toIndex,    \* bellAttention and attentionAcknowledged messages under way
  unseen,     \* history: a bell rang while the pane was not in view, which it has not been since
  older       \* history: the mark is older than the page

view == <<front, chosen, visible, menu>>
bellVars == <<view, focusing, attention, gate, toBellPage, toIndex, unseen, older>>

InView == front /\ chosen /\ visible /\ ~menu

BellInit ==
  /\ front = TRUE /\ chosen = TRUE /\ visible = TRUE /\ menu = FALSE
  /\ focusing = FALSE /\ attention = FALSE
  /\ gate = BellAttentionGate
  /\ toBellPage = <<>> /\ toIndex = <<>>
  /\ unseen = FALSE /\ older = FALSE

\* isPaneFocused.
Focused == front /\ chosen

\* The view changes; the user enters the pane or not; its focus is restored or not.
ChangeView(entered, restored) ==
  /\ attention' = (attention /\ ~entered)
  /\ focusing' = (focusing \/ (restored /\ Focused'))
  /\ unseen' = (unseen /\ ~entered /\ ~InView')
  /\ UNCHANGED <<gate, toBellPage, toIndex, older>>

-----------------------------------------------------------------------------
(* Index.                                                                  *)

\* selectTab of the pane's tab, active or not; the mark of its active pane is cleared.
SelectTab ==
  /\ front' = TRUE
  /\ UNCHANGED <<chosen, visible, menu>>
  /\ ChangeView(chosen, TRUE)

\* selectTab of another tab, or newTab.
LeaveTab ==
  /\ front
  /\ front' = FALSE
  /\ UNCHANGED <<chosen, visible, menu>>
  /\ ChangeView(FALSE, FALSE)

\* focusPane of the pane by the user, or by itself when its component appears.
FocusPane(userInitiated) ==
  /\ front
  /\ userInitiated \/ chosen
  /\ chosen' = TRUE
  /\ UNCHANGED <<front, visible, menu>>
  /\ ChangeView(userInitiated, TRUE)

\* The tab's other pane is focused.
FocusOther ==
  /\ front
  /\ chosen' = FALSE
  /\ UNCHANGED <<front, visible, menu>>
  /\ ChangeView(FALSE, FALSE)

\* onMainWindowVisibilityChanged.
SetVisible(shown) ==
  /\ visible' = shown
  /\ UNCHANGED <<front, chosen, menu>>
  /\ ChangeView(FALSE, shown)

ToggleMenu ==
  /\ menu' = ~menu
  /\ UNCHANGED <<front, chosen, visible>>
  /\ ChangeView(FALSE, ~menu')

\* The timer of restoreActivePaneFocus.
RestoreFocus ==
  /\ focusing
  /\ focusing' = FALSE
  /\ Len(toBellPage) < MaxMessages
  /\ toBellPage' = IF Focused THEN Append(toBellPage, "focus") ELSE toBellPage
  /\ UNCHANGED <<view, attention, gate, toIndex, unseen, older>>

\* markPaneAttention, and clearPaneAttention for an acknowledgement.
HandleMessage ==
  /\ toIndex # <<>>
  /\ toIndex' = Tail(toIndex)
  /\ attention' = IF Head(toIndex) = "bell" THEN attention \/ ~InView ELSE FALSE
  /\ older' = (older /\ attention' /\ (Head(toIndex) # "bell" \/ InView))
  /\ UNCHANGED <<view, focusing, gate, toBellPage, unseen>>

-----------------------------------------------------------------------------
(* The page.                                                               *)

\* term.onBell.
Bell ==
  /\ Len(toIndex) < MaxMessages
  /\ gate' = BellTrigger(gate)
  /\ toIndex' = IF BellCrosses(gate) THEN Append(toIndex, "bell") ELSE toIndex
  /\ unseen' = (unseen \/ ~InView)
  /\ UNCHANGED <<view, focusing, attention, toBellPage, older>>

\* A key, a composition or a paste in the page: acknowledgeBellAttention.
PageInput ==
  /\ InView
  /\ Len(toIndex) < MaxMessages
  /\ gate' = BellAcknowledge(gate)
  /\ toIndex' = IF gate.acknowledgement THEN Append(toIndex, "acknowledged") ELSE toIndex
  /\ UNCHANGED <<view, focusing, attention, toBellPage, unseen, older>>

\* The message focus.
PageFocus ==
  /\ toBellPage # <<>>
  /\ toBellPage' = Tail(toBellPage)
  /\ gate' = BellRearm(gate)
  /\ UNCHANGED <<view, focusing, attention, toIndex, unseen, older>>

\* The pane gets a new page, after a checkpoint or when the renderer has exited; what was
\* under way from and to the old one is gone.
ReplacePage ==
  /\ gate' = BellAttentionGate
  /\ toBellPage' = <<>> /\ toIndex' = <<>>
  /\ focusing' = (focusing \/ Focused)
  /\ unseen' = (unseen /\ attention)
  /\ older' = attention
  /\ UNCHANGED <<view, attention>>

BellNext ==
  \/ SelectTab \/ LeaveTab \/ FocusOther \/ ToggleMenu
  \/ \E userInitiated \in BOOLEAN : FocusPane(userInitiated)
  \/ \E shown \in BOOLEAN : SetVisible(shown)
  \/ RestoreFocus \/ HandleMessage
  \/ Bell \/ PageInput \/ PageFocus \/ ReplacePage

BellSpec == BellInit /\ [][BellNext]_bellVars

BellTypeOK ==
  /\ {front, chosen, visible, menu, focusing, attention, unseen, older} \subseteq BOOLEAN
  /\ gate \in [delivery : BOOLEAN, acknowledgement : BOOLEAN]
  /\ toBellPage \in Seq({"focus"}) /\ toIndex \in Seq({"bell", "acknowledged"})

(* Typing in the pane takes its mark away, as long as the page that rang is there: a marked    *)
(* pane's page still owes an acknowledgement, or has sent it, however bells, keys and focus     *)
(* messages cross each other (createBellAttentionGate, terminal.html acknowledgeBellAttention). *)
MarkCanBeTypedAway ==
  attention /\ ~older => gate.acknowledgement \/ "acknowledged" \in Range(toIndex)

(* The user guide: if the source of a bell is not active, its tab's dot is amber until the     *)
(* pane is entered.  A bell that rang while the pane was not in view has marked it once the     *)
(* messages have arrived (bellAttentionGate, markPaneAttention).                               *)
UnseenBellIsMarked == unseen /\ toIndex = <<>> => attention
=============================================================================
