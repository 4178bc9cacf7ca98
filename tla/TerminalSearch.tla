--------------------------- MODULE TerminalSearch ---------------------------
(***************************************************************************)
(* The search panel of terminal.html over xterm's search addon: who owns    *)
(* the terminal's one selection and the keyboard while text arrives,        *)
(* buffers switch, copies complete late and the addon's timer refreshes     *)
(* the results 200 ms after the last output.                               *)
(*                                                                         *)
(* A query is a model value; what a buffer holds is the number of matches   *)
(* of each query.  Output only appends, so the k-th match stays the k-th:   *)
(* lines overwritten or trimmed are not modelled.                          *)
(***************************************************************************)
EXTENDS TerminalPolicy, FiniteSets

CONSTANTS
  Queries,         \* the non-empty search texts
  NoQuery,         \* the empty text, and the addon's undefined term
  MaxMatches,      \* bound: matches of a query in a buffer
  HighlightLimit   \* SEARCH_HIGHLIGHT_LIMIT

ASSUME SearchAssumption ==
  /\ NoQuery \notin Queries
  /\ MaxMatches \in Nat /\ HighlightLimit \in Nat \ {0}

VARIABLES
  matches,    \* of each query in each buffer
  buffer,     \* the active buffer
  panel,      \* the panel: open, composing (IME), input, query, the results shown, owns
  addon,      \* the addon: its cached term, the matches it tracks, its timer, its limit
  selection,  \* xterm's selection: NoSelection, UserSelection or a match
  keyboard,   \* where keys go
  copying     \* a clipboard write that will clear the selection is pending

searchVars == <<matches, buffer, panel, addon, selection, keyboard, copying>>

Buffers == {"normal", "alternate"}
NoSelection == -1
UserSelection == -2

(***************************************************************************)
(* The addon.  found is the number of matches of the term in the active     *)
(* buffer.  A find answers with the addon, the selection and the result it  *)
(* reports.                                                                *)
(***************************************************************************)
SearchAddon(limit) == [cached |-> NoQuery, tracked |-> 0, timer |-> FALSE, limit |-> limit]

\* Fault: every match is tracked.
TrackAll(a, term, found) == IF a.cached = term THEN a.tracked ELSE found

Track(a, term, found) == IF a.cached = term THEN a.tracked ELSE Least(found, a.limit)

Found(a, term, found, match) ==
  LET tracked == Track(a, term, found) IN
  [addon |-> [a EXCEPT !.cached = term, !.tracked = tracked],
   selection |-> IF found = 0 THEN NoSelection ELSE match,
   index |-> IF found > 0 /\ match < tracked THEN match ELSE -1,
   count |-> tracked]

FindNext(a, term, found, selected) ==
  Found(a, term, found,
        IF selected < 0 \/ found = 0 THEN 0
        ELSE IF a.cached = term THEN (selected + 1) % found ELSE selected)

FindPrevious(a, term, found, selected) ==
  Found(a, term, found,
        IF selected < 0 \/ found = 0 THEN found - 1
        ELSE IF a.cached = term THEN (selected + found - 1) % found ELSE selected)

\* A find for no text clears xterm's selection, whoever made it.
FindNothing(a) ==
  [addon |-> [a EXCEPT !.cached = NoQuery, !.tracked = 0],
   selection |-> NoSelection, index |-> -1, count |-> 0]

\* The decorations go; a timer that is running goes on.
ClearDecorations(a) == [a EXCEPT !.cached = NoQuery, !.tracked = 0]

\* Parsed output and a resize: the timer starts again if there is a term to refresh.
UpdateMatches(a) == [a EXCEPT !.timer = a.cached # NoQuery]

(***************************************************************************)
(* The panel.                                                              *)
(***************************************************************************)
ClosedPanel ==
  [open |-> FALSE, composing |-> FALSE, input |-> NoQuery, query |-> NoQuery,
   index |-> -1, count |-> 0, owns |-> FALSE]

SearchInit ==
  /\ matches \in [Buffers -> [Queries -> 0..MaxMatches]]
  /\ matches["alternate"] = [q \in Queries |-> 0]
  /\ buffer = "normal"
  /\ panel = ClosedPanel
  /\ addon = SearchAddon(HighlightLimit)
  /\ selection = NoSelection
  /\ keyboard = "terminal"
  /\ copying = FALSE

\* A find's answer arrives in the panel through onDidChangeResults.
Report(p, answer) ==
  /\ addon' = answer.addon
  /\ selection' = answer.selection
  /\ panel' = [p EXCEPT !.index = answer.index, !.count = answer.count]

\* Fault: a search for no text leaves the results of the last one.
RunSearchForText(p, backwards, queryChanged) ==
  LET fresh == queryChanged \/ p.input # p.query
      a == IF fresh THEN ClearDecorations(addon) ELSE addon
      selected == IF fresh THEN NoSelection ELSE selection
      found == matches[buffer][p.input]
      asked == [p EXCEPT !.query = p.input, !.owns = p.owns \/ fresh]
  IN IF p.input = NoQuery
     THEN panel' = [p EXCEPT !.query = NoQuery] /\ UNCHANGED <<addon, selection>>
     ELSE Report(asked, IF backwards THEN FindPrevious(a, p.input, found, selected)
                                     ELSE FindNext(a, p.input, found, selected))

RunSearch(p, backwards, queryChanged) ==
  LET fresh == queryChanged \/ p.input # p.query
      a == IF fresh THEN ClearDecorations(addon) ELSE addon
      selected == IF fresh THEN NoSelection ELSE selection
      found == matches[buffer][p.input]
      asked == [p EXCEPT !.query = p.input, !.owns = p.owns \/ fresh]
  IN IF p.input = NoQuery
     THEN /\ addon' = ClearDecorations(addon)
          /\ selection' = IF p.owns THEN NoSelection ELSE selection
          /\ panel' = [p EXCEPT !.query = NoQuery, !.owns = FALSE, !.index = -1, !.count = 0]
     ELSE Report(asked, IF backwards THEN FindPrevious(a, p.input, found, selected)
                                     ELSE FindNext(a, p.input, found, selected))

\* Fault: the match selected last stays selected.
CloseSearchOnly ==
  IF panel.open
  THEN panel' = ClosedPanel /\ addon' = ClearDecorations(addon) /\ UNCHANGED selection
  ELSE UNCHANGED <<panel, addon, selection>>

CloseSearch ==
  IF panel.open
  THEN /\ panel' = ClosedPanel
       /\ addon' = ClearDecorations(addon)
       /\ selection' = IF panel.owns THEN NoSelection ELSE selection
  ELSE UNCHANGED <<panel, addon, selection>>

\* The message searchOpen: an open panel only takes the keyboard.
OpenSearch ==
  /\ panel' = IF panel.open THEN panel ELSE [ClosedPanel EXCEPT !.open = TRUE]
  /\ keyboard' = "search"
  /\ UNCHANGED <<matches, buffer, addon, selection, copying>>

(***************************************************************************)
(* Keys and clicks in the panel.                                           *)
(***************************************************************************)
Input(q) ==
  /\ panel.open /\ keyboard = "search"
  /\ IF panel.composing
     THEN panel' = [panel EXCEPT !.input = q] /\ UNCHANGED <<addon, selection>>
     ELSE RunSearch([panel EXCEPT !.input = q], FALSE, TRUE)
  /\ UNCHANGED <<matches, buffer, keyboard, copying>>

CompositionStart ==
  /\ panel.open /\ keyboard = "search" /\ ~panel.composing
  /\ panel' = [panel EXCEPT !.composing = TRUE]
  /\ UNCHANGED <<matches, buffer, addon, selection, keyboard, copying>>

CompositionEnd ==
  /\ panel.composing
  /\ RunSearch([panel EXCEPT !.composing = FALSE], FALSE, TRUE)
  /\ UNCHANGED <<matches, buffer, keyboard, copying>>

Enter(backwards) ==
  /\ panel.open /\ keyboard = "search" /\ ~panel.composing
  /\ RunSearch(panel, backwards, FALSE)
  /\ UNCHANGED <<matches, buffer, keyboard, copying>>

\* Previous and Next are disabled while there is nothing to go to.
Navigate(backwards) ==
  /\ panel.open /\ panel.query # NoQuery /\ panel.count > 0
  /\ RunSearch(panel, backwards, FALSE)
  /\ keyboard' = "search"
  /\ UNCHANGED <<matches, buffer, copying>>

\* Escape, the close button, a theme that changes.
CloseToTerminal ==
  /\ panel.open
  /\ CloseSearch
  /\ keyboard' = "terminal"
  /\ UNCHANGED <<matches, buffer, copying>>

(***************************************************************************)
(* The terminal, the window and the application.                           *)
(***************************************************************************)
\* A press in the terminal closes the search; what xterm selects is the user's.
SelectText(made) ==
  /\ panel' = ClosedPanel
  /\ addon' = IF panel.open THEN ClearDecorations(addon) ELSE addon
  /\ selection' = IF made THEN UserSelection ELSE NoSelection
  /\ keyboard' = "terminal"
  /\ UNCHANGED <<matches, buffer, copying>>

\* The window's blur event, and the message blur.
LoseKeyboard ==
  /\ CloseSearch
  /\ keyboard' = "none"
  /\ UNCHANGED <<matches, buffer, copying>>

\* The message focus leaves an open search its keyboard.
FocusMessage ==
  /\ keyboard' = IF panel.open THEN keyboard ELSE "terminal"
  /\ UNCHANGED <<matches, buffer, panel, addon, selection, copying>>

\* A copy key or a secondary click with a selection.
CopySelection ==
  /\ keyboard = "terminal" \/ ShouldRunTerminalSecondaryAction(panel.open)
  /\ selection # NoSelection
  /\ copying' = TRUE
  /\ UNCHANGED <<matches, buffer, panel, addon, selection, keyboard>>

\* The clipboard took the text: the message clearSelection, whatever is selected by then.
CopyDone(taken) ==
  /\ copying
  /\ copying' = FALSE
  /\ selection' = IF taken THEN NoSelection ELSE selection
  /\ UNCHANGED <<matches, buffer, panel, addon, keyboard>>

(***************************************************************************)
(* Output and the timer.                                                   *)
(***************************************************************************)
\* A resize is output that adds nothing.
Output(more) ==
  /\ \A q \in Queries : more[q] >= matches[buffer][q]
  /\ matches' = [matches EXCEPT ![buffer] = more]
  /\ addon' = UpdateMatches(addon)
  /\ UNCHANGED <<buffer, panel, selection, keyboard, copying>>

\* Output that switches buffers: xterm drops its selection, the page closes the search.
\* The alternate buffer starts empty.
SwitchBuffer(b) ==
  /\ b # buffer
  /\ buffer' = b
  /\ matches' = [matches EXCEPT !["alternate"] = [q \in Queries |-> 0]]
  /\ panel' = ClosedPanel
  /\ addon' = UpdateMatches(IF panel.open THEN ClearDecorations(addon) ELSE addon)
  /\ selection' = NoSelection
  /\ keyboard' = IF panel.open THEN "terminal" ELSE keyboard
  /\ UNCHANGED copying

\* The timer forgets the term it refreshes, then searches for it again.
Refresh ==
  LET term == addon.cached
      a == [ClearDecorations(addon) EXCEPT !.timer = FALSE]
  IN /\ addon.timer
     /\ Report(panel, IF term = NoQuery THEN FindNothing(a)
                      ELSE FindPrevious(a, term, matches[buffer][term], selection))
     /\ UNCHANGED <<matches, buffer, keyboard, copying>>

SearchNext ==
  \/ OpenSearch \/ CompositionStart \/ CompositionEnd \/ CloseToTerminal
  \/ \E q \in Queries \cup {NoQuery} : Input(q)
  \/ \E backwards \in BOOLEAN : Enter(backwards) \/ Navigate(backwards)
  \/ \E made \in BOOLEAN : SelectText(made)
  \/ LoseKeyboard \/ FocusMessage \/ CopySelection
  \/ \E taken \in BOOLEAN : CopyDone(taken)
  \/ \E more \in [Queries -> 0..MaxMatches] : Output(more)
  \/ \E b \in Buffers : SwitchBuffer(b)
  \/ Refresh

SearchSpec == SearchInit /\ [][SearchNext]_searchVars

(***************************************************************************)
(* Properties.                                                             *)
(***************************************************************************)
SearchTypeOK ==
  /\ matches \in [Buffers -> [Queries -> 0..MaxMatches]]
  /\ buffer \in Buffers
  /\ panel \in [open : BOOLEAN, composing : BOOLEAN, input : Queries \cup {NoQuery},
                query : Queries \cup {NoQuery}, index : -1..MaxMatches,
                count : 0..HighlightLimit, owns : BOOLEAN]
  /\ addon \in [cached : Queries \cup {NoQuery}, tracked : 0..HighlightLimit, timer : BOOLEAN,
                limit : {HighlightLimit}]
  /\ selection \in {NoSelection, UserSelection} \cup 0..MaxMatches
  /\ keyboard \in {"terminal", "search", "none"}
  /\ copying \in BOOLEAN

(* A search that is closed, by whichever of the seven ways, leaves nothing: no match is     *)
(* selected, no term is refreshed when output arrives, and the keys go to the terminal only *)
(* while it is closed, so that no typed query is sent to the server.                        *)
ClosedSearchLeavesNothing ==
  /\ ~panel.open => /\ selection \in {NoSelection, UserSelection}
                    /\ addon.cached = NoQuery
                    /\ panel.query = NoQuery /\ ~panel.owns /\ ~panel.composing
  /\ panel.open => keyboard = "search"

(* What the panel says is about what is highlighted: while it names a match that match is  *)
(* the one selected (or a late copy cleared it), and its query is the one the addon will   *)
(* refresh; a match is selected only by a search that will release it.                     *)
FeedbackMatchesSelection ==
  /\ panel.open => panel.query = addon.cached
  /\ panel.open /\ panel.index >= 0 => selection \in {panel.index, NoSelection}
  /\ selection >= 0 => panel.open /\ panel.owns
  /\ panel.open /\ panel.owns => selection # UserSelection
=============================================================================
