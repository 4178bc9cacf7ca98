---------------------------- MODULE TerminalLinks ----------------------------
(***************************************************************************)
(* Links of the terminal page: xterm's linkifier says which link is under  *)
(* the pointer, the page shows its target while the modifiers that open it *)
(* are held, and a press and a release on it open it.  Between the two the *)
(* pointer moves, output redraws the line, the program changes the mouse   *)
(* mode and the window loses the keyboard.                                 *)
(***************************************************************************)
EXTENDS TerminalPolicy

CONSTANTS
  Links,       \* the places of links, each a record with its url
  NoLink,      \* not a place of a link; its url is the empty text
  Modifiers,   \* the modifiers held: records of ctrl, alt, shift, meta
  Modes        \* the mouse tracking modes of the program

NoModifiers == [ctrl |-> FALSE, alt |-> FALSE, shift |-> FALSE, meta |-> FALSE]

ASSUME LinksAssumption ==
  /\ NoLink \notin Links
  /\ \A l \in Links : l.url # NoLink.url
  /\ NoModifiers \in Modifiers
  /\ "none" \in Modes

VARIABLES
  mouseMode,   \* currentMouseTrackingMode
  current,     \* the linkifier's link under the pointer
  mouseDown,   \* the linkifier's link of the last press
  moved,       \* the modifiers of the last move of the mouse
  modifiers,   \* linkModifierState
  preview,     \* the target on show, or the empty text
  click,       \* pendingLinkClick: its url and whether it is dragged; the url of NoLink is none
  opened,      \* the url sent to the application in this step, or the empty text
  aim          \* history: the link pressed with the primary button and not left or dragged since

linkVars == <<mouseMode, current, mouseDown, moved, modifiers, preview, click, opened, aim>>

NoUrl == NoLink.url
NoClick == [url |-> NoUrl, dragged |-> FALSE]

LinkInit ==
  /\ mouseMode = "none"
  /\ current = NoLink /\ mouseDown = NoLink
  /\ moved = NoModifiers /\ modifiers = NoModifiers
  /\ preview = NoUrl /\ click = NoClick
  /\ opened = NoUrl /\ aim = NoLink

Event(held, button) ==
  [ctrl |-> held.ctrl, alt |-> held.alt, shift |-> held.shift, meta |-> held.meta,
   button |-> button]

\* updateLinkPreview, of the link under the pointer.
Preview(link, held, mode) == IF IsLinkModifierActive(held, mode) THEN link.url ELSE NoUrl

\* Fault: the link that is left keeps its pending click.
HoverKeepingClick(link, held) ==
  /\ current' = link
  /\ modifiers' = IF link = NoLink THEN modifiers ELSE held
  /\ preview' = Preview(link, modifiers', mouseMode)
  /\ click' = click

\* The linkifier leaves its link and finds another one, or none.
Hover(link, held) ==
  /\ current' = link
  /\ modifiers' = IF link = NoLink THEN modifiers ELSE held
  /\ preview' = Preview(link, modifiers', mouseMode)
  /\ click' = IF current = NoLink THEN click ELSE NoClick

\* The pointer moves to a link or off the links; far from where it was pressed, it drags.
Move(link, held, far) ==
  /\ moved' = held
  /\ LET dragged == IF click = NoClick THEN click ELSE [click EXCEPT !.dragged = @ \/ far] IN
     IF link = current
     THEN click' = dragged /\ UNCHANGED <<current, modifiers, preview>>
     ELSE Hover(link, held)
  /\ aim' = IF link # current \/ far THEN NoLink ELSE aim
  /\ opened' = NoUrl
  /\ UNCHANGED <<mouseMode, mouseDown>>

\* Output is drawn under the pointer: xterm asks for the link there again, as if the mouse
\* had moved with the modifiers it last moved with.
Redraw(link) ==
  /\ current # NoLink
  /\ Hover(link, moved)
  /\ aim' = NoLink
  /\ opened' = NoUrl
  /\ UNCHANGED <<mouseMode, mouseDown, moved>>

\* Output is drawn elsewhere: the feedback is brought up to date.
LinkRender ==
  /\ preview' = Preview(current, modifiers, mouseMode)
  /\ opened' = NoUrl
  /\ UNCHANGED <<mouseMode, current, mouseDown, moved, modifiers, click, aim>>

SetMouseMode(mode) ==
  /\ mode # mouseMode
  /\ mouseMode' = mode
  /\ opened' = NoUrl
  /\ UNCHANGED <<current, mouseDown, moved, modifiers, preview, click, aim>>

\* A key goes down or up while the page has the keyboard.
LinkKey(held) ==
  /\ modifiers' = held
  /\ preview' = Preview(current, held, mouseMode)
  /\ opened' = NoUrl
  /\ UNCHANGED <<mouseMode, current, mouseDown, moved, click, aim>>

\* beginLinkClick, then the linkifier.
Press(held, button) ==
  /\ click' = IF current # NoLink /\ IsLinkModifierActive(held, mouseMode) /\ button = 0
              THEN [url |-> current.url, dragged |-> FALSE] ELSE NoClick
  /\ mouseDown' = current
  /\ aim' = IF button = 0 THEN current ELSE NoLink
  /\ opened' = NoUrl
  /\ UNCHANGED <<mouseMode, current, moved, modifiers, preview>>

\* The linkifier activates the link that was pressed; then the page forgets the press.
Release(held, button) ==
  LET event == Event(held, button) IN
  /\ opened' = IF /\ current # NoLink /\ mouseDown = current
                  /\ ShouldActivateLink(event, mouseMode, click.url = current.url, click.dragged)
               THEN current.url ELSE NoUrl
  /\ click' = NoClick
  /\ aim' = NoLink
  /\ UNCHANGED <<mouseMode, current, mouseDown, moved, modifiers, preview>>

LoseWindow ==
  /\ modifiers' = NoModifiers
  /\ click' = NoClick
  /\ preview' = NoUrl
  /\ opened' = NoUrl
  /\ UNCHANGED <<mouseMode, current, mouseDown, moved, aim>>

LinkNext ==
  \/ \E link \in Links \cup {NoLink}, held \in Modifiers, far \in BOOLEAN : Move(link, held, far)
  \/ \E link \in Links \cup {NoLink} : Redraw(link)
  \/ LinkRender \/ LoseWindow
  \/ \E mode \in Modes : SetMouseMode(mode)
  \/ \E held \in Modifiers : LinkKey(held)
  \/ \E held \in Modifiers, button \in {0, 1} : Press(held, button) \/ Release(held, button)

LinkSpec == LinkInit /\ [][LinkNext]_linkVars

LinkTypeOK ==
  /\ mouseMode \in Modes
  /\ {current, mouseDown, aim} \subseteq Links \cup {NoLink}
  /\ {moved, modifiers} \subseteq Modifiers
  /\ {preview, opened, click.url} \subseteq {l.url : l \in Links \cup {NoLink}}
  /\ click.dragged \in BOOLEAN

(* A link is opened only by a press and a release of the primary button on it, with no leave, *)
(* redraw or drag between them, whatever else moves, draws or changes mode meanwhile, and      *)
(* never with modifiers that the program's mouse reporting owns (activateTerminalLink).        *)
OpensOnlyWhatWasPressed ==
  [][opened' # NoUrl => (aim # NoLink /\ aim = current /\ opened' = aim.url)]_linkVars
==============================================================================
