----------------------------- MODULE MCDesktop -----------------------------
(***************************************************************************)
(* The parts of the application around a session: they share no state, so   *)
(* that in one run each of them moves alone, from its own initial states,   *)
(* while the others stay where they begin.                                 *)
(***************************************************************************)
EXTENDS TerminalPolicyTests, TerminalLinks, TerminalWheel, TerminalReplies, BellAttention,
        Workspace, DurableState, AssetBuild

VARIABLE part   \* the part that moves

desktopVars ==
  <<part, searchVars, linkVars, wheelVars, replyVars, bellVars, workspaceVars, stateVars, buildVars>>

Parts == {"search", "links", "wheel", "replies", "bell", "workspace", "state", "build"}

DesktopInit ==
  /\ part \in Parts
  /\ SearchInit /\ LinkInit /\ WheelInit /\ ReplyInit /\ BellInit /\ WorkspaceInit
  /\ StateInit /\ BuildInit
  /\ part # "search" => \A q \in Queries : matches["normal"][q] = 0
  /\ part # "replies" => waiting = <<>>
  /\ part # "state" => /\ \A p \in TextPaths : texts[p] = None
                       /\ \A n \in Names : private[n] = None

DesktopNext ==
  \/ /\ part = "search" /\ SearchNext
     /\ UNCHANGED <<part, linkVars, wheelVars, replyVars, bellVars, workspaceVars, stateVars, buildVars>>
  \/ /\ part = "links" /\ LinkNext
     /\ UNCHANGED <<part, searchVars, wheelVars, replyVars, bellVars, workspaceVars, stateVars, buildVars>>
  \/ /\ part = "wheel" /\ WheelNext
     /\ UNCHANGED <<part, searchVars, linkVars, replyVars, bellVars, workspaceVars, stateVars, buildVars>>
  \/ /\ part = "replies" /\ ReplyNext
     /\ UNCHANGED <<part, searchVars, linkVars, wheelVars, bellVars, workspaceVars, stateVars, buildVars>>
  \/ /\ part = "bell" /\ BellNext
     /\ UNCHANGED <<part, searchVars, linkVars, wheelVars, replyVars, workspaceVars, stateVars, buildVars>>
  \/ /\ part = "workspace" /\ WorkspaceNext
     /\ UNCHANGED <<part, searchVars, linkVars, wheelVars, replyVars, bellVars, stateVars, buildVars>>
  \/ /\ part = "state" /\ StateNext
     /\ UNCHANGED <<part, searchVars, linkVars, wheelVars, replyVars, bellVars, workspaceVars, buildVars>>
  \/ /\ part = "build" /\ BuildNext
     /\ UNCHANGED <<part, searchVars, linkVars, wheelVars, replyVars, bellVars, workspaceVars, stateVars>>

DesktopSpec == DesktopInit /\ [][DesktopNext]_desktopVars

MCLinks == {[url |-> "u", place |-> 1], [url |-> "u", place |-> 2], [url |-> "v", place |-> 3]}
MCNoLink == [url |-> "", place |-> 0]
MCModifiers ==
  {NoModifiers, [NoModifiers EXCEPT !.ctrl = TRUE], [NoModifiers EXCEPT !.ctrl = TRUE, !.shift = TRUE]}
MCTurns ==
  {[delta |-> 40, mode |-> WheelPixel], [delta |-> -40, mode |-> WheelPixel],
   [delta |-> 0, mode |-> WheelPixel], [delta |-> -3, mode |-> WheelLine],
   [delta |-> 1, mode |-> WheelPage]}
MCAssets == <<"xterm.js", "xterm.css", "addon-search.js">>

(* Each variable of each part has its type. *)
AppTypeOK ==
  /\ SearchTypeOK /\ LinkTypeOK /\ WheelTypeOK /\ BellTypeOK /\ WorkspaceTypeOK /\ StateTypeOK
  /\ part \in Parts
=============================================================================
