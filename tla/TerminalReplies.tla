--------------------------- MODULE TerminalReplies ---------------------------
(***************************************************************************)
(* What the terminal says to the server of its own accord: a program asks  *)
(* (cursor position, device attributes, focus reports) and xterm answers    *)
(* when it parses the question.  A new page of a pane first parses the      *)
(* snapshot of the old one, whose modes make xterm answer too, then the     *)
(* output that has waited; only the answers to output may reach the server. *)
(* Flow control does not change the order and is TerminalFlow's.            *)
(***************************************************************************)
EXTENDS Naturals, Sequences, SequencesExt

CONSTANTS
  MaxOutputs,   \* bound: chunks of output
  MaxKeys       \* bound: keys the user types

ASSUME RepliesAssumption == MaxOutputs \in Nat /\ MaxKeys \in Nat

VARIABLES
  ready,       \* the bridge has the page's READY
  waiting,     \* the bridge's pending messages, the snapshot first
  outputs,     \* chunks so far
  toPage,      \* messages on the port
  writes,      \* xterm's write buffer
  parsed,      \* history: what xterm has parsed
  restoringSnapshot,
  keys,        \* keys so far
  toServer     \* terminal data sent to the application: answers and keys

replyVars == <<ready, waiting, outputs, toPage, writes, parsed, restoringSnapshot, keys, toServer>>

Snapshot(asks) == [kind |-> "snapshot", number |-> 0, asks |-> asks]
Chunk(n, asks) == [kind |-> "output", number |-> n, asks |-> asks]
Key(n) == [kind |-> "key", number |-> n, asks |-> FALSE]

\* A page without a snapshot, or one that replaces a page.
ReplyInit ==
  /\ \/ waiting = <<>>
     \/ \E asks \in BOOLEAN : waiting = <<Snapshot(asks)>>
  /\ ready = FALSE /\ restoringSnapshot = FALSE
  /\ outputs = 0 /\ keys = 0
  /\ toPage = <<>> /\ writes = <<>> /\ parsed = <<>> /\ toServer = <<>>

\* Output of the session reaches the bridge.
BridgeWrites(asks) ==
  /\ outputs < MaxOutputs
  /\ outputs' = outputs + 1
  /\ LET chunk == Chunk(outputs + 1, asks) IN
     IF ready THEN toPage' = Append(toPage, chunk) /\ UNCHANGED waiting
              ELSE waiting' = Append(waiting, chunk) /\ UNCHANGED toPage
  /\ UNCHANGED <<ready, writes, parsed, restoringSnapshot, keys, toServer>>

\* READY: the snapshot and the output that has waited go out together.
BridgeReady ==
  /\ ~ready
  /\ ready' = TRUE
  /\ toPage' = toPage \o waiting
  /\ waiting' = <<>>
  /\ UNCHANGED <<outputs, writes, parsed, restoringSnapshot, keys, toServer>>

\* Fault: a snapshot counts as restored as soon as it is handed to xterm.
PageTakesBriefly ==
  /\ toPage # <<>>
  /\ toPage' = Tail(toPage)
  /\ writes' = Append(writes, Head(toPage))
  /\ UNCHANGED <<ready, waiting, outputs, parsed, restoringSnapshot, keys, toServer>>

\* The port's onmessage: a packet, or restoreSnapshot.
PageTakes ==
  /\ toPage # <<>>
  /\ toPage' = Tail(toPage)
  /\ writes' = Append(writes, Head(toPage))
  /\ restoringSnapshot' = (restoringSnapshot \/ Head(toPage).kind = "snapshot")
  /\ UNCHANGED <<ready, waiting, outputs, parsed, keys, toServer>>

\* term.onData.
OnData(message) ==
  toServer' = IF restoringSnapshot THEN toServer ELSE Append(toServer, message)

\* xterm parses a chunk, answering on the way; then its callback runs.
Parse ==
  LET chunk == Head(writes) IN
  /\ writes # <<>>
  /\ writes' = Tail(writes)
  /\ parsed' = Append(parsed, chunk)
  /\ IF chunk.asks THEN OnData(chunk) ELSE UNCHANGED toServer
  /\ restoringSnapshot' = (restoringSnapshot /\ chunk.kind # "snapshot")
  /\ UNCHANGED <<ready, waiting, outputs, toPage, keys>>

\* The user types; what is typed while a snapshot is restored is lost.
TypeKey ==
  /\ keys < MaxKeys
  /\ keys' = keys + 1
  /\ OnData(Key(keys + 1))
  /\ UNCHANGED <<ready, waiting, outputs, toPage, writes, parsed, restoringSnapshot>>

ReplyNext ==
  \/ \E asks \in BOOLEAN : BridgeWrites(asks)
  \/ BridgeReady \/ PageTakes \/ Parse \/ TypeKey

ReplySpec == ReplyInit /\ [][ReplyNext]_replyVars

(* Restoring a snapshot is silent and nothing else is: the server gets the answer to every *)
(* question in its output that has been parsed, once and in order, and no answer to what a  *)
(* snapshot makes xterm say, although the output follows the snapshot on the port at once   *)
(* (terminal.html, restoreSnapshot and onData).                                             *)
RestoreIsSilent ==
  LET answers == [i \in DOMAIN toServer |->
                    IF toServer[i].kind = "key" THEN <<>> ELSE <<toServer[i]>>]
      questions == [i \in DOMAIN parsed |->
                      IF parsed[i].kind = "output" /\ parsed[i].asks
                      THEN <<parsed[i]>> ELSE <<>>]
  IN FlattenSeq(answers) = FlattenSeq(questions)
==============================================================================
