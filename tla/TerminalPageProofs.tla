------------------------- MODULE TerminalPageProofs -------------------------
(***************************************************************************)
(* The terminal page: its rules, links, wheel, bell, replies and search     *)
(* panel, and the build of the assets it is served from, for every value of *)
(* their constants.                                                        *)
(***************************************************************************)
EXTENDS TerminalLinks, TerminalWheel, BellAttention, TerminalReplies,
        TerminalPolicyTests, AssetBuild, SequenceLemmas, TLAPS

-----------------------------------------------------------------------------
(* The rules of the page for all inputs, of which the tests play a few.    *)

(* A clipboard text is taken exactly when its bytes fit, for every limit: the length check of the *)
(* Base64 text comes first and refuses none that fits (decodeOsc52).                              *)
THEOREM ClipboardTakesWhatFits ==
  \A bytes \in Nat : DecodeOsc52(Payload("c", bytes)) = "ok" <=> bytes <= MaxClipboardBytes
<1> SUFFICES ASSUME NEW bytes \in Nat
             PROVE  DecodeOsc52(Payload("c", bytes)) = "ok" <=> bytes <= MaxClipboardBytes
  OBVIOUS
<1>1. MaxClipboardBytes \in Nat
  BY PolicyAssumption
<1>2. bytes <= MaxClipboardBytes => EncodedLength(bytes) <= MaxEncodedLength
  BY <1>1 DEF EncodedLength, MaxEncodedLength
<1>3. EncodedLength(bytes) \in Nat /\ MaxEncodedLength \in Nat
  BY <1>1 DEF EncodedLength, MaxEncodedLength
<1>4. PICK payload : payload = Payload("c", bytes)
  OBVIOUS
<1>5. /\ payload.separator = TRUE /\ payload.target = "c" /\ payload.read = FALSE
      /\ payload.encoded = EncodedLength(bytes) /\ payload.base64 = TRUE
      /\ payload.bytes = bytes /\ payload.utf8 = TRUE
  BY <1>4 DEF Payload
<1>6. DecodeOsc52(payload) = IF EncodedLength(bytes) > MaxEncodedLength THEN "encoded-too-large"
                             ELSE IF bytes > MaxClipboardBytes THEN "decoded-too-large" ELSE "ok"
  BY <1>5 DEF DecodeOsc52
<1> QED
  BY <1>1, <1>2, <1>3, <1>4, <1>6

\* The text with n lines of scrollback can be sent.
CanSend(length, available, n) == length[n] # Unserializable /\ length[n] <= available

\* f is the function of SerializeTerminalSnapshot from m lines on.
Grows(f, m, length, available) ==
  f = [n \in m..ScrollbackLines |->
        IF length[n] = Unserializable \/ length[n] > available THEN NoSnapshot
        ELSE IF n = ScrollbackLines THEN n
        ELSE Greatest(n, f[NextScrollback(n)])]

LEMMA ScrollbackGrows ==
  ASSUME NEW n \in 0..ScrollbackLines, n # ScrollbackLines
  PROVE  NextScrollback(n) \in (n + 1)..ScrollbackLines
BY PolicyAssumption DEF NextScrollback, Least

LEMMA GrowsExists ==
  ASSUME NEW length, NEW available
  PROVE  \E f : Grows(f, 0, length, available)
<1>0. ScrollbackLines \in Nat
  BY PolicyAssumption
<1> DEFINE T == {k \in Nat : k <= ScrollbackLines =>
                             \E f : Grows(f, ScrollbackLines - k, length, available)}
           Bad(n) == length[n] = Unserializable \/ length[n] > available
<1>1. 0 \in T
  <2> DEFINE f == [n \in ScrollbackLines..ScrollbackLines |-> IF Bad(n) THEN NoSnapshot ELSE n]
  <2>1. \A n \in ScrollbackLines..ScrollbackLines : n = ScrollbackLines
    BY <1>0
  <2>2. f = [n \in ScrollbackLines..ScrollbackLines |->
               IF length[n] = Unserializable \/ length[n] > available THEN NoSnapshot
               ELSE IF n = ScrollbackLines THEN n
               ELSE Greatest(n, f[NextScrollback(n)])]
    BY <2>1
  <2>3. Grows(f, ScrollbackLines - 0, length, available)
    <3>1. ScrollbackLines - 0 = ScrollbackLines
      BY <1>0
    <3> HIDE DEF f
    <3> QED
      BY <2>2, <3>1 DEF Grows
  <2> HIDE DEF f
  <2> QED
    BY <2>3
<1>2. ASSUME NEW k \in T PROVE k + 1 \in T
  <2> SUFFICES ASSUME k + 1 <= ScrollbackLines
               PROVE  \E f : Grows(f, ScrollbackLines - (k + 1), length, available)
    OBVIOUS
  <2>1. PICK m \in 0..ScrollbackLines : m = ScrollbackLines - k /\ m - 1 = ScrollbackLines - (k + 1)
                                        /\ m - 1 \in 0..ScrollbackLines
    BY <1>0
  <2>2. PICK f : Grows(f, m, length, available)
    BY <1>0, <2>1
  <2>3. DOMAIN f = m..ScrollbackLines
        /\ \A n \in m..ScrollbackLines :
             f[n] = IF length[n] = Unserializable \/ length[n] > available THEN NoSnapshot
                    ELSE IF n = ScrollbackLines THEN n
                    ELSE Greatest(n, f[NextScrollback(n)])
    BY <2>2, Zenon DEF Grows
  <2> DEFINE g == [n \in (m - 1)..ScrollbackLines |->
                     IF n >= m THEN f[n]
                     ELSE IF length[n] = Unserializable \/ length[n] > available THEN NoSnapshot
                     ELSE IF n = ScrollbackLines THEN n
                     ELSE Greatest(n, f[NextScrollback(n)])]
  <2>4. \A n \in (m - 1)..ScrollbackLines :
          n # ScrollbackLines => NextScrollback(n) \in m..ScrollbackLines
    BY <1>0, <2>1, ScrollbackGrows
  <2>5. \A n \in m..ScrollbackLines : n \in (m - 1)..ScrollbackLines /\ n >= m
    BY <1>0, <2>1
  <2>6. \A n \in (m - 1)..ScrollbackLines :
          n # ScrollbackLines => g[NextScrollback(n)] = f[NextScrollback(n)]
    BY <2>4, <2>5
  <2>7. ASSUME NEW n \in (m - 1)..ScrollbackLines
        PROVE  g[n] = IF length[n] = Unserializable \/ length[n] > available THEN NoSnapshot
                      ELSE IF n = ScrollbackLines THEN n
                      ELSE Greatest(n, g[NextScrollback(n)])
    <3>1. g[n] = IF length[n] = Unserializable \/ length[n] > available THEN NoSnapshot
                 ELSE IF n = ScrollbackLines THEN n
                 ELSE Greatest(n, f[NextScrollback(n)])
      <4>1. CASE n >= m
        <5>1. n \in m..ScrollbackLines /\ g[n] = f[n]
          BY <2>1, <4>1
        <5> HIDE DEF g
        <5> QED
          BY <2>3, <5>1, Zenon
      <4>2. CASE ~(n >= m)
        BY <4>2
      <4> QED
        BY <4>1, <4>2
    <3> HIDE DEF g
    <3> QED
      BY <2>6, <3>1, Zenon
  <2>8. g = [n \in (m - 1)..ScrollbackLines |-> g[n]]
    OBVIOUS
  <2>9. Grows(g, m - 1, length, available)
    <3> HIDE DEF g
    <3> QED
      BY <2>7, <2>8 DEF Grows
  <2> HIDE DEF g
  <2> QED
    BY <2>1, <2>9
<1>3. T = Nat
  <2> HIDE DEF T
  <2>1. T \subseteq Nat
    BY DEF T
  <2> QED
    BY <1>1, <1>2, <2>1, NatBySet
<1>4. ScrollbackLines \in T
  <2> HIDE DEF T
  <2> QED
    BY <1>0, <1>3
<1>5. \E f : Grows(f, ScrollbackLines - ScrollbackLines, length, available)
  BY <1>0, <1>4
<1>6. ScrollbackLines - ScrollbackLines = 0
  BY <1>0
<1> QED
  BY <1>5, <1>6

\* What the function gives from n lines on.
KeptFrom(kept, length, available, n) ==
  /\ kept = NoSnapshot <=> ~CanSend(length, available, n)
  /\ kept # NoSnapshot =>
       /\ kept \in n..ScrollbackLines /\ CanSend(length, available, kept)
       /\ kept = ScrollbackLines \/ ~CanSend(length, available, NextScrollback(kept))

LEMMA GrowsKeeps ==
  ASSUME NEW length \in [0..ScrollbackLines -> Int], NEW available \in Int, NEW f,
         Grows(f, 0, length, available)
  PROVE  KeptFrom(f[0], length, available, 0)
<1>0. ScrollbackLines \in Nat
  BY PolicyAssumption
<1> DEFINE T == {k \in Nat : \A n \in 0..ScrollbackLines : ScrollbackLines - n <= k =>
                               KeptFrom(f[n], length, available, n)}
<1>1. ASSUME NEW n \in 0..ScrollbackLines
      PROVE  f[n] = IF ~CanSend(length, available, n) THEN NoSnapshot
                    ELSE IF n = ScrollbackLines THEN n
                    ELSE Greatest(n, f[NextScrollback(n)])
  <2>1. f[n] = IF length[n] = Unserializable \/ length[n] > available THEN NoSnapshot
               ELSE IF n = ScrollbackLines THEN n
               ELSE Greatest(n, f[NextScrollback(n)])
    BY Zenon DEF Grows
  <2>2. length[n] > available <=> ~(length[n] <= available)
    OBVIOUS
  <2>3. ~CanSend(length, available, n) <=> length[n] = Unserializable \/ length[n] > available
    BY <2>2, Zenon DEF CanSend
  <2> QED
    BY <2>1, <2>3, Zenon
<1>2. ASSUME NEW n \in 0..ScrollbackLines, ~CanSend(length, available, n)
      PROVE  KeptFrom(f[n], length, available, n)
  BY <1>1, <1>2 DEF KeptFrom
<1>3. \A n \in 0..ScrollbackLines : n # NoSnapshot
  BY <1>0 DEF NoSnapshot
<1>4. 0 \in T
  <2>1. ASSUME NEW n \in 0..ScrollbackLines, ScrollbackLines - n <= 0
        PROVE  KeptFrom(f[n], length, available, n)
    <3>1. n = ScrollbackLines /\ n \in n..ScrollbackLines
      BY <1>0, <2>1
    <3>2. CASE CanSend(length, available, n)
      <4>1. f[n] = n
        BY <1>1, <3>1, <3>2
      <4> QED
        BY <1>3, <3>1, <3>2, <4>1 DEF KeptFrom
    <3> QED
      BY <1>2, <3>2
  <2> QED
    BY <2>1
<1>5. ASSUME NEW k \in T PROVE k + 1 \in T
  <2>1. ASSUME NEW n \in 0..ScrollbackLines, ScrollbackLines - n <= k + 1
        PROVE  KeptFrom(f[n], length, available, n)
    <3>1. CASE ScrollbackLines - n <= k
      BY <3>1
    <3>2. CASE ~CanSend(length, available, n)
      BY <1>2, <3>2
    <3>3. CASE ~(ScrollbackLines - n <= k) /\ CanSend(length, available, n)
      <4>1. n # ScrollbackLines
        BY <1>0, <3>3
      <4>2. PICK m \in (n + 1)..ScrollbackLines : m = NextScrollback(n)
        BY <4>1, ScrollbackGrows
      <4>3. m \in 0..ScrollbackLines /\ ScrollbackLines - m <= k
        BY <1>0, <2>1, <4>2
      <4>4. KeptFrom(f[m], length, available, m)
        BY <4>3
      <4>5. f[n] = Greatest(n, f[m])
        BY <1>1, <3>3, <4>1, <4>2
      <4>6. CASE f[m] = NoSnapshot
        <5>1. f[n] = n
          BY <1>0, <4>5, <4>6 DEF Greatest, NoSnapshot
        <5>2. ~CanSend(length, available, NextScrollback(n))
          BY <4>2, <4>4, <4>6 DEF KeptFrom
        <5>3. n \in n..ScrollbackLines
          BY <1>0
        <5> QED
          BY <1>3, <3>3, <5>1, <5>2, <5>3 DEF KeptFrom
      <4>7. CASE f[m] # NoSnapshot
        <5>1. f[m] \in m..ScrollbackLines
          BY <4>4, <4>7 DEF KeptFrom
        <5>2. f[n] = f[m] /\ f[m] \in n..ScrollbackLines
          BY <1>0, <4>2, <4>5, <5>1 DEF Greatest
        <5> QED
          BY <3>3, <4>4, <4>7, <5>2 DEF KeptFrom
      <4> QED
        BY <4>6, <4>7
    <3> QED
      BY <3>1, <3>2, <3>3
  <2> QED
    BY <2>1
<1>6. T = Nat
  <2> HIDE DEF T
  <2>1. T \subseteq Nat
    BY DEF T
  <2> QED
    BY <1>4, <1>5, <2>1, NatBySet
<1>7. ScrollbackLines \in T
  <2> HIDE DEF T
  <2> QED
    BY <1>0, <1>6
<1>8. 0 \in 0..ScrollbackLines /\ ScrollbackLines - 0 <= ScrollbackLines
  BY <1>0
<1> QED
  BY <1>7, <1>8

(* Of the texts that are tried, the last one is kept that can be sent and whose next cannot, or  *)
(* the one with all the scrollback, whatever the lengths are; there is none when the screen alone *)
(* is too long (serializeTerminalSnapshot).                                                     *)
THEOREM SnapshotIsTheLastThatFits ==
  ASSUME NEW length \in [0..ScrollbackLines -> Int], NEW available \in Int
  PROVE  KeptFrom(SerializeTerminalSnapshot(length, available), length, available, 0)
<1> DEFINE f == CHOOSE grow : grow = [n \in 0..ScrollbackLines |->
                  IF length[n] = Unserializable \/ length[n] > available THEN NoSnapshot
                  ELSE IF n = ScrollbackLines THEN n
                  ELSE Greatest(n, grow[NextScrollback(n)])]
<1>1. Grows(f, 0, length, available)
  <2>1. \E g : g = [n \in 0..ScrollbackLines |->
                  IF length[n] = Unserializable \/ length[n] > available THEN NoSnapshot
                  ELSE IF n = ScrollbackLines THEN n
                  ELSE Greatest(n, g[NextScrollback(n)])]
    BY GrowsExists, ZenonT(40) DEF Grows
  <2> QED
    BY <2>1, Zenon DEF Grows
<1>2. SerializeTerminalSnapshot(length, available) = f[0]
  BY DEF SerializeTerminalSnapshot
<1> HIDE DEF f
<1> QED
  BY <1>1, <1>2, GrowsKeeps

(* The keyboard goes round the search panel's controls: it stays among them, and a step back     *)
(* undoes a step on (wrappedControlIndex).                                                      *)
THEOREM ControlsGoRound ==
  ASSUME NEW count \in Nat \ {0}, NEW index \in 0..(count - 1)
  PROVE  /\ WrappedControlIndex(index, count, FALSE) \in 0..(count - 1)
         /\ WrappedControlIndex(index, count, TRUE) \in 0..(count - 1)
         /\ WrappedControlIndex(WrappedControlIndex(index, count, FALSE), count, TRUE) = index
         /\ WrappedControlIndex(WrappedControlIndex(index, count, TRUE), count, FALSE) = index
<1>1. ASSUME NEW i \in 0..(count - 1)
      PROVE  /\ WrappedControlIndex(i, count, FALSE) = IF i = count - 1 THEN 0 ELSE i + 1
             /\ WrappedControlIndex(i, count, TRUE) = IF i = 0 THEN count - 1 ELSE i - 1
  <2>1. /\ WrappedControlIndex(i, count, FALSE) = (i + 1 + count) % count
        /\ WrappedControlIndex(i, count, TRUE) = (i + -1 + count) % count
    BY DEF WrappedControlIndex
  <2>2. (i + 1 + count) % count = IF i = count - 1 THEN 0 ELSE i + 1
    OBVIOUS
  <2>3. (i + -1 + count) % count = IF i = 0 THEN count - 1 ELSE i - 1
    OBVIOUS
  <2> QED
    BY <2>1, <2>2, <2>3
<1>2. PICK next \in 0..(count - 1) : /\ next = WrappedControlIndex(index, count, FALSE)
                                     /\ next = IF index = count - 1 THEN 0 ELSE index + 1
  <2>1. (IF index = count - 1 THEN 0 ELSE index + 1) \in 0..(count - 1)
    OBVIOUS
  <2> QED
    BY <1>1, <2>1, Zenon
<1>3. PICK back \in 0..(count - 1) : /\ back = WrappedControlIndex(index, count, TRUE)
                                     /\ back = IF index = 0 THEN count - 1 ELSE index - 1
  <2>1. (IF index = 0 THEN count - 1 ELSE index - 1) \in 0..(count - 1)
    OBVIOUS
  <2> QED
    BY <1>1, <2>1, Zenon
<1>4. WrappedControlIndex(next, count, TRUE) = index
  <2>1. WrappedControlIndex(next, count, TRUE) = IF next = 0 THEN count - 1 ELSE next - 1
    BY <1>1, Zenon
  <2>2. next = IF index = count - 1 THEN 0 ELSE index + 1
    BY <1>2, Zenon
  <2>3. CASE index = count - 1
    BY <2>1, <2>2, <2>3
  <2>4. CASE index # count - 1
    <3>1. next - 1 = index /\ next # 0
      BY <2>2, <2>4
    <3> QED
      BY <2>1, <3>1, Zenon
  <2> QED
    BY <2>3, <2>4
<1>5. WrappedControlIndex(back, count, FALSE) = index
  <2>1. WrappedControlIndex(back, count, FALSE) = IF back = count - 1 THEN 0 ELSE back + 1
    BY <1>1, Zenon
  <2>2. back = IF index = 0 THEN count - 1 ELSE index - 1
    BY <1>3, Zenon
  <2>3. CASE index = 0
    BY <2>1, <2>2, <2>3
  <2>4. CASE index # 0
    <3>1. back + 1 = index /\ back # count - 1
      BY <2>2, <2>4
    <3> QED
      BY <2>1, <3>1, Zenon
  <2> QED
    BY <2>3, <2>4
<1> QED
  BY <1>2, <1>3, <1>4, <1>5, Zenon

-----------------------------------------------------------------------------
(* Links.                                                                  *)

Urls == {l.url : l \in Links \cup {NoLink}}

\* A pending click is on the link under the pointer and, until it is dragged, on the one that
\* was pressed.
LinkInv ==
  /\ current \in Links \cup {NoLink}
  /\ click \in [url : Urls, dragged : BOOLEAN]
  /\ click.url # NoUrl => current # NoLink
  /\ click.url # NoUrl /\ ~click.dragged => aim = current

\* Only a link has a target.
LEMMA LinkHasUrl ==
  ASSUME NEW l \in Links \cup {NoLink}
  PROVE  /\ l.url \in Urls
         /\ l = NoLink <=> l.url = NoUrl
         /\ NoClick \in [url : Urls, dragged : BOOLEAN] /\ NoClick.url = NoUrl
<1>1. l.url \in Urls /\ NoUrl \in Urls
  BY DEF Urls, NoUrl
<1> QED
  BY <1>1, LinksAssumption DEF NoUrl, NoClick

LEMMA LinkInitInv == LinkInit => LinkInv
<1> SUFFICES ASSUME LinkInit PROVE LinkInv
  OBVIOUS
<1> QED
  BY LinkHasUrl DEF LinkInit, LinkInv

LEMMA HoverInv ==
  ASSUME LinkInv, NEW link \in Links \cup {NoLink}, NEW held, Hover(link, held)
  PROVE  /\ current' = link
         /\ click'.url = NoUrl
         /\ click' \in [url : Urls, dragged : BOOLEAN]
BY LinkHasUrl DEF LinkInv, Hover

LEMMA MoveInv ==
  ASSUME LinkInv, NEW link \in Links \cup {NoLink}, NEW held, NEW far \in BOOLEAN,
         Move(link, held, far)
  PROVE  LinkInv'
<1>1. CASE link = current
  <2> DEFINE dragged == IF click = NoClick THEN click ELSE [click EXCEPT !.dragged = @ \/ far]
  <2>1. click' = dragged /\ current' = current /\ aim' = IF far THEN NoLink ELSE aim
    BY <1>1 DEF Move
  <2>2. CASE click = NoClick
    BY <2>1, <2>2, LinkHasUrl DEF LinkInv
  <2>3. CASE click # NoClick
    <3>1. PICK u \in Urls, d \in BOOLEAN : click = [url |-> u, dragged |-> d]
      BY DEF LinkInv
    <3>2. click' = [url |-> u, dragged |-> d \/ far]
      BY <2>1, <2>3, <3>1
    <3>3. click'.url = u /\ click.url = u /\ click' \in [url : Urls, dragged : BOOLEAN]
      BY <3>1, <3>2
    <3>4. click'.dragged <=> click.dragged \/ far
      BY <3>1, <3>2, Zenon
    <3> QED
      BY <2>1, <3>3, <3>4 DEF LinkInv
  <2> QED
    BY <2>2, <2>3
<1>2. CASE link # current
  <2>1. Hover(link, held)
    BY <1>2 DEF Move
  <2> QED
    BY <2>1, HoverInv DEF LinkInv
<1> QED
  BY <1>1, <1>2

LEMMA PressInv ==
  ASSUME LinkInv, NEW held \in Modifiers, NEW button \in {0, 1}, Press(held, button)
  PROVE  LinkInv'
<1>1. current' = current
  BY DEF Press
<1>2. CASE current # NoLink /\ IsLinkModifierActive(held, mouseMode) /\ button = 0
  <2>1. click' = [url |-> current.url, dragged |-> FALSE] /\ aim' = current
    BY <1>2 DEF Press
  <2>2. click' \in [url : Urls, dragged : BOOLEAN]
    BY <2>1, LinkHasUrl DEF LinkInv
  <2> QED
    BY <1>1, <1>2, <2>1, <2>2 DEF LinkInv
<1>3. CASE ~(current # NoLink /\ IsLinkModifierActive(held, mouseMode) /\ button = 0)
  <2>1. click' = NoClick
    BY <1>3 DEF Press
  <2> QED
    BY <1>1, <2>1, LinkHasUrl DEF LinkInv
<1> QED
  BY <1>2, <1>3

\* What a step that opens a link has to show, and the invariant, of every step.
LEMMA LinkStep ==
  ASSUME LinkInv, [LinkNext]_linkVars
  PROVE  /\ LinkInv'
         /\ [opened' # NoUrl => (aim # NoLink /\ aim = current /\ opened' = aim.url)]_linkVars
<1>1. CASE UNCHANGED linkVars
  BY <1>1 DEF linkVars, LinkInv
<1>2. ASSUME NEW link \in Links \cup {NoLink}, NEW held \in Modifiers, NEW far \in BOOLEAN,
             Move(link, held, far)
      PROVE  LinkInv' /\ opened' = NoUrl
  BY <1>2, MoveInv DEF Move
<1>3. ASSUME NEW link \in Links \cup {NoLink}, Redraw(link)
      PROVE  LinkInv' /\ opened' = NoUrl
  BY <1>3, HoverInv DEF Redraw, LinkInv
<1>4. CASE LinkRender \/ (\E mode \in Modes : SetMouseMode(mode)) \/ \E held \in Modifiers : LinkKey(held)
  BY <1>4 DEF LinkRender, SetMouseMode, LinkKey, LinkInv
<1>5. CASE LoseWindow
  BY <1>5, LinkHasUrl DEF LoseWindow, LinkInv
<1>6. ASSUME NEW held \in Modifiers, NEW button \in {0, 1}, Press(held, button)
      PROVE  LinkInv' /\ opened' = NoUrl
  BY <1>6, PressInv DEF Press
<1>7. ASSUME NEW held \in Modifiers, NEW button \in {0, 1}, Release(held, button)
      PROVE  /\ LinkInv'
             /\ opened' # NoUrl => (aim # NoLink /\ aim = current /\ opened' = aim.url)
  <2>1. LinkInv'
    BY <1>7, LinkHasUrl DEF Release, LinkInv
  <2>2. ASSUME opened' # NoUrl PROVE aim # NoLink /\ aim = current /\ opened' = aim.url
    <3>1. /\ opened' = current.url /\ current # NoLink
          /\ click.url = current.url /\ ~click.dragged
      BY <1>7, <2>2 DEF Release, ShouldActivateLink
    <3> QED
      BY <3>1, LinkHasUrl DEF LinkInv
  <2> QED
    BY <2>1, <2>2
<1> QED
  BY <1>1, <1>2, <1>3, <1>4, <1>5, <1>6, <1>7 DEF LinkNext
(* A link is opened only by a press and a release of the primary button on it with no leave,   *)
(* redraw or drag between them: for all links, modifiers and mouse modes (activateTerminalLink). *)
THEOREM LinksOpenSafely == LinkSpec => OpensOnlyWhatWasPressed
<1>1. LinkInv /\ [LinkNext]_linkVars => LinkInv'
  BY LinkStep
<1>2. LinkInv /\ [LinkNext]_linkVars
        => [opened' # NoUrl => (aim # NoLink /\ aim = current /\ opened' = aim.url)]_linkVars
  BY LinkStep
<1> QED
  BY LinkInitInv, <1>1, <1>2, PTL DEF LinkSpec, OpensOnlyWhatWasPressed

\* Each variable of the links has its type.
LinkTypes == LinkTypeOK /\ LinkInv

LEMMA PreviewIsUrl ==
  ASSUME NEW link \in Links \cup {NoLink}, NEW held, NEW mode
  PROVE  Preview(link, held, mode) \in Urls /\ NoUrl \in Urls
BY DEF Preview, Urls, NoUrl

LEMMA HoverTypes ==
  ASSUME LinkTypes, NEW link \in Links \cup {NoLink}, NEW held \in Modifiers, Hover(link, held)
  PROVE  current' \in Links \cup {NoLink} /\ modifiers' \in Modifiers /\ preview' \in Urls
BY PreviewIsUrl DEF Hover, LinkTypes, LinkTypeOK

LEMMA LinkTypesStep == LinkTypes /\ [LinkNext]_linkVars => LinkTypes'
<1> SUFFICES ASSUME LinkTypes, [LinkNext]_linkVars PROVE LinkTypes'
  OBVIOUS
<1>1. LinkInv' /\ click'.url \in Urls /\ click'.dragged \in BOOLEAN /\ current' \in Links \cup {NoLink}
  <2>1. LinkInv'
    BY LinkStep DEF LinkTypes
  <2>2. click' \in [url : Urls, dragged : BOOLEAN] /\ current' \in Links \cup {NoLink}
    BY <2>1 DEF LinkInv
  <2> QED
    BY <2>1, <2>2
<1>2. /\ mouseMode \in Modes /\ moved \in Modifiers /\ modifiers \in Modifiers
      /\ current \in Links \cup {NoLink} /\ mouseDown \in Links \cup {NoLink}
      /\ aim \in Links \cup {NoLink} /\ preview \in Urls /\ opened \in Urls
  BY DEF LinkTypes, LinkTypeOK, Urls
<1>3. NoLink \in Links \cup {NoLink} /\ NoUrl \in Urls /\ NoModifiers \in Modifiers
  BY PreviewIsUrl, LinksAssumption
<1>4. SUFFICES /\ mouseMode' \in Modes /\ moved' \in Modifiers /\ modifiers' \in Modifiers
               /\ mouseDown' \in Links \cup {NoLink} /\ aim' \in Links \cup {NoLink}
               /\ preview' \in Urls /\ opened' \in Urls
  BY <1>1 DEF LinkTypes, LinkTypeOK, Urls
<1>5. CASE UNCHANGED linkVars
  BY <1>2, <1>5 DEF linkVars
<1>6. ASSUME NEW link \in Links \cup {NoLink}, NEW held \in Modifiers, NEW far \in BOOLEAN,
             Move(link, held, far)
      PROVE  /\ moved' \in Modifiers /\ modifiers' \in Modifiers /\ preview' \in Urls
             /\ aim' \in Links \cup {NoLink} /\ opened' = NoUrl
             /\ UNCHANGED <<mouseMode, mouseDown>>
  <2>1. CASE link = current
    BY <1>2, <1>3, <1>6, <2>1 DEF Move
  <2>2. CASE link # current
    <3>1. Hover(link, held)
      BY <1>6, <2>2 DEF Move
    <3> QED
      BY <1>2, <1>3, <1>6, <3>1, HoverTypes DEF Move
  <2> QED
    BY <2>1, <2>2
<1>7. ASSUME NEW link \in Links \cup {NoLink}, Redraw(link)
      PROVE  /\ moved' \in Modifiers /\ modifiers' \in Modifiers /\ preview' \in Urls
             /\ aim' \in Links \cup {NoLink} /\ opened' = NoUrl
             /\ UNCHANGED <<mouseMode, mouseDown>>
  BY <1>2, <1>3, <1>7, HoverTypes DEF Redraw
<1>8. CASE LinkRender \/ (\E mode \in Modes : SetMouseMode(mode)) \/ \E held \in Modifiers : LinkKey(held)
  BY <1>2, <1>3, <1>8, PreviewIsUrl DEF LinkRender, SetMouseMode, LinkKey
<1>9. CASE LoseWindow
  BY <1>2, <1>3, <1>9 DEF LoseWindow
<1>10. CASE \E held \in Modifiers, button \in {0, 1} : Press(held, button)
  BY <1>2, <1>3, <1>10 DEF Press
<1>11. CASE \E held \in Modifiers, button \in {0, 1} : Release(held, button)
  <2>1. current.url \in Urls
    BY <1>2, LinkHasUrl
  <2> QED
    BY <1>2, <1>3, <1>11, <2>1 DEF Release
<1> QED
  BY <1>2, <1>3, <1>5, <1>6, <1>7, <1>8, <1>9, <1>10, <1>11 DEF LinkNext

(* The links' variables have their types for all links, modifiers and mouse modes. *)
THEOREM LinkTypesAlways == LinkSpec => []LinkTypeOK
<1>1. LinkInit => LinkTypes
  <2> SUFFICES ASSUME LinkInit PROVE LinkTypes
    OBVIOUS
  <2>1. LinkInv
    BY LinkInitInv
  <2>2. NoLink \in Links \cup {NoLink} /\ NoUrl \in Urls /\ NoModifiers \in Modifiers /\ "none" \in Modes
    BY PreviewIsUrl, LinksAssumption
  <2>3. click.url = NoUrl /\ click.dragged = FALSE
    BY DEF LinkInit, NoClick
  <2> QED
    BY <2>1, <2>2, <2>3 DEF LinkInit, LinkTypes, LinkTypeOK, Urls
<1>2. LinkTypes => LinkTypeOK
  BY DEF LinkTypes
<1> QED
  BY <1>1, <1>2, LinkTypesStep, PTL DEF LinkSpec

-----------------------------------------------------------------------------
(* The wheel.                                                              *)

\* A number of lines is none, or points in a direction.
Follows(lines, direction) ==
  /\ direction = 1 => lines >= 0
  /\ direction = -1 => lines <= 0

WheelStates == [pendingLines : Int, velocity : Int, lastEventTime : Int, direction : -1..1]

\* What waits points where the wheel was last turned, and the state knows that direction.
WheelInv ==
  /\ wheel \in WheelStates
  /\ clock \in Nat /\ sent \in Int /\ turned \in -1..1
  /\ wheel.direction = 0 => wheel.pendingLines = 0
  /\ wheel.direction # 0 => wheel.direction = turned
  /\ Follows(wheel.pendingLines, turned) /\ Follows(sent, turned)
  /\ PendingHasFrame

LEMMA FollowsIsSign ==
  ASSUME NEW lines \in Int, NEW direction \in -1..1
  PROVE  Follows(lines, direction) <=> lines * direction >= 0
<1>1. direction = -1 \/ direction = 0 \/ direction = 1
  OBVIOUS
<1>2. CASE direction = -1
  BY <1>2 DEF Follows
<1>3. CASE direction = 0
  BY <1>3 DEF Follows
<1>4. CASE direction = 1
  BY <1>4 DEF Follows
<1> QED
  BY <1>1, <1>2, <1>3, <1>4

LEMMA CutSign ==
  ASSUME NEW n \in Int, NEW d \in Nat \ {0}
  PROVE  /\ Cut(n, d) \in Int
         /\ n >= 0 => Cut(n, d) >= 0 /\ d * Cut(n, d) <= n
         /\ n <= 0 => Cut(n, d) <= 0 /\ d * Cut(n, d) >= n
BY DEF Cut

LEMMA ProductSign ==
  ASSUME NEW a \in Int, NEW b \in Nat
  PROVE  /\ a * b \in Int
         /\ a >= 0 => a * b >= 0
         /\ a <= 0 => a * b <= 0
OBVIOUS

LEMMA GainIsPositive ==
  ASSUME NEW v \in Int
  PROVE  WheelGain(v) \in Nat
<1>1. Magnitude(v) \in Nat
  BY DEF Magnitude
<1>2. \A n \in Nat : Cut(n, 10) \in Nat
  BY CutSign
<1> QED
  BY <1>1, <1>2 DEF WheelGain
LEMMA ClampSign ==
  ASSUME NEW n \in Int, NEW bound \in Nat
  PROVE  /\ Clamp(n, bound) \in Int
         /\ n >= 0 => Clamp(n, bound) \in 0..n
         /\ n <= 0 => Clamp(n, bound) \in n..0
BY DEF Clamp, Greatest, Least

LEMMA ClampBounds ==
  ASSUME NEW n \in Int, NEW bound \in Nat
  PROVE  Clamp(n, bound) \in -bound..bound
BY DEF Clamp, Greatest, Least

LEMMA ClampFollows ==
  ASSUME NEW n \in Int, NEW bound \in Nat, NEW direction, Follows(n, direction)
  PROVE  Clamp(n, bound) \in Int /\ Follows(Clamp(n, bound), direction)
BY ClampSign DEF Follows

\* A turn's pixels point the way it was turned.
LEMMA PixelsSign ==
  ASSUME NEW turn \in Turns
  PROVE  LET pixels == WheelPixels(turn.delta, turn.mode, CellHeight, Rows) IN
         /\ pixels \in Int
         /\ turn.delta > 0 => pixels >= 0
         /\ turn.delta < 0 => pixels < 0
<1> DEFINE pixels == WheelPixels(turn.delta, turn.mode, CellHeight, Rows)
<1>1. /\ turn.delta \in Int /\ turn.mode \in {WheelPixel, WheelLine, WheelPage}
      /\ CellHeight \in Nat \ {0} /\ Rows \in Nat \ {0}
  BY WheelAssumption
<1>2. Greatest(1, CellHeight) = CellHeight /\ Greatest(1, Rows) = Rows
  BY <1>1 DEF Greatest
<1>3. CASE turn.mode = WheelPixel
  BY <1>1, <1>3 DEF WheelPixels, WheelPixel, WheelLine, WheelPage
<1>4. CASE turn.mode = WheelLine
  <2>1. pixels = turn.delta * CellHeight
    BY <1>2, <1>4 DEF WheelPixels, WheelPixel, WheelLine, WheelPage
  <2> QED
    BY <1>1, <2>1
<1>5. CASE turn.mode = WheelPage
  <2>1. pixels = turn.delta * CellHeight * Rows
    BY <1>2, <1>5 DEF WheelPixels, WheelPixel, WheelLine, WheelPage
  <2>2. PICK lines \in Int : /\ lines = turn.delta * CellHeight
                             /\ turn.delta > 0 => lines > 0
                             /\ turn.delta < 0 => lines < 0
    BY <1>1
  <2>3. pixels = lines * Rows
    BY <2>1, <2>2
  <2>4. /\ lines * Rows \in Int
        /\ lines > 0 => lines * Rows > 0
        /\ lines < 0 => lines * Rows < 0
    BY <1>1, <2>2
  <2> QED
    BY <2>2, <2>3, <2>4
<1> QED
  BY <1>1, <1>3, <1>4, <1>5
\* A turn is added to what waits in its own direction, and forgets what waits in the other.
LEMMA EnqueueFollows ==
  ASSUME WheelInv, NEW turn \in Turns, turn.delta # 0, NEW time \in Nat, NEW next,
         next = EnqueueWheel(wheel, turn.delta, turn.mode, CellHeight, Rows, time)
  PROVE  /\ next \in WheelStates
         /\ next.direction = IF turn.delta < 0 THEN -1 ELSE 1
         /\ Follows(next.pendingLines, next.direction)
         /\ next.pendingLines \in -(8 * Unit * Rows)..(8 * Unit * Rows)
         /\ next.lastEventTime = time
<1> DEFINE pixels == WheelPixels(turn.delta, turn.mode, CellHeight, Rows)
           direction == IF pixels < 0 THEN -1 ELSE 1
           known == wheel.lastEventTime >= 0
           gap == IF known THEN time - wheel.lastEventTime ELSE 0
           fresh == gap > MaxWheelGap
           elapsed == IF known THEN Greatest(1, Least(MaxWheelElapsed, gap)) ELSE FirstWheelElapsed
           instant == Cut(pixels * Unit, elapsed)
           reversed == ~fresh /\ wheel.direction # 0 /\ wheel.direction # direction
           velocity == IF reversed \/ ~known THEN instant
                       ELSE Cut((IF fresh THEN 0 ELSE wheel.velocity) * 65 + instant * 35, 100)
           gain == IF turn.mode = WheelPixel THEN WheelGain(velocity) ELSE Unit
           kept == IF fresh \/ reversed THEN 0 ELSE wheel.pendingLines
           added == Cut(pixels * gain, Greatest(1, CellHeight))
           lines == Clamp(kept + added, Greatest(1, Rows) * 8 * Unit)
<1>1. next = [pendingLines |-> lines, velocity |-> velocity, lastEventTime |-> time,
              direction |-> direction]
  BY DEF EnqueueWheel
<1>2. /\ pixels \in Int
      /\ turn.delta < 0 => pixels < 0
      /\ turn.delta > 0 => pixels >= 0
      /\ turn.delta \in Int
  BY PixelsSign, WheelAssumption
<1>3. /\ Greatest(1, CellHeight) \in Nat \ {0} /\ Greatest(1, Rows) * 8 * Unit \in Nat
  BY WheelAssumption DEF Greatest, Unit
<1>4. /\ wheel.pendingLines \in Int /\ wheel.velocity \in Int /\ wheel.lastEventTime \in Int
      /\ wheel.direction \in -1..1
  BY DEF WheelInv, WheelStates
<1>5. elapsed \in Nat \ {0}
  BY <1>4 DEF Greatest, Least, MaxWheelElapsed, FirstWheelElapsed
<1>6. instant \in Int
  BY <1>2, <1>5, CutSign DEF Unit
<1>7. velocity \in Int
  <2> DEFINE weighed == (IF fresh THEN 0 ELSE wheel.velocity) * 65 + instant * 35
  <2> HIDE DEF instant, fresh
  <2>1. weighed \in Int
    BY <1>4, <1>6
  <2> HIDE DEF weighed
  <2>2. Cut(weighed, 100) \in Int
    BY <2>1, CutSign
  <2> QED
    BY <1>6, <2>2 DEF weighed
<1>8. gain \in Nat
  BY <1>7, GainIsPositive DEF Unit
<1>9. added \in Int /\ Follows(added, direction)
  <2>1. /\ pixels * gain \in Int
        /\ pixels >= 0 => pixels * gain >= 0
        /\ pixels <= 0 => pixels * gain <= 0
    BY <1>2, <1>8, ProductSign
  <2> DEFINE height == Greatest(1, CellHeight)
             product == pixels * gain
  <2>2. product \in Int /\ height \in Nat \ {0}
    BY <1>3, <2>1
  <2> HIDE DEF product, height
  <2>3. /\ Cut(product, height) \in Int
        /\ product >= 0 => Cut(product, height) >= 0
        /\ product <= 0 => Cut(product, height) <= 0
    BY <2>2, CutSign
  <2>4. added = Cut(product, height)
    BY DEF product, height
  <2>5. /\ pixels >= 0 => product >= 0
        /\ pixels < 0 => product <= 0
    BY <1>2, <2>1 DEF product
  <2> HIDE DEF added, pixels
  <2> QED
    BY <1>2, <2>3, <2>4, <2>5 DEF Follows
<1>10. kept \in Int /\ Follows(kept, direction)
  BY <1>4 DEF WheelInv, Follows
<1>11. /\ lines \in Int /\ Follows(lines, direction)
       /\ lines \in -(8 * Unit * Rows)..(8 * Unit * Rows)
  <2>1. kept + added \in Int /\ Follows(kept + added, direction)
    BY <1>9, <1>10 DEF Follows
  <2>2. Greatest(1, Rows) * 8 * Unit = 8 * Unit * Rows
    BY WheelAssumption DEF Greatest, Unit
  <2> HIDE DEF kept, added, direction
  <2> QED
    BY <1>3, <2>1, <2>2, ClampFollows, ClampBounds
<1>12. direction = IF turn.delta < 0 THEN -1 ELSE 1
  BY <1>2
<1> HIDE DEF pixels, velocity, lines
<1> QED
  BY <1>1, <1>7, <1>11, <1>12 DEF WheelStates

\* A frame takes whole lines of what waits, never more.
LEMMA FrameFollows ==
  ASSUME WheelInv
  PROVE  /\ WheelSteps(wheel, Rows) \in Int
         /\ Follows(WheelSteps(wheel, Rows), turned)
         /\ ConsumeWheelFrame(wheel, Rows) \in WheelStates
         /\ ConsumeWheelFrame(wheel, Rows).direction = wheel.direction
         /\ ConsumeWheelFrame(wheel, Rows).lastEventTime = wheel.lastEventTime
         /\ Follows(ConsumeWheelFrame(wheel, Rows).pendingLines, turned)
         /\ ConsumeWheelFrame(wheel, Rows).pendingLines \in 0..wheel.pendingLines \cup wheel.pendingLines..0
         /\ wheel.pendingLines = 0 => ConsumeWheelFrame(wheel, Rows).pendingLines = 0
<1> DEFINE n == wheel.pendingLines
           whole == Cut(n, Unit)
           steps == WheelSteps(wheel, Rows)
<1>1. n \in Int /\ turned \in -1..1
  BY DEF WheelInv, WheelStates
<1>2. MaxWheelSteps(Rows) \in Nat
  BY WheelAssumption DEF MaxWheelSteps, Greatest
<1>3. /\ whole \in Int
      /\ n >= 0 => whole >= 0 /\ Unit * whole <= n
      /\ n <= 0 => whole <= 0 /\ Unit * whole >= n
  BY <1>1, CutSign DEF Unit
<1>4. /\ steps \in Int
      /\ whole >= 0 => steps \in 0..whole
      /\ whole <= 0 => steps \in whole..0
  BY <1>2, <1>3, ClampSign DEF WheelSteps
<1>5. /\ n >= 0 => steps >= 0 /\ n - steps * Unit \in 0..n
      /\ n <= 0 => steps <= 0 /\ n - steps * Unit \in n..0
  <2> HIDE DEF n, whole, steps
  <2> QED
    BY <1>1, <1>3, <1>4 DEF Unit
<1>6. PICK p \in Int, v \in Int, t \in Int, d \in -1..1 :
        wheel = [pendingLines |-> p, velocity |-> v, lastEventTime |-> t, direction |-> d]
  BY DEF WheelInv, WheelStates
<1>7. /\ ConsumeWheelFrame(wheel, Rows) =
           [pendingLines |-> n - steps * Unit, velocity |-> v, lastEventTime |-> t, direction |-> d]
      /\ wheel.direction = d /\ wheel.lastEventTime = t
  BY <1>6 DEF ConsumeWheelFrame
<1>8. n - steps * Unit \in Int
  BY <1>1, <1>4 DEF Unit
<1> HIDE DEF steps
<1> QED
  BY <1>1, <1>4, <1>5, <1>6, <1>7, <1>8 DEF WheelInv, Follows, WheelStates, steps
LEMMA WheelStep == WheelInv /\ [WheelNext]_wheelVars => WheelInv'
<1> SUFFICES ASSUME WheelInv, [WheelNext]_wheelVars PROVE WheelInv'
  OBVIOUS
<1>1. /\ WheelState \in WheelStates /\ WheelState.direction = 0 /\ WheelState.pendingLines = 0
      /\ ~HasPendingWheelSteps(WheelState)
  BY DEF WheelState, WheelStates, HasPendingWheelSteps, Magnitude, Unit
<1>2. \A d \in -1..1 : Follows(0, d)
  BY DEF Follows
<1>3. CASE UNCHANGED wheelVars
  BY <1>3 DEF wheelVars, WheelInv, PendingHasFrame
<1>4. ASSUME NEW turn \in Turns, NEW gap \in Gaps, HandleAlternateWheel(turn, gap) PROVE WheelInv'
  <2>1. clock' \in Nat /\ sent' = 0 /\ turn.delta \in Int /\ clock' = clock + gap
    BY <1>4, WheelAssumption DEF HandleAlternateWheel, WheelInv
  <2>2. CASE ~Takes
    <3>1. wheel' = WheelState /\ turned' = turned
      BY <1>4, <2>2 DEF HandleAlternateWheel
    <3> QED
      BY <1>1, <1>2, <2>1, <3>1 DEF WheelInv, PendingHasFrame
  <2>3. CASE Takes /\ turn.delta = 0
    <3>1. wheel' = wheel /\ turned' = turned /\ frame'
      BY <1>4, <2>3 DEF HandleAlternateWheel, EnqueueWheel
    <3> QED
      BY <1>2, <2>1, <3>1 DEF WheelInv, PendingHasFrame
  <2>4. CASE Takes /\ turn.delta # 0
    <3>1. /\ wheel' = EnqueueWheel(wheel, turn.delta, turn.mode, CellHeight, Rows, clock')
          /\ turned' = IF turn.delta < 0 THEN -1 ELSE 1
          /\ frame'
      BY <1>4, <2>4 DEF HandleAlternateWheel
    <3>2. /\ wheel' \in WheelStates
          /\ wheel'.direction = IF turn.delta < 0 THEN -1 ELSE 1
          /\ Follows(wheel'.pendingLines, wheel'.direction)
      BY <2>1, <2>4, <3>1, EnqueueFollows
    <3> QED
      BY <1>2, <2>1, <3>1, <3>2 DEF WheelInv, PendingHasFrame
  <2> QED
    BY <2>2, <2>3, <2>4
<1>5. CASE PumpAlternateWheelFrame
  <2>1. turned' = turned /\ clock' = clock /\ PendingHasFrame'
    BY <1>5 DEF PumpAlternateWheelFrame, PendingHasFrame
  <2>2. CASE Takes
    <3>1. wheel' = ConsumeWheelFrame(wheel, Rows) /\ sent' = WheelSteps(wheel, Rows)
      BY <1>5, <2>2 DEF PumpAlternateWheelFrame
    <3> QED
      BY <2>1, <3>1, FrameFollows DEF WheelInv
  <2>3. CASE ~Takes
    <3>1. wheel' = WheelState /\ sent' = 0
      BY <1>5, <2>3 DEF PumpAlternateWheelFrame
    <3> QED
      BY <1>1, <1>2, <2>1, <3>1 DEF WheelInv
  <2> QED
    BY <2>2, <2>3
<1>6. CASE SwitchScreen \/ Mark
  BY <1>2, <1>6 DEF SwitchScreen, Mark, WheelInv, PendingHasFrame
<1> QED
  BY <1>3, <1>4, <1>5, <1>6 DEF WheelNext

\* What waits is bounded by what a turn may leave, and the last event is not in the future.
WheelTypes ==
  /\ WheelInv
  /\ wheel.pendingLines \in -(8 * Unit * Rows)..(8 * Unit * Rows)
  /\ wheel.lastEventTime \in -1..clock
  /\ frame \in BOOLEAN /\ alternate \in BOOLEAN /\ marked \in BOOLEAN /\ turns \in 0..MaxTurns

LEMMA WheelTypesStep == WheelTypes /\ [WheelNext]_wheelVars => WheelTypes'
<1> SUFFICES ASSUME WheelTypes, [WheelNext]_wheelVars PROVE WheelTypes'
  OBVIOUS
<1>1. WheelInv /\ WheelInv'
  BY WheelStep DEF WheelTypes
<1>2. /\ wheel.pendingLines \in -(8 * Unit * Rows)..(8 * Unit * Rows)
      /\ wheel.lastEventTime \in -1..clock /\ clock \in Nat
      /\ frame \in BOOLEAN /\ alternate \in BOOLEAN /\ marked \in BOOLEAN
      /\ turns \in 0..MaxTurns
  BY <1>1 DEF WheelTypes, WheelInv
<1>3. 8 * Unit * Rows \in Nat /\ MaxTurns \in Nat
  BY WheelAssumption DEF Unit
<1>4. WheelState.pendingLines = 0 /\ WheelState.lastEventTime = -1
  BY DEF WheelState
<1>5. CASE UNCHANGED wheelVars
  BY <1>1, <1>2, <1>5 DEF wheelVars, WheelTypes
<1>6. ASSUME NEW turn \in Turns, NEW gap \in Gaps, HandleAlternateWheel(turn, gap)
      PROVE  WheelTypes'
  <2>1. /\ clock' = clock + gap /\ gap \in Nat /\ clock' \in Nat
        /\ turns' \in 0..MaxTurns /\ alternate' = alternate /\ marked' = marked
    BY <1>2, <1>3, <1>6, WheelAssumption DEF HandleAlternateWheel
  <2>2. frame' \in BOOLEAN
    BY <1>2, <1>6 DEF HandleAlternateWheel
  <2>3. CASE ~Takes
    <3>1. wheel' = WheelState
      BY <1>6, <2>3 DEF HandleAlternateWheel
    <3> QED
      BY <1>1, <1>2, <1>3, <1>4, <2>1, <2>2, <3>1 DEF WheelTypes
  <2>4. CASE Takes /\ turn.delta = 0
    <3>1. wheel' = wheel
      BY <1>6, <2>4 DEF HandleAlternateWheel, EnqueueWheel
    <3> QED
      BY <1>1, <1>2, <2>1, <2>2, <3>1 DEF WheelTypes
  <2>5. CASE Takes /\ turn.delta # 0
    <3>1. wheel' = EnqueueWheel(wheel, turn.delta, turn.mode, CellHeight, Rows, clock')
      BY <1>6, <2>1, <2>5 DEF HandleAlternateWheel
    <3>2. /\ wheel'.pendingLines \in -(8 * Unit * Rows)..(8 * Unit * Rows)
          /\ wheel'.lastEventTime = clock'
      BY <1>1, <2>1, <2>5, <3>1, EnqueueFollows
    <3> QED
      BY <1>1, <1>2, <2>1, <2>2, <3>2 DEF WheelTypes
  <2> QED
    BY <2>3, <2>4, <2>5
<1>7. CASE PumpAlternateWheelFrame
  <2>1. /\ UNCHANGED <<alternate, marked, clock, turns>>
        /\ frame' = HasPendingWheelSteps(wheel')
        /\ wheel' = IF Takes THEN ConsumeWheelFrame(wheel, Rows) ELSE WheelState
    BY <1>7 DEF PumpAlternateWheelFrame
  <2>2. frame' \in BOOLEAN
    BY <2>1 DEF HasPendingWheelSteps
  <2>3. /\ wheel'.pendingLines \in -(8 * Unit * Rows)..(8 * Unit * Rows)
        /\ wheel'.lastEventTime \in -1..clock
    <3>1. CASE ~Takes
      BY <1>2, <1>3, <1>4, <2>1, <3>1
    <3>2. CASE Takes
      <4>1. /\ wheel'.lastEventTime = wheel.lastEventTime
            /\ wheel'.pendingLines \in 0..wheel.pendingLines \cup wheel.pendingLines..0
        BY <1>1, <2>1, <3>2, FrameFollows
      <4> QED
        BY <1>2, <1>3, <4>1
    <3> QED
      BY <3>1, <3>2
  <2> QED
    BY <1>1, <1>2, <2>1, <2>2, <2>3 DEF WheelTypes
<1>8. CASE SwitchScreen \/ Mark
  BY <1>1, <1>2, <1>8 DEF SwitchScreen, Mark, WheelTypes
<1> QED
  BY <1>5, <1>6, <1>7, <1>8 DEF WheelNext

LEMMA WheelInitInv == WheelInit => WheelInv
BY DEF WheelInit, WheelInv, WheelState, WheelStates, Follows, PendingHasFrame,
       HasPendingWheelSteps, Magnitude, Unit

(* For every turn, mode, pause and size of the terminal, no line is sent or waits against the  *)
(* way the wheel was turned last (enqueueWheel, consumeWheelFrame).                           *)
THEOREM WheelFollows == WheelSpec => []WheelFollowsLast
<1>1. WheelInv => WheelFollowsLast
  <2> SUFFICES ASSUME WheelInv PROVE WheelFollowsLast
    OBVIOUS
  <2>1. wheel.pendingLines \in Int
    BY DEF WheelInv, WheelStates
  <2> QED
    BY <2>1, FollowsIsSign DEF WheelInv, WheelFollowsLast
<1> QED
  BY WheelInitInv, WheelStep, <1>1, PTL DEF WheelSpec

(* Whole lines that wait have a frame on its way, whatever the wheel does (scheduleAlternateWheelFrame). *)
THEOREM LinesHaveFrame == WheelSpec => []PendingHasFrame
<1>1. WheelInv => PendingHasFrame
  BY DEF WheelInv
<1> QED
  BY WheelInitInv, WheelStep, <1>1, PTL DEF WheelSpec

(* The wheel's variables have their types and bounds for every turn, mode, pause and size of    *)
(* the terminal: never more than eight screens of lines wait (enqueueWheel).                  *)
THEOREM WheelTypesAlways == WheelSpec => []WheelTypeOK
<1>1. WheelInit => WheelTypes
  <2> SUFFICES ASSUME WheelInit PROVE WheelTypes
    OBVIOUS
  <2>1. 8 * Unit * Rows \in Nat /\ MaxTurns \in Nat
    BY WheelAssumption DEF Unit
  <2>2. WheelState.pendingLines = 0 /\ WheelState.lastEventTime = -1
    BY DEF WheelState
  <2>3. /\ wheel.pendingLines = 0 /\ wheel.lastEventTime = -1 /\ clock = 0 /\ turns = 0
        /\ frame = FALSE /\ alternate = FALSE /\ marked = FALSE
    BY <2>2, Zenon DEF WheelInit
  <2>4. WheelInv
    BY WheelInitInv
  <2>5. wheel.pendingLines \in -(8 * Unit * Rows)..(8 * Unit * Rows)
    BY <2>1, <2>3
  <2>6. wheel.lastEventTime \in -1..clock /\ turns \in 0..MaxTurns
    BY <2>1, <2>3
  <2>7. frame \in BOOLEAN /\ alternate \in BOOLEAN /\ marked \in BOOLEAN
    BY <2>3, Zenon
  <2> QED
    BY <2>4, <2>5, <2>6, <2>7, Zenon DEF WheelTypes
<1>2. WheelTypes => WheelTypeOK
  <2> SUFFICES ASSUME WheelTypes PROVE WheelTypeOK
    OBVIOUS
  <2>1. wheel.velocity \in Int /\ wheel.direction \in -1..1
    BY DEF WheelTypes, WheelInv, WheelStates
  <2> QED
    BY <2>1 DEF WheelTypes, WheelInv, WheelTypeOK
<1> QED
  BY <1>1, <1>2, WheelTypesStep, PTL DEF WheelSpec

(* A frame that asks for another has sent as many lines as a frame may, so that the frames after   *)
(* the last turn are few (pumpAlternateWheelFrame, consumeWheelFrame).                          *)
DrainsInStep ==
  PumpAlternateWheelFrame /\ frame' =>
    Magnitude(wheel'.pendingLines) + MaxWheelSteps(Rows) * Unit <= Magnitude(wheel.pendingLines)
WheelDrains == [][DrainsInStep]_wheelVars

LEMMA FrameShortens ==
  ASSUME NEW n \in Int, NEW bound \in Nat, NEW rest,
         rest = n - Clamp(Cut(n, Unit), bound) * Unit, Magnitude(rest) >= Unit
  PROVE  Magnitude(rest) + bound * Unit <= Magnitude(n)
<1>1. CASE n >= 0
  <2>1. PICK whole \in Int : whole = n \div Unit /\ whole * Unit <= n /\ n < whole * Unit + Unit
    BY <1>1 DEF Unit
  <2>2. Cut(n, Unit) = whole /\ whole >= 0
    BY <1>1, <2>1 DEF Cut, Unit
  <2>3. CASE whole <= bound
    <3>1. rest = n - whole * Unit
      BY <2>2, <2>3 DEF Clamp, Greatest, Least
    <3> QED
      BY <2>1, <3>1 DEF Magnitude, Unit
  <2>4. CASE whole > bound
    <3>1. rest = n - bound * Unit
      BY <2>2, <2>4 DEF Clamp, Greatest, Least
    <3> QED
      BY <1>1, <2>1, <2>4, <3>1 DEF Magnitude, Unit
  <2> QED
    BY <2>1, <2>3, <2>4
<1>2. CASE n < 0
  <2>1. PICK whole \in Int : whole = (-n) \div Unit /\ whole * Unit <= -n /\ -n < whole * Unit + Unit
    BY <1>2 DEF Unit
  <2>2. Cut(n, Unit) = -whole /\ whole >= 0
    BY <1>2, <2>1 DEF Cut, Unit
  <2>3. CASE whole <= bound
    <3>1. rest = n + whole * Unit
      BY <2>1, <2>2, <2>3 DEF Clamp, Greatest, Least, Unit
    <3> QED
      BY <2>1, <3>1 DEF Magnitude, Unit
  <2>4. CASE whole > bound
    <3>1. rest = n + bound * Unit
      BY <2>2, <2>4 DEF Clamp, Greatest, Least, Unit
    <3> QED
      BY <1>2, <2>1, <2>4, <3>1 DEF Magnitude, Unit
  <2> QED
    BY <2>1, <2>3, <2>4
<1> QED
  BY <1>1, <1>2

(* The animation frames of a wheel at rest come to an end, for every turn and size of the       *)
(* terminal: a frame that schedules another has sent a full frame's lines, so that what waits    *)
(* is shorter by so many, and it is never more than eight screens (pumpAlternateWheelFrame).   *)
THEOREM FramesEnd == WheelSpec => WheelDrains
<1>1. WheelInv => DrainsInStep
  <2> SUFFICES ASSUME WheelInv, PumpAlternateWheelFrame, frame' PROVE
        Magnitude(wheel'.pendingLines) + MaxWheelSteps(Rows) * Unit <= Magnitude(wheel.pendingLines)
    BY DEF DrainsInStep
  <2>1. /\ wheel' = IF Takes THEN ConsumeWheelFrame(wheel, Rows) ELSE WheelState
        /\ Magnitude(wheel'.pendingLines) >= Unit
    BY DEF PumpAlternateWheelFrame, HasPendingWheelSteps
  <2>2. Takes
    BY <2>1 DEF WheelState, Magnitude, Unit
  <2>3. MaxWheelSteps(Rows) \in Nat
    BY WheelAssumption DEF MaxWheelSteps, Greatest
  <2>4. PICK p \in Int, v \in Int, t \in Int, d \in -1..1 :
          wheel = [pendingLines |-> p, velocity |-> v, lastEventTime |-> t, direction |-> d]
    BY DEF WheelInv, WheelStates
  <2>5. wheel'.pendingLines = p - Clamp(Cut(p, Unit), MaxWheelSteps(Rows)) * Unit
    BY <2>1, <2>2, <2>4 DEF ConsumeWheelFrame, WheelSteps
  <2> QED
    BY <2>1, <2>3, <2>4, <2>5, FrameShortens
<1>2. WheelInv /\ [WheelNext]_wheelVars => [DrainsInStep]_wheelVars
  BY <1>1
<1> QED
  BY WheelInitInv, WheelStep, <1>2, PTL DEF WheelSpec, WheelDrains

-----------------------------------------------------------------------------
(* The bell.                                                               *)

\* An acknowledgement is under way behind position n.
AcknowledgedAfter(n) == \E m \in (n + 1)..Len(toIndex) : toIndex[m] = "acknowledged"

\* Every bell under way, and every mark of this page, is owed an acknowledgement or has it coming.
BellInv ==
  /\ gate \in [delivery : BOOLEAN, acknowledgement : BOOLEAN]
  /\ toIndex \in Seq({"bell", "acknowledged"})
  /\ attention /\ ~older => gate.acknowledgement \/ AcknowledgedAfter(0)
  /\ \A n \in 1..Len(toIndex) :
       toIndex[n] = "bell" => gate.acknowledgement \/ AcknowledgedAfter(n)

LEMMA BellInitInv == BellInit => BellInv
BY DEF BellInit, BellInv, BellAttentionGate, AcknowledgedAfter

LEMMA BellHandledInv == BellInv /\ HandleMessage => BellInv'
<1> SUFFICES ASSUME BellInv, HandleMessage PROVE BellInv'
  OBVIOUS
<1>1. /\ toIndex # <<>> /\ toIndex' = Tail(toIndex) /\ gate' = gate
      /\ toIndex \in Seq({"bell", "acknowledged"})
  BY DEF HandleMessage, BellInv
<1>2. /\ toIndex' \in Seq({"bell", "acknowledged"})
      /\ Len(toIndex') = Len(toIndex) - 1 /\ Len(toIndex) \in Nat \ {0}
      /\ \A n \in 1..Len(toIndex') : toIndex'[n] = toIndex[n + 1]
  BY <1>1
<1>3. ASSUME NEW n \in 1..Len(toIndex), AcknowledgedAfter(n)
      PROVE  AcknowledgedAfter(n - 1)'
  <2>1. PICK m \in (n + 1)..Len(toIndex) : toIndex[m] = "acknowledged"
    BY <1>3 DEF AcknowledgedAfter
  <2>2. m - 1 \in n..Len(toIndex') /\ toIndex'[m - 1] = "acknowledged"
    BY <1>2, <2>1
  <2> QED
    BY <1>2, <2>2 DEF AcknowledgedAfter
<1>4. ASSUME NEW n \in 1..Len(toIndex'), toIndex'[n] = "bell"
      PROVE  gate'.acknowledgement \/ AcknowledgedAfter(n)'
  <2>1. n + 1 \in 1..Len(toIndex) /\ toIndex[n + 1] = "bell"
    BY <1>2, <1>4
  <2>2. gate.acknowledgement \/ AcknowledgedAfter(n + 1)
    BY <2>1 DEF BellInv
  <2> QED
    BY <1>1, <1>3, <2>1, <2>2
<1>5. ASSUME attention', ~older' PROVE gate'.acknowledgement \/ AcknowledgedAfter(0)'
  <2>1. Head(toIndex) = "bell"
    BY <1>5, Zenon DEF HandleMessage
  <2>2. toIndex[1] = "bell" /\ 1 \in 1..Len(toIndex)
    BY <1>1, <1>2, <2>1
  <2>3. gate.acknowledgement \/ AcknowledgedAfter(1)
    BY <2>2 DEF BellInv
  <2>4. AcknowledgedAfter(1) => AcknowledgedAfter(0)'
    BY <1>3, <2>2
  <2> QED
    BY <1>1, <2>3, <2>4, Zenon
<1> QED
  BY <1>1, <1>2, <1>4, <1>5 DEF BellInv
\* What is appended behind a bell leaves its acknowledgement where it is.
LEMMA AppendedBehind ==
  ASSUME BellInv, NEW message \in {"bell", "acknowledged"}, toIndex' = Append(toIndex, message)
  PROVE  /\ toIndex' \in Seq({"bell", "acknowledged"})
         /\ Len(toIndex') = Len(toIndex) + 1
         /\ toIndex'[Len(toIndex')] = message
         /\ \A n \in 1..Len(toIndex) : toIndex'[n] = toIndex[n]
         /\ \A n \in 0..Len(toIndex) : AcknowledgedAfter(n) => AcknowledgedAfter(n)'
         /\ message = "acknowledged" => \A n \in 0..Len(toIndex) : AcknowledgedAfter(n)'
<1>1. toIndex \in Seq({"bell", "acknowledged"})
  BY DEF BellInv
<1>2. /\ toIndex' \in Seq({"bell", "acknowledged"})
      /\ Len(toIndex') = Len(toIndex) + 1 /\ Len(toIndex) \in Nat
      /\ toIndex'[Len(toIndex')] = message
      /\ \A n \in 1..Len(toIndex) : toIndex'[n] = toIndex[n]
  BY <1>1
<1>3. ASSUME NEW n \in 0..Len(toIndex), AcknowledgedAfter(n) PROVE AcknowledgedAfter(n)'
  <2>1. PICK m \in (n + 1)..Len(toIndex) : toIndex[m] = "acknowledged"
    BY <1>3 DEF AcknowledgedAfter
  <2>2. m \in (n + 1)..Len(toIndex') /\ toIndex'[m] = "acknowledged"
    BY <1>2, <2>1
  <2> QED
    BY <2>2 DEF AcknowledgedAfter
<1>4. ASSUME message = "acknowledged", NEW n \in 0..Len(toIndex) PROVE AcknowledgedAfter(n)'
  <2>1. Len(toIndex') \in (n + 1)..Len(toIndex')
    BY <1>2
  <2> QED
    BY <1>2, <1>4, <2>1 DEF AcknowledgedAfter
<1> QED
  BY <1>2, <1>3, <1>4

LEMMA BellRingsInv == BellInv /\ Bell => BellInv'
<1> SUFFICES ASSUME BellInv, Bell PROVE BellInv'
  OBVIOUS
<1>1. gate' = [delivery |-> TRUE, acknowledgement |-> TRUE]
  BY DEF Bell, BellTrigger
<1>2. gate' \in [delivery : BOOLEAN, acknowledgement : BOOLEAN]
  BY <1>1
<1>3. gate'.acknowledgement
  BY <1>1, Zenon
<1>4. toIndex' \in Seq({"bell", "acknowledged"})
  <2>1. toIndex' = Append(toIndex, "bell") \/ toIndex' = toIndex
    BY DEF Bell
  <2>2. toIndex \in Seq({"bell", "acknowledged"})
    BY DEF BellInv
  <2> QED
    BY <2>1, <2>2
<1> QED
  BY <1>2, <1>3, <1>4, Zenon DEF BellInv

LEMMA InputInv == BellInv /\ PageInput => BellInv'
<1> SUFFICES ASSUME BellInv, PageInput PROVE BellInv'
  OBVIOUS
<1>1. CASE gate.acknowledgement
  <2>1. toIndex' = Append(toIndex, "acknowledged") /\ gate' = BellAttentionGate
    BY <1>1, Zenon DEF PageInput, BellAcknowledge
  <2>2. gate' \in [delivery : BOOLEAN, acknowledgement : BOOLEAN]
    BY <2>1 DEF BellAttentionGate
  <2>3. /\ toIndex' \in Seq({"bell", "acknowledged"})
        /\ Len(toIndex') = Len(toIndex) + 1
        /\ toIndex'[Len(toIndex')] = "acknowledged"
        /\ \A n \in 0..Len(toIndex) : AcknowledgedAfter(n)'
    BY <2>1, AppendedBehind
  <2>4. Len(toIndex) \in Nat
    BY DEF BellInv
  <2>5. AcknowledgedAfter(0)'
    BY <2>3, <2>4
  <2>6. ASSUME NEW n \in 1..Len(toIndex'), toIndex'[n] = "bell" PROVE AcknowledgedAfter(n)'
    <3>1. n # Len(toIndex')
      BY <2>3, <2>6
    <3>2. n \in 0..Len(toIndex)
      BY <2>3, <2>4, <3>1
    <3> QED
      BY <2>3, <3>2
  <2> QED
    BY <2>2, <2>3, <2>5, <2>6 DEF BellInv
<1>2. CASE ~gate.acknowledgement
  <2>1. toIndex' = toIndex /\ gate' = gate /\ attention' = attention /\ older' = older
    BY <1>2, Zenon DEF PageInput, BellAcknowledge
  <2> QED
    BY <2>1 DEF BellInv, AcknowledgedAfter
<1> QED
  BY <1>1, <1>2

LEMMA BellStep == BellInv /\ [BellNext]_bellVars => BellInv'
<1> SUFFICES ASSUME BellInv, [BellNext]_bellVars PROVE BellInv'
  OBVIOUS
<1>1. ASSUME gate' = gate, toIndex' = toIndex, attention' => attention, older' = older
      PROVE  BellInv'
  BY <1>1 DEF BellInv, AcknowledgedAfter
<1>2. CASE UNCHANGED bellVars
  BY <1>1, <1>2 DEF bellVars
<1>3. ASSUME NEW entered, NEW restored, ChangeView(entered, restored) PROVE BellInv'
  <2>1. attention' => attention
    BY <1>3, Zenon DEF ChangeView
  <2> QED
    BY <1>1, <1>3, <2>1 DEF ChangeView
<1>4. CASE SelectTab \/ LeaveTab \/ FocusOther \/ ToggleMenu
  BY <1>3, <1>4 DEF SelectTab, LeaveTab, FocusOther, ToggleMenu
<1>5. CASE (\E userInitiated \in BOOLEAN : FocusPane(userInitiated)) \/ \E shown \in BOOLEAN : SetVisible(shown)
  BY <1>3, <1>5 DEF FocusPane, SetVisible
<1>6. CASE RestoreFocus
  BY <1>1, <1>6 DEF RestoreFocus
<1>7. CASE PageFocus
  <2>1. PICK d \in BOOLEAN, a \in BOOLEAN : gate = [delivery |-> d, acknowledgement |-> a]
    BY DEF BellInv
  <2>2. gate' = [delivery |-> FALSE, acknowledgement |-> a]
    BY <1>7, <2>1 DEF PageFocus, BellRearm
  <2>3. gate' \in [delivery : BOOLEAN, acknowledgement : BOOLEAN]
    BY <2>2
  <2>4. gate'.acknowledgement <=> gate.acknowledgement
    BY <2>1, <2>2, Zenon
  <2>5. toIndex' = toIndex /\ attention' = attention /\ older' = older
    BY <1>7 DEF PageFocus
  <2> QED
    BY <2>3, <2>4, <2>5 DEF BellInv, AcknowledgedAfter
<1>8. CASE ReplacePage
  <2>1. toIndex' = <<>> /\ gate' = BellAttentionGate
    BY <1>8 DEF ReplacePage
  <2>2. ~(attention' /\ ~older')
    BY <1>8, Zenon DEF ReplacePage
  <2> QED
    BY <2>1, <2>2 DEF BellInv, BellAttentionGate
<1> QED
  BY <1>2, <1>4, <1>5, <1>6, <1>7, <1>8, BellHandledInv, BellRingsInv, InputInv DEF BellNext

\* Each variable of the bell has its type.
BellTypes == BellTypeOK /\ BellInv

LEMMA BellTypesStep == BellTypes /\ [BellNext]_bellVars => BellTypes'
<1> SUFFICES ASSUME BellTypes, [BellNext]_bellVars PROVE BellTypes'
  OBVIOUS
<1>1. BellInv /\ BellInv'
  BY BellStep DEF BellTypes
<1>2. /\ front \in BOOLEAN /\ chosen \in BOOLEAN /\ visible \in BOOLEAN /\ menu \in BOOLEAN
      /\ focusing \in BOOLEAN /\ attention \in BOOLEAN /\ unseen \in BOOLEAN /\ older \in BOOLEAN
      /\ toBellPage \in Seq({"focus"})
  BY DEF BellTypes, BellTypeOK
<1>3. gate' \in [delivery : BOOLEAN, acknowledgement : BOOLEAN]
      /\ toIndex' \in Seq({"bell", "acknowledged"})
  BY <1>1 DEF BellInv
<1>4. SUFFICES
        /\ front' \in BOOLEAN /\ chosen' \in BOOLEAN /\ visible' \in BOOLEAN /\ menu' \in BOOLEAN
        /\ focusing' \in BOOLEAN /\ attention' \in BOOLEAN /\ unseen' \in BOOLEAN
        /\ older' \in BOOLEAN /\ toBellPage' \in Seq({"focus"})
  BY <1>1, <1>3 DEF BellTypes, BellTypeOK
<1>5. CASE UNCHANGED bellVars
  BY <1>2, <1>5 DEF bellVars, view
<1>6. ASSUME NEW entered \in BOOLEAN, NEW restored \in BOOLEAN, ChangeView(entered, restored)
      PROVE  /\ focusing' \in BOOLEAN /\ attention' \in BOOLEAN /\ unseen' \in BOOLEAN
             /\ older' \in BOOLEAN /\ toBellPage' \in Seq({"focus"})
  <2>1. attention' \in BOOLEAN
    BY <1>2, <1>6, Zenon DEF ChangeView
  <2>2. focusing' \in BOOLEAN
    BY <1>6 DEF ChangeView
  <2>3. unseen' \in BOOLEAN
    BY <1>6 DEF ChangeView
  <2> QED
    BY <1>2, <1>6, <2>1, <2>2, <2>3 DEF ChangeView
<1>7. CASE SelectTab \/ LeaveTab \/ FocusOther
  BY <1>2, <1>6, <1>7 DEF SelectTab, LeaveTab, FocusOther
<1>8. CASE ToggleMenu
  BY <1>2, <1>6, <1>8 DEF ToggleMenu
<1>9. CASE \E userInitiated \in BOOLEAN : FocusPane(userInitiated)
  BY <1>2, <1>6, <1>9 DEF FocusPane
<1>10. CASE \E shown \in BOOLEAN : SetVisible(shown)
  BY <1>2, <1>6, <1>10 DEF SetVisible
<1>11. CASE RestoreFocus
  <2>1. toBellPage' \in Seq({"focus"})
    BY <1>2, <1>11 DEF RestoreFocus
  <2> QED
    BY <1>2, <1>11, <2>1 DEF RestoreFocus, view
<1>12. CASE HandleMessage
  <2>1. attention' \in BOOLEAN
    BY <1>2, <1>12 DEF HandleMessage
  <2>2. older' \in BOOLEAN
    BY <1>2, <1>12 DEF HandleMessage
  <2> QED
    BY <1>2, <1>12, <2>1, <2>2 DEF HandleMessage, view
<1>13. CASE Bell
  <2>1. unseen' \in BOOLEAN
    BY <1>13 DEF Bell
  <2> QED
    BY <1>2, <1>13, <2>1 DEF Bell, view
<1>14. CASE PageInput
  BY <1>2, <1>14 DEF PageInput, view
<1>15. CASE PageFocus
  <2>1. toBellPage' \in Seq({"focus"})
    BY <1>2, <1>15, HeadTailProperties DEF PageFocus
  <2> QED
    BY <1>2, <1>15, <2>1 DEF PageFocus, view
<1>16. CASE ReplacePage
  <2>1. toBellPage' \in Seq({"focus"})
    BY <1>16 DEF ReplacePage
  <2>2. focusing' \in BOOLEAN /\ unseen' \in BOOLEAN
    BY <1>16 DEF ReplacePage
  <2> QED
    BY <1>2, <1>16, <2>1, <2>2 DEF ReplacePage, view
<1> QED
  BY <1>5, <1>7, <1>8, <1>9, <1>10, <1>11, <1>12, <1>13, <1>14, <1>15, <1>16 DEF BellNext

(* The bell's variables have their types for any number of messages under way. *)
THEOREM BellTypesAlways == BellSpec => []BellTypeOK
<1>1. BellInit => BellTypes
  <2> SUFFICES ASSUME BellInit PROVE BellTypes
    OBVIOUS
  <2>1. {front, chosen, visible, menu, focusing, attention, unseen, older} \subseteq BOOLEAN
    BY DEF BellInit
  <2>2. toBellPage \in Seq({"focus"})
    BY DEF BellInit
  <2>3. BellInv
    BY BellInitInv
  <2> QED
    BY <2>1, <2>2, <2>3 DEF BellTypes, BellTypeOK, BellInv
<1>2. BellTypes => BellTypeOK
  BY DEF BellTypes
<1> QED
  BY <1>1, <1>2, BellTypesStep, PTL DEF BellSpec

(* For any number of bells, keys, focus messages and changes of view in any order, a marked    *)
(* pane's page owes an acknowledgement or has sent it (createBellAttentionGate).               *)
THEOREM MarkCanBeTyped == BellSpec => []MarkCanBeTypedAway
<1>1. BellInv => MarkCanBeTypedAway
  <2> SUFFICES ASSUME BellInv, attention, ~older, ~gate.acknowledgement
               PROVE  "acknowledged" \in Range(toIndex)
    BY Zenon DEF MarkCanBeTypedAway
  <2>1. PICK m \in 1..Len(toIndex) : toIndex[m] = "acknowledged"
    BY DEF BellInv, AcknowledgedAfter
  <2>2. m \in DOMAIN toIndex
    BY <2>1 DEF BellInv
  <2> QED
    BY <2>1, <2>2, Zenon DEF Range
<1> QED
  BY BellInitInv, BellStep, <1>1, PTL DEF BellSpec

-----------------------------------------------------------------------------
(* The terminal's replies.                                                 *)

Packets == [kind : {"snapshot", "output"}, number : Nat, asks : BOOLEAN]
ReplyMessages == [kind : {"snapshot", "output", "key"}, number : Nat, asks : BOOLEAN]

\* What the two sides of RestoreIsSilent take from one message.
AnswerMeasure == [m \in ReplyMessages |-> IF m.kind = "key" THEN <<>> ELSE <<m>>]
QuestionMeasure == [m \in Packets |-> IF m.kind = "output" /\ m.asks THEN <<m>> ELSE <<>>]

\* A snapshot can only come first.
SnapshotFirst(s) == \A i \in 1..Len(s) : i # 1 => s[i].kind = "output"

\* The snapshot is waiting, on the port or at the head of xterm's buffer, and the terminal is
\* silent exactly while xterm has it.
ReplyInv ==
  /\ waiting \in Seq(Packets) /\ toPage \in Seq(Packets) /\ writes \in Seq(Packets)
  /\ parsed \in Seq(Packets) /\ toServer \in Seq(ReplyMessages)
  /\ outputs \in Nat /\ keys \in Nat /\ ready \in BOOLEAN
  /\ SnapshotFirst(waiting) /\ SnapshotFirst(toPage) /\ SnapshotFirst(writes)
  /\ ready => waiting = <<>>
  /\ ~ready => toPage = <<>> /\ writes = <<>>
  /\ toPage # <<>> /\ Head(toPage).kind = "snapshot" => writes = <<>>
  /\ restoringSnapshot <=> writes # <<>> /\ Head(writes).kind = "snapshot"
  /\ Gather(AnswerMeasure, toServer) = Gather(QuestionMeasure, parsed)

LEMMA AnswersMeasured ==
  Measures(AnswerMeasure, ReplyMessages, ReplyMessages)
BY DEF Measures, AnswerMeasure

LEMMA QuestionsMeasured ==
  Measures(QuestionMeasure, Packets, ReplyMessages)
<1>1. ASSUME NEW m \in Packets
      PROVE  (IF m.kind = "output" /\ m.asks THEN <<m>> ELSE <<>>) \in Seq(ReplyMessages)
  <2>1. m \in ReplyMessages
    BY DEF Packets, ReplyMessages
  <2> QED
    BY <2>1
<1> QED
  BY <1>1 DEF Measures, QuestionMeasure

LEMMA AnswersAppend ==
  ASSUME NEW s \in Seq(ReplyMessages), NEW m \in ReplyMessages
  PROVE  Gather(AnswerMeasure, Append(s, m)) = Gather(AnswerMeasure, s) \o AnswerMeasure[m]
BY AnswersMeasured, GatherAppend

LEMMA SnapshotFirstLaws ==
  ASSUME NEW s \in Seq(Packets)
  PROVE  /\ SnapshotFirst(<<>>)
         /\ \A m \in Packets : (s = <<>> \/ m.kind = "output") /\ SnapshotFirst(s) =>
              SnapshotFirst(Append(s, m))
         /\ SnapshotFirst(s) /\ s # <<>> =>
              SnapshotFirst(Tail(s)) /\ (Tail(s) # <<>> => Head(Tail(s)).kind = "output")
<1>1. Len(s) \in Nat
  BY LenProperties
<1>2. SnapshotFirst(<<>>)
  BY DEF SnapshotFirst
<1>3. ASSUME NEW m \in Packets, s = <<>> \/ m.kind = "output", SnapshotFirst(s)
      PROVE  SnapshotFirst(Append(s, m))
  <2>1. /\ Len(Append(s, m)) = Len(s) + 1 /\ Append(s, m)[Len(s) + 1] = m
        /\ \A i \in 1..Len(s) : Append(s, m)[i] = s[i]
    BY <1>1
  <2>2. s = <<>> => Len(s) = 0
    OBVIOUS
  <2> QED
    BY <1>1, <1>3, <2>1, <2>2 DEF SnapshotFirst
<1>4. ASSUME SnapshotFirst(s), s # <<>>
      PROVE  SnapshotFirst(Tail(s)) /\ (Tail(s) # <<>> => Head(Tail(s)).kind = "output")
  <2>1. /\ Tail(s) \in Seq(Packets) /\ Len(Tail(s)) = Len(s) - 1 /\ Len(s) > 0
        /\ \A i \in 1..Len(Tail(s)) : Tail(s)[i] = s[i + 1]
    BY <1>4, HeadTailProperties, EmptySeq
  <2>2. \A i \in 1..Len(Tail(s)) : Tail(s)[i].kind = "output"
    BY <1>1, <1>4, <2>1 DEF SnapshotFirst
  <2>3. Tail(s) # <<>> => Head(Tail(s)) = Tail(s)[1] /\ 1 \in 1..Len(Tail(s))
    BY <2>1, HeadTailProperties, EmptySeq
  <2> QED
    BY <2>2, <2>3 DEF SnapshotFirst
<1> QED
  BY <1>2, <1>3, <1>4

LEMMA AppendHead ==
  ASSUME NEW s \in Seq(Packets), NEW m \in Packets
  PROVE  /\ Append(s, m) \in Seq(Packets) /\ Append(s, m) # <<>>
         /\ Head(Append(s, m)) = IF s = <<>> THEN m ELSE Head(s)
<1>1. Len(s) \in Nat /\ (s = <<>> <=> Len(s) = 0)
  BY LenProperties, EmptySeq
<1>2. /\ Append(s, m) \in Seq(Packets) /\ Len(Append(s, m)) = Len(s) + 1
      /\ \A i \in 1..Len(s) : Append(s, m)[i] = s[i]
      /\ Append(s, m)[Len(s) + 1] = m
  BY <1>1
<1>3. Append(s, m) # <<>> /\ Head(Append(s, m)) = Append(s, m)[1]
  <2>1. PICK t \in Seq(Packets) : t = Append(s, m)
    BY <1>2, Zenon
  <2>2. Len(t) # 0
    BY <1>1, <1>2, <2>1
  <2>3. t # <<>>
    BY <2>2, EmptySeq
  <2>4. Head(t) = t[1]
    BY <2>3, HeadTailProperties
  <2> QED
    BY <2>1, <2>3, <2>4, Zenon
<1>4. s # <<>> => 1 \in 1..Len(s) /\ Head(s) = s[1]
  BY <1>1, HeadTailProperties
<1> QED
  BY <1>1, <1>2, <1>3, <1>4

LEMMA ReplyInitInv == ReplyInit => ReplyInv
<1> SUFFICES ASSUME ReplyInit PROVE ReplyInv
  OBVIOUS
<1>1. waiting \in Seq(Packets) /\ SnapshotFirst(waiting)
  <2>1. CASE waiting = <<>>
    BY <2>1 DEF SnapshotFirst
  <2>2. ASSUME NEW asks \in BOOLEAN, waiting = <<Snapshot(asks)>>
        PROVE  waiting \in Seq(Packets) /\ SnapshotFirst(waiting)
    <3>1. Snapshot(asks) \in Packets
      BY DEF Snapshot, Packets
    <3> QED
      BY <2>2, <3>1 DEF SnapshotFirst
  <2> QED
    BY <2>1, <2>2 DEF ReplyInit
<1>2. Gather(AnswerMeasure, <<>>) = <<>> /\ Gather(QuestionMeasure, <<>>) = <<>>
  BY GatherEmpty
<1>3. SnapshotFirst(<<>>)
  BY DEF SnapshotFirst
<1>4. /\ ready = FALSE /\ restoringSnapshot = FALSE /\ outputs = 0 /\ keys = 0
      /\ toPage = <<>> /\ writes = <<>> /\ parsed = <<>> /\ toServer = <<>>
  BY DEF ReplyInit
<1>5. /\ toPage \in Seq(Packets) /\ writes \in Seq(Packets) /\ parsed \in Seq(Packets)
      /\ toServer \in Seq(ReplyMessages)
      /\ SnapshotFirst(toPage) /\ SnapshotFirst(writes)
      /\ Gather(AnswerMeasure, toServer) = Gather(QuestionMeasure, parsed)
  <2>1. <<>> \in Seq(Packets) /\ <<>> \in Seq(ReplyMessages)
    OBVIOUS
  <2> QED
    BY <1>2, <1>3, <1>4, <2>1, Zenon
<1>6. outputs \in Nat /\ keys \in Nat /\ ready \in BOOLEAN
  BY <1>4
<1> QED
  BY <1>1, <1>4, <1>5, <1>6, Zenon DEF ReplyInv

LEMMA BridgeWritesInv ==
  ASSUME ReplyInv, NEW asks \in BOOLEAN, BridgeWrites(asks)
  PROVE  ReplyInv'
<1>1. PICK chunk \in Packets : chunk = Chunk(outputs + 1, asks) /\ chunk.kind = "output"
  <2>1. Chunk(outputs + 1, asks) \in Packets /\ Chunk(outputs + 1, asks).kind = "output"
    BY DEF Chunk, Packets, ReplyInv
  <2> QED
    BY <2>1
<1>2. /\ outputs' \in Nat /\ UNCHANGED <<ready, writes, parsed, restoringSnapshot, keys, toServer>>
      /\ IF ready THEN toPage' = Append(toPage, chunk) /\ UNCHANGED waiting
                  ELSE waiting' = Append(waiting, chunk) /\ UNCHANGED toPage
  BY <1>1 DEF BridgeWrites, ReplyInv
<1>3. ASSUME NEW s \in Seq(Packets), SnapshotFirst(s)
      PROVE  /\ Append(s, chunk) \in Seq(Packets) /\ SnapshotFirst(Append(s, chunk))
             /\ Head(Append(s, chunk)).kind = "snapshot" =>
                  s # <<>> /\ Head(s).kind = "snapshot"
  BY <1>1, <1>3, SnapshotFirstLaws, AppendHead
<1>4. CASE ready
  BY <1>2, <1>3, <1>4 DEF ReplyInv
<1>5. CASE ~ready
  BY <1>2, <1>3, <1>5 DEF ReplyInv
<1> QED
  BY <1>4, <1>5

LEMMA BridgeReadyInv == ReplyInv /\ BridgeReady => ReplyInv'
<1> SUFFICES ASSUME ReplyInv, BridgeReady PROVE ReplyInv'
  OBVIOUS
<1>1. toPage = <<>> /\ writes = <<>> /\ waiting \in Seq(Packets)
  BY DEF ReplyInv, BridgeReady
<1>2. toPage' = waiting
  <2>1. <<>> \o waiting = waiting
    BY <1>1
  <2> QED
    BY <1>1, <2>1 DEF BridgeReady
<1>3. waiting' = <<>> /\ waiting' \in Seq(Packets) /\ SnapshotFirst(waiting')
  BY DEF BridgeReady, SnapshotFirst
<1>4. ready' = TRUE /\ UNCHANGED <<outputs, writes, parsed, restoringSnapshot, keys, toServer>>
  BY DEF BridgeReady
<1> QED
  BY <1>1, <1>2, <1>3, <1>4 DEF ReplyInv

LEMMA PageTakesInv == ReplyInv /\ PageTakes => ReplyInv'
<1> SUFFICES ASSUME ReplyInv, PageTakes PROVE ReplyInv'
  OBVIOUS
<1>1. PICK m \in Packets : m = Head(toPage)
  BY HeadTailProperties DEF ReplyInv, PageTakes
<1>2. PICK rest \in Seq(Packets) : rest = Tail(toPage)
  BY HeadTailProperties DEF ReplyInv, PageTakes
<1>3. SnapshotFirst(rest) /\ (rest # <<>> => Head(rest).kind = "output")
  BY <1>2, SnapshotFirstLaws DEF ReplyInv, PageTakes
<1>4. /\ writes' = Append(writes, m) /\ toPage' = rest
      /\ restoringSnapshot' = (restoringSnapshot \/ m.kind = "snapshot")
      /\ UNCHANGED <<ready, waiting, outputs, parsed, keys, toServer>>
  BY <1>1, <1>2 DEF PageTakes
<1>5. m.kind = "output" \/ (m.kind = "snapshot" /\ writes = <<>>)
  <2>1. m.kind \in {"snapshot", "output"}
    BY DEF Packets
  <2>2. toPage # <<>>
    BY DEF PageTakes
  <2>3. m.kind = "snapshot" => writes = <<>>
    BY <1>1, <2>2, Zenon DEF ReplyInv
  <2>4. m.kind = "snapshot" \/ m.kind = "output"
    BY <2>1
  <2> QED
    BY <2>3, <2>4, Zenon
<1>6. ready
  BY DEF ReplyInv, PageTakes
<1>7. writes' \in Seq(Packets) /\ writes' # <<>> /\ SnapshotFirst(writes')
  BY <1>4, <1>5, AppendHead, SnapshotFirstLaws DEF ReplyInv
<1>8. Head(writes') = IF writes = <<>> THEN m ELSE Head(writes)
  BY <1>4, AppendHead DEF ReplyInv
<1>9. restoringSnapshot' <=> Head(writes').kind = "snapshot"
  <2>1. CASE writes = <<>>
    BY <1>4, <1>8, <2>1 DEF ReplyInv
  <2>2. CASE writes # <<>>
    BY <1>4, <1>5, <1>8, <2>2 DEF ReplyInv
  <2> QED
    BY <2>1, <2>2
<1> QED
  BY <1>3, <1>4, <1>6, <1>7, <1>9 DEF ReplyInv

LEMMA ParseInv == ReplyInv /\ Parse => ReplyInv'
<1> SUFFICES ASSUME ReplyInv, Parse PROVE ReplyInv'
  OBVIOUS
<1>1. PICK chunk \in Packets : chunk = Head(writes)
  BY HeadTailProperties DEF ReplyInv, Parse
<1>2. PICK rest \in Seq(Packets) : rest = Tail(writes)
  BY HeadTailProperties DEF ReplyInv, Parse
<1>3. SnapshotFirst(rest) /\ (rest # <<>> => Head(rest).kind = "output")
  BY <1>2, SnapshotFirstLaws DEF ReplyInv, Parse
<1>4. /\ writes # <<>> /\ writes' = rest /\ parsed' = Append(parsed, chunk)
      /\ restoringSnapshot' = (restoringSnapshot /\ chunk.kind # "snapshot")
      /\ UNCHANGED <<ready, waiting, outputs, toPage, keys>>
  BY <1>1, <1>2 DEF Parse
<1>5. restoringSnapshot <=> chunk.kind = "snapshot"
  BY <1>1, <1>4 DEF ReplyInv
<1>6. ~restoringSnapshot' /\ (rest # <<>> => Head(rest).kind # "snapshot")
  BY <1>3, <1>4, <1>5
<1>7. toPage # <<>> => Head(toPage).kind = "output"
  <2>1. toPage # <<>> => Head(toPage) \in Packets
    BY HeadTailProperties DEF ReplyInv
  <2>2. toPage # <<>> => Head(toPage).kind \in {"snapshot", "output"}
    BY <2>1 DEF Packets
  <2>3. toPage # <<>> => Head(toPage).kind # "snapshot"
    BY <1>4, Zenon DEF ReplyInv
  <2> QED
    BY <2>2, <2>3
<1>8. /\ parsed' \in Seq(Packets)
      /\ Gather(QuestionMeasure, parsed') = Gather(QuestionMeasure, parsed) \o QuestionMeasure[chunk]
  <2>1. parsed \in Seq(Packets)
    BY DEF ReplyInv
  <2>2. Append(parsed, chunk) \in Seq(Packets)
    BY <2>1, AppendProperties
  <2>3. Gather(QuestionMeasure, Append(parsed, chunk))
          = Gather(QuestionMeasure, parsed) \o QuestionMeasure[chunk]
    BY <2>1, QuestionsMeasured, GatherAppend
  <2> QED
    BY <1>4, <2>2, <2>3
<1>9. Gather(QuestionMeasure, parsed) \in Seq(ReplyMessages)
  BY QuestionsMeasured, GatherType DEF ReplyInv
<1>10. toServer' \in Seq(ReplyMessages)
       /\ Gather(AnswerMeasure, toServer') = Gather(QuestionMeasure, parsed')
  <2>1. CASE chunk.kind = "output" /\ chunk.asks
    <3>1. toServer' = Append(toServer, chunk)
      BY <1>1, <1>5, <2>1 DEF Parse, OnData
    <3>2. chunk \in ReplyMessages /\ AnswerMeasure[chunk] = <<chunk>>
      BY <2>1 DEF AnswerMeasure, Packets, ReplyMessages
    <3>3. QuestionMeasure[chunk] = <<chunk>>
      BY <2>1 DEF QuestionMeasure
    <3>4. /\ toServer' \in Seq(ReplyMessages)
          /\ Gather(AnswerMeasure, toServer') = Gather(AnswerMeasure, toServer) \o <<chunk>>
      <4>1. toServer \in Seq(ReplyMessages)
        BY DEF ReplyInv
      <4>2. Append(toServer, chunk) \in Seq(ReplyMessages)
        BY <3>2, <4>1, AppendProperties
      <4>3. Gather(AnswerMeasure, Append(toServer, chunk))
              = Gather(AnswerMeasure, toServer) \o AnswerMeasure[chunk]
        BY <3>2, <4>1, AnswersAppend
      <4> QED
        BY <3>1, <3>2, <4>2, <4>3
    <3> QED
      BY <1>8, <3>3, <3>4 DEF ReplyInv
  <2>2. CASE ~(chunk.kind = "output" /\ chunk.asks)
    <3>1. toServer' = toServer
      BY <1>1, <1>5, <2>2 DEF Parse, OnData, Packets
    <3>2. QuestionMeasure[chunk] = <<>>
      BY <2>2 DEF QuestionMeasure
    <3>3. Gather(QuestionMeasure, parsed) \o <<>> = Gather(QuestionMeasure, parsed)
      BY <1>9
    <3> QED
      BY <1>8, <3>1, <3>2, <3>3 DEF ReplyInv
  <2> QED
    BY <2>1, <2>2
<1> QED
  BY <1>3, <1>4, <1>6, <1>7, <1>8, <1>10 DEF ReplyInv

LEMMA TypeKeyInv == ReplyInv /\ TypeKey => ReplyInv'
<1> SUFFICES ASSUME ReplyInv, TypeKey PROVE ReplyInv'
  OBVIOUS
<1>1. PICK key \in ReplyMessages : key = Key(keys + 1) /\ key.kind = "key"
  <2>1. Key(keys + 1) \in ReplyMessages /\ Key(keys + 1).kind = "key"
    BY DEF Key, ReplyMessages, ReplyInv
  <2> QED
    BY <2>1
<1>2. /\ keys' \in Nat
      /\ UNCHANGED <<ready, waiting, outputs, toPage, writes, parsed, restoringSnapshot>>
      /\ toServer' = IF restoringSnapshot THEN toServer ELSE Append(toServer, key)
  BY <1>1 DEF TypeKey, OnData, ReplyInv
<1>3. /\ toServer' \in Seq(ReplyMessages)
      /\ Gather(AnswerMeasure, toServer') = Gather(AnswerMeasure, toServer)
  <2>1. CASE restoringSnapshot
    BY <1>2, <2>1 DEF ReplyInv
  <2>2. CASE ~restoringSnapshot
    <3>1. toServer' = Append(toServer, key) /\ toServer \in Seq(ReplyMessages)
      BY <1>2, <2>2 DEF ReplyInv
    <3>2. AnswerMeasure[key] = <<>>
      BY <1>1 DEF AnswerMeasure
    <3>3. /\ toServer' \in Seq(ReplyMessages)
          /\ Gather(AnswerMeasure, toServer') = Gather(AnswerMeasure, toServer) \o <<>>
      <4>1. Append(toServer, key) \in Seq(ReplyMessages)
        BY <3>1, AppendProperties
      <4>2. Gather(AnswerMeasure, Append(toServer, key))
              = Gather(AnswerMeasure, toServer) \o AnswerMeasure[key]
        BY <3>1, AnswersMeasured, GatherAppend
      <4> QED
        BY <3>1, <3>2, <4>1, <4>2
    <3>4. Gather(AnswerMeasure, toServer) \in Seq(ReplyMessages)
      BY <3>1, AnswersMeasured, GatherType
    <3> QED
      BY <3>3, <3>4
  <2> QED
    BY <2>1, <2>2
<1> QED
  BY <1>2, <1>3 DEF ReplyInv

LEMMA ReplyStep == ReplyInv /\ [ReplyNext]_replyVars => ReplyInv'
<1> SUFFICES ASSUME ReplyInv, [ReplyNext]_replyVars PROVE ReplyInv'
  OBVIOUS
<1>1. CASE \E asks \in BOOLEAN : BridgeWrites(asks)
  BY <1>1, BridgeWritesInv
<1>2. CASE BridgeReady
  BY <1>2, BridgeReadyInv
<1>3. CASE PageTakes
  BY <1>3, PageTakesInv
<1>4. CASE Parse
  BY <1>4, ParseInv
<1>5. CASE TypeKey
  BY <1>5, TypeKeyInv
<1>6. CASE UNCHANGED replyVars
  BY <1>6 DEF replyVars, ReplyInv
<1> QED
  BY <1>1, <1>2, <1>3, <1>4, <1>5, <1>6 DEF ReplyNext

LEMMA SilentByInv == ReplyInv => RestoreIsSilent
<1> SUFFICES ASSUME ReplyInv PROVE RestoreIsSilent
  OBVIOUS
<1>1. \A i \in DOMAIN toServer : toServer[i] \in ReplyMessages
  BY ElementOfSeq, LenProperties DEF ReplyInv
<1>2. \A i \in DOMAIN parsed : parsed[i] \in Packets
  BY ElementOfSeq, LenProperties DEF ReplyInv
<1>3. [i \in DOMAIN toServer |-> IF toServer[i].kind = "key" THEN <<>> ELSE <<toServer[i]>>]
        = Pieces(AnswerMeasure, toServer)
  BY <1>1 DEF Pieces, AnswerMeasure
<1>4. [i \in DOMAIN parsed |->
         IF parsed[i].kind = "output" /\ parsed[i].asks THEN <<parsed[i]>> ELSE <<>>]
        = Pieces(QuestionMeasure, parsed)
  BY <1>2 DEF Pieces, QuestionMeasure
<1>5. FlattenSeq(Pieces(AnswerMeasure, toServer)) = FlattenSeq(Pieces(QuestionMeasure, parsed))
  BY DEF ReplyInv, Gather
<1> QED
  BY <1>3, <1>4, <1>5 DEF RestoreIsSilent

(* The server gets the answer to every question in the output that has been parsed, once, in *)
(* order, and none to what a snapshot asks (terminal.html, restoreSnapshot and onData).       *)
THEOREM RestoresAreSilent == ReplySpec => []RestoreIsSilent
<1>1. ReplySpec => []ReplyInv
  BY ReplyInitInv, ReplyStep, PTL DEF ReplySpec
<1> QED
  BY <1>1, SilentByInv, PTL

-----------------------------------------------------------------------------
(* The search panel and the terminal's selection.                          *)

Terms == Queries \cup {NoQuery}
Addons == [cached : Terms, tracked : 0..HighlightLimit, timer : BOOLEAN, limit : {HighlightLimit}]
Panels == [open : BOOLEAN, composing : BOOLEAN, input : Terms, query : Terms,
           index : -1..MaxMatches, count : 0..HighlightLimit, owns : BOOLEAN]
Selections == {NoSelection, UserSelection} \cup 0..MaxMatches

\* A search for a text has taken the selection.
SearcherOwns == panel.open /\ panel.query # NoQuery => panel.owns

SearchInv ==
  SearchTypeOK /\ ClosedSearchLeavesNothing /\ FeedbackMatchesSelection /\ SearcherOwns

\* What a panel with an addon and a selection must look like.
Fits(p, a, s) ==
  /\ p \in Panels /\ a \in Addons /\ s \in Selections
  /\ ~p.open => /\ s \in {NoSelection, UserSelection}
                /\ a.cached = NoQuery /\ p.query = NoQuery /\ ~p.owns /\ ~p.composing
  /\ p.open => p.query = a.cached
  /\ p.open /\ p.index >= 0 => s \in {p.index, NoSelection}
  /\ s >= 0 => p.open /\ p.owns
  /\ p.open /\ p.owns => s # UserSelection
  /\ p.open /\ p.query # NoQuery => p.owns

Around ==
  /\ matches \in [Buffers -> [Queries -> 0..MaxMatches]] /\ buffer \in Buffers
  /\ keyboard \in {"terminal", "search", "none"} /\ copying \in BOOLEAN
  /\ panel.open => keyboard = "search"

LEMMA Halves ==
  SearchInv <=> Fits(panel, addon, selection) /\ Around
BY DEF SearchInv, SearchTypeOK, ClosedSearchLeavesNothing, FeedbackMatchesSelection, SearcherOwns,
   Fits, Around, Panels, Addons, Selections, Terms

\* An answer of the addon about a term.
Answers(answer, term) ==
  /\ answer.addon \in Addons /\ answer.addon.cached = term
  /\ answer.selection \in Selections \ {UserSelection}
  /\ answer.index \in -1..MaxMatches /\ answer.count \in 0..HighlightLimit
  /\ answer.index >= 0 => answer.selection = answer.index

LEMMA FoundAnswers ==
  ASSUME NEW a \in Addons, NEW term \in Queries, NEW found \in 0..MaxMatches, NEW match \in Int,
         found > 0 => match \in 0..MaxMatches
  PROVE  Answers(Found(a, term, found, match), term)
<1> DEFINE tracked == Track(a, term, found)
<1>1. a.tracked \in 0..HighlightLimit /\ a.limit = HighlightLimit /\ HighlightLimit \in Nat
      /\ MaxMatches \in Nat
  BY SearchAssumption DEF Addons
<1>2. tracked \in 0..HighlightLimit
  BY <1>1 DEF Track, Least
<1> HIDE DEF tracked
<1>3. [a EXCEPT !.cached = term, !.tracked = tracked] \in Addons
      /\ [a EXCEPT !.cached = term, !.tracked = tracked].cached = term
  BY <1>2 DEF Addons, Terms
<1>4. Found(a, term, found, match) =
        [addon |-> [a EXCEPT !.cached = term, !.tracked = tracked],
         selection |-> IF found = 0 THEN NoSelection ELSE match,
         index |-> IF found > 0 /\ match < tracked THEN match ELSE -1,
         count |-> tracked]
  BY DEF Found, tracked
<1> DEFINE r == Found(a, term, found, match)
<1>5. /\ r.addon = [a EXCEPT !.cached = term, !.tracked = tracked]
      /\ r.selection = IF found = 0 THEN NoSelection ELSE match
      /\ r.index = IF found > 0 /\ match < tracked THEN match ELSE -1
      /\ r.count = tracked
  BY <1>4
<1> HIDE DEF r
<1>6. r.selection \in Selections \ {UserSelection}
  BY <1>1, <1>5 DEF Selections, NoSelection, UserSelection
<1>7. r.index \in -1..MaxMatches /\ (r.index >= 0 => r.selection = r.index)
  BY <1>1, <1>2, <1>5
<1>8. Answers(r, term)
  BY <1>2, <1>3, <1>5, <1>6, <1>7 DEF Answers
<1> QED
  BY <1>8 DEF r

LEMMA NextAnswers ==
  ASSUME NEW a \in Addons, NEW term \in Queries, NEW found \in 0..MaxMatches,
         NEW selected \in Selections
  PROVE  Answers(FindNext(a, term, found, selected), term)
<1> DEFINE match == IF selected < 0 \/ found = 0 THEN 0
                    ELSE IF a.cached = term THEN (selected + 1) % found ELSE selected
<1>1. MaxMatches \in Nat /\ selected \in Int
  BY SearchAssumption DEF Selections, NoSelection, UserSelection
<1>2. match \in 0..MaxMatches
  <2>1. CASE selected < 0 \/ found = 0
    BY <1>1, <2>1
  <2>2. CASE ~(selected < 0 \/ found = 0)
    <3>1. (selected + 1) % found \in 0..(found - 1)
      BY <1>1, <2>2
    <3>2. selected \in 0..MaxMatches
      BY <1>1, <2>2 DEF Selections, NoSelection, UserSelection
    <3> QED
      BY <1>1, <2>2, <3>1, <3>2
  <2> QED
    BY <2>1, <2>2
<1> HIDE DEF match
<1>3. Answers(Found(a, term, found, match), term)
  BY <1>1, <1>2, FoundAnswers
<1> QED
  BY <1>3 DEF FindNext, match

LEMMA PreviousAnswers ==
  ASSUME NEW a \in Addons, NEW term \in Queries, NEW found \in 0..MaxMatches,
         NEW selected \in Selections
  PROVE  Answers(FindPrevious(a, term, found, selected), term)
<1> DEFINE match == IF selected < 0 \/ found = 0 THEN found - 1
                    ELSE IF a.cached = term THEN (selected + found - 1) % found ELSE selected
<1>1. MaxMatches \in Nat /\ selected \in Int
  BY SearchAssumption DEF Selections, NoSelection, UserSelection
<1>2. match \in Int /\ (found > 0 => match \in 0..MaxMatches)
  <2>1. CASE selected < 0 \/ found = 0
    BY <1>1, <2>1
  <2>2. CASE ~(selected < 0 \/ found = 0)
    <3>1. (selected + found - 1) % found \in 0..(found - 1)
      BY <1>1, <2>2
    <3>2. selected \in 0..MaxMatches
      BY <1>1, <2>2 DEF Selections, NoSelection, UserSelection
    <3> QED
      BY <1>1, <2>2, <3>1, <3>2
  <2> QED
    BY <2>1, <2>2
<1> HIDE DEF match
<1>3. Answers(Found(a, term, found, match), term)
  BY <1>2, FoundAnswers
<1> QED
  BY <1>3 DEF FindPrevious, match

\* An answer that arrives in an open panel that owns the selection.
LEMMA ReportFits ==
  ASSUME NEW p \in Panels, p.open, p.owns, NEW term, p.query = term, NEW answer,
         Answers(answer, term), Report(p, answer)
  PROVE  Fits(panel', addon', selection') /\ panel'.open
<1>1. panel' \in Panels /\ panel'.open /\ panel'.owns /\ panel'.query = term
      /\ panel'.index = answer.index
  BY DEF Report, Panels, Answers
<1>2. addon' = answer.addon /\ selection' = answer.selection
  BY DEF Report
<1> QED
  BY <1>1, <1>2 DEF Fits, Answers

LEMMA Bounds ==
  0 \in 0..HighlightLimit /\ -1 \in -1..MaxMatches /\ NoQuery \in Terms
<1>1. HighlightLimit \in Nat /\ MaxMatches \in Nat
  BY SearchAssumption
<1> QED
  BY <1>1 DEF Terms

LEMMA Cleared ==
  ASSUME NEW a \in Addons
  PROVE  ClearDecorations(a) \in Addons /\ ClearDecorations(a).cached = NoQuery
BY Bounds DEF ClearDecorations, Addons

LEMMA Updated ==
  ASSUME NEW a \in Addons
  PROVE  UpdateMatches(a) \in Addons /\ UpdateMatches(a).cached = a.cached
BY DEF UpdateMatches, Addons

LEMMA Closed ==
  /\ ClosedPanel \in Panels
  /\ [ClosedPanel EXCEPT !.open = TRUE] \in Panels
  /\ ~ClosedPanel.open /\ ClosedPanel.query = NoQuery /\ ~ClosedPanel.owns /\ ~ClosedPanel.composing
  /\ [ClosedPanel EXCEPT !.open = TRUE].open /\ [ClosedPanel EXCEPT !.open = TRUE].query = NoQuery
  /\ ~[ClosedPanel EXCEPT !.open = TRUE].owns /\ [ClosedPanel EXCEPT !.open = TRUE].index = -1
BY Bounds DEF ClosedPanel, Panels

\* A search in an open panel, whose text may just have changed.
LEMMA RunSearchFits ==
  ASSUME Fits(panel, addon, selection), Around, NEW p \in Panels, NEW backwards \in BOOLEAN,
         NEW changed \in BOOLEAN, panel.open, p.open, p.query = panel.query, p.owns = panel.owns,
         RunSearch(p, backwards, changed)
  PROVE  Fits(panel', addon', selection') /\ panel'.open
<1>1. CASE p.input = NoQuery
  <2>1. panel' = [p EXCEPT !.query = NoQuery, !.owns = FALSE, !.index = -1, !.count = 0]
    BY <1>1 DEF RunSearch
  <2>2. panel' \in Panels /\ panel'.open /\ panel'.query = NoQuery /\ ~panel'.owns
        /\ panel'.index = -1
    BY <2>1, Bounds DEF Panels
  <2>3. addon' \in Addons /\ addon'.cached = NoQuery
    BY <1>1, Cleared DEF RunSearch, Fits
  <2>4. selection' = IF p.owns THEN NoSelection ELSE selection
    BY <1>1 DEF RunSearch
  <2>5. selection' \in {NoSelection, UserSelection}
    BY <2>4 DEF Fits, Selections
  <2> QED
    BY <2>2, <2>3, <2>5 DEF Fits, Selections, NoSelection, UserSelection
<1>2. CASE p.input # NoQuery
  <2> DEFINE fresh == changed \/ p.input # p.query
             a == IF fresh THEN ClearDecorations(addon) ELSE addon
             selected == IF fresh THEN NoSelection ELSE selection
             found == matches[buffer][p.input]
             asked == [p EXCEPT !.query = p.input, !.owns = p.owns \/ fresh]
             answer == IF backwards THEN FindPrevious(a, p.input, found, selected)
                                    ELSE FindNext(a, p.input, found, selected)
  <2>1. p.input \in Queries
    BY <1>2 DEF Panels, Terms
  <2>2. a \in Addons /\ selected \in Selections /\ found \in 0..MaxMatches
    BY <2>1, Cleared DEF Fits, Around, Selections
  <2>3. p.owns \/ fresh
    <3>1. ~fresh => panel.query # NoQuery
      BY <1>2
    <3> QED
      BY <3>1 DEF Fits
  <2>4. asked \in Panels /\ asked.open /\ asked.owns /\ asked.query = p.input
    BY <2>1, <2>3 DEF Panels, Terms
  <2>5. Report(asked, answer)
    BY <1>2 DEF RunSearch
  <2> HIDE DEF a, selected, found, asked
  <2>6. Answers(answer, p.input)
    BY <2>1, <2>2, NextAnswers, PreviousAnswers
  <2> HIDE DEF answer
  <2> QED
    BY <2>4, <2>5, <2>6, ReportFits
<1> QED
  BY <1>1, <1>2

LEMMA CloseSearchFits ==
  ASSUME Fits(panel, addon, selection), CloseSearch
  PROVE  Fits(panel', addon', selection') /\ ~panel'.open
<1>1. CASE panel.open
  <2>1. /\ panel' = ClosedPanel /\ addon' = ClearDecorations(addon)
        /\ selection' = IF panel.owns THEN NoSelection ELSE selection
    BY <1>1 DEF CloseSearch
  <2>2. selection' \in {NoSelection, UserSelection}
    BY <2>1 DEF Fits, Selections
  <2> QED
    BY <2>1, <2>2, Cleared, Closed DEF Fits, Selections, NoSelection, UserSelection
<1>2. CASE ~panel.open
  BY <1>2 DEF CloseSearch
<1> QED
  BY <1>1, <1>2

LEMMA SearchStep ==
  ASSUME SearchInv, [SearchNext]_searchVars
  PROVE  SearchInv'
<1> SUFFICES Fits(panel', addon', selection') /\ Around'
  BY Halves DEF SearchInv, SearchTypeOK, ClosedSearchLeavesNothing, FeedbackMatchesSelection,
     SearcherOwns, Fits, Around, Panels, Addons, Selections, Terms
<1> USE DEF Around
<1>0. Fits(panel, addon, selection) /\ Around
  BY Halves
<1>1. CASE OpenSearch
  <2>1. Fits(panel', addon', selection')
    <3>1. CASE panel.open
      BY <1>0, <1>1, <3>1 DEF OpenSearch
    <3>2. CASE ~panel.open
      BY <1>0, <1>1, <3>2, Closed DEF OpenSearch, Fits, Selections, NoSelection, UserSelection
    <3> QED
      BY <3>1, <3>2
  <2> QED
    BY <1>0, <1>1, <2>1 DEF OpenSearch
<1>2. CASE CompositionStart
  <2>1. /\ panel' \in Panels /\ panel'.open /\ panel'.query = panel.query /\ panel'.owns = panel.owns
        /\ panel'.index = panel.index
    BY <1>0, <1>2 DEF CompositionStart, Fits, Panels
  <2> QED
    BY <1>0, <1>2, <2>1 DEF CompositionStart, Fits
<1>3. CASE CompositionEnd
  <2> DEFINE p == [panel EXCEPT !.composing = FALSE]
  <2>1. p \in Panels /\ p.query = panel.query /\ p.owns = panel.owns /\ p.open = panel.open
    BY <1>0 DEF Fits, Panels
  <2>2. panel.open /\ RunSearch(p, FALSE, TRUE)
    BY <1>0, <1>3 DEF CompositionEnd, Fits
  <2> HIDE DEF p
  <2>3. Fits(panel', addon', selection') /\ panel'.open
    BY <1>0, <2>1, <2>2, RunSearchFits
  <2> QED
    BY <1>0, <1>3, <2>2, <2>3 DEF CompositionEnd
<1>4. CASE CloseToTerminal
  <2>1. Fits(panel', addon', selection') /\ ~panel'.open
    BY <1>0, <1>4, CloseSearchFits DEF CloseToTerminal
  <2> QED
    BY <1>0, <1>4, <2>1 DEF CloseToTerminal
<1>5. ASSUME NEW q \in Queries \cup {NoQuery}, Input(q)
      PROVE  Fits(panel', addon', selection') /\ Around'
  <2> DEFINE p == [panel EXCEPT !.input = q]
  <2>1. /\ p \in Panels /\ p.query = panel.query /\ p.owns = panel.owns /\ p.open = panel.open
        /\ p.index = panel.index
    BY <1>0 DEF Fits, Panels, Terms
  <2>2. panel.open
    BY <1>5 DEF Input
  <2>3. CASE panel.composing
    <3>1. panel' = p /\ UNCHANGED <<addon, selection, matches, buffer, keyboard, copying>>
      BY <1>5, <2>3 DEF Input
    <3> HIDE DEF p
    <3> QED
      BY <1>0, <2>1, <2>2, <3>1 DEF Fits
  <2>4. CASE ~panel.composing
    <3>1. RunSearch(p, FALSE, TRUE) /\ UNCHANGED <<matches, buffer, keyboard, copying>>
      BY <1>5, <2>4 DEF Input
    <3> HIDE DEF p
    <3>2. Fits(panel', addon', selection') /\ panel'.open
      BY <1>0, <2>1, <2>2, <3>1, RunSearchFits
    <3> QED
      BY <1>0, <2>2, <3>1, <3>2
  <2> QED
    BY <2>3, <2>4
<1>6. ASSUME NEW backwards \in BOOLEAN, Enter(backwards)
      PROVE  Fits(panel', addon', selection') /\ Around'
  <2>1. Fits(panel', addon', selection') /\ panel'.open
    BY <1>0, <1>6, RunSearchFits DEF Enter, Fits
  <2> QED
    BY <1>0, <1>6, <2>1 DEF Enter
<1>7. ASSUME NEW backwards \in BOOLEAN, Navigate(backwards)
      PROVE  Fits(panel', addon', selection') /\ Around'
  <2>1. Fits(panel', addon', selection') /\ panel'.open
    BY <1>0, <1>7, RunSearchFits DEF Navigate, Fits
  <2> QED
    BY <1>0, <1>7, <2>1 DEF Navigate
<1>8. ASSUME NEW made \in BOOLEAN, SelectText(made)
      PROVE  Fits(panel', addon', selection') /\ Around'
  <2>1. addon' \in Addons /\ addon'.cached = NoQuery
    BY <1>0, <1>8, Cleared DEF SelectText, Fits
  <2>2. selection' \in {NoSelection, UserSelection} /\ panel' = ClosedPanel
    BY <1>8 DEF SelectText
  <2>3. Fits(panel', addon', selection')
    BY <2>1, <2>2, Closed DEF Fits, Selections, NoSelection, UserSelection
  <2> QED
    BY <1>0, <1>8, <2>2, <2>3, Closed DEF SelectText
<1>9. CASE LoseKeyboard
  <2>1. Fits(panel', addon', selection') /\ ~panel'.open
    BY <1>0, <1>9, CloseSearchFits DEF LoseKeyboard
  <2> QED
    BY <1>0, <1>9, <2>1 DEF LoseKeyboard
<1>10. CASE FocusMessage
  BY <1>0, <1>10 DEF FocusMessage
<1>11. CASE CopySelection
  BY <1>0, <1>11 DEF CopySelection
<1>12. ASSUME NEW taken \in BOOLEAN, CopyDone(taken)
       PROVE  Fits(panel', addon', selection') /\ Around'
  <2>1. panel' = panel /\ addon' = addon /\ selection' \in {selection, NoSelection}
    BY <1>12 DEF CopyDone
  <2>2. Fits(panel', addon', selection')
    BY <1>0, <2>1 DEF Fits, Selections, NoSelection, UserSelection
  <2> QED
    BY <1>0, <1>12, <2>2 DEF CopyDone
<1>13. ASSUME NEW more \in [Queries -> 0..MaxMatches], Output(more)
       PROVE  Fits(panel', addon', selection') /\ Around'
  <2>1. Fits(panel', addon', selection')
    BY <1>0, <1>13, Updated DEF Output, Fits
  <2> QED
    BY <1>0, <1>13, <2>1 DEF Output
<1>14. ASSUME NEW b \in Buffers, SwitchBuffer(b)
       PROVE  Fits(panel', addon', selection') /\ Around'
  <2>1. addon' \in Addons /\ addon'.cached = NoQuery
    BY <1>0, <1>14, Cleared, Updated DEF SwitchBuffer, Fits
  <2>2. panel' = ClosedPanel /\ selection' = NoSelection
    BY <1>14 DEF SwitchBuffer
  <2>3. Fits(panel', addon', selection')
    BY <2>1, <2>2, Closed DEF Fits, Selections, NoSelection, UserSelection
  <2>4. matches' \in [Buffers -> [Queries -> 0..MaxMatches]]
    <3>1. [q \in Queries |-> 0] \in [Queries -> 0..MaxMatches]
      BY SearchAssumption
    <3> QED
      BY <1>0, <1>14, <3>1 DEF SwitchBuffer
  <2> QED
    BY <1>0, <1>14, <2>2, <2>3, <2>4, Closed DEF SwitchBuffer
<1>15. CASE Refresh
  <2> DEFINE a == [ClearDecorations(addon) EXCEPT !.timer = FALSE]
  <2>1. a \in Addons /\ a.cached = NoQuery
    BY <1>0, Cleared DEF Fits, Addons
  <2>2. addon.cached \in Terms
    BY <1>0 DEF Fits, Addons
  <2>3. CASE addon.cached = NoQuery
    <3>1. Report(panel, FindNothing(a))
      BY <1>15, <2>3 DEF Refresh
    <3> HIDE DEF a
    <3>2. addon' = [a EXCEPT !.cached = NoQuery, !.tracked = 0] /\ selection' = NoSelection
          /\ panel' = [panel EXCEPT !.index = -1, !.count = 0]
      BY <3>1 DEF Report, FindNothing
    <3>3. addon' \in Addons /\ addon'.cached = NoQuery
      BY <2>1, <3>2, Bounds DEF Addons
    <3>4. /\ panel' \in Panels /\ panel'.open = panel.open /\ panel'.query = panel.query
          /\ panel'.owns = panel.owns /\ panel'.index = -1 /\ panel'.composing = panel.composing
      BY <1>0, <3>2, Bounds DEF Fits, Panels
    <3>5. Fits(panel', addon', selection')
      BY <1>0, <2>3, <3>2, <3>3, <3>4 DEF Fits, Selections, NoSelection, UserSelection
    <3> QED
      BY <1>0, <1>15, <3>4, <3>5 DEF Refresh
  <2>4. CASE addon.cached # NoQuery
    <3>1. Report(panel, FindPrevious(a, addon.cached, matches[buffer][addon.cached], selection))
      BY <1>15, <2>4 DEF Refresh
    <3>2. addon.cached \in Queries /\ panel.open /\ panel.owns /\ panel.query = addon.cached
          /\ panel \in Panels /\ selection \in Selections
      BY <1>0, <2>2, <2>4 DEF Fits, Terms
    <3>3. matches[buffer][addon.cached] \in 0..MaxMatches
      BY <1>0, <3>2
    <3> HIDE DEF a
    <3>4. Answers(FindPrevious(a, addon.cached, matches[buffer][addon.cached], selection), addon.cached)
      BY <2>1, <3>2, <3>3, PreviousAnswers
    <3>5. Fits(panel', addon', selection') /\ panel'.open
      BY <3>1, <3>2, <3>4, ReportFits
    <3> QED
      BY <1>0, <1>15, <3>2, <3>5 DEF Refresh
  <2> QED
    BY <2>3, <2>4
<1>16. CASE UNCHANGED searchVars
  BY <1>0, <1>16 DEF searchVars
<1> QED
  BY <1>1, <1>2, <1>3, <1>4, <1>5, <1>6, <1>7, <1>8, <1>9, <1>10, <1>11, <1>12, <1>13, <1>14, <1>15,
     <1>16 DEF SearchNext

LEMMA SearchStart ==
  ASSUME SearchInit
  PROVE  SearchInv
<1>1. addon \in Addons /\ addon.cached = NoQuery
  BY SearchAssumption DEF SearchInit, SearchAddon, Addons, Terms
<1>2. Fits(panel, addon, selection)
  BY <1>1, Closed DEF SearchInit, Fits, Selections, NoSelection, UserSelection
<1>3. Around
  BY Closed DEF SearchInit, Around, Buffers
<1> QED
  BY <1>2, <1>3, Halves

(* The panel's, the addon's and the buffers' variables have their types for all queries and limits. *)
THEOREM SearchTypesAlways == SearchSpec => []SearchTypeOK
<1>1. SearchInit => SearchInv
  BY SearchStart
<1>2. SearchInv /\ [SearchNext]_searchVars => SearchInv'
  BY SearchStep
<1>3. SearchInv => SearchTypeOK
  BY DEF SearchInv
<1> QED
  BY <1>1, <1>2, <1>3, PTL DEF SearchSpec

(* In every instance a search that is closed leaves nothing selected, searched for or typed into: *)
(* every way of closing it gives back the selection and the keyboard (closeSearch and its callers). *)
THEOREM ClosedLeavesNothing == SearchSpec => []ClosedSearchLeavesNothing
<1>1. SearchInit => SearchInv
  BY SearchStart
<1>2. SearchInv /\ [SearchNext]_searchVars => SearchInv'
  BY SearchStep
<1>3. SearchInv => ClosedSearchLeavesNothing
  BY DEF SearchInv
<1> QED
  BY <1>1, <1>2, <1>3, PTL DEF SearchSpec

(* In every instance what the panel says is about the match that is selected and the term that is *)
(* refreshed, whenever the addon's timer and late copies come (runSearch, onDidChangeResults).      *)
THEOREM FeedbackMatches == SearchSpec => []FeedbackMatchesSelection
<1>1. SearchInit => SearchInv
  BY SearchStart
<1>2. SearchInv /\ [SearchNext]_searchVars => SearchInv'
  BY SearchStep
<1>3. SearchInv => FeedbackMatchesSelection
  BY DEF SearchInv
<1> QED
  BY <1>1, <1>2, <1>3, PTL DEF SearchSpec

-----------------------------------------------------------------------------
(* The build of the assets.                                                *)

File == [version : 1..MaxVersion, sourceMap : BOOLEAN]
Whole(version) == [a \in Files |-> Packaged(version)]

\* The manifest is always that of a whole build; a build that runs has its version's entries.
BuildInv ==
  /\ declared \in 1..MaxVersion /\ installed \in 1..MaxVersion
  /\ building \in 0..(Len(Assets) + 1)
  /\ rawfile \in [Files -> File]
  /\ \E version \in 1..MaxVersion : manifest = Whole(version)
  /\ building # 0 =>
       /\ entries \in Seq(File) /\ Len(entries) = building - 1
       /\ \A n \in 1..Len(entries) : entries[n] = Packaged(installed)
  /\ building \in DOMAIN Assets =>
       /\ step = "strip" => rawfile[Assets[building]] = Upstream(installed)
       /\ step = "hash" => rawfile[Assets[building]] = Packaged(installed)

LEMMA FileTypes ==
  ASSUME NEW version \in 1..MaxVersion
  PROVE  Upstream(version) \in File /\ Packaged(version) \in File
BY DEF Upstream, Packaged, File

LEMMA AssetFacts ==
  /\ Len(Assets) \in Nat /\ DOMAIN Assets = 1..Len(Assets) /\ MaxVersion \in Nat \ {0}
  /\ \A n \in DOMAIN Assets : Assets[n] \in Files
  /\ \A a \in Files : \E n \in DOMAIN Assets : Assets[n] = a
<1>1. Assets \in Seq(STRING) /\ MaxVersion \in Nat \ {0}
  BY BuildAssumption
<1>2. \A n \in DOMAIN Assets : Assets[n] \in Files
  BY DEF Files, Range
<1>3. \A a \in Files : \E n \in DOMAIN Assets : Assets[n] = a
  BY DEF Files, Range
<1> QED
  BY <1>1, <1>2, <1>3

LEMMA BuildInitInv == BuildInit => BuildInv
<1> SUFFICES ASSUME BuildInit PROVE BuildInv
  OBVIOUS
<1>1. 1 \in 1..MaxVersion
  BY AssetFacts
<1>2. rawfile = Whole(1) /\ manifest = Whole(1)
  BY DEF BuildInit, Whole
<1>3. rawfile \in [Files -> File]
  BY <1>1, <1>2, FileTypes DEF Whole
<1> QED
  BY <1>1, <1>2, <1>3, AssetFacts DEF BuildInit, BuildInv

LEMMA BuildAssetInv == BuildInv /\ BuildAsset => BuildInv'
<1> SUFFICES ASSUME BuildInv, BuildAsset PROVE BuildInv'
  OBVIOUS
<1> DEFINE asset == Assets[building]
<1>1. /\ building \in 1..Len(Assets) /\ building \in DOMAIN Assets /\ asset \in Files
      /\ entries \in Seq(File) /\ Len(entries) = building - 1
      /\ declared' = declared /\ installed' = installed /\ manifest' = manifest
      /\ rawfile \in [Files -> File]
  BY AssetFacts DEF BuildAsset, BuildInv
<1>2. CASE step = "copy"
  <2>1. /\ rawfile' = [rawfile EXCEPT ![asset] = Upstream(installed)] /\ step' = "strip"
        /\ UNCHANGED <<entries, building>>
    BY <1>2 DEF BuildAsset
  <2>2. rawfile' \in [Files -> File] /\ rawfile'[asset] = Upstream(installed)
    BY <1>1, <2>1, FileTypes DEF BuildInv
  <2> QED
    BY <1>1, <2>1, <2>2 DEF BuildInv
<1>3. CASE step = "strip"
  <2>1. /\ rawfile' = [rawfile EXCEPT ![asset].sourceMap = FALSE] /\ step' = "hash"
        /\ UNCHANGED <<entries, building>>
    BY <1>3 DEF BuildAsset
  <2>2. rawfile[asset] = Upstream(installed)
    BY <1>1, <1>3 DEF BuildInv
  <2>3. [rawfile[asset] EXCEPT !.sourceMap = FALSE] = Packaged(installed)
    <3>1. PICK v \in Nat, b \in BOOLEAN, c \in BOOLEAN :
            v = installed /\ rawfile[asset] = [version |-> v, sourceMap |-> b] /\ c = FALSE
      <4>1. installed \in Nat /\ TRUE \in BOOLEAN /\ FALSE \in BOOLEAN
        BY AssetFacts DEF BuildInv
      <4>2. rawfile[asset] = [version |-> installed, sourceMap |-> TRUE]
        BY <2>2 DEF Upstream
      <4> QED
        BY <4>1, <4>2, Zenon
    <3>2. [rawfile[asset] EXCEPT !.sourceMap = c] = [version |-> v, sourceMap |-> c]
      BY <3>1
    <3> QED
      BY <3>1, <3>2, Zenon DEF Packaged
  <2>4. rawfile' = [rawfile EXCEPT ![asset] = Packaged(installed)]
    BY <2>1, <2>3, Zenon
  <2>5. rawfile' \in [Files -> File] /\ rawfile'[asset] = Packaged(installed)
    BY <1>1, <2>4, FileTypes DEF BuildInv
  <2> QED
    BY <1>1, <2>1, <2>5 DEF BuildInv
<1>4. CASE step = "hash"
  <2>1. /\ entries' = Append(entries, rawfile[asset]) /\ step' = "copy"
        /\ building' = building + 1 /\ rawfile' = rawfile
    BY <1>4 DEF BuildAsset
  <2>2. rawfile[asset] = Packaged(installed) /\ rawfile[asset] \in File
    BY <1>1, <1>4 DEF BuildInv
  <2>3. entries' \in Seq(File) /\ Len(entries') = building' - 1 /\ building' \in 0..(Len(Assets) + 1)
    BY <1>1, <2>1, <2>2
  <2>4. ASSUME NEW n \in 1..Len(entries') PROVE entries'[n] = Packaged(installed)
    <3>1. n \in 1..Len(entries) \/ n = Len(entries) + 1
      BY <1>1, <2>1, <2>3, SMTT(40)
    <3>2. n \in 1..Len(entries) => entries'[n] = entries[n]
      BY <1>1, <2>1, <2>2
    <3>3. n = Len(entries) + 1 => entries'[n] = rawfile[asset]
      BY <1>1, <2>1, <2>2, SMTT(40)
    <3>4. \A m \in 1..Len(entries) : entries[m] = Packaged(installed)
      BY <1>1, SMTT(40) DEF BuildInv
    <3> QED
      BY <2>2, <3>1, <3>2, <3>3, <3>4
  <2> QED
    BY <1>1, <2>1, <2>3, <2>4 DEF BuildInv
<1> QED
  BY <1>2, <1>3, <1>4 DEF BuildAsset

LEMMA WriteManifestInv == BuildInv /\ WriteManifest => BuildInv'
<1> SUFFICES ASSUME BuildInv, WriteManifest PROVE BuildInv'
  OBVIOUS
<1>1. /\ building = Len(Assets) + 1 /\ Len(entries) = Len(Assets)
      /\ \A n \in 1..Len(Assets) : entries[n] = Packaged(installed)
  BY AssetFacts DEF BuildInv, WriteManifest
<1>2. ASSUME NEW a \in Files
      PROVE  entries[CHOOSE n \in DOMAIN Assets : Assets[n] = a] = Packaged(installed)
  <2> DEFINE place == CHOOSE n \in DOMAIN Assets : Assets[n] = a
  <2>1. place \in DOMAIN Assets
    BY AssetFacts
  <2> HIDE DEF place
  <2> QED
    BY <1>1, <2>1, AssetFacts
<1>3. manifest' = Whole(installed)
  BY <1>2 DEF WriteManifest, Whole
<1> QED
  BY <1>3, AssetFacts, SMTT(40) DEF WriteManifest, BuildInv

LEMMA BuildStep == BuildInv /\ [BuildNext]_buildVars => BuildInv'
<1> SUFFICES ASSUME BuildInv, [BuildNext]_buildVars PROVE BuildInv'
  OBVIOUS
<1>1. CASE UNCHANGED buildVars
  BY <1>1 DEF buildVars, BuildInv
<1>2. CASE Upgrade \/ CiteNotices
  <2>1. CASE Upgrade
    BY <2>1, AssetFacts DEF Upgrade, BuildInv
  <2>2. CASE CiteNotices
    BY <2>2 DEF CiteNotices, BuildInv
  <2> QED
    BY <1>2, <2>1, <2>2
<1>3. CASE Install \/ CutOff
  BY <1>3, AssetFacts DEF Install, CutOff, BuildInv
<1>4. CASE StartBuild
  BY <1>4, AssetFacts DEF StartBuild, BuildInv
<1> QED
  BY <1>1, <1>2, <1>3, <1>4, BuildAssetInv, WriteManifestInv DEF BuildNext

(* For every list of assets, wherever builds are cut off and however often the dependencies    *)
(* move on, files that pass the checks are those of one whole build (build.mjs).               *)
THEOREM WholeBuilds == BuildSpec => []ChecksTakeWholeBuilds
<1>1. BuildInv => ChecksTakeWholeBuilds
  BY DEF BuildInv, ChecksTakeWholeBuilds, AssetChecksPass, FilesMatchManifest, Whole
<1> QED
  BY BuildInitInv, BuildStep, <1>1, PTL DEF BuildSpec
=============================================================================
