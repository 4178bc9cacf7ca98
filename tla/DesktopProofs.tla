---------------------------- MODULE DesktopProofs ----------------------------
(***************************************************************************)
(* The workspace: the warm tab, the checkpoints and the types, for every    *)
(* number of tabs, panes and sessions; and the parts of the application     *)
(* together, which share no state.                                         *)
(***************************************************************************)
EXTENDS MCDesktop, TerminalPageProofs, DurableStateProofs, SequenceTheorems, TLAPS

TabRecords == [id : Nat, panes : Seq(Nat), active : Nat]

\* Tabs are told apart by their id, and each has the pane that is active in it.
TabsOK ==
  /\ tabs \in Seq(TabRecords)
  /\ activeTab \in 1..Len(tabs)
  /\ nextTab \in Nat /\ nextPane \in Nat
  /\ \A i \in 1..Len(tabs) :
       /\ tabs[i].id \in 1..(nextTab - 1)
       /\ Len(tabs[i].panes) \in 1..2
       /\ tabs[i].active \in Range(tabs[i].panes)
  /\ \A i, j \in 1..Len(tabs) : tabs[i].id = tabs[j].id => i = j

WarmInv == TabsOK /\ {warm, warmTimer} \subseteq Nat /\ WarmTabExpires

LEMMA RemoveAtFacts ==
  ASSUME NEW S, NEW s \in Seq(S), NEW i \in 1..Len(s)
  PROVE  /\ RemoveAt(s, i) \in Seq(S)
         /\ Len(RemoveAt(s, i)) = Len(s) - 1
         /\ \A k \in 1..(Len(s) - 1) : RemoveAt(s, i)[k] = IF k < i THEN s[k] ELSE s[k + 1]
<1> DEFINE before == SubSeq(s, 1, i - 1)
           after == SubSeq(s, i + 1, Len(s))
<1>1. /\ before \in Seq(S) /\ Len(before) = i - 1
      /\ \A k \in 1..(i - 1) : before[k] = s[k]
  OBVIOUS
<1>2. /\ after \in Seq(S) /\ Len(after) = Len(s) - i
      /\ \A k \in 1..(Len(s) - i) : after[k] = s[k + i]
  OBVIOUS
<1>3. RemoveAt(s, i) = before \o after
  BY DEF RemoveAt
<1> HIDE DEF before, after
<1>4. /\ before \o after \in Seq(S)
      /\ Len(before \o after) = Len(s) - 1
      /\ \A k \in 1..(Len(s) - 1) :
           (before \o after)[k] = IF k < i THEN before[k] ELSE after[k - i + 1]
  <2>1. /\ before \o after \in Seq(S)
        /\ Len(before \o after) = Len(before) + Len(after)
        /\ \A k \in 1..(Len(before) + Len(after)) :
             (before \o after)[k] = IF k <= Len(before) THEN before[k] ELSE after[k - Len(before)]
    BY <1>1, <1>2, ConcatProperties
  <2>2. Len(s) \in Nat /\ Len(before) = i - 1 /\ Len(before) + Len(after) = Len(s) - 1
    BY <1>1, <1>2
  <2>3. ASSUME NEW k \in 1..(Len(s) - 1)
        PROVE  (before \o after)[k] = IF k < i THEN before[k] ELSE after[k - i + 1]
    <3>1. (k <= Len(before) <=> k < i) /\ k - Len(before) = k - i + 1
      BY <2>2
    <3> QED
      BY <2>1, <2>2, <3>1
  <2> QED
    BY <2>1, <2>2, <2>3
<1>5. ASSUME NEW k \in 1..(Len(s) - 1)
      PROVE  (before \o after)[k] = IF k < i THEN s[k] ELSE s[k + 1]
  <2>1. CASE k < i
    BY <1>1, <1>4, <2>1
  <2>2. CASE ~(k < i)
    <3>1. k - i + 1 \in 1..(Len(s) - i) /\ (k - i + 1) + i = k + 1
      BY <2>2
    <3>2. after[k - i + 1] = s[(k - i + 1) + i]
      BY <1>2, <3>1
    <3> QED
      BY <1>4, <2>2, <3>1, <3>2
  <2> QED
    BY <2>1, <2>2
<1> QED
  BY <1>3, <1>4, <1>5

\* A step that leaves the tabs their ids, and the warm tab, keeps the invariant.
LEMMA SameIds ==
  ASSUME WarmInv, TabsOK', Len(tabs') = Len(tabs), activeTab' = activeTab,
         \A i \in 1..Len(tabs) : tabs'[i].id = tabs[i].id,
         warm' = warm, warmTimer' = warmTimer
  PROVE  WarmInv'
<1>1. DOMAIN tabs = 1..Len(tabs) /\ DOMAIN tabs' = 1..Len(tabs')
  BY DEF WarmInv, TabsOK
<1>2. TabIds' = TabIds /\ ActiveTab'.id = ActiveTab.id
  <2>1. activeTab \in 1..Len(tabs)
    BY DEF WarmInv, TabsOK
  <2>2. ActiveTab'.id = ActiveTab.id
    BY <2>1 DEF ActiveTab
  <2>3. TabIds' = TabIds
    BY <1>1 DEF TabIds
  <2> QED
    BY <2>2, <2>3
<1>3. {warm, warmTimer}' \subseteq Nat
  BY DEF WarmInv
<1>4. WarmTabExpires'
  BY <1>2 DEF WarmInv, WarmTabExpires
<1> QED
  BY <1>3, <1>4 DEF WarmInv

LEMMA NothingMoves ==
  ASSUME WarmInv, tabs' = tabs, activeTab' = activeTab, nextTab' = nextTab, nextPane' = nextPane,
         warm' = warm, warmTimer' = warmTimer
  PROVE  WarmInv'
<1>1. TabsOK'
  BY DEF WarmInv, TabsOK
<1> QED
  BY <1>1, SameIds

\* closeTab takes one tab out.
LEMMA CloseTabShape ==
  ASSUME WarmInv, NEW i \in DOMAIN tabs, CloseTab(i)
  PROVE  /\ i \in 1..Len(tabs) /\ Len(tabs') = Len(tabs) - 1
         /\ \A k \in 1..Len(tabs') : tabs'[k] = tabs[IF k < i THEN k ELSE k + 1]
<1>1. tabs \in Seq(TabRecords) /\ i \in 1..Len(tabs) /\ Len(tabs) \in Nat
  BY DEF WarmInv, TabsOK
<1>2. /\ Len(tabs') = Len(tabs) - 1
      /\ \A k \in 1..(Len(tabs) - 1) : tabs'[k] = IF k < i THEN tabs[k] ELSE tabs[k + 1]
  BY <1>1, RemoveAtFacts DEF CloseTab
<1> QED
  BY <1>1, <1>2

LEMMA CloseTabInv ==
  ASSUME WarmInv, NEW i \in DOMAIN tabs, Len(tabs) > 1, CloseTab(i)
  PROVE  WarmInv'
<1>1. /\ tabs \in Seq(TabRecords) /\ i \in 1..Len(tabs) /\ Len(tabs) \in Nat
      /\ activeTab \in 1..Len(tabs)
  BY DEF WarmInv, TabsOK
<1>2. /\ tabs' \in Seq(TabRecords) /\ Len(tabs') = Len(tabs) - 1
      /\ \A k \in 1..(Len(tabs) - 1) : tabs'[k] = IF k < i THEN tabs[k] ELSE tabs[k + 1]
  BY <1>1, RemoveAtFacts DEF CloseTab
<1>3. activeTab' \in 1..Len(tabs')
  BY <1>1, <1>2 DEF CloseTab, NextActiveTab
<1>4. nextTab' = nextTab /\ nextPane' = nextPane
  BY DEF CloseTab
<1>5. TabsOK'
  <2>1. ASSUME NEW k \in 1..Len(tabs')
        PROVE  \E m \in 1..Len(tabs) : m = (IF k < i THEN k ELSE k + 1) /\ tabs'[k] = tabs[m]
    BY <1>1, <1>2
  <2>2. ASSUME NEW k \in 1..Len(tabs')
        PROVE  /\ tabs'[k].id \in 1..(nextTab - 1)
               /\ Len(tabs'[k].panes) \in 1..2
               /\ tabs'[k].active \in Range(tabs'[k].panes)
    BY <2>1 DEF WarmInv, TabsOK
  <2>3. ASSUME NEW k \in 1..Len(tabs'), NEW l \in 1..Len(tabs'), tabs'[k].id = tabs'[l].id
        PROVE  k = l
    <3>1. PICK m \in 1..Len(tabs) : m = (IF k < i THEN k ELSE k + 1) /\ tabs'[k] = tabs[m]
      BY <2>1
    <3>2. PICK n \in 1..Len(tabs) : n = (IF l < i THEN l ELSE l + 1) /\ tabs'[l] = tabs[n]
      BY <2>1
    <3>3. m = n
      BY <2>3, <3>1, <3>2 DEF WarmInv, TabsOK
    <3> QED
      BY <1>1, <1>2, <3>1, <3>2, <3>3
  <2> QED
    BY <1>2, <1>3, <1>4, <2>2, <2>3 DEF WarmInv, TabsOK
<1>6. CASE warm \in {tabs[i].id, ActiveTab.id'}
  <2>1. warm' = NoTab /\ warmTimer' = NoTab
    BY <1>6 DEF CloseTab
  <2> QED
    BY <1>5, <2>1 DEF WarmInv, WarmTabExpires, NoTab
<1>7. CASE warm \notin {tabs[i].id, ActiveTab.id'}
  <2>1. warm' = warm /\ warmTimer' = warmTimer
    BY <1>7 DEF CloseTab
  <2>2. ASSUME warm # NoTab PROVE warm \in TabIds'
    <3>1. PICK j \in 1..Len(tabs) : tabs[j].id = warm
      BY <2>2, <1>1 DEF WarmInv, WarmTabExpires, TabIds
    <3>2. j # i
      BY <1>7, <3>1
    <3>3. \E k \in 1..Len(tabs') : tabs'[k] = tabs[j]
      <4>1. CASE j < i
        BY <1>1, <1>2, <4>1
      <4>2. CASE j > i
        <5>1. j - 1 \in 1..Len(tabs') /\ tabs'[j - 1] = tabs[j]
          BY <1>1, <1>2, <4>2
        <5> QED
          BY <5>1
      <4> QED
        BY <1>1, <3>2, <4>1, <4>2
    <3>4. DOMAIN tabs' = 1..Len(tabs')
      BY <1>2
    <3> QED
      BY <3>1, <3>3, <3>4 DEF TabIds
  <2> QED
    BY <1>5, <1>7, <2>1, <2>2 DEF WarmInv, WarmTabExpires
<1> QED
  BY <1>6, <1>7
\* A tab that keeps its id gets other panes.
LEMMA ReplaceTab ==
  ASSUME WarmInv, NEW i \in 1..Len(tabs), NEW t \in TabRecords,
         t.id = tabs[i].id, Len(t.panes) \in 1..2, t.active \in Range(t.panes),
         tabs' = [tabs EXCEPT ![i] = t], activeTab' = activeTab, nextTab' = nextTab,
         nextPane' \in Nat, warm' = warm, warmTimer' = warmTimer
  PROVE  WarmInv'
<1>1. tabs \in Seq(TabRecords) /\ Len(tabs) \in Nat
  BY DEF WarmInv, TabsOK
<1>2. /\ tabs' \in Seq(TabRecords) /\ Len(tabs') = Len(tabs)
      /\ \A k \in 1..Len(tabs) : tabs'[k] = IF k = i THEN t ELSE tabs[k]
  BY <1>1
<1>3. \A k \in 1..Len(tabs) : tabs'[k].id = tabs[k].id
  BY <1>2
<1>4. \A k \in 1..Len(tabs) : Len(tabs'[k].panes) \in 1..2 /\ tabs'[k].active \in Range(tabs'[k].panes)
  BY <1>2 DEF WarmInv, TabsOK
<1>5. TabsOK'
  BY <1>2, <1>3, <1>4 DEF WarmInv, TabsOK
<1> QED
  BY <1>2, <1>3, <1>5, SameIds

\* closePane closes the tab, or takes the pane and nothing else from its tab.
PaneGoes(p) ==
  \E i \in 1..Len(tabs), t \in TabRecords :
    /\ p \in Range(tabs[i].panes)
    /\ t.id = tabs[i].id /\ Len(t.panes) \in 1..2 /\ t.active \in Range(t.panes)
    /\ Range(t.panes) \subseteq Range(tabs[i].panes)
    /\ Range(tabs[i].panes) \ {p} \subseteq Range(t.panes)
    /\ tabs' = [tabs EXCEPT ![i] = t]
    /\ UNCHANGED <<activeTab, nextTab, nextPane, warm, warmTimer, busy>>
    /\ NoCheckpoint

LEMMA ClosePaneShape ==
  ASSUME WarmInv, NEW p, \E i \in DOMAIN tabs : p \in Range(tabs[i].panes), ClosePane(p)
  PROVE  \/ Len(tabs) > 1 /\ \E i \in DOMAIN tabs : CloseTab(i)
         \/ PaneGoes(p)
<1>1. PICK i \in DOMAIN tabs : i = TabIndexOf(p) /\ p \in Range(tabs[i].panes)
  BY DEF TabIndexOf
<1>2. i \in 1..Len(tabs)
  BY DEF WarmInv, TabsOK
<1>3. CASE Len(tabs[i].panes) = 1
  BY <1>1, <1>3 DEF ClosePane
<1>4. CASE Len(tabs[i].panes) # 1
  <2>1. PICK a \in Nat, b \in Seq(Nat), c \in Nat : tabs[i] = [id |-> a, panes |-> b, active |-> c]
    <3>1. tabs[i] \in TabRecords
      BY <1>2 DEF WarmInv, TabsOK
    <3> QED
      BY <3>1 DEF TabRecords
  <2>2. tabs[i].panes = b /\ tabs[i].active = c /\ tabs[i].id = a
    BY <2>1
  <2>3. Len(b) = 2 /\ c \in Range(b) /\ p \in Range(b)
    BY <1>1, <1>2, <1>4, <2>2 DEF WarmInv, TabsOK
  <2>4. PICK n \in DOMAIN b : n = (CHOOSE k \in DOMAIN b : b[k] = p) /\ b[n] = p
    BY <2>3 DEF Range
  <2>5. n \in 1..2 /\ n \in 1..Len(b)
    BY <2>3
  <2>6. PICK rest \in Seq(Nat) : rest = RemoveAt(b, n) /\ Len(rest) = 1 /\ rest[1] = b[3 - n]
    <3>1. /\ RemoveAt(b, n) \in Seq(Nat) /\ Len(RemoveAt(b, n)) = Len(b) - 1
          /\ \A k \in 1..(Len(b) - 1) : RemoveAt(b, n)[k] = IF k < n THEN b[k] ELSE b[k + 1]
      BY <2>5, RemoveAtFacts
    <3>2. RemoveAt(b, n)[1] = IF 1 < n THEN b[1] ELSE b[2]
      BY <2>3, <3>1
    <3> QED
      BY <2>3, <2>5, <3>1, <3>2
  <2>7. PICK active \in Nat : active = (IF c = p THEN Head(rest) ELSE c) /\ active \in Range(rest)
    <3>1. 1 \in DOMAIN rest /\ rest[1] \in Nat
      <4>1. DOMAIN rest = 1..Len(rest)
        BY <2>6
      <4>2. 1 \in DOMAIN rest
        BY <2>6, <4>1
      <4> QED
        BY <4>1, <4>2, ElementOfSeq
    <3>2. Head(rest) = rest[1]
      BY <2>6
    <3>3. PICK m \in 1..2 : b[m] = c
      BY <2>3 DEF Range
    <3>4. c # p => m = 3 - n
      <4>1. c # p => m # n
        BY <2>4, <3>3
      <4> QED
        BY <2>5, <4>1
    <3>5. c # p => c = rest[1]
      BY <2>6, <3>3, <3>4
    <3>6. rest[1] \in Range(rest)
      BY <3>1 DEF Range
    <3> QED
      BY <3>1, <3>2, <3>5, <3>6
  <2>8. tabs' = [tabs EXCEPT ![i] =
                   [tabs[i] EXCEPT !.panes = rest,
                                   !.active = IF tabs[i].active = p THEN Head(rest) ELSE tabs[i].active]]
    <3>1. /\ i = TabIndexOf(p)
          /\ rest = RemoveAt(tabs[i].panes, CHOOSE k \in DOMAIN tabs[i].panes : tabs[i].panes[k] = p)
      BY <1>1, <2>2, <2>4, <2>6
    <3> QED
      BY <1>4, <3>1 DEF ClosePane
  <2>9. UNCHANGED <<activeTab, nextTab, nextPane, warm, warmTimer, busy>> /\ NoCheckpoint
    BY <1>1, <1>4 DEF ClosePane, retention
  <2>10. PICK tab \in TabRecords :
           /\ tab = [tabs[i] EXCEPT !.panes = rest, !.active = active]
           /\ tab.id = tabs[i].id /\ tab.panes = rest /\ tab.active = active
    <3>1. tabs[i] \in TabRecords
      BY <1>2 DEF WarmInv, TabsOK
    <3>2. PICK t \in TabRecords : t = tabs[i]
      BY <3>1
    <3>3. PICK tab : tab = [t EXCEPT !.panes = rest, !.active = active]
      OBVIOUS
    <3>4. tab \in TabRecords /\ tab.id = t.id /\ tab.panes = rest /\ tab.active = active
      <4>1. tab \in TabRecords
        BY <3>3 DEF TabRecords
      <4>2. tab.id = t.id
        BY <3>3 DEF TabRecords
      <4>3. tab.panes = rest
        BY <3>3 DEF TabRecords
      <4>4. tab.active = active
        BY <3>3 DEF TabRecords
      <4> QED
        BY <4>1, <4>2, <4>3, <4>4
    <3> QED
      BY <3>2, <3>3, <3>4, Zenon
  <2>11. tabs' = [tabs EXCEPT ![i] = tab]
    <3>1. (IF tabs[i].active = p THEN Head(rest) ELSE tabs[i].active) = active
      BY <2>2, <2>7
    <3> QED
      BY <2>8, <2>10, <3>1
  <2>13. Len(tab.panes) \in 1..2 /\ tab.active \in Range(tab.panes)
    BY <2>6, <2>7, <2>10
  <2>14. Range(tab.panes) \subseteq Range(tabs[i].panes)
    <3>1. \A k \in DOMAIN rest : k = 1
      <4>1. DOMAIN rest = 1..1
        BY <2>6
      <4> QED
        BY <4>1
    <3>2. 3 - n \in DOMAIN b
      BY <2>3, <2>5
    <3>3. ASSUME NEW x \in Range(rest) PROVE x \in Range(b)
      <4>1. x = b[3 - n]
        BY <2>6, <3>1 DEF Range
      <4> QED
        BY <3>2, <4>1 DEF Range
    <3> QED
      BY <2>2, <2>10, <3>3
  <2>15. Range(tabs[i].panes) \ {p} \subseteq Range(tab.panes)
    <3>1. ASSUME NEW k \in DOMAIN b, b[k] # p PROVE b[k] = rest[1]
      <4>1. k \in 1..2 /\ k # n
        <5>1. DOMAIN b = 1..2
          BY <2>3
        <5> QED
          BY <2>4, <3>1, <5>1
      <4>2. k = 3 - n
        BY <2>5, <4>1
      <4> QED
        BY <2>6, <4>2
    <3>2. 1 \in DOMAIN rest
      <4>1. DOMAIN rest = 1..1
        BY <2>6
      <4> QED
        BY <4>1
    <3> QED
      BY <2>2, <2>10, <3>1, <3>2 DEF Range
  <2> QED
    BY <1>1, <1>2, <2>9, <2>10, <2>11, <2>13, <2>14, <2>15 DEF PaneGoes
<1> QED
  BY <1>3, <1>4

LEMMA ClosePaneInv ==
  ASSUME WarmInv, NEW p, \E i \in DOMAIN tabs : p \in Range(tabs[i].panes), ClosePane(p)
  PROVE  WarmInv'
<1>1. CASE Len(tabs) > 1 /\ \E i \in DOMAIN tabs : CloseTab(i)
  BY <1>1, CloseTabInv
<1>2. CASE PaneGoes(p)
  <2>1. nextPane' \in Nat
    BY <1>2 DEF PaneGoes, WarmInv, TabsOK
  <2> QED
    BY <1>2, <2>1, ReplaceTab DEF PaneGoes
<1> QED
  BY <1>1, <1>2, ClosePaneShape

LEMMA SelectTabInv ==
  ASSUME WarmInv, NEW i \in DOMAIN tabs, SelectTabAt(i)
  PROVE  WarmInv'
<1>1. /\ i \in 1..Len(tabs) /\ activeTab \in 1..Len(tabs) /\ i # activeTab
      /\ tabs' = tabs /\ activeTab' = i /\ nextTab' = nextTab /\ nextPane' = nextPane
  BY DEF SelectTabAt, WarmInv, TabsOK
<1>2. warm' = ActiveTab.id /\ warmTimer' = ActiveTab.id
  BY DEF SelectTabAt, DeactivateActiveTab
<1>3. TabsOK'
  BY <1>1 DEF WarmInv, TabsOK
<1>4. warm' \in TabIds' /\ warm' # ActiveTab'.id /\ warm' \in Nat
  <2>1. ActiveTab.id = tabs[activeTab].id /\ ActiveTab'.id = tabs[i].id
    BY <1>1 DEF ActiveTab
  <2>2. tabs[activeTab].id # tabs[i].id
    BY <1>1 DEF WarmInv, TabsOK
  <2>3. tabs[activeTab].id \in Nat
    BY <1>1 DEF WarmInv, TabsOK
  <2>4. activeTab \in DOMAIN tabs
    BY <1>1 DEF WarmInv, TabsOK
  <2> QED
    BY <1>1, <1>2, <2>1, <2>2, <2>3, <2>4 DEF TabIds
<1> QED
  BY <1>2, <1>3, <1>4 DEF WarmInv, WarmTabExpires

LEMMA NewTabInv ==
  ASSUME WarmInv, NewTab
  PROVE  WarmInv'
<1>1. /\ tabs \in Seq(TabRecords) /\ Len(tabs) \in Nat /\ activeTab \in 1..Len(tabs)
      /\ nextTab \in Nat /\ nextPane \in Nat
  BY DEF WarmInv, TabsOK
<1>2. /\ tabs' = Append(tabs, Tab(nextTab, nextPane)) /\ activeTab' = Len(tabs) + 1
      /\ nextTab' = nextTab + 1 /\ nextPane' = nextPane + 1
      /\ warm' = ActiveTab.id /\ warmTimer' = ActiveTab.id
  BY DEF NewTab, DeactivateActiveTab
<1>3. PICK t \in TabRecords :
        /\ t = Tab(nextTab, nextPane) /\ t.id = nextTab
        /\ Len(t.panes) = 1 /\ t.active \in Range(t.panes)
  <2>1. PICK q \in Seq(Nat) : q = <<nextPane>> /\ Len(q) = 1 /\ q[1] = nextPane /\ DOMAIN q = {1}
    <3>1. <<nextPane>> \in Seq(Nat) /\ Len(<<nextPane>>) = 1 /\ <<nextPane>>[1] = nextPane
      BY <1>1
    <3>2. DOMAIN <<nextPane>> = 1..1
      BY <3>1
    <3>3. 1..1 = {1}
      OBVIOUS
    <3> QED
      BY <3>1, <3>2, <3>3
  <2>2. nextPane \in Range(q)
    BY <2>1 DEF Range
  <2>3. Tab(nextTab, nextPane) = [id |-> nextTab, panes |-> q, active |-> nextPane]
    BY <2>1 DEF Tab
  <2>4. PICK t : t = [id |-> nextTab, panes |-> q, active |-> nextPane]
    OBVIOUS
  <2>5. t \in TabRecords
    BY <1>1, <2>4 DEF TabRecords
  <2>6. t.id = nextTab /\ t.panes = q /\ t.active = nextPane
    BY <2>4
  <2> QED
    BY <2>1, <2>2, <2>3, <2>4, <2>5, <2>6, Zenon
<1>4. /\ tabs' \in Seq(TabRecords) /\ Len(tabs') = Len(tabs) + 1
      /\ \A k \in 1..Len(tabs) : tabs'[k] = tabs[k]
      /\ tabs'[Len(tabs) + 1] = t
  BY <1>1, <1>2, <1>3
<1>5. \A k \in 1..Len(tabs) :
        /\ tabs[k].id \in 1..(nextTab - 1)
        /\ Len(tabs[k].panes) \in 1..2 /\ tabs[k].active \in Range(tabs[k].panes)
        /\ \A l \in 1..Len(tabs) : tabs[k].id = tabs[l].id => k = l
  BY DEF WarmInv, TabsOK
<1>6. TabsOK'
  <2>1. activeTab' \in 1..Len(tabs') /\ nextTab' \in Nat /\ nextPane' \in Nat
    BY <1>1, <1>2, <1>4
  <2>2. ASSUME NEW k \in 1..Len(tabs')
        PROVE  /\ tabs'[k].id \in 1..(nextTab' - 1)
               /\ Len(tabs'[k].panes) \in 1..2
               /\ tabs'[k].active \in Range(tabs'[k].panes)
    <3>1. CASE k = Len(tabs) + 1
      <4>1. tabs'[k] = t
        BY <1>4, <3>1
      <4>2. nextTab # 0
        BY <1>1, <1>5
      <4> QED
        BY <1>1, <1>2, <1>3, <4>1, <4>2
    <3>2. CASE k # Len(tabs) + 1
      <4>1. k \in 1..Len(tabs)
        BY <1>1, <1>4, <3>2
      <4> QED
        BY <1>1, <1>2, <1>4, <1>5, <4>1
    <3> QED
      BY <3>1, <3>2
  <2>3. ASSUME NEW k \in 1..Len(tabs'), NEW l \in 1..Len(tabs'), tabs'[k].id = tabs'[l].id
        PROVE  k = l
    <3>1. \A m \in 1..Len(tabs) : tabs'[m].id # nextTab
      BY <1>1, <1>4, <1>5
    <3>2. tabs'[Len(tabs) + 1].id = nextTab
      BY <1>3, <1>4
    <3>3. CASE k \in 1..Len(tabs) /\ l \in 1..Len(tabs)
      BY <1>4, <1>5, <2>3, <3>3
    <3>4. CASE k \notin 1..Len(tabs) \/ l \notin 1..Len(tabs)
      BY <1>1, <1>4, <2>3, <3>1, <3>2, <3>4
    <3> QED
      BY <3>3, <3>4
  <2> QED
    BY <1>4, <2>1, <2>2, <2>3 DEF TabsOK
<1>7. warm' \in TabIds' /\ warm' # ActiveTab'.id /\ warm' \in Nat
  <2>1. ActiveTab.id = tabs'[activeTab].id /\ activeTab \in 1..Len(tabs')
    BY <1>1, <1>4 DEF ActiveTab
  <2>2. ActiveTab'.id = nextTab
    BY <1>2, <1>3, <1>4 DEF ActiveTab
  <2>3. tabs[activeTab].id \in 1..(nextTab - 1)
    BY <1>1, <1>5
  <2>4. activeTab \in DOMAIN tabs'
    BY <1>4, <2>1
  <2> QED
    BY <1>1, <1>2, <2>1, <2>2, <2>3, <2>4 DEF TabIds, ActiveTab
<1> QED
  BY <1>2, <1>6, <1>7 DEF WarmInv, WarmTabExpires

LEMMA CoolInv ==
  ASSUME WarmInv, UNCHANGED model, warm' = NoTab, warmTimer' = NoTab
  PROVE  WarmInv'
<1>1. TabsOK'
  BY DEF WarmInv, TabsOK, model
<1> QED
  BY <1>1 DEF WarmInv, WarmTabExpires, NoTab

LEMMA ToggleSplitInv ==
  ASSUME WarmInv, ToggleSplit
  PROVE  WarmInv'
<1>1. /\ tabs \in Seq(TabRecords) /\ activeTab \in 1..Len(tabs) /\ nextPane \in Nat
      /\ tabs[activeTab] \in TabRecords
  BY DEF WarmInv, TabsOK
<1>2. PICK t \in TabRecords : t = ActiveTab
  BY <1>1 DEF ActiveTab
<1>3. t.id = tabs[activeTab].id /\ Len(t.panes) = 1 /\ t.panes \in Seq(Nat)
  BY <1>2 DEF ActiveTab, ToggleSplit, TabRecords
<1>4. PICK q \in Seq(Nat) : q = Append(t.panes, nextPane) /\ Len(q) = 2 /\ q[2] = nextPane
  <2>1. PICK b \in Seq(Nat) : b = t.panes /\ Len(b) = 1
    BY <1>3
  <2>2. Append(b, nextPane) \in Seq(Nat)
    BY <1>1
  <2>3. Len(Append(b, nextPane)) = 2 /\ Append(b, nextPane)[2] = nextPane
    <3>1. /\ Len(Append(b, nextPane)) = Len(b) + 1
          /\ Append(b, nextPane)[Len(b) + 1] = nextPane
      BY <1>1, AppendProperties
    <3>2. Len(b) + 1 = 2
      BY <2>1
    <3> QED
      BY <3>1, <3>2
  <2> QED
    BY <2>1, <2>2, <2>3
<1>5. Len(q) = 2 /\ q[2] = nextPane
  BY <1>4
<1>6. nextPane \in Range(q)
  <2>1. DOMAIN q = 1..Len(q)
    BY <1>4
  <2> QED
    BY <1>5, <2>1 DEF Range
<1>7. PICK u : u = [t EXCEPT !.panes = q, !.active = nextPane]
  OBVIOUS
<1>8. u \in TabRecords
  BY <1>1, <1>7 DEF TabRecords
<1>9. u.id = t.id
  BY <1>1, <1>7 DEF TabRecords
<1>10. u.panes = q
  BY <1>1, <1>7 DEF TabRecords
<1>11. u.active = nextPane
  BY <1>1, <1>7 DEF TabRecords
<1>12. /\ activeTab' = activeTab /\ nextTab' = nextTab /\ warm' = warm /\ warmTimer' = warmTimer
       /\ nextPane' \in Nat
  BY <1>1 DEF ToggleSplit, retention
<1>13. tabs' = [tabs EXCEPT ![activeTab] = u]
  BY <1>2, <1>4, <1>7, Zenon DEF ToggleSplit
<1>14. Len(u.panes) \in 1..2 /\ u.active \in Range(u.panes) /\ u.id = tabs[activeTab].id
  BY <1>3, <1>5, <1>6, <1>9, <1>10, <1>11
<1> QED
  BY <1>1, <1>8, <1>12, <1>13, <1>14, ReplaceTab

LEMMA FocusInv ==
  ASSUME WarmInv, NEW p, FocusTabPane(p)
  PROVE  WarmInv'
<1>1. /\ tabs \in Seq(TabRecords) /\ activeTab \in 1..Len(tabs) /\ nextPane \in Nat
      /\ tabs[activeTab] \in TabRecords /\ Len(tabs[activeTab].panes) \in 1..2
  BY DEF WarmInv, TabsOK
<1>2. PICK t \in TabRecords : t = tabs[activeTab]
  BY <1>1
<1>3. p \in Range(t.panes) /\ t.panes \in Seq(Nat)
  BY <1>2 DEF ActiveTab, FocusTabPane, TabRecords
<1>4. p \in Nat
  BY <1>3 DEF Range
<1>5. PICK u : u = [t EXCEPT !.active = p]
  OBVIOUS
<1>6. u \in TabRecords
  BY <1>4, <1>5 DEF TabRecords
<1>7. u.id = t.id
  BY <1>5 DEF TabRecords
<1>8. u.panes = t.panes
  BY <1>5 DEF TabRecords
<1>9. u.active = p
  BY <1>5 DEF TabRecords
<1>10. /\ activeTab' = activeTab /\ nextTab' = nextTab /\ warm' = warm /\ warmTimer' = warmTimer
       /\ nextPane' \in Nat
  BY <1>1 DEF FocusTabPane, retention
<1>11. tabs' = [tabs EXCEPT ![activeTab] = u]
  BY <1>2, <1>5 DEF FocusTabPane
<1>12. Len(u.panes) \in 1..2 /\ u.active \in Range(u.panes) /\ u.id = tabs[activeTab].id
  BY <1>1, <1>2, <1>3, <1>7, <1>8, <1>9
<1> QED
  BY <1>1, <1>6, <1>10, <1>11, <1>12, ReplaceTab

\* Every pane that is on show belongs to a tab.
LEMMA ActivePane ==
  ASSUME WarmInv
  PROVE  \E i \in DOMAIN tabs : ActiveTab.active \in Range(tabs[i].panes)
<1>1. activeTab \in DOMAIN tabs /\ ActiveTab.active \in Range(tabs[activeTab].panes)
  BY DEF WarmInv, TabsOK, ActiveTab
<1> QED
  BY <1>1

LEMMA WorkspaceStep ==
  ASSUME WarmInv, [WorkspaceNext]_workspaceVars
  PROVE  WarmInv'
<1>0. ASSUME UNCHANGED <<model, retention>> PROVE WarmInv'
  BY <1>0, NothingMoves DEF model, retention
<1>1. ASSUME NEW i \in DOMAIN tabs, SelectTabAt(i) PROVE WarmInv'
  BY <1>1, SelectTabInv
<1>2. ASSUME NEW i \in DOMAIN tabs, RequestCloseTab(i) PROVE WarmInv'
  <2>1. CASE HasActiveSession(tabs[i].id)
    BY <1>0, <1>2, <2>1 DEF RequestCloseTab
  <2>2. CASE ~HasActiveSession(tabs[i].id)
    BY <1>2, <2>2, CloseTabInv DEF RequestCloseTab
  <2> QED
    BY <2>1, <2>2
<1>3. CASE NewTab
  BY <1>3, NewTabInv
<1>4. CASE WarmTabTimeout
  <2>1. UNCHANGED model /\ warmTimer # NoTab /\ warmTimer' = NoTab
        /\ warm' = IF warm = warmTimer THEN NoTab ELSE warm
    BY <1>4 DEF WarmTabTimeout
  <2>2. warm = warmTimer
    BY <2>1 DEF WarmInv, WarmTabExpires
  <2> QED
    BY <2>1, <2>2, CoolInv
<1>5. CASE ChangeVisibility
  <2>1. CASE windowVisible
    BY <1>5, <2>1, CoolInv DEF ChangeVisibility
  <2>2. CASE ~windowVisible
    BY <1>0, <1>5, <2>2 DEF ChangeVisibility
  <2> QED
    BY <2>1, <2>2
<1>6. CASE ToggleSplit
  BY <1>6, ToggleSplitInv
<1>7. CASE SessionBegins
  BY <1>0, <1>7 DEF SessionBegins
<1>8. CASE RequestCloseActivePane
  <2>1. CASE ActiveTab.active \in busy
    BY <1>0, <1>8, <2>1 DEF RequestCloseActivePane
  <2>2. CASE ActiveTab.active \notin busy
    BY <1>8, <2>2, ActivePane, ClosePaneInv DEF RequestCloseActivePane
  <2> QED
    BY <2>1, <2>2
<1>9. CASE Confirm
  <2>1. CASE dialog.closes = "pane"
    BY <1>9, <2>1, ActivePane, ClosePaneInv DEF Confirm
  <2>2. CASE dialog.closes # "pane"
    BY <1>9, <2>2, CloseTabInv DEF Confirm
  <2> QED
    BY <2>1, <2>2
<1>10. CASE Cancel
  BY <1>0, <1>10 DEF Cancel
<1>11. CASE Render
  BY <1>0, <1>11 DEF Render
<1>12. ASSUME NEW c \in captures, CaptureEnds(c) PROVE WarmInv'
  BY <1>0, <1>12 DEF CaptureEnds
<1>13. ASSUME NEW p \in 1..MaxPanes, FocusTabPane(p) PROVE WarmInv'
  BY <1>13, FocusInv
<1>14. ASSUME NEW p \in 1..MaxPanes, SessionEnds(p) PROVE WarmInv'
  BY <1>0, <1>14 DEF SessionEnds
<1>15. ASSUME NEW p \in 1..MaxPanes, LocalExit(p) PROVE WarmInv'
  <2>1. \E i \in DOMAIN tabs : p \in Range(tabs[i].panes)
    BY <1>15 DEF LocalExit, AllPanes
  <2> QED
    BY <1>15, <2>1, ClosePaneInv DEF LocalExit
<1>16. ASSUME NEW p \in 1..MaxPanes, DisposeRuntime(p) PROVE WarmInv'
  BY <1>0, <1>16 DEF DisposeRuntime
<1>17. ASSUME NEW p \in 1..MaxPanes, PageEnds(p) PROVE WarmInv'
  BY <1>0, <1>17 DEF PageEnds
<1>18. ASSUME NEW p \in 1..MaxPanes, RecyclePaneWebView(p) PROVE WarmInv'
  BY <1>0, <1>18 DEF RecyclePaneWebView
<1>19. CASE UNCHANGED workspaceVars
  BY <1>0, <1>19 DEF workspaceVars
<1> QED
  BY <1>1, <1>2, <1>3, <1>4, <1>5, <1>6, <1>7, <1>8, <1>9, <1>10, <1>11, <1>12, <1>13, <1>14,
     <1>15, <1>16, <1>17, <1>18, <1>19 DEF WorkspaceNext

LEMMA WorkspaceStart ==
  ASSUME WorkspaceInit
  PROVE  WarmInv
<1>1. PICK t \in TabRecords :
        t = Tab(1, 1) /\ t.id = 1 /\ Len(t.panes) = 1 /\ t.active \in Range(t.panes)
  <2>1. PICK q \in Seq(Nat) : q = <<1>> /\ Len(q) = 1 /\ q[1] = 1 /\ DOMAIN q = {1}
    <3>1. <<1>> \in Seq(Nat) /\ Len(<<1>>) = 1 /\ <<1>>[1] = 1
      OBVIOUS
    <3>2. DOMAIN <<1>> = 1..1
      BY <3>1
    <3>3. 1..1 = {1}
      OBVIOUS
    <3> QED
      BY <3>1, <3>2, <3>3
  <2>2. 1 \in Range(q)
    BY <2>1 DEF Range
  <2>3. Tab(1, 1) = [id |-> 1, panes |-> q, active |-> 1]
    BY <2>1 DEF Tab
  <2>4. PICK t : t = [id |-> 1, panes |-> q, active |-> 1]
    OBVIOUS
  <2>5. t \in TabRecords
    BY <2>4 DEF TabRecords
  <2>6. t.id = 1 /\ t.panes = q /\ t.active = 1
    BY <2>4
  <2> QED
    BY <2>1, <2>2, <2>3, <2>4, <2>5, <2>6, Zenon
<1>2. tabs = <<t>> /\ Len(tabs) = 1 /\ tabs \in Seq(TabRecords) /\ tabs[1] = t
  BY <1>1 DEF WorkspaceInit
<1>3. TabsOK
  BY <1>1, <1>2 DEF WorkspaceInit, TabsOK
<1> QED
  BY <1>3 DEF WorkspaceInit, WarmInv, WarmTabExpires, NoTab

(* In every instance the warm tab is a tab in the background and the timer that makes it cold is *)
(* its own (deactivateActiveTab, closeTab, scheduleWarmTabEviction).                             *)
THEOREM WarmTabStays == WorkspaceSpec => []WarmTabExpires
<1>1. WorkspaceInit => WarmInv
  BY WorkspaceStart
<1>2. WarmInv /\ [WorkspaceNext]_workspaceVars => WarmInv'
  BY WorkspaceStep
<1>3. WarmInv => WarmTabExpires
  BY DEF WarmInv
<1> QED
  BY <1>1, <1>2, <1>3, PTL DEF WorkspaceSpec

-----------------------------------------------------------------------------
(* Checkpoints.                                                            *)

\* A pane belongs to one tab, and has the component of its number.
PanesOK ==
  /\ \A i \in 1..Len(tabs) : \A p \in Range(tabs[i].panes) : p \in 1..MaxPanes /\ p < nextPane
  /\ \A i, j \in 1..Len(tabs) : \A p : p \in Range(tabs[i].panes) /\ p \in Range(tabs[j].panes) => i = j
  /\ DOMAIN components = 1..MaxPanes
  /\ nextPane >= 1

\* A tab that is to have no page while one is left has had its checkpoint.
UnmountedSaved ==
  \A id \in TabIds : id \notin MountedTabs =>
    \A p \in PanesOf(id) : components[p] # "none" => id \in saved

UnmountInv == WarmInv /\ PanesOK /\ UnmountedSaved

LEMMA PanesAt ==
  ASSUME NEW ts \in Seq(TabRecords), NEW i \in 1..Len(ts),
         \A j, k \in 1..Len(ts) : ts[j].id = ts[k].id => j = k
  PROVE  UNION {Range(ts[k].panes) : k \in {j \in DOMAIN ts : ts[j].id = ts[i].id}} = Range(ts[i].panes)
<1>1. {j \in DOMAIN ts : ts[j].id = ts[i].id} = {i}
  OBVIOUS
<1> QED
  BY <1>1

\* The panes of a tab that is there are those of its place among the tabs.
LEMMA PanesNow ==
  ASSUME WarmInv
  PROVE  /\ \A i \in 1..Len(tabs) : tabs[i].id \in TabIds /\ PanesOf(tabs[i].id) = Range(tabs[i].panes)
         /\ \A id \in TabIds : \E i \in 1..Len(tabs) : id = tabs[i].id
<1>1. DOMAIN tabs = 1..Len(tabs)
  BY DEF WarmInv, TabsOK
<1>2. ASSUME NEW i \in 1..Len(tabs) PROVE PanesOf(tabs[i].id) = Range(tabs[i].panes)
  BY PanesAt DEF WarmInv, TabsOK, PanesOf
<1> QED
  BY <1>1, <1>2 DEF TabIds

LEMMA PanesNext ==
  ASSUME WarmInv'
  PROVE  /\ \A i \in 1..Len(tabs') : tabs'[i].id \in TabIds'
         /\ \A i \in 1..Len(tabs') : \A id : id = tabs'[i].id => PanesOf(id)' = Range(tabs'[i].panes)
         /\ \A id \in TabIds' : \E i \in 1..Len(tabs') : id = tabs'[i].id
<1>1. DOMAIN tabs' = 1..Len(tabs')
  BY DEF WarmInv, TabsOK
<1>2. ASSUME NEW i \in 1..Len(tabs'), NEW id, id = tabs'[i].id
      PROVE  PanesOf(id)' = Range(tabs'[i].panes)
  BY <1>2, PanesAt DEF WarmInv, TabsOK, PanesOf
<1> QED
  BY <1>1, <1>2 DEF TabIds

LEMMA OneTabOfPane ==
  ASSUME WarmInv, PanesOK, NEW id \in TabIds, NEW jd \in TabIds, NEW p \in PanesOf(id), p \in PanesOf(jd)
  PROVE  id = jd
<1>1. PICK i \in 1..Len(tabs) : id = tabs[i].id /\ PanesOf(id) = Range(tabs[i].panes)
  BY PanesNow
<1>2. PICK j \in 1..Len(tabs) : jd = tabs[j].id /\ PanesOf(jd) = Range(tabs[j].panes)
  BY PanesNow
<1>3. p \in Range(tabs[i].panes)
  BY <1>1
<1>4. p \in Range(tabs[j].panes)
  BY <1>2
<1>5. i = j
  BY <1>3, <1>4 DEF PanesOK
<1> QED
  BY <1>1, <1>2, <1>5

-----------------------------------------------------------------------------
(* How the three kinds of steps keep UnmountedSaved.                       *)

\* The tabs without a page are of before, with the panes of before, and only except newly so.
Leaves(except) ==
  \A id \in TabIds' : ~ShouldMountTab(id)' =>
    /\ id \in TabIds /\ PanesOf(id)' \subseteq PanesOf(id)
    /\ ShouldMountTab(id) => id = except

NoComponentComes == \A p \in AllPanes : components'[p] # "none" => components[p] # "none"

LEMMA CheckpointKeeps ==
  ASSUME UnmountedSaved, NEW e, Leaves(e), CheckpointTab(e), components' = components
  PROVE  UnmountedSaved'
<1> SUFFICES ASSUME NEW id \in TabIds', ~(id \in MountedTabs)', NEW p \in PanesOf(id)',
                    components'[p] # "none"
             PROVE  id \in saved'
  BY DEF UnmountedSaved
<1>1. ~ShouldMountTab(id)' /\ id \notin checkpointing'
  BY DEF MountedTabs
<1>2. id \in TabIds /\ p \in PanesOf(id) /\ (ShouldMountTab(id) => id = e)
  BY <1>1 DEF Leaves
<1>3. ~HasActiveSession(id)' /\ id # ActiveTab.id'
  BY <1>1 DEF ShouldMountTab
<1>4. id \notin checkpointing
  BY <1>1 DEF CheckpointTab
<1>5. CASE ShouldMountTab(id)
  <2>1. id = e
    BY <1>2, <1>5
  <2>2. e \in TabIds /\ ~HasActiveSession(e)' /\ e \notin checkpointing /\ e \notin checkpointing'
    BY <1>1, <1>2, <1>3, <1>4, <2>1
  <2> QED
    BY <2>1, <2>2 DEF CheckpointTab
<1>6. CASE ~ShouldMountTab(id)
  <2>1. id \notin MountedTabs
    BY <1>4, <1>6 DEF MountedTabs
  <2>2. id \in saved
    BY <1>2, <2>1 DEF UnmountedSaved
  <2> QED
    BY <1>3, <2>2 DEF CheckpointTab
<1> QED
  BY <1>5, <1>6

\* Nothing is newly without a page.
LEMMA SavedStay ==
  ASSUME UnmountedSaved, NEW e, e \notin TabIds, Leaves(e), checkpointing' = checkpointing,
         saved' = saved, NoComponentComes
  PROVE  UnmountedSaved'
<1> SUFFICES ASSUME NEW id \in TabIds', ~(id \in MountedTabs)', NEW p \in PanesOf(id)',
                    components'[p] # "none"
             PROVE  id \in saved'
  BY DEF UnmountedSaved
<1>1. ~ShouldMountTab(id)' /\ id \notin checkpointing
  BY DEF MountedTabs
<1>2. id \in TabIds /\ p \in PanesOf(id) /\ ~ShouldMountTab(id)
  BY <1>1 DEF Leaves
<1>3. p \in AllPanes
  BY <1>2 DEF PanesOf, AllPanes
<1>4. id \notin MountedTabs /\ components[p] # "none"
  BY <1>1, <1>2, <1>3 DEF MountedTabs, NoComponentComes
<1> QED
  BY <1>2, <1>4 DEF UnmountedSaved

\* The same tabs have a page before and after, apart from checkpoints that end.
LEMMA FinishKeeps ==
  ASSUME UnmountedSaved, NEW left, NEW bridges, FinishTabCheckpoint(left, bridges),
         TabIds' = TabIds, \A id \in TabIds : PanesOf(id)' = PanesOf(id),
         \A id \in TabIds : ShouldMountTab(id)' = ShouldMountTab(id),
         \A id \in TabIds : id \notin MountedTabs =>
            \A p \in PanesOf(id) : components'[p] # "none" => components[p] # "none"
  PROVE  UnmountedSaved'
<1> SUFFICES ASSUME NEW id \in TabIds', ~(id \in MountedTabs)', NEW p \in PanesOf(id)',
                    components'[p] # "none"
             PROVE  id \in saved'
  BY DEF UnmountedSaved
<1>1. ~ShouldMountTab(id)' /\ id \notin checkpointing'
  BY DEF MountedTabs
<1>2. id \in TabIds /\ p \in PanesOf(id) /\ ~ShouldMountTab(id)
  BY <1>1
<1>3. ~HasActiveSession(id)' /\ id # ActiveTab.id'
  BY <1>1 DEF ShouldMountTab
<1>4. id \in checkpointing \/ id \in saved
  <2>1. CASE id \notin checkpointing
    <3>1. id \notin MountedTabs
      BY <1>2, <2>1 DEF MountedTabs
    <3> QED
      BY <1>2, <3>1 DEF UnmountedSaved
  <2> QED
    BY <2>1
<1>5. id \in saved \cup {d \in checkpointing : \A c \in left : c.tab # d}
  BY <1>1, <1>4 DEF FinishTabCheckpoint
<1> QED
  BY <1>3, <1>5 DEF FinishTabCheckpoint

-----------------------------------------------------------------------------
(* The panes stay apart.                                                   *)

LEMMA PanesSame ==
  ASSUME PanesOK, tabs' = tabs, nextPane' = nextPane, DOMAIN components' = DOMAIN components
  PROVE  PanesOK'
BY DEF PanesOK

LEMMA PanesCloseTab ==
  ASSUME WarmInv, PanesOK, NEW i \in DOMAIN tabs, CloseTab(i), components' = components
  PROVE  PanesOK'
<1>1. /\ i \in 1..Len(tabs) /\ Len(tabs') = Len(tabs) - 1 /\ Len(tabs) \in Nat
      /\ \A k \in 1..Len(tabs') : tabs'[k] = tabs[IF k < i THEN k ELSE k + 1]
  BY CloseTabShape DEF WarmInv, TabsOK
<1>2. ASSUME NEW k \in 1..Len(tabs')
      PROVE  \E m \in 1..Len(tabs) : m = (IF k < i THEN k ELSE k + 1) /\ tabs'[k] = tabs[m]
  BY <1>1
<1>3. nextPane' = nextPane
  BY DEF CloseTab
<1>4. ASSUME NEW k \in 1..Len(tabs'), NEW p \in Range(tabs'[k].panes)
      PROVE  p \in 1..MaxPanes /\ p < nextPane'
  BY <1>2, <1>3 DEF PanesOK
<1>5. ASSUME NEW k \in 1..Len(tabs'), NEW l \in 1..Len(tabs'), NEW p,
             p \in Range(tabs'[k].panes), p \in Range(tabs'[l].panes)
      PROVE  k = l
  <2>1. PICK m \in 1..Len(tabs) : m = (IF k < i THEN k ELSE k + 1) /\ tabs'[k] = tabs[m]
    BY <1>2
  <2>2. PICK n \in 1..Len(tabs) : n = (IF l < i THEN l ELSE l + 1) /\ tabs'[l] = tabs[n]
    BY <1>2
  <2>3. m = n
    BY <1>5, <2>1, <2>2 DEF PanesOK
  <2> QED
    BY <1>1, <2>1, <2>2, <2>3
<1> QED
  BY <1>3, <1>4, <1>5 DEF PanesOK

\* A tab loses panes, or gets the next one.
LEMMA PanesReplace ==
  ASSUME WarmInv, PanesOK, NEW i \in 1..Len(tabs), NEW t, tabs' = [tabs EXCEPT ![i] = t],
         components' = components,
         \/ nextPane' = nextPane /\ Range(t.panes) \subseteq Range(tabs[i].panes)
         \/ /\ nextPane <= MaxPanes /\ nextPane' = nextPane + 1
            /\ Range(t.panes) \subseteq Range(tabs[i].panes) \cup {nextPane}
  PROVE  PanesOK'
<1>1. /\ Len(tabs') = Len(tabs) /\ nextPane \in Nat /\ MaxPanes \in Nat
      /\ \A k \in 1..Len(tabs) : tabs'[k] = IF k = i THEN t ELSE tabs[k]
  BY WorkspaceAssumption DEF WarmInv, TabsOK
<1>2. nextPane' >= nextPane /\ nextPane' >= 1 /\ nextPane' \in Nat
  BY <1>1 DEF PanesOK
<1>3. ASSUME NEW k \in 1..Len(tabs), NEW p \in Range(tabs[k].panes)
      PROVE  p \in 1..MaxPanes /\ p < nextPane /\ p # nextPane
  BY <1>1 DEF PanesOK
<1>4. ASSUME NEW k \in 1..Len(tabs), NEW p \in Range(tabs'[k].panes)
      PROVE  \/ p \in Range(tabs[k].panes)
             \/ p = nextPane /\ k = i /\ nextPane <= MaxPanes /\ nextPane' = nextPane + 1
  BY <1>1
<1>5. ASSUME NEW k \in 1..Len(tabs), NEW p \in Range(tabs'[k].panes)
      PROVE  p \in 1..MaxPanes /\ p < nextPane'
  <2>1. CASE p \in Range(tabs[k].panes)
    BY <1>1, <1>2, <1>3, <2>1
  <2>2. CASE p \notin Range(tabs[k].panes)
    BY <1>1, <1>4, <2>2 DEF PanesOK
  <2> QED
    BY <2>1, <2>2
<1>6. ASSUME NEW k \in 1..Len(tabs), NEW l \in 1..Len(tabs), NEW p,
             p \in Range(tabs'[k].panes), p \in Range(tabs'[l].panes)
      PROVE  k = l
  <2>1. CASE p = nextPane
    <3>1. p \notin Range(tabs[k].panes) /\ p \notin Range(tabs[l].panes)
      BY <1>3, <2>1
    <3> QED
      BY <1>4, <1>6, <3>1
  <2>2. CASE p # nextPane
    <3>1. p \in Range(tabs[k].panes) /\ p \in Range(tabs[l].panes)
      BY <1>4, <1>6, <2>2
    <3> QED
      BY <3>1 DEF PanesOK
  <2> QED
    BY <2>1, <2>2
<1>7. DOMAIN components' = 1..MaxPanes
  BY DEF PanesOK
<1>8. nextPane' >= 1 /\ 1..Len(tabs') = 1..Len(tabs)
  BY <1>1, <1>2
<1>9. \A k \in 1..Len(tabs') : \A p \in Range(tabs'[k].panes) : p \in 1..MaxPanes /\ p < nextPane'
  BY <1>5, <1>8
<1>10. \A k, l \in 1..Len(tabs') : \A p :
         p \in Range(tabs'[k].panes) /\ p \in Range(tabs'[l].panes) => k = l
  BY <1>6, <1>8
<1> QED
  BY <1>7, <1>8, <1>9, <1>10 DEF PanesOK

LEMMA NewTabShape ==
  ASSUME WarmInv, NewTab
  PROVE  /\ Len(tabs') = Len(tabs) + 1 /\ Len(tabs) \in Nat
         /\ \A k \in 1..Len(tabs) : tabs'[k] = tabs[k]
         /\ tabs'[Len(tabs) + 1].id = nextTab
         /\ Range(tabs'[Len(tabs) + 1].panes) = {nextPane}
<1>1. tabs \in Seq(TabRecords) /\ Len(tabs) \in Nat
  BY DEF WarmInv, TabsOK
<1>2. PICK t : t = Tab(nextTab, nextPane)
  OBVIOUS
<1>3. t.id = nextTab /\ t.panes = <<nextPane>>
  BY <1>2 DEF Tab
<1>4. Range(t.panes) = {nextPane}
  <2>1. DOMAIN <<nextPane>> = 1..1 /\ <<nextPane>>[1] = nextPane
    OBVIOUS
  <2>2. Range(<<nextPane>>) = {nextPane}
    BY <2>1 DEF Range
  <2> QED
    BY <1>3, <2>2
<1>5. tabs' = Append(tabs, t)
  BY <1>2 DEF NewTab
<1>6. /\ Len(tabs') = Len(tabs) + 1 /\ tabs'[Len(tabs) + 1] = t
      /\ \A k \in 1..Len(tabs) : tabs'[k] = tabs[k]
  BY <1>1, <1>5
<1> QED
  BY <1>1, <1>3, <1>4, <1>6

LEMMA PanesNewTab ==
  ASSUME WarmInv, PanesOK, NewTab
  PROVE  PanesOK'
<1>1. /\ nextPane \in Nat /\ MaxPanes \in Nat /\ nextPane' = nextPane + 1
      /\ nextPane <= MaxPanes /\ components' = components
  BY WorkspaceAssumption DEF NewTab, WarmInv, TabsOK
<1>2. ASSUME NEW k \in 1..Len(tabs), NEW p \in Range(tabs[k].panes)
      PROVE  p \in 1..MaxPanes /\ p < nextPane /\ p # nextPane
  BY <1>1 DEF PanesOK
<1>3. ASSUME NEW k \in 1..Len(tabs'), NEW p \in Range(tabs'[k].panes)
      PROVE  \/ k \in 1..Len(tabs) /\ p \in Range(tabs[k].panes)
             \/ k = Len(tabs) + 1 /\ p = nextPane
  <2>1. CASE k = Len(tabs) + 1
    BY <2>1, NewTabShape
  <2>2. CASE k # Len(tabs) + 1
    <3>1. k \in 1..Len(tabs)
      BY <2>2, NewTabShape
    <3> QED
      BY <3>1, NewTabShape
  <2> QED
    BY <2>1, <2>2
<1>4. ASSUME NEW k \in 1..Len(tabs'), NEW p \in Range(tabs'[k].panes)
      PROVE  p \in 1..MaxPanes /\ p < nextPane'
  <2>1. CASE k \in 1..Len(tabs) /\ p \in Range(tabs[k].panes)
    <3>1. p \in 1..MaxPanes /\ p < nextPane
      BY <1>2, <2>1
    <3> QED
      BY <1>1, <3>1
  <2>2. CASE p = nextPane
    <3>1. nextPane >= 1
      BY DEF PanesOK
    <3>2. nextPane \in 1..MaxPanes
      BY <1>1, <3>1
    <3>3. nextPane < nextPane'
      BY <1>1
    <3> QED
      BY <2>2, <3>2, <3>3
  <2> QED
    BY <1>3, <2>1, <2>2
<1>5. ASSUME NEW k \in 1..Len(tabs'), NEW l \in 1..Len(tabs'), NEW p,
             p \in Range(tabs'[k].panes), p \in Range(tabs'[l].panes)
      PROVE  k = l
  <2>1. CASE p = nextPane
    BY <1>2, <1>3, <1>5, <2>1
  <2>2. CASE p # nextPane
    <3>1. /\ k \in 1..Len(tabs) /\ p \in Range(tabs[k].panes)
          /\ l \in 1..Len(tabs) /\ p \in Range(tabs[l].panes)
      BY <1>3, <1>5, <2>2
    <3> QED
      BY <3>1 DEF PanesOK
  <2> QED
    BY <2>1, <2>2
<1>6. nextPane' >= 1 /\ DOMAIN components' = 1..MaxPanes
  BY <1>1 DEF PanesOK
<1>7. \A k \in 1..Len(tabs') : \A p \in Range(tabs'[k].panes) : p \in 1..MaxPanes /\ p < nextPane'
  BY <1>4
<1>8. \A k, l \in 1..Len(tabs') : \A p :
         p \in Range(tabs'[k].panes) /\ p \in Range(tabs'[l].panes) => k = l
  BY <1>5
<1> QED
  BY <1>6, <1>7, <1>8 DEF PanesOK

-----------------------------------------------------------------------------
(* The actions.                                                            *)

LEMMA NoTabIsNone ==
  ASSUME WarmInv
  PROVE  NoTab \notin TabIds
BY PanesNow DEF NoTab, WarmInv, TabsOK

LEMMA SameTabs ==
  ASSUME tabs' = tabs
  PROVE  TabIds' = TabIds /\ \A id : PanesOf(id)' = PanesOf(id)
BY DEF TabIds, PanesOf

LEMMA SameSessions ==
  ASSUME tabs' = tabs, busy' = busy
  PROVE  \A id : HasActiveSession(id)' = HasActiveSession(id)
BY DEF HasActiveSession, PanesOf

\* The tabs have other modes or another focus: nobody leaves.
LEMMA NobodyLeaves ==
  ASSUME tabs' = tabs, activeTab' = activeTab, busy \subseteq busy',
         windowVisible' = windowVisible, warm' = warm
  PROVE  Leaves(NoTab)
<1>1. TabIds' = TabIds /\ \A id : PanesOf(id)' = PanesOf(id)
  BY SameTabs
<1>2. ActiveTab.id' = ActiveTab.id
  BY DEF ActiveTab
<1>3. ASSUME NEW id, HasActiveSession(id) PROVE HasActiveSession(id)'
  BY <1>1, <1>3 DEF HasActiveSession
<1>4. ASSUME NEW id, ShouldMountTab(id) PROVE ShouldMountTab(id)'
  BY <1>2, <1>3, <1>4 DEF ShouldMountTab
<1> QED
  BY <1>1, <1>4 DEF Leaves

LEMMA SelectTabLeaves ==
  ASSUME UnmountInv, NEW i \in DOMAIN tabs, SelectTabAt(i)
  PROVE  UnmountedSaved'
<1>1. /\ tabs' = tabs /\ busy' = busy /\ windowVisible /\ windowVisible' /\ components' = components
      /\ activeTab' = i
  BY DEF SelectTabAt, UserActs
<1>2. PICK target, e :
        /\ target = tabs[i].id /\ e = (IF warm \in {target, ActiveTab.id} THEN NoTab ELSE warm)
        /\ CheckpointTab(e) /\ warm' = ActiveTab.id
  BY DEF SelectTabAt, DeactivateActiveTab
<1>3. ActiveTab.id' = target
  BY <1>1, <1>2 DEF ActiveTab
<1>4. Leaves(e)
  <2>1. TabIds' = TabIds /\ \A id : PanesOf(id)' = PanesOf(id)
    BY <1>1, SameTabs
  <2>2. \A id : HasActiveSession(id)' = HasActiveSession(id)
    BY <1>1, SameSessions
  <2>3. ASSUME NEW id, ~ShouldMountTab(id)', ShouldMountTab(id)
        PROVE  id = e
    <3>1. ~HasActiveSession(id)' /\ id # target /\ id # ActiveTab.id
      BY <1>1, <1>2, <1>3, <2>3 DEF ShouldMountTab
    <3>2. id = warm
      BY <2>2, <2>3, <3>1 DEF ShouldMountTab
    <3> QED
      BY <1>2, <3>1, <3>2
  <2> QED
    BY <2>1, <2>3 DEF Leaves
<1> QED
  BY <1>1, <1>2, <1>4, CheckpointKeeps DEF UnmountInv

LEMMA NewTabLeaves ==
  ASSUME UnmountInv, WarmInv', NewTab
  PROVE  UnmountedSaved'
<1>1. /\ busy' = busy /\ windowVisible /\ windowVisible' /\ components' = components
      /\ activeTab' = Len(tabs) + 1
  BY DEF NewTab, UserActs
<1>2. PICK e : /\ e = (IF warm \in {NoTab, ActiveTab.id} THEN NoTab ELSE warm)
               /\ CheckpointTab(e) /\ warm' = ActiveTab.id
  BY DEF NewTab, DeactivateActiveTab
<1>3. ActiveTab.id' = nextTab
  BY <1>1, NewTabShape DEF ActiveTab, UnmountInv
<1>4. Leaves(e)
  <2>1. ASSUME NEW id \in TabIds', ~ShouldMountTab(id)'
        PROVE  id \in TabIds /\ PanesOf(id)' = PanesOf(id) /\ (ShouldMountTab(id) => id = e)
    <3>1. ~HasActiveSession(id)' /\ id # nextTab /\ id # ActiveTab.id
      BY <1>1, <1>2, <1>3, <2>1 DEF ShouldMountTab
    <3>2. PICK k \in 1..Len(tabs') : id = tabs'[k].id /\ PanesOf(id)' = Range(tabs'[k].panes)
      BY PanesNext
    <3>3. k # Len(tabs) + 1
      BY <3>1, <3>2, NewTabShape DEF UnmountInv
    <3>4. k \in 1..Len(tabs) /\ tabs'[k] = tabs[k]
      BY <3>3, NewTabShape DEF UnmountInv
    <3>5. id \in TabIds /\ PanesOf(id)' = PanesOf(id)
      BY <3>2, <3>4, PanesNow DEF UnmountInv
    <3>6. ~HasActiveSession(id)
      BY <1>1, <3>1, <3>5 DEF HasActiveSession
    <3>7. id # NoTab
      BY <3>5, NoTabIsNone DEF UnmountInv
    <3>8. ShouldMountTab(id) => id = e
      BY <1>2, <3>1, <3>6, <3>7 DEF ShouldMountTab
    <3> QED
      BY <3>5, <3>8
  <2> QED
    BY <2>1 DEF Leaves
<1> QED
  BY <1>1, <1>2, <1>4, CheckpointKeeps DEF UnmountInv

LEMMA WarmTabTimeoutLeaves ==
  ASSUME UnmountInv, WarmTabTimeout
  PROVE  UnmountedSaved'
<1>1. warmTimer # NoTab /\ UNCHANGED model /\ UNCHANGED <<busy, windowVisible, components>>
  BY DEF WarmTabTimeout
<1>2. warm = warmTimer /\ warm # ActiveTab.id
  BY <1>1 DEF UnmountInv, WarmInv, WarmTabExpires
<1>3. CheckpointTab(warm) /\ warm' = NoTab
  BY <1>2 DEF WarmTabTimeout
<1>4. Leaves(warm)
  <2>1. TabIds' = TabIds /\ \A id : PanesOf(id)' = PanesOf(id)
    BY <1>1, SameTabs DEF model
  <2>2. (\A id : HasActiveSession(id)' = HasActiveSession(id)) /\ ActiveTab.id' = ActiveTab.id
    BY <1>1, SameSessions DEF model, ActiveTab
  <2>3. ASSUME NEW id, ~ShouldMountTab(id)', ShouldMountTab(id) PROVE id = warm
    BY <1>1, <2>2, <2>3 DEF ShouldMountTab
  <2> QED
    BY <2>1, <2>3 DEF Leaves
<1> QED
  BY <1>1, <1>3, <1>4, CheckpointKeeps DEF UnmountInv

LEMMA ChangeVisibilityLeaves ==
  ASSUME UnmountInv, ChangeVisibility
  PROVE  UnmountedSaved'
<1>1. UNCHANGED model /\ UNCHANGED <<busy, components>>
  BY DEF ChangeVisibility
<1>2. TabIds' = TabIds /\ \A id : PanesOf(id)' = PanesOf(id)
  BY <1>1, SameTabs DEF model
<1>3. (\A id : HasActiveSession(id)' = HasActiveSession(id)) /\ ActiveTab.id' = ActiveTab.id
  BY <1>1, SameSessions DEF model, ActiveTab
<1>4. CASE windowVisible
  <2>1. CheckpointTab(warm)
    BY <1>4 DEF ChangeVisibility
  <2>2. ASSUME NEW id, ~ShouldMountTab(id)', ShouldMountTab(id) PROVE id = warm
    BY <1>3, <2>2 DEF ShouldMountTab
  <2>3. Leaves(warm)
    BY <1>2, <2>2 DEF Leaves
  <2> QED
    BY <1>1, <2>1, <2>3, CheckpointKeeps DEF UnmountInv
<1>5. CASE ~windowVisible
  <2>1. CheckpointTab(NoTab)
    BY <1>5 DEF ChangeVisibility, NoCheckpoint
  <2>2. ASSUME NEW id, ~ShouldMountTab(id)' PROVE ~ShouldMountTab(id)
    BY <1>3, <1>5, <2>2 DEF ShouldMountTab
  <2>3. Leaves(NoTab)
    BY <1>2, <2>2 DEF Leaves
  <2> QED
    BY <1>1, <2>1, <2>3, CheckpointKeeps DEF UnmountInv
<1> QED
  BY <1>4, <1>5

LEMMA SessionEndsLeaves ==
  ASSUME UnmountInv, NEW p, SessionEnds(p)
  PROVE  UnmountedSaved'
<1>1. /\ UNCHANGED model /\ UNCHANGED <<windowVisible, components, warm>>
      /\ busy' = busy \ {p} /\ p \in busy
  BY DEF SessionEnds, retention
<1>2. TabIds' = TabIds /\ (\A id : PanesOf(id)' = PanesOf(id)) /\ ActiveTab.id' = ActiveTab.id
  BY <1>1, SameTabs DEF model, ActiveTab
<1>3. ASSUME NEW id, ~ShouldMountTab(id)', ShouldMountTab(id) PROVE p \in PanesOf(id)
  <2>1. HasActiveSession(id) /\ ~HasActiveSession(id)'
    BY <1>1, <1>2, <1>3 DEF ShouldMountTab
  <2> QED
    BY <1>1, <1>2, <2>1 DEF HasActiveSession
<1> DEFINE hidden == {id \in TabIds : p \in PanesOf(id) /\ ~ShouldMountTab(id)'}
<1>4. CASE hidden = {}
  <2>1. CheckpointTab(NoTab)
    BY <1>4 DEF SessionEnds, NoCheckpoint
  <2>2. Leaves(NoTab)
    BY <1>2, <1>3, <1>4 DEF Leaves
  <2> QED
    BY <1>1, <2>1, <2>2, CheckpointKeeps DEF UnmountInv
<1>5. CASE hidden # {}
  <2>1. PICK e \in hidden : CheckpointTab(e)
    BY <1>5 DEF SessionEnds
  <2>2. ASSUME NEW id \in TabIds, p \in PanesOf(id) PROVE id = e
    BY <2>1, <2>2, OneTabOfPane DEF UnmountInv
  <2>3. Leaves(e)
    BY <1>2, <1>3, <2>2 DEF Leaves
  <2> QED
    BY <1>1, <2>1, <2>3, CheckpointKeeps DEF UnmountInv
<1> QED
  BY <1>4, <1>5

LEMMA CloseTabLeaves ==
  ASSUME UnmountInv, WarmInv', NEW i \in DOMAIN tabs, Len(tabs) > 1, CloseTab(i),
         windowVisible' = windowVisible, components' = components
  PROVE  UnmountedSaved'
<1>1. /\ i \in 1..Len(tabs) /\ Len(tabs') = Len(tabs) - 1
      /\ \A k \in 1..Len(tabs') : tabs'[k] = tabs[IF k < i THEN k ELSE k + 1]
  BY CloseTabShape DEF UnmountInv
<1>2. busy' = busy /\ CheckpointTab(NoTab)
  BY DEF CloseTab, NoCheckpoint
<1>3. activeTab \in 1..Len(tabs) /\ Len(tabs) \in Nat
  BY DEF UnmountInv, WarmInv, TabsOK
<1>4. ASSUME NEW k \in 1..Len(tabs'), NEW m \in 1..Len(tabs), m = IF k < i THEN k ELSE k + 1
      PROVE  tabs'[k] = tabs[m] /\ m # i
  BY <1>1, <1>3, <1>4
<1>5. activeTab # i => ActiveTab.id' = ActiveTab.id
  <2>1. ASSUME activeTab # i
        PROVE  /\ activeTab' \in 1..Len(tabs')
               /\ activeTab = IF activeTab' < i THEN activeTab' ELSE activeTab' + 1
    BY <1>1, <1>3, <2>1 DEF CloseTab, NextActiveTab
  <2>2. ASSUME activeTab # i PROVE tabs'[activeTab'] = tabs[activeTab]
    BY <1>3, <1>4, <2>1, <2>2
  <2> QED
    BY <2>2 DEF ActiveTab
<1>6. ASSUME NEW id \in TabIds', ~ShouldMountTab(id)'
      PROVE  id \in TabIds /\ PanesOf(id)' = PanesOf(id) /\ ~ShouldMountTab(id)
  <2>1. PICK k \in 1..Len(tabs') : id = tabs'[k].id /\ PanesOf(id)' = Range(tabs'[k].panes)
    BY PanesNext
  <2>2. PICK m \in 1..Len(tabs) : m = (IF k < i THEN k ELSE k + 1)
    BY <1>1, <1>3
  <2>3. tabs'[k] = tabs[m] /\ m # i
    BY <1>4, <2>2
  <2>4. id = tabs[m].id /\ id \in TabIds /\ PanesOf(id)' = PanesOf(id)
    BY <2>1, <2>3, PanesNow DEF UnmountInv
  <2>5. id # tabs[i].id
    BY <1>1, <2>3, <2>4 DEF UnmountInv, WarmInv, TabsOK
  <2>6. ~HasActiveSession(id)
    <3>1. ~HasActiveSession(id)'
      BY <1>6 DEF ShouldMountTab
    <3> QED
      BY <1>2, <2>4, <3>1 DEF HasActiveSession
  <2>7. id # ActiveTab.id'
    BY <1>6 DEF ShouldMountTab
  <2>8. id # ActiveTab.id
    <3>1. CASE activeTab = i
      BY <2>5, <3>1 DEF ActiveTab
    <3> QED
      BY <1>5, <2>7, <3>1
  <2>9. ~(windowVisible /\ id = warm)
    <3>1. ASSUME windowVisible, id = warm PROVE FALSE
      <4>1. warm \notin {tabs[i].id, ActiveTab.id'}
        BY <2>5, <2>7, <3>1
      <4>2. warm' = warm
        BY <4>1 DEF CloseTab
      <4> QED
        BY <1>6, <3>1, <4>2 DEF ShouldMountTab
    <3> QED
      BY <3>1
  <2> QED
    BY <2>4, <2>6, <2>8, <2>9 DEF ShouldMountTab
<1>7. Leaves(NoTab)
  BY <1>6 DEF Leaves
<1> QED
  BY <1>2, <1>7, CheckpointKeeps DEF UnmountInv

\* One tab has other panes; the tabs stay.
LEMMA ReplacedTab ==
  ASSUME WarmInv, WarmInv', NEW i \in 1..Len(tabs), NEW t, t.id = tabs[i].id,
         tabs' = [tabs EXCEPT ![i] = t], activeTab' = activeTab
  PROVE  /\ TabIds' = TabIds /\ ActiveTab.id' = ActiveTab.id
         /\ \A id \in TabIds : id # tabs[i].id => PanesOf(id)' = PanesOf(id)
         /\ \A id : id = tabs[i].id => PanesOf(id)' = Range(t.panes) /\ PanesOf(id) = Range(tabs[i].panes)
<1>1. /\ Len(tabs') = Len(tabs) /\ activeTab \in 1..Len(tabs)
      /\ \A k \in 1..Len(tabs) : tabs'[k] = IF k = i THEN t ELSE tabs[k]
  BY DEF WarmInv, TabsOK
<1>2. \A k \in 1..Len(tabs) : tabs'[k].id = tabs[k].id
  BY <1>1
<1>3. ActiveTab.id' = ActiveTab.id
  BY <1>1, <1>2 DEF ActiveTab
<1>4. TabIds' \subseteq TabIds
  BY <1>1, <1>2, PanesNow, PanesNext
<1>5. TabIds \subseteq TabIds'
  BY <1>1, <1>2, PanesNow, PanesNext
<1>6. ASSUME NEW id \in TabIds, id # tabs[i].id PROVE PanesOf(id)' = PanesOf(id)
  <2>1. PICK k \in 1..Len(tabs) : id = tabs[k].id /\ PanesOf(id) = Range(tabs[k].panes)
    BY PanesNow
  <2>2. tabs'[k] = tabs[k] /\ k \in 1..Len(tabs')
    BY <1>1, <1>6, <2>1
  <2>3. PanesOf(id)' = Range(tabs'[k].panes)
    BY <2>1, <2>2, PanesNext
  <2> QED
    BY <2>1, <2>2, <2>3
<1>7. ASSUME NEW id, id = tabs[i].id
      PROVE  PanesOf(id)' = Range(t.panes) /\ PanesOf(id) = Range(tabs[i].panes)
  <2>1. PanesOf(id) = Range(tabs[i].panes)
    BY <1>7, PanesNow
  <2>2. tabs'[i] = t /\ i \in 1..Len(tabs') /\ id = tabs'[i].id
    BY <1>1, <1>7
  <2>3. PanesOf(id)' = Range(tabs'[i].panes)
    BY <2>2, PanesNext
  <2> QED
    BY <2>1, <2>2, <2>3
<1> QED
  BY <1>3, <1>4, <1>5, <1>6, <1>7

\* A pane goes that has no session, or whose tab is the active one.
LEMMA PaneGoesLeaves ==
  ASSUME UnmountInv, WarmInv', NEW p, PaneGoes(p), p \notin busy \/ p \in Range(ActiveTab.panes),
         windowVisible' = windowVisible, components' = components
  PROVE  UnmountedSaved' /\ PanesOK'
<1>1. PICK i \in 1..Len(tabs), t \in TabRecords :
        /\ p \in Range(tabs[i].panes) /\ t.id = tabs[i].id
        /\ Range(t.panes) \subseteq Range(tabs[i].panes)
        /\ Range(tabs[i].panes) \ {p} \subseteq Range(t.panes)
        /\ tabs' = [tabs EXCEPT ![i] = t]
        /\ UNCHANGED <<activeTab, nextTab, nextPane, warm, warmTimer, busy>>
        /\ NoCheckpoint
  BY DEF PaneGoes
<1>2. /\ TabIds' = TabIds /\ ActiveTab.id' = ActiveTab.id
      /\ \A id \in TabIds : id # tabs[i].id => PanesOf(id)' = PanesOf(id)
      /\ \A id : id = tabs[i].id => PanesOf(id)' = Range(t.panes) /\ PanesOf(id) = Range(tabs[i].panes)
  BY <1>1, ReplacedTab DEF UnmountInv
<1>3. ASSUME NEW id \in TabIds PROVE PanesOf(id)' \subseteq PanesOf(id)
  BY <1>1, <1>2
<1>4. ASSUME NEW id \in TabIds, HasActiveSession(id), ~HasActiveSession(id)'
      PROVE  id = ActiveTab.id
  <2>1. PICK q \in PanesOf(id) : q \in busy
    BY <1>4 DEF HasActiveSession
  <2>2. q \notin PanesOf(id)'
    BY <1>1, <1>4, <2>1 DEF HasActiveSession
  <2>3. id = tabs[i].id /\ q = p
    BY <1>1, <1>2, <2>1, <2>2
  <2>4. p \in Range(tabs[activeTab].panes) /\ activeTab \in 1..Len(tabs)
    BY <2>1, <2>3 DEF ActiveTab, UnmountInv, WarmInv, TabsOK
  <2>5. activeTab = i
    BY <1>1, <2>4 DEF UnmountInv, PanesOK
  <2> QED
    BY <2>3, <2>5 DEF ActiveTab
<1>5. ASSUME NEW id \in TabIds, ShouldMountTab(id) PROVE ShouldMountTab(id)'
  BY <1>1, <1>2, <1>4, <1>5 DEF ShouldMountTab
<1>6. Leaves(NoTab)
  BY <1>2, <1>3, <1>5 DEF Leaves
<1>7. UnmountedSaved'
  BY <1>1, <1>6, CheckpointKeeps DEF UnmountInv, NoCheckpoint
<1>8. PanesOK'
  BY <1>1, PanesReplace DEF UnmountInv
<1> QED
  BY <1>7, <1>8

LEMMA ClosePaneLeaves ==
  ASSUME UnmountInv, WarmInv', NEW p, \E i \in DOMAIN tabs : p \in Range(tabs[i].panes), ClosePane(p),
         p \notin busy \/ p \in Range(ActiveTab.panes),
         windowVisible' = windowVisible, components' = components
  PROVE  UnmountedSaved' /\ PanesOK'
<1>1. CASE Len(tabs) > 1 /\ \E i \in DOMAIN tabs : CloseTab(i)
  BY <1>1, CloseTabLeaves, PanesCloseTab DEF UnmountInv
<1>2. CASE PaneGoes(p)
  BY <1>2, PaneGoesLeaves
<1> QED
  BY <1>1, <1>2, ClosePaneShape DEF UnmountInv

LEMMA ActiveTabFacts ==
  ASSUME UnmountInv
  PROVE  ActiveTab \in TabRecords /\ ActiveTab.panes \in Seq(Nat)
<1>1. tabs \in Seq(TabRecords) /\ activeTab \in 1..Len(tabs)
  BY DEF UnmountInv, WarmInv, TabsOK
<1>2. ActiveTab \in TabRecords
  BY <1>1 DEF ActiveTab
<1> QED
  BY <1>2 DEF TabRecords

\* The active tab gets other panes: it has its page.
LEMMA ActiveTabChanges ==
  ASSUME UnmountInv, WarmInv', NEW t, t.id = ActiveTab.id, tabs' = [tabs EXCEPT ![activeTab] = t],
         UNCHANGED <<activeTab, busy, windowVisible, warm, checkpointing, saved, components>>,
         \/ nextPane' = nextPane /\ Range(t.panes) \subseteq Range(ActiveTab.panes)
         \/ /\ nextPane <= MaxPanes /\ nextPane' = nextPane + 1
            /\ Range(t.panes) \subseteq Range(ActiveTab.panes) \cup {nextPane}
  PROVE  UnmountedSaved' /\ PanesOK'
<1>1. activeTab \in 1..Len(tabs) /\ ActiveTab = tabs[activeTab]
  BY DEF ActiveTab, UnmountInv, WarmInv, TabsOK
<1>2. /\ TabIds' = TabIds /\ ActiveTab.id' = ActiveTab.id
      /\ \A id \in TabIds : id # ActiveTab.id => PanesOf(id)' = PanesOf(id)
  BY <1>1, ReplacedTab DEF UnmountInv
<1>3. ASSUME NEW id \in TabIds, ~ShouldMountTab(id)'
      PROVE  PanesOf(id)' = PanesOf(id) /\ ~ShouldMountTab(id)
  <2>1. id # ActiveTab.id /\ ~HasActiveSession(id)' /\ ~(windowVisible /\ id = warm)
    BY <1>2, <1>3 DEF ShouldMountTab
  <2>2. PanesOf(id)' = PanesOf(id)
    BY <1>2, <2>1
  <2>3. ~HasActiveSession(id)
    BY <2>1, <2>2 DEF HasActiveSession
  <2> QED
    BY <2>1, <2>2, <2>3 DEF ShouldMountTab
<1>4. Leaves(NoTab)
  BY <1>2, <1>3 DEF Leaves
<1>5. UnmountedSaved'
  BY <1>4, NoTabIsNone, SavedStay DEF UnmountInv, NoComponentComes
<1>6. PanesOK'
  BY <1>1, PanesReplace DEF UnmountInv
<1> QED
  BY <1>5, <1>6

LEMMA ToggleSplitLeaves ==
  ASSUME UnmountInv, WarmInv', ToggleSplit
  PROVE  UnmountedSaved' /\ PanesOK'
<1>1. PICK b \in Seq(Nat) : b = ActiveTab.panes
  BY ActiveTabFacts
<1>2. PICK q : q = Append(b, nextPane)
  OBVIOUS
<1>3. Range(q) \subseteq Range(b) \cup {nextPane}
  <2>1. nextPane \in Nat
    BY DEF UnmountInv, WarmInv, TabsOK
  <2>2. /\ q \in Seq(Nat) /\ Len(q) = Len(b) + 1 /\ q[Len(b) + 1] = nextPane
        /\ \A k \in 1..Len(b) : q[k] = b[k]
    BY <1>2, <2>1, AppendProperties
  <2>3. ASSUME NEW k \in DOMAIN q PROVE q[k] \in Range(b) \cup {nextPane}
    <3>1. k \in 1..(Len(b) + 1) /\ Len(b) \in Nat
      BY <2>2
    <3>2. CASE k \in 1..Len(b)
      <4>1. k \in DOMAIN b /\ q[k] = b[k]
        BY <2>2, <3>2
      <4> QED
        BY <4>1 DEF Range
    <3>3. CASE k = Len(b) + 1
      BY <2>2, <3>3
    <3> QED
      BY <3>1, <3>2, <3>3
  <2> QED
    BY <2>3 DEF Range
<1>4. PICK a \in TabRecords : a = ActiveTab
  BY ActiveTabFacts
<1>5. PICK u : u = [a EXCEPT !.panes = q, !.active = nextPane]
  OBVIOUS
<1>6. u.id = a.id
  BY <1>5 DEF TabRecords
<1>7. u.panes = q
  BY <1>5 DEF TabRecords
<1>8. tabs' = [tabs EXCEPT ![activeTab] = u]
  BY <1>1, <1>2, <1>4, <1>5, Zenon DEF ToggleSplit
<1>9. /\ UNCHANGED <<activeTab, busy, windowVisible, warm, checkpointing, saved, components>>
      /\ nextPane <= MaxPanes /\ nextPane' = nextPane + 1
  BY DEF ToggleSplit, retention, surfaces
<1> QED
  BY <1>1, <1>3, <1>4, <1>6, <1>7, <1>8, <1>9, ActiveTabChanges

LEMMA FocusLeaves ==
  ASSUME UnmountInv, WarmInv', NEW p, FocusTabPane(p)
  PROVE  UnmountedSaved' /\ PanesOK'
<1>1. PICK a \in TabRecords : a = ActiveTab
  BY ActiveTabFacts
<1>2. PICK u : u = [a EXCEPT !.active = p]
  OBVIOUS
<1>3. u.id = a.id
  BY <1>2 DEF TabRecords
<1>4. u.panes = a.panes
  BY <1>2 DEF TabRecords
<1>5. tabs' = [tabs EXCEPT ![activeTab] = u]
  BY <1>1, <1>2 DEF FocusTabPane, ActiveTab
<1>6. /\ UNCHANGED <<activeTab, busy, windowVisible, warm, checkpointing, saved, components>>
      /\ nextPane' = nextPane
  BY DEF FocusTabPane, retention, surfaces
<1> QED
  BY <1>1, <1>3, <1>4, <1>5, <1>6, ActiveTabChanges

\* Nothing moves but sessions that begin, and dialogs.
LEMMA StillLeaves ==
  ASSUME UnmountInv, UNCHANGED <<model, windowVisible, warm, checkpointing, saved, components>>,
         busy \subseteq busy'
  PROVE  UnmountedSaved' /\ PanesOK'
<1>1. Leaves(NoTab)
  BY NobodyLeaves DEF model
<1>2. UnmountedSaved'
  BY <1>1, NoTabIsNone, SavedStay DEF UnmountInv, NoComponentComes
<1>3. PanesOK'
  BY PanesSame DEF UnmountInv, model
<1> QED
  BY <1>2, <1>3

\* Surfaces are detached, captures end and components come and go.
LEMMA DetachLeaves ==
  ASSUME UnmountInv, NEW left, NEW bridges, FinishTabCheckpoint(left, bridges),
         UNCHANGED <<model, windowVisible, warm>>,
         \A id \in TabIds : PanesOf(id) \cap busy' = PanesOf(id) \cap busy,
         DOMAIN components' = DOMAIN components,
         \A id \in TabIds : id \notin MountedTabs =>
            \A p \in PanesOf(id) : components'[p] # "none" => components[p] # "none"
  PROVE  UnmountedSaved' /\ PanesOK'
<1>1. TabIds' = TabIds /\ (\A id : PanesOf(id)' = PanesOf(id)) /\ ActiveTab.id' = ActiveTab.id
  BY SameTabs DEF model, ActiveTab
<1>2. ASSUME NEW id \in TabIds PROVE ShouldMountTab(id)' = ShouldMountTab(id)
  <2>1. HasActiveSession(id)' <=> HasActiveSession(id)
    BY <1>1 DEF HasActiveSession
  <2> QED
    BY <1>1, <2>1 DEF ShouldMountTab
<1>3. UnmountedSaved'
  BY <1>1, <1>2, FinishKeeps DEF UnmountInv
<1>4. PanesOK'
  BY PanesSame DEF UnmountInv, model
<1> QED
  BY <1>3, <1>4

LEMMA DisposeLeaves ==
  ASSUME UnmountInv, NEW p, DisposeRuntime(p)
  PROVE  UnmountedSaved' /\ PanesOK'
<1>1. /\ p \notin AllPanes /\ busy' = busy \ {p}
      /\ UNCHANGED <<model, windowVisible, warm, components>>
      /\ \E left, bridges : FinishTabCheckpoint(left, bridges)
  BY DEF DisposeRuntime, DetachSurface, retention
<1>2. ASSUME NEW id \in TabIds PROVE PanesOf(id) \cap busy' = PanesOf(id) \cap busy
  <2>1. PanesOf(id) \subseteq AllPanes
    BY DEF PanesOf, AllPanes
  <2> QED
    BY <1>1, <2>1
<1> QED
  BY <1>1, <1>2, DetachLeaves

LEMMA RenderLeaves ==
  ASSUME UnmountInv, Render
  PROVE  UnmountedSaved' /\ PanesOK'
<1>1. /\ UNCHANGED <<model, windowVisible, warm, busy>>
      /\ \E left, bridges : FinishTabCheckpoint(left, bridges)
      /\ DOMAIN components' = DOMAIN components
  BY DEF Render, DetachSurface, retention
<1>2. ASSUME NEW id \in TabIds, id \notin MountedTabs, NEW p \in PanesOf(id), components[p] = "none"
      PROVE  components'[p] = "none"
  <2>1. p \notin MountedPanes
    <3>1. ASSUME NEW jd \in MountedTabs, p \in PanesOf(jd) PROVE FALSE
      BY <1>2, <3>1, OneTabOfPane DEF UnmountInv, MountedTabs
    <3> QED
      BY <3>1 DEF MountedPanes
  <2>2. p \in DOMAIN components
    <3>1. PICK i \in 1..Len(tabs) : id = tabs[i].id /\ PanesOf(id) = Range(tabs[i].panes)
      BY PanesNow DEF UnmountInv
    <3>2. p \in Range(tabs[i].panes)
      BY <3>1
    <3> QED
      BY <3>2 DEF UnmountInv, PanesOK
  <2> DEFINE leaving == {q \in DOMAIN components : components[q] # "none"} \ MountedPanes
             coming == {q \in MountedPanes : components[q] = "none"}
  <2>3. p \notin leaving /\ p \notin coming
    BY <1>2, <2>1
  <2>4. components' = [q \in DOMAIN components |->
          CASE q \in leaving -> "none" [] q \in coming -> "loading" [] OTHER -> components[q]]
    BY DEF Render
  <2> HIDE DEF leaving, coming
  <2>5. components'[p] = components[p]
    BY <2>2, <2>3, <2>4
  <2> QED
    BY <1>2, <2>5
<1> QED
  BY <1>1, <1>2, DetachLeaves

LEMMA RecycleLeaves ==
  ASSUME UnmountInv, NEW p, RecyclePaneWebView(p)
  PROVE  UnmountedSaved' /\ PanesOK'
<1>1. /\ UNCHANGED <<model, windowVisible, warm, busy>>
      /\ \E left, bridges : FinishTabCheckpoint(left, bridges)
      /\ components' = [components EXCEPT ![p] = "none"]
  BY DEF RecyclePaneWebView, DetachSurface, retention
<1>2. DOMAIN components' = DOMAIN components
  BY <1>1
<1>3. ASSUME NEW id \in TabIds, NEW q \in PanesOf(id), components'[q] # "none"
      PROVE  components[q] # "none"
  <2>1. q \in DOMAIN components
    <3>1. PICK i \in 1..Len(tabs) : id = tabs[i].id /\ PanesOf(id) = Range(tabs[i].panes)
      BY PanesNow DEF UnmountInv
    <3>2. q \in Range(tabs[i].panes)
      BY <3>1
    <3> QED
      BY <3>2 DEF UnmountInv, PanesOK
  <2> QED
    BY <1>1, <1>3, <2>1
<1> QED
  BY <1>1, <1>2, <1>3, DetachLeaves

LEMMA PageEndsLeaves ==
  ASSUME UnmountInv, NEW p, PageEnds(p)
  PROVE  UnmountedSaved' /\ PanesOK'
<1>1. /\ UNCHANGED <<model, windowVisible, warm, busy, checkpointing, saved>>
      /\ components[p] = "loading" /\ components' = [components EXCEPT ![p] = "loaded"]
  BY DEF PageEnds, retention
<1>2. DOMAIN components' = DOMAIN components
  BY <1>1
<1>3. Leaves(NoTab)
  BY <1>1, NobodyLeaves DEF model
<1>4. NoComponentComes
  <2>1. ASSUME NEW q \in AllPanes PROVE q \in DOMAIN components
    BY DEF AllPanes, UnmountInv, WarmInv, TabsOK, PanesOK
  <2> QED
    BY <1>1, <2>1 DEF NoComponentComes
<1>5. UnmountedSaved'
  BY <1>1, <1>3, <1>4, NoTabIsNone, SavedStay DEF UnmountInv
<1>6. PanesOK'
  BY <1>1, <1>2, PanesSame DEF UnmountInv, model
<1> QED
  BY <1>5, <1>6

LEMMA UnmountStep ==
  ASSUME UnmountInv, [WorkspaceNext]_workspaceVars
  PROVE  UnmountInv'
<1>0. WarmInv'
  BY WorkspaceStep DEF UnmountInv
<1> SUFFICES UnmountedSaved' /\ PanesOK'
  BY <1>0 DEF UnmountInv
<1>1. ASSUME NEW i \in DOMAIN tabs, SelectTabAt(i) PROVE UnmountedSaved' /\ PanesOK'
  <2>1. tabs' = tabs /\ nextPane' = nextPane /\ components' = components
    BY <1>1 DEF SelectTabAt
  <2>2. PanesOK'
    BY <2>1, PanesSame DEF UnmountInv
  <2> QED
    BY <1>1, <2>2, SelectTabLeaves
<1>2. ASSUME NEW i \in DOMAIN tabs, RequestCloseTab(i) PROVE UnmountedSaved' /\ PanesOK'
  <2>1. CASE HasActiveSession(tabs[i].id)
    BY <1>2, <2>1, StillLeaves DEF RequestCloseTab, retention, surfaces
  <2>2. CASE ~HasActiveSession(tabs[i].id)
    <3>1. CloseTab(i) /\ Len(tabs) > 1 /\ windowVisible' = windowVisible /\ components' = components
      BY <1>2, <2>2 DEF RequestCloseTab
    <3> QED
      BY <1>0, <3>1, CloseTabLeaves, PanesCloseTab DEF UnmountInv
  <2> QED
    BY <2>1, <2>2
<1>3. CASE NewTab
  BY <1>0, <1>3, NewTabLeaves, PanesNewTab DEF UnmountInv
<1>4. CASE WarmTabTimeout
  <2>1. PanesOK'
    BY <1>4, PanesSame DEF WarmTabTimeout, model, UnmountInv
  <2> QED
    BY <1>4, <2>1, WarmTabTimeoutLeaves
<1>5. CASE ChangeVisibility
  <2>1. PanesOK'
    BY <1>5, PanesSame DEF ChangeVisibility, model, UnmountInv
  <2> QED
    BY <1>5, <2>1, ChangeVisibilityLeaves
<1>6. CASE ToggleSplit
  BY <1>0, <1>6, ToggleSplitLeaves
<1>7. CASE SessionBegins
  BY <1>7, StillLeaves DEF SessionBegins, retention, surfaces
<1>8. ActiveTab.active \in Range(ActiveTab.panes)
  BY DEF ActiveTab, UnmountInv, WarmInv, TabsOK
<1>9. CASE RequestCloseActivePane
  <2>1. CASE ActiveTab.active \in busy
    BY <1>9, <2>1, StillLeaves DEF RequestCloseActivePane, retention, surfaces
  <2>2. CASE ActiveTab.active \notin busy
    <3>1. ClosePane(ActiveTab.active) /\ windowVisible' = windowVisible /\ components' = components
      BY <1>9, <2>2 DEF RequestCloseActivePane
    <3> QED
      BY <1>0, <2>2, <3>1, ActivePane, ClosePaneLeaves DEF UnmountInv
  <2> QED
    BY <2>1, <2>2
<1>10. CASE Confirm
  <2>1. windowVisible' = windowVisible /\ components' = components
    BY <1>10 DEF Confirm
  <2>2. CASE dialog.closes = "pane"
    <3>1. ClosePane(ActiveTab.active)
      BY <1>10, <2>2 DEF Confirm
    <3> QED
      BY <1>0, <1>8, <2>1, <3>1, ActivePane, ClosePaneLeaves DEF UnmountInv
  <2>3. CASE dialog.closes # "pane"
    <3>1. PICK i \in DOMAIN tabs : Len(tabs) > 1 /\ CloseTab(i)
      BY <1>10, <2>3 DEF Confirm
    <3> QED
      BY <1>0, <2>1, <3>1, CloseTabLeaves, PanesCloseTab DEF UnmountInv
  <2> QED
    BY <2>2, <2>3
<1>11. CASE Cancel
  BY <1>11, StillLeaves DEF Cancel, retention, surfaces
<1>12. CASE Render
  BY <1>12, RenderLeaves
<1>13. ASSUME NEW c \in captures, CaptureEnds(c) PROVE UnmountedSaved' /\ PanesOK'
  <2>1. /\ UNCHANGED <<model, windowVisible, warm, busy, components>>
        /\ \E left, bridges : FinishTabCheckpoint(left, bridges)
    BY <1>13 DEF CaptureEnds, retention
  <2> QED
    BY <2>1, DetachLeaves
<1>14. ASSUME NEW p \in 1..MaxPanes, FocusTabPane(p) PROVE UnmountedSaved' /\ PanesOK'
  BY <1>0, <1>14, FocusLeaves
<1>15. ASSUME NEW p \in 1..MaxPanes, SessionEnds(p) PROVE UnmountedSaved' /\ PanesOK'
  <2>1. PanesOK'
    BY <1>15, PanesSame DEF SessionEnds, model, UnmountInv
  <2> QED
    BY <1>15, <2>1, SessionEndsLeaves
<1>16. ASSUME NEW p \in 1..MaxPanes, LocalExit(p) PROVE UnmountedSaved' /\ PanesOK'
  <2>1. /\ \E i \in DOMAIN tabs : p \in Range(tabs[i].panes)
        /\ ClosePane(p) /\ p \notin busy
        /\ windowVisible' = windowVisible /\ components' = components
    BY <1>16 DEF LocalExit, AllPanes
  <2> QED
    BY <1>0, <2>1, ClosePaneLeaves
<1>17. ASSUME NEW p \in 1..MaxPanes, DisposeRuntime(p) PROVE UnmountedSaved' /\ PanesOK'
  BY <1>17, DisposeLeaves
<1>18. ASSUME NEW p \in 1..MaxPanes, PageEnds(p) PROVE UnmountedSaved' /\ PanesOK'
  BY <1>18, PageEndsLeaves
<1>19. ASSUME NEW p \in 1..MaxPanes, RecyclePaneWebView(p) PROVE UnmountedSaved' /\ PanesOK'
  BY <1>19, RecycleLeaves
<1>20. CASE UNCHANGED workspaceVars
  BY <1>20, StillLeaves DEF workspaceVars, retention, surfaces
<1> QED
  BY <1>1, <1>2, <1>3, <1>4, <1>5, <1>6, <1>7, <1>9, <1>10, <1>11, <1>12, <1>13, <1>14,
     <1>15, <1>16, <1>17, <1>18, <1>19, <1>20 DEF WorkspaceNext

LEMMA UnmountStart ==
  ASSUME WorkspaceInit
  PROVE  UnmountInv
<1>1. WarmInv
  BY WorkspaceStart
<1>2. Len(tabs) = 1 /\ nextPane = 2 /\ \A p : p \in Range(tabs[1].panes) => p = 1
  <2>1. PICK t : t = Tab(1, 1)
    OBVIOUS
  <2>2. t.panes = <<1>> /\ tabs = <<t>>
    BY <2>1 DEF Tab, WorkspaceInit
  <2>3. \A p : p \in Range(<<1>>) => p = 1
    BY DEF Range
  <2>4. tabs[1] = t /\ Len(tabs) = 1
    BY <2>2
  <2> QED
    BY <2>2, <2>3, <2>4 DEF WorkspaceInit
<1>3. PanesOK
  <2>1. 1..Len(tabs) = {1} /\ MaxPanes \in Nat \ {0}
    BY <1>2, WorkspaceAssumption
  <2>2. DOMAIN components = 1..MaxPanes
    BY DEF WorkspaceInit
  <2> QED
    BY <1>2, <2>1, <2>2 DEF PanesOK
<1>4. ASSUME NEW id \in TabIds, NEW p \in PanesOf(id) PROVE components[p] = "none"
  <2>1. PICK i \in 1..Len(tabs) : id = tabs[i].id /\ PanesOf(id) = Range(tabs[i].panes)
    BY <1>1, PanesNow
  <2>2. p \in Range(tabs[i].panes)
    BY <2>1
  <2>3. p \in 1..MaxPanes
    BY <1>3, <2>2 DEF PanesOK
  <2> QED
    BY <2>3 DEF WorkspaceInit
<1> QED
  BY <1>1, <1>3, <1>4 DEF UnmountInv, UnmountedSaved

\* Components go when the page is drawn or a lost renderer is recycled.
LEMMA ComponentsGo ==
  ASSUME UnmountInv, [WorkspaceNext]_workspaceVars, NEW id \in TabIds, id \notin MountedTabs,
         NEW p \in PanesOf(id), components[p] # "none", components'[p] = "none"
  PROVE  id \in saved'
<1>1. id \in saved
  BY DEF UnmountInv, UnmountedSaved
<1>2. ~HasActiveSession(id) /\ id # ActiveTab.id
  BY DEF MountedTabs, ShouldMountTab
<1>3. ASSUME UNCHANGED <<model, busy>>, NEW left, NEW bridges, FinishTabCheckpoint(left, bridges)
      PROVE  id \in saved'
  <2>1. HasActiveSession(id)' = HasActiveSession(id) /\ ActiveTab.id' = ActiveTab.id
    BY <1>3, SameSessions DEF model, ActiveTab
  <2> QED
    BY <1>1, <1>2, <1>3, <2>1 DEF FinishTabCheckpoint
<1>4. components' # components
  OBVIOUS
<1>5. CASE Render
  BY <1>3, <1>5 DEF Render, DetachSurface
<1>6. CASE \E q \in 1..MaxPanes : RecyclePaneWebView(q)
  BY <1>3, <1>6 DEF RecyclePaneWebView, DetachSurface
<1>7. ASSUME NEW q \in 1..MaxPanes, PageEnds(q) PROVE FALSE
  <2>1. /\ components' = [components EXCEPT ![q] = "loaded"]
    BY <1>7 DEF PageEnds
  <2>2. p \in DOMAIN components
    <3>1. PICK i \in 1..Len(tabs) : id = tabs[i].id /\ PanesOf(id) = Range(tabs[i].panes)
      BY PanesNow DEF UnmountInv
    <3>2. p \in Range(tabs[i].panes)
      BY <3>1
    <3> QED
      BY <3>2 DEF UnmountInv, PanesOK
  <2> QED
    BY <2>1, <2>2
<1>8. Render \/ (\E q \in 1..MaxPanes : PageEnds(q) \/ RecyclePaneWebView(q)) \/ components' = components
  <2>1. ASSUME NEW i \in DOMAIN tabs, SelectTabAt(i) \/ RequestCloseTab(i) PROVE components' = components
    BY <2>1 DEF SelectTabAt, RequestCloseTab
  <2>2. CASE NewTab \/ WarmTabTimeout \/ ChangeVisibility \/ ToggleSplit
    BY <2>2 DEF NewTab, WarmTabTimeout, ChangeVisibility, ToggleSplit
  <2>3. CASE SessionBegins \/ RequestCloseActivePane \/ Confirm \/ Cancel
    BY <2>3 DEF SessionBegins, RequestCloseActivePane, Confirm, Cancel
  <2>4. ASSUME NEW c \in captures, CaptureEnds(c) PROVE components' = components
    BY <2>4 DEF CaptureEnds
  <2>5. ASSUME NEW q \in 1..MaxPanes, FocusTabPane(q) \/ SessionEnds(q) \/ LocalExit(q) \/ DisposeRuntime(q)
        PROVE  components' = components
    BY <2>5 DEF FocusTabPane, SessionEnds, LocalExit, DisposeRuntime
  <2>6. CASE UNCHANGED workspaceVars
    BY <2>6 DEF workspaceVars
  <2> QED
    BY <2>1, <2>2, <2>3, <2>4, <2>5, <2>6 DEF WorkspaceNext
<1> QED
  BY <1>4, <1>5, <1>6, <1>7, <1>8

(* In every instance a tab that is still there loses its pages only after a checkpoint, however    *)
(* tabs are left and returned to and sessions end meanwhile (checkpointAndDestroyTabBridge).       *)
THEOREM PagesGoAfterCheckpoint == WorkspaceSpec => CheckpointBeforeUnmount
<1>1. WorkspaceInit => UnmountInv
  BY UnmountStart
<1>2. UnmountInv /\ [WorkspaceNext]_workspaceVars => UnmountInv'
  BY UnmountStep
<1>3. UnmountInv /\ [WorkspaceNext]_workspaceVars =>
        [\A id \in TabIds :
           (\E p \in PanesOf(id) : components[p] # "none" /\ components'[p] = "none" /\ id \notin MountedTabs)
             => id \in saved']_workspaceVars
  BY ComponentsGo
<1> QED
  BY <1>1, <1>2, <1>3, PTL DEF WorkspaceSpec, CheckpointBeforeUnmount

-----------------------------------------------------------------------------
(* Types.                                                                  *)

SurfaceTypes ==
  /\ checkpointing \subseteq 1..MaxTabs /\ saved \subseteq 1..MaxTabs
  /\ captures \subseteq [tab : checkpointing, pane : 1..MaxPanes]
  /\ attached \subseteq 1..MaxPanes

\* What the types rest on: the numbers of the tabs and panes that are there have been given out.
WorkspaceTypes ==
  /\ UnmountInv
  /\ nextTab \in 1..(MaxTabs + 1)
  /\ SurfaceTypes
  /\ busy \subseteq 1..MaxPanes
  /\ components \in [1..MaxPanes -> {"none", "loading", "loaded"}]

LEMMA Numbers == MaxTabs \in Nat \ {0} /\ MaxPanes \in Nat \ {0}
BY WorkspaceAssumption

LEMMA TabsNumbered ==
  ASSUME WorkspaceTypes
  PROVE  TabIds \subseteq 1..MaxTabs /\ ActiveTab.active \in 1..MaxPanes
<1>1. \A i \in 1..Len(tabs) : tabs[i].id \in 1..(nextTab - 1)
  BY DEF WorkspaceTypes, UnmountInv, WarmInv, TabsOK
<1>2. DOMAIN tabs = 1..Len(tabs) /\ activeTab \in 1..Len(tabs)
  BY DEF WorkspaceTypes, UnmountInv, WarmInv, TabsOK
<1>3. nextTab \in 1..(MaxTabs + 1) /\ MaxTabs \in Nat
  BY Numbers DEF WorkspaceTypes
<1>4. TabIds \subseteq 1..MaxTabs
  BY <1>1, <1>2, <1>3 DEF TabIds
<1>5. tabs[activeTab].active \in Range(tabs[activeTab].panes)
  BY <1>2 DEF WorkspaceTypes, UnmountInv, WarmInv, TabsOK
<1>6. tabs[activeTab].active \in 1..MaxPanes
  BY <1>2, <1>5 DEF WorkspaceTypes, UnmountInv, PanesOK
<1> QED
  BY <1>4, <1>6 DEF ActiveTab

LEMMA CheckpointTypes ==
  ASSUME SurfaceTypes, TabIds \subseteq 1..MaxTabs, NEW e, CheckpointTab(e)
  PROVE  SurfaceTypes'
<1> DEFINE wanted == {[tab |-> e, pane |-> p] : p \in PanesOf(e) \cap attached}
           begins == e \in TabIds /\ ~HasActiveSession(e)' /\ e \notin checkpointing
<1>1. attached' = attached
  BY DEF CheckpointTab
<1>2. saved' \subseteq saved \cup {e} /\ (e \notin TabIds => saved' \subseteq saved)
  BY DEF CheckpointTab
<1>3. saved' \subseteq 1..MaxTabs
  BY <1>2 DEF SurfaceTypes
<1>4. CASE begins /\ wanted # {}
  <2>1. checkpointing' = checkpointing \cup {e} /\ captures' = captures \cup wanted
    BY <1>4 DEF CheckpointTab
  <2>2. e \in 1..MaxTabs
    BY <1>4
  <2>3. ASSUME NEW c \in captures' PROVE c \in [tab : checkpointing', pane : 1..MaxPanes]
    <3>1. CASE c \in captures
      <4>1. PICK t \in checkpointing, p \in 1..MaxPanes : c = [tab |-> t, pane |-> p]
        BY <3>1 DEF SurfaceTypes
      <4> QED
        BY <2>1, <4>1
    <3>2. CASE c \in wanted
      <4>1. PICK p \in attached : c = [tab |-> e, pane |-> p]
        BY <3>2
      <4> QED
        BY <2>1, <4>1 DEF SurfaceTypes
    <3> QED
      BY <2>1, <3>1, <3>2
  <2> QED
    BY <1>1, <1>3, <2>1, <2>2, <2>3 DEF SurfaceTypes
<1>5. CASE ~(begins /\ wanted # {})
  <2>1. checkpointing' = checkpointing /\ captures' = captures
    <3>1. CASE ~begins
      BY <3>1 DEF CheckpointTab
    <3>2. CASE begins /\ wanted = {}
      BY <3>2 DEF CheckpointTab
    <3> QED
      BY <1>5, <3>1, <3>2
  <2> QED
    BY <1>1, <1>3, <2>1 DEF SurfaceTypes
<1> QED
  BY <1>4, <1>5

\* A checkpoint is under way as long as it waits for a capture.
LEMMA FinishTypes ==
  ASSUME SurfaceTypes, NEW left, NEW bridges, left \subseteq captures, bridges \subseteq 1..MaxPanes,
         FinishTabCheckpoint(left, bridges)
  PROVE  SurfaceTypes'
<1> DEFINE done == {id \in checkpointing : \A c \in left : c.tab # id}
<1>1. captures' = left /\ checkpointing' = checkpointing \ done
      /\ attached' \subseteq bridges /\ saved' \subseteq saved \cup done
  BY DEF FinishTabCheckpoint
<1>2. ASSUME NEW c \in captures' PROVE c \in [tab : checkpointing', pane : 1..MaxPanes]
  <2>1. c \in left
    BY <1>1
  <2>2. PICK t \in checkpointing, p \in 1..MaxPanes : c = [tab |-> t, pane |-> p]
    BY <2>1 DEF SurfaceTypes
  <2>3. c.tab = t /\ t \notin done
    BY <2>1, <2>2
  <2> QED
    BY <1>1, <2>2, <2>3
<1> QED
  BY <1>1, <1>2 DEF SurfaceTypes

\* A step that leaves the components, gives no number out and begins no session of another pane.
LEMMA TypesKept ==
  ASSUME WorkspaceTypes, UnmountInv', nextTab' \in 1..(MaxTabs + 1), components' = components,
         busy' \subseteq 1..MaxPanes,
         \/ \E e : CheckpointTab(e)
         \/ UNCHANGED surfaces
         \/ \E left, bridges : /\ left \subseteq captures /\ bridges \subseteq 1..MaxPanes
                               /\ FinishTabCheckpoint(left, bridges)
  PROVE  WorkspaceTypes'
<1>1. SurfaceTypes'
  <2>1. CASE \E e : CheckpointTab(e)
    BY <2>1, CheckpointTypes, TabsNumbered DEF WorkspaceTypes
  <2>2. CASE UNCHANGED surfaces
    BY <2>2 DEF surfaces, WorkspaceTypes, SurfaceTypes
  <2>3. CASE \E left, bridges : /\ left \subseteq captures /\ bridges \subseteq 1..MaxPanes
                               /\ FinishTabCheckpoint(left, bridges)
    BY <2>3, FinishTypes DEF WorkspaceTypes
  <2> QED
    BY <2>1, <2>2, <2>3
<1> QED
  BY <1>1 DEF WorkspaceTypes

LEMMA DetachTypes ==
  ASSUME WorkspaceTypes, NEW panes, DetachSurface(panes)
  PROVE  \E left, bridges : /\ left \subseteq captures /\ bridges \subseteq 1..MaxPanes
                            /\ FinishTabCheckpoint(left, bridges)
<1>1. {c \in captures : c.pane \notin panes} \subseteq captures
  OBVIOUS
<1>2. attached \ panes \subseteq 1..MaxPanes
  BY DEF WorkspaceTypes, SurfaceTypes
<1> QED
  BY <1>1, <1>2 DEF DetachSurface

LEMMA ClosePaneTypes ==
  ASSUME NEW p, ClosePane(p)
  PROVE  nextTab' = nextTab /\ busy' = busy /\ \E e : CheckpointTab(e)
<1>1. ASSUME NEW i, CloseTab(i)
      PROVE  nextTab' = nextTab /\ busy' = busy /\ \E e : CheckpointTab(e)
  BY <1>1 DEF CloseTab, NoCheckpoint
<1>2. CASE Len(tabs[TabIndexOf(p)].panes) = 1
  BY <1>1, <1>2 DEF ClosePane
<1>3. CASE Len(tabs[TabIndexOf(p)].panes) # 1
  BY <1>3 DEF ClosePane, NoCheckpoint
<1> QED
  BY <1>2, <1>3

LEMMA WorkspaceTypesStep ==
  ASSUME WorkspaceTypes, [WorkspaceNext]_workspaceVars
  PROVE  WorkspaceTypes'
<1>1. UnmountInv'
  BY UnmountStep DEF WorkspaceTypes
<1>2. /\ nextTab \in 1..(MaxTabs + 1) /\ MaxTabs \in Nat \ {0} /\ busy \subseteq 1..MaxPanes
      /\ attached \subseteq 1..MaxPanes
      /\ components \in [1..MaxPanes -> {"none", "loading", "loaded"}]
  BY Numbers DEF WorkspaceTypes, SurfaceTypes
<1>3. ASSUME nextTab' = nextTab, components' = components, busy' \subseteq busy,
             \/ \E e : CheckpointTab(e)
             \/ UNCHANGED surfaces
             \/ \E left, bridges : /\ left \subseteq captures /\ bridges \subseteq 1..MaxPanes
                                   /\ FinishTabCheckpoint(left, bridges)
      PROVE  WorkspaceTypes'
  BY <1>1, <1>2, <1>3, TypesKept
<1>4. ASSUME NEW p, ClosePane(p), components' = components PROVE WorkspaceTypes'
  BY <1>3, <1>4, ClosePaneTypes
<1>5. ASSUME NEW i, CloseTab(i), components' = components PROVE WorkspaceTypes'
  BY <1>3, <1>5 DEF CloseTab, NoCheckpoint
<1>6. ASSUME NEW i \in DOMAIN tabs, SelectTabAt(i) PROVE WorkspaceTypes'
  <2>1. \E e : CheckpointTab(e)
    BY <1>6 DEF SelectTabAt, DeactivateActiveTab
  <2> QED
    BY <1>3, <1>6, <2>1 DEF SelectTabAt
<1>7. ASSUME NEW i \in DOMAIN tabs, RequestCloseTab(i) PROVE WorkspaceTypes'
  <2>1. CASE HasActiveSession(tabs[i].id)
    BY <1>3, <1>7, <2>1 DEF RequestCloseTab, model
  <2>2. CASE ~HasActiveSession(tabs[i].id)
    BY <1>5, <1>7, <2>2 DEF RequestCloseTab
  <2> QED
    BY <2>1, <2>2
<1>8. CASE NewTab
  <2>1. nextTab' \in 1..(MaxTabs + 1) /\ busy' = busy /\ components' = components
    BY <1>2, <1>8 DEF NewTab
  <2>2. \E e : CheckpointTab(e)
    BY <1>8 DEF NewTab, DeactivateActiveTab
  <2> QED
    BY <1>1, <1>2, <2>1, <2>2, TypesKept
<1>9. CASE WarmTabTimeout
  <2>1. \E e : CheckpointTab(e)
    BY <1>9 DEF WarmTabTimeout
  <2> QED
    BY <1>3, <1>9, <2>1 DEF WarmTabTimeout, model
<1>10. CASE ChangeVisibility
  <2>1. \E e : CheckpointTab(e)
    BY <1>10 DEF ChangeVisibility, NoCheckpoint
  <2> QED
    BY <1>3, <1>10, <2>1 DEF ChangeVisibility, model
<1>11. CASE ToggleSplit
  BY <1>3, <1>11 DEF ToggleSplit
<1>12. CASE SessionBegins
  <2>1. busy' \subseteq 1..MaxPanes
    BY <1>2, <1>12, TabsNumbered DEF SessionBegins
  <2>2. nextTab' = nextTab /\ components' = components /\ UNCHANGED surfaces
    BY <1>12 DEF SessionBegins, model
  <2> QED
    BY <1>1, <1>2, <2>1, <2>2, TypesKept
<1>13. CASE RequestCloseActivePane
  <2>1. CASE ActiveTab.active \in busy
    BY <1>3, <1>13, <2>1 DEF RequestCloseActivePane, model
  <2>2. CASE ActiveTab.active \notin busy
    BY <1>4, <1>13, <2>2 DEF RequestCloseActivePane
  <2> QED
    BY <2>1, <2>2
<1>14. CASE Confirm
  <2>1. CASE dialog.closes = "pane"
    BY <1>4, <1>14, <2>1 DEF Confirm
  <2>2. CASE dialog.closes # "pane"
    BY <1>5, <1>14, <2>2 DEF Confirm
  <2> QED
    BY <2>1, <2>2
<1>15. CASE Cancel
  BY <1>3, <1>15 DEF Cancel, model
<1>16. ASSUME NEW c \in captures, CaptureEnds(c) PROVE WorkspaceTypes'
  <2>1. FinishTabCheckpoint(captures \ {c}, attached) /\ captures \ {c} \subseteq captures
    BY <1>16 DEF CaptureEnds
  <2>2. nextTab' = nextTab /\ components' = components /\ busy' = busy
    BY <1>16 DEF CaptureEnds, model
  <2> QED
    BY <1>2, <1>3, <2>1, <2>2
<1>17. ASSUME NEW p \in 1..MaxPanes, FocusTabPane(p) PROVE WorkspaceTypes'
  BY <1>3, <1>17 DEF FocusTabPane
<1>18. ASSUME NEW p \in 1..MaxPanes, SessionEnds(p) PROVE WorkspaceTypes'
  <2>1. \E e : CheckpointTab(e)
    BY <1>18 DEF SessionEnds, NoCheckpoint
  <2>2. nextTab' = nextTab /\ components' = components /\ busy' \subseteq busy
    BY <1>18 DEF SessionEnds, model
  <2> QED
    BY <1>3, <2>1, <2>2
<1>19. ASSUME NEW p \in 1..MaxPanes, LocalExit(p) PROVE WorkspaceTypes'
  BY <1>4, <1>19 DEF LocalExit
<1>20. ASSUME NEW p \in 1..MaxPanes, DisposeRuntime(p) PROVE WorkspaceTypes'
  <2>1. nextTab' = nextTab /\ components' = components /\ busy' \subseteq busy /\ DetachSurface({p})
    BY <1>20 DEF DisposeRuntime, model
  <2> QED
    BY <1>3, <2>1, DetachTypes
<1>21. ASSUME NEW panes, DetachSurface(panes), UNCHANGED <<model, busy>>,
              components' \in [1..MaxPanes -> {"none", "loading", "loaded"}]
       PROVE  WorkspaceTypes'
  <2>1. SurfaceTypes'
    BY <1>21, DetachTypes, FinishTypes DEF WorkspaceTypes
  <2>2. nextTab' = nextTab /\ busy' = busy
    BY <1>21 DEF model
  <2> QED
    BY <1>1, <1>2, <1>21, <2>1, <2>2 DEF WorkspaceTypes
<1>22. CASE Render
  <2>1. components' \in [1..MaxPanes -> {"none", "loading", "loaded"}]
    BY <1>2, <1>22 DEF Render
  <2> QED
    BY <1>21, <1>22, <2>1 DEF Render
<1>23. ASSUME NEW p \in 1..MaxPanes, PageEnds(p) PROVE WorkspaceTypes'
  <2>1. /\ components' \in [1..MaxPanes -> {"none", "loading", "loaded"}]
        /\ attached' \subseteq 1..MaxPanes
        /\ UNCHANGED <<nextTab, busy, checkpointing, captures, saved>>
    BY <1>2, <1>23 DEF PageEnds, model
  <2> QED
    BY <1>1, <1>2, <2>1 DEF WorkspaceTypes, SurfaceTypes
<1>24. ASSUME NEW p \in 1..MaxPanes, RecyclePaneWebView(p) PROVE WorkspaceTypes'
  <2>1. components' \in [1..MaxPanes -> {"none", "loading", "loaded"}]
    BY <1>2, <1>24 DEF RecyclePaneWebView
  <2> QED
    BY <1>21, <1>24, <2>1 DEF RecyclePaneWebView
<1>25. CASE UNCHANGED workspaceVars
  BY <1>3, <1>25 DEF workspaceVars, model
<1> QED
  BY <1>6, <1>7, <1>8, <1>9, <1>10, <1>11, <1>12, <1>13, <1>14, <1>15, <1>16, <1>17, <1>18,
     <1>19, <1>20, <1>22, <1>23, <1>24, <1>25 DEF WorkspaceNext

(* Every tab, pane, capture and bridge is one that was given out, for every number of tabs, panes *)
(* and sessions; a checkpoint is under way as long as a capture of it is (checkpointingTabIds).    *)
THEOREM WorkspaceTypesAlways == WorkspaceSpec => []WorkspaceTypeOK
<1>1. WorkspaceInit => WorkspaceTypes
  <2> SUFFICES ASSUME WorkspaceInit PROVE WorkspaceTypes
    OBVIOUS
  <2>1. UnmountInv
    BY UnmountStart
  <2>2. SurfaceTypes
    BY DEF WorkspaceInit, SurfaceTypes
  <2>3. nextTab \in 1..(MaxTabs + 1) /\ busy \subseteq 1..MaxPanes
    BY Numbers DEF WorkspaceInit
  <2>4. components \in [1..MaxPanes -> {"none", "loading", "loaded"}]
    BY DEF WorkspaceInit
  <2> QED
    BY <2>1, <2>2, <2>3, <2>4 DEF WorkspaceTypes
<1>2. WorkspaceTypes /\ [WorkspaceNext]_workspaceVars => WorkspaceTypes'
  BY WorkspaceTypesStep
<1>3. WorkspaceTypes => WorkspaceTypeOK
  <2> SUFFICES ASSUME WorkspaceTypes PROVE WorkspaceTypeOK
    OBVIOUS
  <2>1. /\ activeTab \in 1..Len(tabs) /\ DOMAIN tabs = 1..Len(tabs) /\ nextTab \in 1..(MaxTabs + 1)
        /\ MaxTabs \in Nat \ {0}
    BY Numbers DEF WorkspaceTypes, UnmountInv, WarmInv, TabsOK
  <2>2. ASSUME NEW t \in Range(tabs)
        PROVE  t.id \in 1..MaxTabs /\ t.active \in Range(t.panes) /\ Len(t.panes) \in 1..2
    <3>1. PICK i \in 1..Len(tabs) : t = tabs[i]
      BY <2>1 DEF Range
    <3> QED
      BY <2>1, <3>1 DEF WorkspaceTypes, UnmountInv, WarmInv, TabsOK
  <2>3. warm \in 0..MaxTabs /\ warmTimer \in 0..MaxTabs
    <3>1. TabIds \subseteq 1..MaxTabs
      BY TabsNumbered
    <3>2. WarmTabExpires
      BY DEF WorkspaceTypes, UnmountInv, WarmInv
    <3>3. warm = 0 \/ warm \in TabIds
      BY <3>2 DEF WarmTabExpires, NoTab
    <3>4. warmTimer = 0 \/ warmTimer = warm
      BY <3>2 DEF WarmTabExpires, NoTab
    <3>5. warm \in 0..MaxTabs
      <4>1. 0 \in 0..MaxTabs /\ 1..MaxTabs \subseteq 0..MaxTabs
        BY <2>1
      <4> QED
        BY <3>1, <3>3, <4>1, Zenon
    <3> QED
      <4>1. 0 \in 0..MaxTabs
        BY <2>1
      <4> QED
        BY <3>4, <3>5, <4>1, Zenon
  <2> QED
    BY <2>1, <2>2, <2>3 DEF WorkspaceTypes, SurfaceTypes, WorkspaceTypeOK
<1> QED
  BY <1>1, <1>2, <1>3, PTL DEF WorkspaceSpec

-----------------------------------------------------------------------------
(* The parts of the application in one run.                                *)

\* A step of the whole is a step of one part and leaves the variables of the others.
LEMMA DesktopPartsStep ==
  ASSUME [DesktopNext]_desktopVars
  PROVE  /\ [SearchNext]_searchVars /\ [LinkNext]_linkVars /\ [WheelNext]_wheelVars
         /\ [ReplyNext]_replyVars /\ [BellNext]_bellVars /\ [WorkspaceNext]_workspaceVars
         /\ [StateNext]_stateVars /\ [BuildNext]_buildVars /\ UNCHANGED part
BY DEF DesktopNext, desktopVars

(* The parts do not disturb each other: what the run does is, of each part, what that part does  *)
(* alone, whatever the constants are.                                                           *)
THEOREM PartsAreIndependent ==
  DesktopSpec => /\ SearchSpec /\ LinkSpec /\ WheelSpec /\ ReplySpec
                 /\ BellSpec /\ WorkspaceSpec /\ StateSpec /\ BuildSpec
<1>1. DesktopInit => /\ SearchInit /\ LinkInit /\ WheelInit /\ ReplyInit
                     /\ BellInit /\ WorkspaceInit /\ StateInit /\ BuildInit
  BY DEF DesktopInit
<1>2. [DesktopNext]_desktopVars =>
        /\ [SearchNext]_searchVars /\ [LinkNext]_linkVars /\ [WheelNext]_wheelVars
        /\ [ReplyNext]_replyVars /\ [BellNext]_bellVars /\ [WorkspaceNext]_workspaceVars
        /\ [StateNext]_stateVars /\ [BuildNext]_buildVars
  BY DesktopPartsStep
<1> QED
  BY <1>1, <1>2, PTL DEF DesktopSpec, SearchSpec, LinkSpec, WheelSpec, ReplySpec, BellSpec,
     WorkspaceSpec, StateSpec, BuildSpec

(* Every variable of every part has its type, for all values of the parts' constants. *)
THEOREM DesktopTypes == DesktopSpec => []AppTypeOK
<1>1. DesktopInit => part \in Parts
  BY DEF DesktopInit
<1>2. part \in Parts /\ [DesktopNext]_desktopVars => (part \in Parts)'
  BY DesktopPartsStep DEF Parts
<1>3. DesktopSpec => [](part \in Parts)
  BY <1>1, <1>2, PTL DEF DesktopSpec
<1>4. DesktopSpec => /\ []SearchTypeOK /\ []LinkTypeOK /\ []WheelTypeOK /\ []BellTypeOK
                     /\ []WorkspaceTypeOK /\ []StateTypeOK
  BY PartsAreIndependent, SearchTypesAlways, LinkTypesAlways, WheelTypesAlways, BellTypesAlways,
     WorkspaceTypesAlways, StateTypesHold
<1>5. SearchTypeOK /\ LinkTypeOK /\ WheelTypeOK /\ BellTypeOK /\ WorkspaceTypeOK /\ StateTypeOK
        /\ part \in Parts => AppTypeOK
  BY DEF AppTypeOK
<1> QED
  BY <1>3, <1>4, <1>5, PTL
=============================================================================
