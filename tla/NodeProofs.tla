----------------------------- MODULE NodeProofs -----------------------------
(* Proofs about the table, the drawer and the dialog that adds a node, for  *)
(* any nodes, panes, hosts, forms and number of requests in flight: what is *)
(* said of an upgrade is so, the screen is of one node, a write reaches the *)
(* node whose row the user saw, and the fingerprint an installation pins is *)
(* that of its host. With the proofs about the other parts, they hold of    *)
(* the whole page, MCNodes.                                                 *)
EXTENDS MCNodes, TerminalProofs, TokenProofs, SwapProofs, TLAPS

-----------------------------------------------------------------------------
(* The drawer *)


\* Until an answer comes late, every form is of the node in the title, and so
\* is every pane or its rows are still being asked for.
PanesFollow ==
  ~late => /\ forms = cur
           /\ \A p \in Panes : pane[p] \in {cur, None} \/ Read(p, cur) \in calls

\* A dialog opened on a settled screen is about a row of the node in the title,
\* and nothing that is read since can change that node.
DialogHolds ==
  dlg.sure => /\ dlg.row = cur
              /\ \A c \in calls : c.op \in ReadOps => c.node = cur

\* A dialog's record; a question is asked in a dialog or by itself.
DialogOK(d) ==
  /\ d = [kind |-> d.kind, row |-> d.row, asking |-> d.asking, sure |-> d.sure]
  /\ d.kind \in DrawerDialogs \cup AskedAtOnce \cup {"none"}
  /\ d.asking => d.kind # "none"

DrawerInv ==
  /\ late \in BOOLEAN /\ DialogOK(dlg)
  /\ pane = [p \in Panes |-> pane[p]]
  /\ PanesFollow
  /\ DialogHolds
  /\ WriteGoesWhereListed

LEMMA ReadFields ==
  ASSUME NEW op, NEW n
  PROVE  Read(op, n).op = op /\ Read(op, n).node = n /\ Read(op, n).row = n
BY DEF Read

LEMMA WriteFields ==
  ASSUME NEW k, NEW n, NEW r, NEW s
  PROVE  /\ Write(k, n, r, s).op = k /\ Write(k, n, r, s).node = n
         /\ Write(k, n, r, s).row = r /\ Write(k, n, r, s).sure = s
BY DEF Write

LEMMA ClosedDialog == ~NoDlg.sure /\ DialogOK(NoDlg)
BY DEF NoDlg, DialogOK

LEMMA AskingDialog ==
  ASSUME NEW d, DialogOK(d), d.kind # "none", NEW b \in BOOLEAN
  PROVE  /\ DialogOK([d EXCEPT !.asking = b])
         /\ [d EXCEPT !.asking = b].sure = d.sure /\ [d EXCEPT !.asking = b].row = d.row
<1> DEFINE kind == d.kind
           row  == d.row
           sure == d.sure
           ask  == d.asking
<1>1. d = [kind |-> kind, row |-> row, asking |-> ask, sure |-> sure]
  BY DEF DialogOK
<1>2. kind # "none" /\ kind \in DrawerDialogs \cup AskedAtOnce \cup {"none"}
  BY DEF DialogOK
<1>3. row = d.row /\ sure = d.sure
  OBVIOUS
<1> HIDE DEF kind, row, sure, ask
<1>4. [d EXCEPT !.asking = b] = [kind |-> kind, row |-> row, asking |-> b, sure |-> sure]
  BY <1>1
<1>5. QED
  BY <1>2, <1>3, <1>4 DEF DialogOK

LEMMA WritesAreNoReads ==
  \A k \in DOMAIN PaneOf \cup FormWrites : k \notin ReadOps
BY DrawerAssumption DEF PaneOf, StorageWrites, StorageDialogs, FwWrites, FormWrites, ReadOps

\* A request that is added for the node in the title, reading or not, while the
\* screen stays as it is.
LEMMA AddedRead ==
  ASSUME DrawerInv, NEW op, calls' \subseteq calls \cup {Read(op, cur)}, calls \subseteq calls',
         UNCHANGED <<cur, forms, pane, late>>, dlg' \in {dlg, NoDlg}
  PROVE  DrawerInv'
<1> DEFINE x == Read(op, cur)
<1>1. x.node = cur /\ x.row = cur
  BY ReadFields
<1>2. PanesFollow'
  BY DEF DrawerInv, PanesFollow
<1> HIDE DEF x
<1>3. calls' \subseteq calls \cup {x}
  BY DEF x
<1>4. DialogHolds'
  BY <1>1, <1>3, ClosedDialog DEF DrawerInv, DialogHolds
<1>5. WriteGoesWhereListed'
  BY <1>1, <1>3 DEF DrawerInv, WriteGoesWhereListed
<1>6. QED
  BY <1>2, <1>4, <1>5, ClosedDialog DEF DrawerInv

\* The answer of a request that is no pane's leaves, whatever else does.
LEMMA Dropped ==
  ASSUME DrawerInv, NEW c \in calls, c.op \notin Panes, calls' = calls \ {c},
         UNCHANGED <<cur, forms, pane, late>>, dlg' \in {dlg, NoDlg}
  PROVE  DrawerInv'
<1>1. \A p \in Panes : Read(p, cur).op = p
  BY ReadFields
<1>2. PanesFollow'
  BY <1>1 DEF DrawerInv, PanesFollow
<1>3. DialogHolds' /\ WriteGoesWhereListed'
  BY ClosedDialog DEF DrawerInv, DialogHolds, WriteGoesWhereListed
<1>4. QED
  BY <1>2, <1>3, ClosedDialog DEF DrawerInv

LEMMA Posted ==
  ASSUME DrawerInv, NEW k \in DOMAIN PaneOf \cup FormWrites, NEW r, NEW s,
         s => r = cur, calls' = calls \cup {Write(k, cur, r, s)},
         UNCHANGED <<cur, forms, pane, late>>,
         DialogOK(dlg'), dlg'.sure => dlg.sure /\ dlg'.row = dlg.row
  PROVE  DrawerInv'
<1> DEFINE x == Write(k, cur, r, s)
<1>1. /\ x.op = k /\ x.node = cur /\ x.row = r /\ x.sure = s
      /\ k \notin ReadOps
  BY WriteFields, WritesAreNoReads
<1>2. PanesFollow'
  BY DEF DrawerInv, PanesFollow
<1> HIDE DEF x
<1>3. calls' = calls \cup {x}
  BY DEF x
<1>4. DialogHolds'
  BY <1>1, <1>3 DEF DrawerInv, DialogHolds
<1>5. WriteGoesWhereListed'
  BY <1>1, <1>3 DEF DrawerInv, WriteGoesWhereListed
<1>6. QED
  BY <1>2, <1>4, <1>5 DEF DrawerInv

LEMMA DrawerInitial == DrawerInit => DrawerInv
<1> SUFFICES ASSUME DrawerInit PROVE DrawerInv
  OBVIOUS
<1>1. QED
  BY ClosedDialog DEF DrawerInit, DrawerInv, PanesFollow, DialogHolds, WriteGoesWhereListed

LEMMA DrawerStep == DrawerInv /\ [DrawerNext]_drawerVars => DrawerInv'
<1> SUFFICES ASSUME DrawerInv, [DrawerNext]_drawerVars PROVE DrawerInv'
  OBVIOUS
<1>1. ASSUME NEW n \in Nodes, openDetail(n) PROVE DrawerInv'
  <2> DEFINE x == Read("detail", n)
  <2>1. /\ dlg = NoDlg /\ UNCHANGED <<cur, forms, pane, late, dlg>>
        /\ calls' = calls \cup {x}
    BY <1>1 DEF openDetail
  <2>2. x.node = x.row
    BY ReadFields
  <2> HIDE DEF x
  <2>3. PanesFollow' /\ DialogHolds'
    BY <2>1, ClosedDialog DEF DrawerInv, PanesFollow, DialogHolds
  <2>4. WriteGoesWhereListed'
    BY <2>1, <2>2 DEF DrawerInv, WriteGoesWhereListed
  <2>5. QED
    BY <2>1, <2>3, <2>4 DEF DrawerInv
<1>2. CASE onTaskFinished \/ refreshDetail
  BY <1>2, AddedRead DEF onTaskFinished, refreshDetail
<1>3. ASSUME NEW p \in Panes, reload(p) PROVE DrawerInv'
  BY <1>3, AddedRead DEF reload
<1>4. CASE CloseDrawer \/ Ask \/ Cancel \/ UNCHANGED drawerVars
  <2>1. UNCHANGED <<cur, forms, pane, late, calls>>
    BY <1>4 DEF CloseDrawer, Ask, Cancel, drawerVars
  <2>2. \/ dlg' \in {dlg, NoDlg}
        \/ dlg.kind # "none" /\ \E b \in BOOLEAN : dlg' = [dlg EXCEPT !.asking = b]
    BY <1>4 DEF CloseDrawer, Ask, Cancel, CanSubmit, Asked, DrawerDialogs, drawerVars
  <2>3. DialogOK(dlg') /\ (dlg'.sure => dlg.sure /\ dlg'.row = dlg.row)
    <3>1. CASE dlg' \in {dlg, NoDlg}
      BY <3>1, ClosedDialog DEF DrawerInv
    <3>2. CASE dlg.kind # "none" /\ \E b \in BOOLEAN : dlg' = [dlg EXCEPT !.asking = b]
      BY <3>2, AskingDialog DEF DrawerInv
    <3>3. QED
      BY <2>2, <3>1, <3>2
  <2>4. QED
    BY <2>1, <2>3 DEF DrawerInv, PanesFollow, DialogHolds, WriteGoesWhereListed
<1>5. ASSUME NEW c \in calls, DetailAnswer(c) PROVE DrawerInv'
  <2> DEFINE X == {Read(p, c.node) : p \in Panes}
  <2>1. /\ cur' = c.node /\ forms' = c.node /\ c.op = "detail"
        /\ calls' = (calls \ {c}) \cup X
        /\ pane' = [p \in Panes |-> IF p = "live" THEN None ELSE pane[p]]
        /\ UNCHANGED <<dlg, late>>
    BY <1>5 DEF DetailAnswer
  <2>2. PanesFollow'
    BY <2>1 DEF PanesFollow
  <2>3. \A x \in X : x.node = c.node /\ x.row = c.node
    BY ReadFields
  <2> HIDE DEF X
  <2>4. dlg.sure => c.node = cur
    BY <2>1 DEF DrawerInv, DialogHolds, ReadOps
  <2>5. DialogHolds'
    BY <2>1, <2>3, <2>4 DEF DrawerInv, DialogHolds
  <2>6. WriteGoesWhereListed'
    BY <2>1, <2>3 DEF DrawerInv, WriteGoesWhereListed
  <2>7. QED
    BY <2>1, <2>2, <2>5, <2>6 DEF DrawerInv
<1>6. ASSUME NEW c \in calls, RefreshAnswer(c) PROVE DrawerInv'
  <2>1. /\ c.op = "refresh" /\ calls' = calls \ {c} /\ cur' = c.node
        /\ late' = (late \/ c.node # cur) /\ UNCHANGED <<forms, pane, dlg>>
    BY <1>6 DEF RefreshAnswer
  <2>2. \A p \in Panes : Read(p, cur).op = p
    BY ReadFields
  <2>3. c.op \notin Panes
    BY <2>1, DrawerAssumption
  <2>4. PanesFollow'
    BY ZenonT(30), <2>1, <2>2, <2>3 DEF DrawerInv, PanesFollow
  <2>5. DialogHolds'
    BY <2>1 DEF DrawerInv, DialogHolds, ReadOps
  <2>6. WriteGoesWhereListed' /\ late' \in BOOLEAN
    BY <2>1 DEF DrawerInv, WriteGoesWhereListed
  <2>7. QED
    BY <2>1, <2>4, <2>5, <2>6 DEF DrawerInv
<1>7. ASSUME NEW c \in calls, PaneAnswer(c) PROVE DrawerInv'
  <2>1. /\ c.op \in Panes /\ calls' = calls \ {c}
        /\ late' = (late \/ c.node # cur) /\ UNCHANGED <<cur, forms, dlg>>
    BY <1>7 DEF PaneAnswer
  <2>2. PICK listed \in {c.node, None} : pane' = [pane EXCEPT ![c.op] = listed]
    BY <1>7 DEF PaneAnswer
  <2>3. \A p \in Panes : Read(p, cur).op = p
    BY ReadFields
  <2>4. pane' = [p \in Panes |-> pane'[p]] /\ \A p \in Panes : pane'[p] = IF p = c.op THEN listed ELSE pane[p]
    BY <2>2, <2>1 DEF DrawerInv
  <2>5. PanesFollow'
    BY <2>1, <2>2, <2>3, <2>4 DEF DrawerInv, PanesFollow
  <2>6. DialogHolds' /\ WriteGoesWhereListed' /\ late' \in BOOLEAN
    BY <2>1 DEF DrawerInv, DialogHolds, WriteGoesWhereListed
  <2>7. QED
    BY <2>1, <2>4, <2>5, <2>6 DEF DrawerInv
<1>8. ASSUME NEW c \in calls, ReadFails(c) \/ WriteFails(c) \/ FormSaved(c) PROVE DrawerInv'
  <2>1. /\ calls' = calls \ {c} /\ UNCHANGED <<cur, forms, pane, late, dlg>>
    BY <1>8 DEF ReadFails, WriteFails, FormSaved, Fails
  <2>2. c.op \notin Panes
    BY <1>8, DrawerAssumption, WritesAreNoReads DEF ReadFails, WriteFails, FormSaved, ReadOps
  <2>3. QED
    BY <2>1, <2>2, Dropped
<1>9. ASSUME NEW k \in DrawerDialogs \cup AskedAtOnce, OpenDialog(k) PROVE DrawerInv'
  <2>1. /\ UNCHANGED <<cur, forms, pane, late, calls>>
        /\ dlg'.row = pane[PaneOf[k]] /\ dlg'.sure = Settled
        /\ PaneOf[k] \in Panes /\ pane[PaneOf[k]] # None
    BY <1>9 DEF OpenDialog, Offered
  <2>0. DialogOK(dlg')
    BY <1>9 DEF OpenDialog, DialogOK, DrawerDialogs, AskedAtOnce
  <2>2. ASSUME Settled
        PROVE  dlg'.row = cur /\ \A c \in calls : c.op \notin ReadOps
    <3>1. ~late /\ \A c \in calls : c.op \notin ReadOps
      BY <2>2 DEF Settled, Reads
    <3>2. \A p \in Panes : Read(p, cur) \notin calls
      BY <3>1, ReadFields DEF ReadOps
    <3>3. QED
      BY <2>1, <3>1, <3>2 DEF DrawerInv, PanesFollow
  <2>3. DialogHolds'
    BY <2>1, <2>2 DEF DialogHolds
  <2>4. QED
    BY <2>0, <2>1, <2>3 DEF DrawerInv, PanesFollow, WriteGoesWhereListed
<1>10. CASE Submit \/ Confirm
  <2>1. PICK k \in DOMAIN PaneOf : calls' = calls \cup {Write(k, cur, dlg.row, dlg.sure)}
    <3>1. CASE Submit
      BY <3>1 DEF Submit, Post, CanSubmit, DrawerDialogs, PaneOf, StorageWrites, StorageDialogs,
                  FwWrites
    <3>2. CASE Confirm
      <4>1. dlg.kind \in DOMAIN PaneOf
        BY <3>2 DEF Confirm, DrawerInv, DialogOK, DrawerDialogs, AskedAtOnce, PaneOf,
                    StorageWrites, StorageDialogs, FwWrites
      <4>2. QED
        BY <3>2, <4>1 DEF Confirm, Post
    <3>3. QED
      BY <1>10, <3>1, <3>2
  <2>2. UNCHANGED <<cur, forms, pane, late>>
    BY <1>10 DEF Submit, Confirm, Post
  <2>3. DialogOK(dlg') /\ (dlg'.sure => dlg.sure /\ dlg'.row = dlg.row)
    <3>1. \/ dlg' \in {dlg, NoDlg}
          \/ dlg.kind # "none" /\ dlg' = [dlg EXCEPT !.asking = FALSE]
      BY <1>10 DEF Submit, Confirm, DrawerInv, DialogOK
    <3>2. QED
      BY <3>1, ClosedDialog, AskingDialog DEF DrawerInv
  <2>4. dlg.sure => dlg.row = cur
    BY DEF DrawerInv, DialogHolds
  <2>5. QED
    BY <2>1, <2>2, <2>3, <2>4, Posted
<1>11. ASSUME NEW k \in FormWrites, SaveForm(k) PROVE DrawerInv'
  <2>1. /\ calls' = calls \cup {Write(k, cur, forms, Settled)}
        /\ UNCHANGED <<cur, forms, pane, late, dlg>>
    BY <1>11 DEF SaveForm
  <2>2. Settled => forms = cur
    BY DEF Settled, DrawerInv, PanesFollow
  <2>3. DialogOK(dlg')
    BY <2>1 DEF DrawerInv
  <2>4. QED
    BY <2>1, <2>2, <2>3, Posted
<1>12. ASSUME NEW c \in calls, WriteAnswer(c) PROVE DrawerInv'
  <2> DEFINE x == Read(PaneOf[c.op], cur)
  <2>1. /\ c.op \in DOMAIN PaneOf /\ calls' = (calls \ {c}) \cup {x}
        /\ UNCHANGED <<cur, forms, pane, late>> /\ dlg' \in {dlg, NoDlg}
    BY <1>12 DEF WriteAnswer, DialogAfter
  <2>2. x.node = cur /\ x.row = cur /\ \A p \in Panes : Read(p, cur).op = p
    BY ReadFields
  <2>3. c.op \notin Panes
    BY <2>1, WritesAreNoReads DEF ReadOps
  <2> HIDE DEF x
  <2>4. PanesFollow'
    BY <2>1, <2>2, <2>3 DEF DrawerInv, PanesFollow
  <2>5. DialogHolds' /\ WriteGoesWhereListed'
    BY <2>1, <2>2, ClosedDialog DEF DrawerInv, DialogHolds, WriteGoesWhereListed
  <2>6. QED
    BY <2>1, <2>4, <2>5, ClosedDialog DEF DrawerInv
<1>13. ASSUME NEW c \in calls, MountedThenAuto(c) PROVE DrawerInv'
  <2> DEFINE x == Write("thenAuto", cur, c.row, c.sure)
  <2>1. /\ c.op = "mountAuto" /\ calls' = (calls \ {c}) \cup {x}
        /\ UNCHANGED <<cur, forms, pane, late>> /\ dlg' \in {dlg, NoDlg}
    BY <1>13 DEF MountedThenAuto, DialogAfter
  <2>2. x.op = "thenAuto" /\ \A p \in Panes : Read(p, cur).op = p
    BY WriteFields, ReadFields
  <2>3. c.op \notin Panes /\ x.op \notin ReadOps
    BY <2>1, <2>2, DrawerAssumption DEF ReadOps
  <2> HIDE DEF x
  <2>4. PanesFollow'
    BY <2>1, <2>2, <2>3 DEF DrawerInv, PanesFollow
  <2>5. DialogHolds' /\ WriteGoesWhereListed'
    BY <2>1, <2>2, <2>3, ClosedDialog DEF DrawerInv, DialogHolds, WriteGoesWhereListed
  <2>6. QED
    BY <2>1, <2>4, <2>5, ClosedDialog DEF DrawerInv
<1>14. QED
  BY <1>1, <1>2, <1>3, <1>4, <1>5, <1>6, <1>7, <1>8, <1>9, <1>10, <1>11, <1>12, <1>13
  DEF DrawerNext

\* Formatting, mounting, firewall rules, tags: a write begun when the screen had
\* settled reaches the node whose row or form the user saw; the second request
\* of a mount is the exception.
THEOREM WritesReachTheirNode == DrawerSpec => []WriteGoesWhereListed
<1>1. DrawerInv => WriteGoesWhereListed
  BY DEF DrawerInv
<1>2. QED
  BY DrawerInitial, DrawerStep, <1>1, PTL DEF DrawerSpec

\* Once the drawer's requests have been answered, every pane and form shows the
\* node in the title, unless an answer has come late (openDetail, the load
\* functions and refreshDetail).
THEOREM OneNodeOnScreen == DrawerSpec => []ScreenOfOneNode
<1>1. DrawerInv => ScreenOfOneNode
  <2> SUFFICES ASSUME DrawerInv, Settled PROVE \A p \in Panes : pane[p] \in {cur, None} /\ forms = cur
    BY DEF ScreenOfOneNode
  <2>1. ~late /\ \A c \in calls : c.op \notin ReadOps
    BY DEF Settled, Reads
  <2>2. \A p \in Panes : Read(p, cur) \notin calls
    BY <2>1, ReadFields DEF ReadOps
  <2>3. QED
    BY <2>1, <2>2 DEF DrawerInv, PanesFollow
<1>2. QED
  BY DrawerInitial, DrawerStep, <1>1, PTL DEF DrawerSpec

\* The drawer's records.
CallOps == ReadOps \cup DOMAIN PaneOf \cup FormWrites
CallRecords == [op : CallOps, node : NodeOrNone, row : NodeOrNone, sure : BOOLEAN]
DialogRecords == [kind : DrawerDialogs \cup AskedAtOnce \cup {"none"}, row : NodeOrNone,
                  asking : BOOLEAN, sure : BOOLEAN]
DrawerForms ==
  /\ drawer \in BOOLEAN /\ late \in BOOLEAN
  /\ cur \in NodeOrNone /\ forms \in NodeOrNone
  /\ pane \in [Panes -> NodeOrNone]
  /\ busy \subseteq {"storage", "fw"}

LEMMA DrawerTypes == DrawerTypeOK <=> DrawerForms /\ calls \subseteq CallRecords /\ dlg \in DialogRecords
  BY DEF DrawerTypeOK, DrawerForms, CallRecords, DialogRecords, CallOps

LEMMA CallTypes ==
  ASSUME NEW n \in NodeOrNone, NEW r \in NodeOrNone, NEW s \in BOOLEAN
  PROVE  /\ \A op \in ReadOps : Read(op, n) \in CallRecords
         /\ \A k \in DOMAIN PaneOf \cup FormWrites : Write(k, n, r, s) \in CallRecords
  BY DEF Read, Write, CallRecords, CallOps

LEMMA PanesOfWrites ==
  /\ \A k \in DOMAIN PaneOf : PaneOf[k] \in {"storage", "fw"}
  /\ DOMAIN PaneOf = StorageWrites \cup FwWrites
  /\ DrawerDialogs \cup AskedAtOnce \cup {"mountAuto", "thenAuto"} \subseteq DOMAIN PaneOf
  BY DEF PaneOf, StorageWrites, StorageDialogs, FwWrites, DrawerDialogs, AskedAtOnce

LEMMA NoDialog == NoDlg \in DialogRecords
  BY DEF NoDlg, DialogRecords, NodeOrNone

LEMMA DrawerTypesInitial == DrawerInit => DrawerTypeOK
  BY NoDialog, DrawerTypes DEF DrawerInit, DrawerForms, NodeOrNone

\* Dialogs and writes are of panes there are.
PanesThere ==
  /\ dlg.kind # "none" => PaneOf[dlg.kind] \in Panes
  /\ \A c \in calls : c.op \in DOMAIN PaneOf => PaneOf[c.op] \in Panes

LEMMA PanesInitial == DrawerInit => PanesThere
  BY DEF DrawerInit, PanesThere, NoDlg

LEMMA PanesStep == DrawerInv /\ PanesThere /\ [DrawerNext]_drawerVars => PanesThere'
<1> SUFFICES ASSUME DrawerInv, PanesThere, [DrawerNext]_drawerVars PROVE PanesThere'
  OBVIOUS
<1>a. /\ \A op, n : Read(op, n).op = op
      /\ \A k, n, r, s : Write(k, n, r, s).op = k
      /\ \A op \in ReadOps : op \notin DOMAIN PaneOf
      /\ \A k \in FormWrites : k \notin DOMAIN PaneOf
      /\ NoDlg.kind = "none" /\ [dlg EXCEPT !.asking = FALSE].kind = dlg.kind
      /\ [dlg EXCEPT !.asking = TRUE].kind = dlg.kind
  <2>1. /\ \A op, n : Read(op, n).op = op
        /\ \A k, n, r, s : Write(k, n, r, s).op = k
        /\ NoDlg.kind = "none"
    BY DEF Read, Write, NoDlg
  <2>2. /\ \A op \in ReadOps : op \notin DOMAIN PaneOf
        /\ \A k \in FormWrites : k \notin DOMAIN PaneOf
    BY WritesAreNoReads DEF FormWrites, PaneOf, StorageWrites, StorageDialogs, FwWrites
  <2>3. \A b \in BOOLEAN : [dlg EXCEPT !.asking = b].kind = dlg.kind
    <3> DEFINE kind == dlg.kind
               row  == dlg.row
               sure == dlg.sure
               ask  == dlg.asking
    <3>1. dlg = [kind |-> kind, row |-> row, asking |-> ask, sure |-> sure]
      BY DEF DrawerInv, DialogOK
    <3>2. kind = dlg.kind
      OBVIOUS
    <3> HIDE DEF kind, row, sure, ask
    <3>3. \A b \in BOOLEAN : [dlg EXCEPT !.asking = b] = [kind |-> kind, row |-> row, asking |-> b, sure |-> sure]
      BY <3>1
    <3>4. QED
      BY <3>2, <3>3
  <2>4. QED
    BY <2>1, <2>2, <2>3
<1>1. ASSUME dlg' = dlg \/ dlg'.kind = dlg.kind \/ dlg'.kind = "none",
             \A c \in calls' : c \in calls \/ c.op \notin DOMAIN PaneOf
      PROVE  PanesThere'
  BY <1>1 DEF PanesThere
<1>2. ASSUME NEW n \in Nodes, openDetail(n) PROVE PanesThere'
  BY <1>1, <1>2, <1>a DEF openDetail, ReadOps
<1>3. ASSUME onTaskFinished \/ refreshDetail PROVE PanesThere'
  BY <1>1, <1>3, <1>a DEF onTaskFinished, refreshDetail, ReadOps
<1>4. ASSUME CloseDrawer PROVE PanesThere'
  BY <1>1, <1>4 DEF CloseDrawer
<1>5. ASSUME NEW p \in Panes, reload(p) PROVE PanesThere'
  BY <1>1, <1>5, <1>a DEF reload, ReadOps
<1>6. ASSUME NEW k \in DrawerDialogs \cup AskedAtOnce, OpenDialog(k) PROVE PanesThere'
  BY <1>6 DEF OpenDialog, Offered, PanesThere
<1>7. ASSUME Ask \/ Cancel PROVE PanesThere'
  BY <1>1, <1>7, <1>a DEF Ask, Cancel
<1>8. ASSUME NEW k \in DOMAIN PaneOf, Post(k), PaneOf[k] \in Panes,
             dlg' = dlg \/ dlg'.kind = dlg.kind \/ dlg'.kind = "none"
      PROVE  PanesThere'
  BY <1>8, <1>a DEF Post, PanesThere
<1>9. ASSUME Submit PROVE PanesThere'
  <2>1. dlg.kind \in DrawerDialogs /\ dlg' = dlg /\ dlg.kind # "none"
    BY <1>9 DEF Submit, CanSubmit, DrawerDialogs
  <2>2. \E k \in IF dlg.kind = "mount" THEN {"mount", "mountAuto"} ELSE {dlg.kind} : Post(k)
    BY <1>9 DEF Submit
  <2>3. PaneOf["mount"] = PaneOf["mountAuto"] /\ {"mount", "mountAuto", dlg.kind} \subseteq DOMAIN PaneOf
    BY <2>1, PanesOfWrites DEF PaneOf, FwWrites, StorageWrites, StorageDialogs, DrawerDialogs
  <2>4. QED
    BY <1>8, <2>1, <2>2, <2>3 DEF PanesThere
<1>10. ASSUME Confirm PROVE PanesThere'
  <2>1. dlg.asking /\ Post(dlg.kind) /\ dlg' \in {[dlg EXCEPT !.asking = FALSE], NoDlg}
    BY <1>10 DEF Confirm
  <2>2. dlg.kind # "none" /\ dlg.kind \in DOMAIN PaneOf
    BY <2>1, PanesOfWrites DEF DrawerInv, DialogOK
  <2>3. QED
    BY <1>8, <1>a, <2>1, <2>2 DEF PanesThere
<1>11. ASSUME NEW k \in FormWrites, SaveForm(k) PROVE PanesThere'
  BY <1>1, <1>11, <1>a DEF SaveForm
<1>12. ASSUME NEW c \in calls, DetailAnswer(c) PROVE PanesThere'
  BY <1>1, <1>12, <1>a DEF DetailAnswer, ReadOps
<1>13. ASSUME NEW c \in calls, RefreshAnswer(c) \/ PaneAnswer(c) \/ WriteFails(c) \/ Fails(c)
       PROVE  PanesThere'
  BY <1>1, <1>13 DEF RefreshAnswer, PaneAnswer, WriteFails, Fails
<1>14. ASSUME NEW c \in calls, WriteAnswer(c) PROVE PanesThere'
  <2>1. /\ c.op \in DOMAIN PaneOf /\ calls' = (calls \ {c}) \cup {Read(PaneOf[c.op], cur)}
        /\ dlg' \in {NoDlg, dlg}
    BY <1>14 DEF WriteAnswer, DialogAfter
  <2>2. PaneOf[c.op] \in ReadOps
    BY <2>1 DEF PanesThere, ReadOps
  <2>3. QED
    BY <1>1, <1>a, <2>1, <2>2
<1>15. ASSUME NEW c \in calls, MountedThenAuto(c) PROVE PanesThere'
  <2>1. /\ c.op = "mountAuto" /\ calls' = (calls \ {c}) \cup {Write("thenAuto", cur, c.row, c.sure)}
        /\ dlg' \in {NoDlg, dlg}
    BY <1>15 DEF MountedThenAuto, DialogAfter
  <2>2. PaneOf["thenAuto"] = PaneOf["mountAuto"] /\ "mountAuto" \in DOMAIN PaneOf
    BY PanesOfWrites DEF PaneOf, FwWrites, StorageWrites, StorageDialogs
  <2>3. QED
    BY <1>a, <2>1, <2>2 DEF PanesThere
<1>16. ASSUME UNCHANGED drawerVars PROVE PanesThere'
  BY <1>1, <1>16 DEF drawerVars
<1>17. QED
  BY <1>2, <1>3, <1>4, <1>5, <1>6, <1>7, <1>9, <1>10, <1>11, <1>12, <1>13, <1>14, <1>15, <1>16
  DEF DrawerNext, ReadFails, FormSaved

LEMMA DrawerTypesStep == DrawerInv /\ PanesThere /\ DrawerTypeOK /\ [DrawerNext]_drawerVars => DrawerTypeOK'
<1> SUFFICES ASSUME DrawerInv, PanesThere, DrawerTypeOK, [DrawerNext]_drawerVars PROVE DrawerTypeOK'
  OBVIOUS
<1>a. /\ DrawerForms /\ calls \subseteq CallRecords /\ dlg \in DialogRecords
      /\ \A p \in Panes : pane[p] \in NodeOrNone
  BY DrawerTypes DEF DrawerForms
<1>b. (DrawerForms' /\ calls' \subseteq CallRecords /\ dlg' \in DialogRecords) => DrawerTypeOK'
  BY DEF DrawerTypeOK, DrawerForms, CallRecords, DialogRecords, CallOps
<1>c. /\ Panes \subseteq ReadOps /\ {"detail", "refresh"} \subseteq ReadOps /\ Nodes \subseteq NodeOrNone
      /\ None \in NodeOrNone /\ Settled \in BOOLEAN
  BY DEF ReadOps, NodeOrNone, Settled
<1>d. \A c \in CallRecords : c.node \in NodeOrNone /\ c.row \in NodeOrNone /\ c.sure \in BOOLEAN
                             /\ c.op \in CallOps
  BY DEF CallRecords
<1>e. /\ dlg.row \in NodeOrNone /\ dlg.sure \in BOOLEAN /\ dlg.asking \in BOOLEAN
      /\ dlg.kind # "none" => dlg.kind \in DOMAIN PaneOf
      /\ \A b \in BOOLEAN : [dlg EXCEPT !.asking = b] \in DialogRecords
  BY <1>a, PanesOfWrites DEF DialogRecords
<1>1. ASSUME NEW x \in CallRecords, calls' \in {calls \cup {x}, calls},
             UNCHANGED <<cur, forms, pane, busy, late, dlg>>, drawer' \in BOOLEAN PROVE DrawerTypeOK'
  BY <1>a, <1>b, <1>1 DEF DrawerForms
<1>2. ASSUME NEW n \in Nodes, openDetail(n) PROVE DrawerTypeOK'
  <2>1. Read("detail", n) \in CallRecords
    BY <1>c, CallTypes
  <2>2. QED
    BY <1>a, <1>1, <1>2, <2>1 DEF openDetail, DrawerForms
<1>3. ASSUME onTaskFinished PROVE DrawerTypeOK'
  <2>1. Read("detail", cur) \in CallRecords
    BY <1>a, <1>c, CallTypes DEF DrawerForms
  <2>2. QED
    BY <1>a, <1>1, <1>3, <2>1 DEF onTaskFinished, DrawerForms
<1>4. ASSUME refreshDetail PROVE DrawerTypeOK'
  <2>1. Read("refresh", cur) \in CallRecords
    BY <1>a, <1>c, CallTypes DEF DrawerForms
  <2>2. QED
    BY <1>a, <1>1, <1>4, <2>1 DEF refreshDetail, DrawerForms
<1>5. ASSUME CloseDrawer PROVE DrawerTypeOK'
  BY <1>a, <1>b, <1>5 DEF CloseDrawer, DrawerForms
<1>6. ASSUME NEW p \in Panes, reload(p) PROVE DrawerTypeOK'
  <2>1. Read(p, cur) \in CallRecords
    BY <1>a, <1>c, CallTypes DEF DrawerForms
  <2>2. QED
    BY <1>a, <1>1, <1>6, <2>1 DEF reload, DrawerForms
<1>7. ASSUME NEW k \in DrawerDialogs \cup AskedAtOnce, OpenDialog(k) PROVE DrawerTypeOK'
  <2>1. /\ PaneOf[k] \in Panes /\ UNCHANGED <<drawer, cur, forms, pane, calls, busy, late>>
        /\ dlg' = [kind |-> k, row |-> pane[PaneOf[k]], asking |-> k \in AskedAtOnce, sure |-> Settled]
    BY <1>7 DEF OpenDialog, Offered
  <2>2. pane[PaneOf[k]] \in NodeOrNone
    BY <1>a, <2>1
  <2>3. dlg' \in DialogRecords
    BY <1>c, <2>1, <2>2 DEF DialogRecords
  <2>4. QED
    BY <1>a, <1>b, <2>1, <2>3 DEF DrawerForms
<1>8. ASSUME Ask PROVE DrawerTypeOK'
  BY <1>a, <1>b, <1>e, <1>8 DEF Ask, DrawerForms
<1>9. ASSUME NEW k \in DOMAIN PaneOf, Post(k), dlg' \in DialogRecords PROVE DrawerTypeOK'
  <2>1. Write(k, cur, dlg.row, dlg.sure) \in CallRecords
    BY <1>a, <1>e, CallTypes DEF DrawerForms
  <2>2. /\ calls' = calls \cup {Write(k, cur, dlg.row, dlg.sure)} /\ busy' \subseteq busy \cup {PaneOf[k]}
        /\ UNCHANGED <<drawer, cur, forms, pane, late>>
    BY <1>9 DEF Post
  <2>3. DrawerForms'
    BY <1>a, <2>2, PanesOfWrites DEF DrawerForms
  <2>4. QED
    BY <1>a, <1>b, <1>9, <2>1, <2>2, <2>3
<1>10. ASSUME Submit PROVE DrawerTypeOK'
  <2>1. dlg.kind \in DrawerDialogs /\ dlg' = dlg
    BY <1>10 DEF Submit, CanSubmit
  <2>2. \E k \in {"mount", "mountAuto", dlg.kind} : Post(k)
    BY <1>10 DEF Submit
  <2>3. {"mount", "mountAuto", dlg.kind} \subseteq DOMAIN PaneOf
    BY <2>1, PanesOfWrites DEF DrawerDialogs
  <2>4. QED
    BY <1>a, <1>9, <2>1, <2>2, <2>3
<1>11. ASSUME Confirm PROVE DrawerTypeOK'
  <2>1. dlg.asking /\ Post(dlg.kind) /\ dlg' \in {[dlg EXCEPT !.asking = FALSE], NoDlg}
    BY <1>11 DEF Confirm
  <2>2. dlg.kind \in DOMAIN PaneOf
    BY <1>e, <2>1 DEF DrawerInv, DialogOK
  <2>3. dlg' \in DialogRecords
    BY <1>e, <2>1, NoDialog
  <2>4. QED
    BY <1>9, <2>1, <2>2, <2>3
<1>12. ASSUME Cancel PROVE DrawerTypeOK'
  BY <1>a, <1>b, <1>e, <1>12, NoDialog DEF Cancel, DrawerForms
<1>13. ASSUME NEW k \in FormWrites, SaveForm(k) PROVE DrawerTypeOK'
  <2>1. Write(k, cur, forms, Settled) \in CallRecords
    BY <1>a, <1>c, CallTypes DEF DrawerForms
  <2>2. QED
    BY <1>a, <1>1, <1>13, <2>1 DEF SaveForm, DrawerForms
<1>14. ASSUME NEW c \in calls, DetailAnswer(c) PROVE DrawerTypeOK'
  <2>1. /\ cur' = c.node /\ forms' = c.node /\ drawer' = TRUE /\ UNCHANGED <<dlg, busy, late>>
        /\ pane' = [p \in Panes |-> IF p = "live" THEN None ELSE pane[p]]
        /\ calls' = (calls \ {c}) \cup {Read(p, c.node) : p \in Panes}
    BY <1>14 DEF DetailAnswer
  <2>2. c.node \in NodeOrNone
    BY <1>a, <1>d
  <2>3. {Read(p, c.node) : p \in Panes} \subseteq CallRecords
    BY <1>c, <2>2, CallTypes
  <2>4. pane' \in [Panes -> NodeOrNone]
    BY <1>a, <1>c, <2>1
  <2>5. DrawerForms'
    BY <1>a, <2>1, <2>2, <2>4 DEF DrawerForms
  <2>6. QED
    BY <1>a, <1>b, <2>1, <2>3, <2>5
<1>15. ASSUME NEW c \in calls, RefreshAnswer(c) PROVE DrawerTypeOK'
  <2>1. /\ calls' = calls \ {c} /\ cur' = c.node /\ late' = (late \/ c.node # cur)
        /\ UNCHANGED <<drawer, forms, pane, dlg, busy>>
    BY <1>15 DEF RefreshAnswer
  <2>2. c.node \in NodeOrNone /\ late' \in BOOLEAN
    BY <1>a, <1>d, <2>1 DEF DrawerForms
  <2>3. QED
    BY <1>a, <1>b, <2>1, <2>2 DEF DrawerForms
<1>16. ASSUME NEW c \in calls, PaneAnswer(c) PROVE DrawerTypeOK'
  <2>1. PICK from \in {c.node, None} : pane' = [pane EXCEPT ![c.op] = from]
    BY <1>16 DEF PaneAnswer
  <2>2. /\ calls' = calls \ {c} /\ late' = (late \/ c.node # cur)
        /\ UNCHANGED <<drawer, cur, forms, dlg, busy>>
    BY <1>16 DEF PaneAnswer
  <2>3. from \in NodeOrNone /\ late' \in BOOLEAN
    BY <1>a, <1>c, <1>d, <2>2 DEF DrawerForms
  <2>4. pane' \in [Panes -> NodeOrNone]
    BY <1>a, <2>1, <2>3 DEF DrawerForms
  <2>5. QED
    BY <1>a, <1>b, <2>2, <2>3, <2>4 DEF DrawerForms
<1>17. ASSUME NEW c \in calls, Fails(c) PROVE DrawerTypeOK'
  BY <1>a, <1>b, <1>17 DEF Fails, DrawerForms
<1>18. ASSUME NEW c \in calls, WriteAnswer(c) PROVE DrawerTypeOK'
  <2>1. /\ c.op \in DOMAIN PaneOf /\ calls' = (calls \ {c}) \cup {Read(PaneOf[c.op], cur)}
        /\ dlg' \in {NoDlg, dlg} /\ busy' \subseteq busy
        /\ UNCHANGED <<drawer, cur, forms, pane, late>>
    BY <1>18 DEF WriteAnswer, DialogAfter
  <2>2. Read(PaneOf[c.op], cur) \in CallRecords
    BY <1>a, <1>c, <2>1, CallTypes DEF DrawerForms, PanesThere
  <2>3. QED
    BY <1>a, <1>b, <2>1, <2>2, NoDialog DEF DrawerForms
<1>19. ASSUME NEW c \in calls, MountedThenAuto(c) PROVE DrawerTypeOK'
  <2>1. /\ calls' = (calls \ {c}) \cup {Write("thenAuto", cur, c.row, c.sure)}
        /\ dlg' \in {NoDlg, dlg} /\ UNCHANGED <<drawer, cur, forms, pane, busy, late>>
    BY <1>19 DEF MountedThenAuto, DialogAfter
  <2>2. Write("thenAuto", cur, c.row, c.sure) \in CallRecords
    BY <1>a, <1>d, CallTypes, PanesOfWrites DEF DrawerForms
  <2>3. QED
    BY <1>a, <1>b, <2>1, <2>2, NoDialog DEF DrawerForms
<1>20. ASSUME NEW c \in calls, WriteFails(c) PROVE DrawerTypeOK'
  <2>1. calls' = calls \ {c} /\ busy' \subseteq busy /\ UNCHANGED <<drawer, cur, forms, pane, dlg, late>>
    BY <1>20 DEF WriteFails
  <2>2. QED
    BY <1>a, <1>b, <2>1 DEF DrawerForms
<1>21. ASSUME UNCHANGED drawerVars PROVE DrawerTypeOK'
  BY <1>a, <1>b, <1>21 DEF drawerVars, DrawerForms
<1>22. QED
  BY <1>2, <1>3, <1>4, <1>5, <1>6, <1>7, <1>8, <1>10, <1>11, <1>12, <1>13, <1>14, <1>15, <1>16, <1>17,
     <1>18, <1>19, <1>20, <1>21
  DEF DrawerNext, ReadFails, FormSaved

LEMMA DrawerTyped == DrawerSpec => []DrawerTypeOK
  BY DrawerInitial, DrawerStep, PanesInitial, PanesStep, DrawerTypesInitial, DrawerTypesStep, PTL
  DEF DrawerSpec

-----------------------------------------------------------------------------
(* The dialog that adds a node *)


FormType == [host : HostOrNone, pinned : BOOLEAN, fp : HostOrNone, retyped : BOOLEAN]
ReqType == [op : {"token", "manual", "probe", "install"}, form : 0..MaxForms,
            host : HostOrNone, pinned : BOOLEAN, fp : HostOrNone, meddled : BOOLEAN]

SshReq(r) == r.op \in {"probe", "install"}

\* The two halves of the type invariant.
AddBooleans ==
  addVisible \in BOOLEAN /\ sshSubmitting \in BOOLEAN /\ installCmd \in BOOLEAN /\ sshTaskId \in BOOLEAN
AddOthers ==
  /\ addTab \in {"token", "manual", "ssh"} /\ ssh \in [Forms -> FormType]
  /\ sshForm \in 0..MaxForms /\ pin \in HostOrNone /\ known \subseteq Hosts
  /\ asked \subseteq ReqType

LEMMA AddTypes == AddTypeOK <=> AddBooleans /\ AddOthers
BY DEF AddTypeOK, AddBooleans, AddOthers, FormType, ReqType

LEMMA AddTypesNext == AddTypeOK' <=> AddBooleans' /\ AddOthers'
BY DEF AddTypeOK, AddBooleans, AddOthers, FormType, ReqType

\* A form that holds a fingerprint, and was not typed in since, holds its host's.
FormFits(s) == s.fp # None /\ ~s.retyped => s.fp = s.host

\* The form a probe was sent for still names its host, or was typed in since.
ProbeFits(r, s) == r.host # None /\ (~s.retyped => s.host = r.host)

\* One request over SSH is in flight at a time, and the button spins for it.
OneSshReq ==
  \A r \in asked : SshReq(r) =>
    /\ sshSubmitting /\ sshForm \in Forms /\ r.form \in Forms
    /\ \A q \in asked : SshReq(q) => q = r

InstallFits(r) == r.op = "install" /\ r.pinned /\ ~r.meddled => r.host # None /\ r.fp = r.host

AddInv ==
  /\ AddTypeOK
  /\ addVisible \/ pin # None => sshForm \in Forms
  /\ OneSshReq
  /\ \A f \in Forms : FormFits(ssh[f])
  /\ \A r \in asked : r.op = "probe" => ProbeFits(r, ssh[r.form])
  /\ pin # None => (~ssh[sshForm].retyped => ssh[sshForm].host = pin)
  /\ \A r \in asked : InstallFits(r)

LEMMA ReqFields ==
  ASSUME NEW op \in {"token", "manual", "probe", "install"}, NEW f \in 0..MaxForms,
         NEW s \in FormType
  PROVE  /\ Req(op, f, s) \in ReqType
         /\ Req(op, f, s).op = op /\ Req(op, f, s).form = f /\ Req(op, f, s).host = s.host
         /\ Req(op, f, s).pinned = s.pinned /\ Req(op, f, s).fp = s.fp
         /\ Req(op, f, s).meddled = s.retyped
BY DEF Req, ReqType, FormType

LEMMA EmptyForm == sshEmpty \in FormType /\ FormFits(sshEmpty)
BY DEF sshEmpty, FormType, HostOrNone, FormFits

LEMMA AddInitial == AddInit => AddInv
<1> SUFFICES ASSUME AddInit PROVE AddInv
  OBVIOUS
<1>1. /\ ssh = [f \in Forms |-> sshEmpty] /\ asked = {} /\ pin = None
      /\ addVisible = FALSE /\ sshSubmitting = FALSE /\ addTab = "token" /\ sshForm = 0
      /\ installCmd = FALSE /\ sshTaskId = FALSE /\ known = {}
  BY DEF AddInit
<1>2. ssh \in [Forms -> FormType] /\ \A f \in Forms : FormFits(ssh[f])
  BY <1>1, EmptyForm
<1>3. AddTypeOK
  <2>1. AddBooleans
    BY <1>1 DEF AddBooleans
  <2>2. AddOthers
    BY <1>1, <1>2, AddAssumption DEF AddOthers, HostOrNone
  <2>3. QED
    BY <2>1, <2>2, AddTypes
<1>4. QED
  BY <1>1, <1>2, <1>3 DEF AddInv, OneSshReq

LEMMA AddStep == AddInv /\ [AddNext]_addVars => AddInv'
<1> SUFFICES ASSUME AddInv, [AddNext]_addVars PROVE AddInv'
  OBVIOUS
<1> USE AddAssumption
<1>0. /\ ssh \in [Forms -> FormType] /\ asked \subseteq ReqType
      /\ sshForm \in 0..MaxForms /\ Forms \subseteq 0..MaxForms
  BY DEF AddInv, AddTypeOK, FormType, ReqType, Forms

\* Steps that leave the forms, the question and the SSH requests alone.
<1>1. ASSUME AddTypeOK', UNCHANGED <<ssh, pin, sshForm, sshSubmitting>>,
             addVisible' => addVisible \/ sshForm \in Forms,
             \A r \in asked' : SshReq(r) => r \in asked
      PROVE  AddInv'
  <2>1. OneSshReq'
    BY <1>1 DEF AddInv, OneSshReq
  <2>2. \A r \in asked' : r.op = "probe" => ProbeFits(r, ssh'[r.form])
    BY <1>1 DEF AddInv, SshReq
  <2>3. \A r \in asked' : InstallFits(r)
    BY <1>1 DEF AddInv, InstallFits, SshReq
  <2>4. QED
    BY <1>1, <2>1, <2>2, <2>3 DEF AddInv
<1>2. CASE CloseAdd \/ CloseTask \/ UNCHANGED addVars
           \/ \E t \in {"token", "manual", "ssh"} : ChooseTab(t)
  <2>1. /\ UNCHANGED <<ssh, pin, sshForm, sshSubmitting, asked>>
        /\ addVisible' => addVisible
    BY <1>2 DEF CloseAdd, CloseTask, ChooseTab, addVars
  <2>2. AddTypeOK'
    BY <1>2 DEF CloseAdd, CloseTask, ChooseTab, addVars, AddInv, AddTypeOK
  <2>3. QED
    BY <1>1, <2>1, <2>2
<1>3. CASE createToken \/ submitManual
  <2>1. PICK op \in {"token", "manual"} : asked' = asked \cup {Req(op, sshForm, sshEmpty)}
    BY <1>3 DEF createToken, submitManual
  <2>2. UNCHANGED <<ssh, pin, sshForm, sshSubmitting, addVisible, addTab, installCmd, sshTaskId, known>>
    BY <1>3 DEF createToken, submitManual
  <2>3. /\ Req(op, sshForm, sshEmpty) \in ReqType
        /\ Req(op, sshForm, sshEmpty).op = op
    BY <1>0, ReqFields, EmptyForm
  <2>4. AddTypeOK'
    BY <1>0, <2>1, <2>2, <2>3 DEF AddInv, AddTypeOK, ReqType
  <2>5. \A r \in asked' : SshReq(r) => r \in asked
    BY <2>1, <2>3 DEF SshReq
  <2>6. QED
    BY <1>1, <2>2, <2>4, <2>5
<1>4. ASSUME NEW r \in asked, TokenAnswer(r) \/ ManualAnswer(r) PROVE AddInv'
  <2>1. /\ UNCHANGED <<ssh, pin, sshForm, sshSubmitting>> /\ asked' = asked \ {r}
        /\ addVisible' \in {FALSE, addVisible}
    BY <1>4 DEF TokenAnswer, ManualAnswer
  <2>2. AddTypeOK'
    <3>1. AddBooleans'
      BY <1>4, AddTypes DEF TokenAnswer, ManualAnswer, AddInv, AddBooleans
    <3>2. AddOthers'
      BY <1>4, AddTypes DEF TokenAnswer, ManualAnswer, AddInv, AddOthers
    <3>3. QED
      BY <3>1, <3>2, AddTypesNext
  <2>3. QED
    BY <1>1, <2>1, <2>2
<1>5. CASE openAdd
  <2>1. /\ UNCHANGED <<ssh, asked, sshSubmitting, pin>> /\ pin = None
        /\ sshForm' = sshForm + 1 /\ sshForm < MaxForms
    BY <1>5 DEF openAdd
  <2>2. sshForm' \in Forms
    BY <1>0, <2>1 DEF Forms
  <2>3. AddTypeOK'
    <3>1. AddBooleans'
      BY <1>5, AddTypes DEF openAdd, AddInv, AddBooleans
    <3>2. AddOthers'
      <4>1. sshForm' \in 0..MaxForms
        BY <2>2 DEF Forms
      <4>2. QED
        BY <1>5, <4>1, AddTypes DEF openAdd, AddInv, AddOthers
    <3>3. QED
      BY <3>1, <3>2, AddTypesNext
  <2>4. OneSshReq'
    BY <2>1, <2>2 DEF AddInv, OneSshReq
  <2>5. QED
    BY <2>1, <2>2, <2>3, <2>4 DEF AddInv

\* Steps that type into the form of the dialog on the screen.
<1>6. ASSUME OnSshTab, NEW x \in FormType, ssh' = [ssh EXCEPT ![sshForm] = x],
             UNCHANGED <<addVisible, addTab, sshForm, sshSubmitting, pin, asked, installCmd,
                         sshTaskId, known>>,
             FormFits(x),
             sshSubmitting /\ ~x.retyped => ~ssh[sshForm].retyped /\ x.host = ssh[sshForm].host
      PROVE  AddInv'
  <2>1. sshForm \in Forms /\ pin = None
    BY <1>6 DEF OnSshTab, InDialog, AddInv
  <2>2. ssh' \in [Forms -> FormType] /\ \A f \in Forms : ssh'[f] = IF f = sshForm THEN x ELSE ssh[f]
    BY <1>0, <1>6, <2>1
  <2>3. AddTypeOK'
    BY <1>6, <2>2 DEF AddInv, AddTypeOK, FormType
  <2>4. \A f \in Forms : FormFits(ssh'[f])
    BY <1>6, <2>2 DEF AddInv
  <2>5. ASSUME NEW r \in asked, r.op = "probe" PROVE ProbeFits(r, ssh'[r.form])
    <3>1. sshSubmitting /\ r.form \in Forms /\ ProbeFits(r, ssh[r.form])
      BY <2>5 DEF AddInv, OneSshReq, SshReq
    <3>2. QED
      BY <1>6, <2>2, <3>1 DEF ProbeFits
  <2>6. OneSshReq'
    BY <1>6 DEF AddInv, OneSshReq
  <2>7. QED
    BY <1>6, <2>1, <2>3, <2>4, <2>5, <2>6 DEF AddInv
<1>7. ASSUME NEW h \in Hosts, TypeHost(h) PROVE AddInv'
  <2> DEFINE s == ssh[sshForm]
             b == s.retyped \/ s.fp # None \/ sshSubmitting
             x == [s EXCEPT !.host = h, !.retyped = b]
  <2>1. OnSshTab /\ sshForm \in Forms /\ s \in FormType
    BY <1>0, <1>7 DEF TypeHost, OnSshTab, InDialog, AddInv
  <2>2. ssh' = [ssh EXCEPT ![sshForm] = x]
    BY <1>7 DEF TypeHost
  <2>3. b \in BOOLEAN
    OBVIOUS
  <2>4. /\ b => (s.retyped \/ s.fp # None \/ sshSubmitting)
        /\ s.fp # None \/ sshSubmitting => b
    OBVIOUS
  <2> HIDE DEF b
  <2>5. x \in FormType /\ x.host = h /\ x.retyped = b /\ x.fp = s.fp
    BY <2>1, <2>3 DEF FormType, HostOrNone
  <2> HIDE DEF x
  <2>6. FormFits(x) /\ (sshSubmitting => x.retyped)
    BY <2>4, <2>5 DEF FormFits
  <2>7. UNCHANGED <<addVisible, addTab, sshForm, sshSubmitting, pin, asked, installCmd,
                    sshTaskId, known>>
    BY <1>7 DEF TypeHost
  <2>8. QED
    BY <1>6, <2>1, <2>2, <2>5, <2>6, <2>7
<1>8. CASE ChoosePolicy
  <2> DEFINE s == ssh[sshForm]
             x == [s EXCEPT !.pinned = ~@]
  <2>1. OnSshTab /\ sshForm \in Forms /\ s \in FormType
    BY <1>0, <1>8 DEF ChoosePolicy, OnSshTab, InDialog, AddInv
  <2>2. ssh' = [ssh EXCEPT ![sshForm] = x]
    BY <1>8 DEF ChoosePolicy
  <2>3. x \in FormType /\ x.host = s.host /\ x.retyped = s.retyped /\ x.fp = s.fp
    BY <2>1 DEF FormType
  <2>4. FormFits(s)
    BY <2>1 DEF AddInv
  <2> HIDE DEF x
  <2>5. FormFits(x)
    BY <2>3, <2>4 DEF FormFits
  <2>6. UNCHANGED <<addVisible, addTab, sshForm, sshSubmitting, pin, asked, installCmd,
                    sshTaskId, known>>
    BY <1>8 DEF ChoosePolicy
  <2>7. QED
    BY <1>6, <2>1, <2>2, <2>3, <2>5, <2>6
<1>9. CASE ClearPin
  <2> DEFINE s == ssh[sshForm]
             x == [s EXCEPT !.fp = None, !.retyped = sshSubmitting]
  <2>1. OnSshTab /\ sshForm \in Forms /\ s \in FormType
    BY <1>0, <1>9 DEF ClearPin, OnSshTab, InDialog, AddInv
  <2>2. ssh' = [ssh EXCEPT ![sshForm] = x]
    BY <1>9 DEF ClearPin
  <2>3. x \in FormType /\ x.fp = None /\ x.retyped = sshSubmitting
    BY <2>1 DEF FormType, HostOrNone, AddInv, AddTypeOK
  <2> HIDE DEF x
  <2>4. FormFits(x) /\ (sshSubmitting => x.retyped)
    BY <2>3 DEF FormFits
  <2>5. UNCHANGED <<addVisible, addTab, sshForm, sshSubmitting, pin, asked, installCmd,
                    sshTaskId, known>>
    BY <1>9 DEF ClearPin
  <2>6. QED
    BY <1>6, <2>1, <2>2, <2>3, <2>4, <2>5

\* Steps that send an installation, of a form that fits, when no other request
\* over SSH is left.
<1>10. ASSUME NEW s \in FormType, NEW gone,
              sshForm \in Forms, \A q \in asked : SshReq(q) => q \in gone,
              doSubmitSSH(s, gone),
              s.pinned /\ ~s.retyped => s.host # None /\ s.fp = s.host,
              ssh' \in [Forms -> FormType], \A f \in Forms : FormFits(ssh'[f]),
              pin' # None => (~ssh'[sshForm].retyped => ssh'[sshForm].host = pin'),
              pin' \in {pin, None},
              UNCHANGED <<addVisible, addTab, sshForm, installCmd, sshTaskId, known>>
       PROVE  AddInv'
  <2> DEFINE x == Req("install", sshForm, s)
  <2>1. asked' = (asked \ gone) \cup {x} /\ sshSubmitting' = TRUE
    BY <1>10 DEF doSubmitSSH
  <2>2. x \in ReqType /\ x.op = "install" /\ x.form = sshForm /\ InstallFits(x)
    BY <1>0, <1>10, ReqFields DEF InstallFits
  <2> HIDE DEF x
  <2>3. AddTypeOK'
    <3>1. AddBooleans'
      BY <1>10, <2>1, AddTypes DEF AddInv, AddBooleans
    <3>2. AddOthers'
      BY <1>10, <2>1, <2>2, AddTypes DEF AddInv, AddOthers, HostOrNone
    <3>3. QED
      BY <3>1, <3>2, AddTypesNext
  <2>4. \A r \in asked' : r = x \/ (r \in asked /\ ~SshReq(r))
    BY <1>10, <2>1
  <2>5. OneSshReq'
    BY <1>10, <2>1, <2>2, <2>4 DEF OneSshReq, SshReq
  <2>6. \A r \in asked' : r.op # "probe" /\ InstallFits(r)
    BY <2>2, <2>4 DEF AddInv, SshReq
  <2>7. QED
    BY <1>10, <2>3, <2>5, <2>6 DEF AddInv
<1>11. CASE submitSSH
  <2> DEFINE s == ssh[sshForm]
  <2>1. /\ sshForm \in Forms /\ s \in FormType /\ FormFits(s) /\ s.host # None /\ pin = None
        /\ UNCHANGED <<addVisible, addTab, sshForm, pin, installCmd, sshTaskId, known>>
        /\ ~sshSubmitting
    BY <1>0, <1>11 DEF submitSSH, OnSshTab, InDialog, AddInv
  <2>2. \A q \in asked : ~SshReq(q)
    BY <2>1 DEF AddInv, OneSshReq
  <2>3. CASE s.pinned /\ s.fp = None
    <3> DEFINE x == Req("probe", sshForm, s)
               y == [s EXCEPT !.retyped = FALSE]
    <3>1. /\ sshSubmitting' = TRUE /\ asked' = asked \cup {x}
          /\ ssh' = [ssh EXCEPT ![sshForm] = y]
      BY <1>11, <2>3 DEF submitSSH
    <3>2. x \in ReqType /\ x.op = "probe" /\ x.form = sshForm /\ x.host = s.host
      BY <1>0, <2>1, ReqFields
    <3>3. y \in FormType /\ y.host = s.host /\ y.fp = None
      BY <2>1, <2>3 DEF FormType
    <3> HIDE DEF x, y
    <3>4. ssh' \in [Forms -> FormType] /\ \A f \in Forms : ssh'[f] = IF f = sshForm THEN y ELSE ssh[f]
      BY <1>0, <2>1, <3>1, <3>3
    <3>5. AddTypeOK'
      BY <1>0, <2>1, <3>1, <3>2, <3>4 DEF AddInv, AddTypeOK, FormType, ReqType
    <3>6. \A f \in Forms : FormFits(ssh'[f])
      BY <3>3, <3>4 DEF AddInv, FormFits
    <3>7. OneSshReq'
      BY <2>1, <2>2, <3>1, <3>2 DEF OneSshReq, SshReq
    <3>8. \A r \in asked' : /\ r.op = "probe" => ProbeFits(r, ssh'[r.form])
                            /\ InstallFits(r)
      <4>1. ProbeFits(x, ssh'[x.form]) /\ InstallFits(x)
        BY <2>1, <3>2, <3>3, <3>4 DEF ProbeFits, InstallFits
      <4>2. \A r \in asked : r.op # "probe" /\ InstallFits(r)
        BY <2>2 DEF AddInv, SshReq
      <4>3. QED
        BY <3>1, <4>1, <4>2
    <3>9. QED
      BY <2>1, <3>5, <3>6, <3>7, <3>8 DEF AddInv
  <2>4. CASE ~(s.pinned /\ s.fp = None)
    <3>1. doSubmitSSH(s, {}) /\ UNCHANGED ssh
      BY <1>11, <2>4 DEF submitSSH
    <3>2. s.pinned /\ ~s.retyped => s.host # None /\ s.fp = s.host
      BY <2>1, <2>4 DEF FormFits
    <3>3. ssh' \in [Forms -> FormType] /\ \A f \in Forms : FormFits(ssh'[f])
      BY <1>0, <3>1 DEF AddInv
    <3>4. QED
      BY <1>10, <2>1, <2>2, <3>1, <3>2, <3>3
  <2>5. QED
    BY <2>3, <2>4
<1>12. ASSUME NEW r \in asked, ProbeKnown(r) PROVE AddInv'
  <2>1. /\ r.form \in Forms /\ sshForm \in Forms /\ ProbeFits(r, ssh[r.form])
        /\ r.host \in HostOrNone
        /\ \A q \in asked : SshReq(q) => q = r
    BY <1>0, <1>12 DEF ProbeKnown, AddInv, OneSshReq, SshReq, ReqType
  <2> DEFINE y == [ssh[r.form] EXCEPT !.fp = r.host]
             now == ssh'[sshForm]
             s == [now EXCEPT !.retyped = now.retyped \/ r.form # sshForm]
  <2>2. /\ ssh' = [ssh EXCEPT ![r.form] = y] /\ doSubmitSSH(s, {r})
        /\ UNCHANGED <<addVisible, addTab, sshForm, pin, installCmd, sshTaskId, known>>
    BY <1>12 DEF ProbeKnown
  <2>3. /\ y \in FormType /\ y.fp = r.host /\ y.host = ssh[r.form].host
        /\ y.retyped = ssh[r.form].retyped
    BY <1>0, <2>1 DEF FormType
  <2> HIDE DEF y
  <2>4. ssh' \in [Forms -> FormType] /\ \A f \in Forms : ssh'[f] = IF f = r.form THEN y ELSE ssh[f]
    BY <1>0, <2>1, <2>2, <2>3
  <2>5. \A f \in Forms : FormFits(ssh'[f])
    BY <2>1, <2>3, <2>4 DEF AddInv, FormFits, ProbeFits
  <2>6. now \in FormType
    BY <2>1, <2>4
  <2>7. r.form = sshForm => now = y
    BY <2>1, <2>4
  <2> HIDE DEF now
  <2>8. /\ s \in FormType /\ s.host = now.host /\ s.fp = now.fp
        /\ ~s.retyped => ~now.retyped /\ r.form = sshForm
    BY <2>6 DEF FormType
  <2>9. s.pinned /\ ~s.retyped => s.host # None /\ s.fp = s.host
    BY <2>1, <2>3, <2>7, <2>8 DEF ProbeFits
  <2>10. pin' # None => (~ssh'[sshForm].retyped => ssh'[sshForm].host = pin')
    BY <2>1, <2>2, <2>3, <2>4 DEF AddInv
  <2> HIDE DEF s
  <2>11. \A q \in asked : SshReq(q) => q \in {r}
    BY <2>1
  <2>12. QED
    BY <1>10, <2>1, <2>2, <2>4, <2>5, <2>8, <2>9, <2>10, <2>11
<1>13. CASE confirmPinAndInstall
  <2> DEFINE y == [ssh[sshForm] EXCEPT !.fp = pin]
  <2>1. /\ pin # None /\ ~sshSubmitting /\ sshForm \in Forms /\ pin \in HostOrNone
        /\ ~ssh[sshForm].retyped => ssh[sshForm].host = pin
    BY <1>13 DEF confirmPinAndInstall, AddInv, AddTypeOK
  <2>2. /\ ssh' = [ssh EXCEPT ![sshForm] = y] /\ pin' = None
        /\ doSubmitSSH(ssh'[sshForm], {})
        /\ UNCHANGED <<addVisible, addTab, sshForm, installCmd, sshTaskId, known>>
    BY <1>13 DEF confirmPinAndInstall
  <2>3. /\ y \in FormType /\ y.fp = pin /\ y.host = ssh[sshForm].host
        /\ y.retyped = ssh[sshForm].retyped
    BY <1>0, <2>1 DEF FormType
  <2> HIDE DEF y
  <2>4. ssh' \in [Forms -> FormType] /\ \A f \in Forms : ssh'[f] = IF f = sshForm THEN y ELSE ssh[f]
    BY <1>0, <2>1, <2>2, <2>3
  <2>5. \A f \in Forms : FormFits(ssh'[f])
    BY <2>1, <2>3, <2>4 DEF AddInv, FormFits
  <2>6. doSubmitSSH(y, {}) /\ (y.pinned /\ ~y.retyped => y.host # None /\ y.fp = y.host)
    BY <2>1, <2>2, <2>3, <2>4
  <2>7. \A q \in asked : SshReq(q) => q \in {}
    BY <2>1 DEF AddInv, OneSshReq
  <2>8. QED
    BY <1>10, <2>1, <2>2, <2>3, <2>4, <2>5, <2>6, <2>7

\* Steps that answer the one request over SSH and send no other.
<1>14. ASSUME NEW r \in asked, SshReq(r), asked' = asked \ {r}, AddTypeOK',
              addVisible' => addVisible, UNCHANGED sshForm,
              \A f \in Forms : FormFits(ssh'[f]),
              pin' # None => sshForm \in Forms,
              pin' # None => (~ssh'[sshForm].retyped => ssh'[sshForm].host = pin')
       PROVE  AddInv'
  <2>1. \A q \in asked' : q \in asked /\ ~SshReq(q)
    BY <1>14 DEF AddInv, OneSshReq
  <2>2. \A q \in asked' : q.op # "probe" /\ InstallFits(q)
    BY <2>1 DEF AddInv, SshReq
  <2>3. QED
    BY <1>14, <2>1, <2>2 DEF AddInv, OneSshReq
<1>15. ASSUME NEW r \in asked, ProbeAsks(r) PROVE AddInv'
  <2> DEFINE s == ssh[sshForm]
             b == s.retyped \/ r.form # sshForm
             x == [s EXCEPT !.retyped = b]
  <2>1. /\ SshReq(r) /\ r.form \in Forms /\ sshForm \in Forms /\ s \in FormType
        /\ ProbeFits(r, ssh[r.form]) /\ r.host \in HostOrNone
    BY <1>0, <1>15 DEF ProbeAsks, AddInv, OneSshReq, SshReq, ReqType
  <2>2. /\ pin' = r.host /\ asked' = asked \ {r} /\ sshSubmitting' = FALSE
        /\ ssh' = [ssh EXCEPT ![sshForm] = x]
        /\ UNCHANGED <<addVisible, addTab, sshForm, installCmd, sshTaskId, known>>
    BY <1>15 DEF ProbeAsks
  <2>3. b \in BOOLEAN /\ (~b => ~s.retyped /\ r.form = sshForm)
    OBVIOUS
  <2> HIDE DEF b
  <2>4. x \in FormType /\ x.host = s.host /\ x.fp = s.fp /\ x.retyped = b
    BY <2>1, <2>3 DEF FormType
  <2> HIDE DEF x
  <2>5. ssh' \in [Forms -> FormType] /\ \A f \in Forms : ssh'[f] = IF f = sshForm THEN x ELSE ssh[f]
    BY <1>0, <2>1, <2>2, <2>4
  <2>6. FormFits(s) /\ FormFits(x)
    BY <2>1, <2>3, <2>4 DEF AddInv, FormFits
  <2>7. \A f \in Forms : FormFits(ssh'[f])
    BY <2>5, <2>6 DEF AddInv
  <2>8. ~ssh'[sshForm].retyped => ssh'[sshForm].host = pin'
    BY <2>1, <2>2, <2>3, <2>4, <2>5 DEF ProbeFits
  <2>9. AddTypeOK'
    BY <2>1, <2>2, <2>5 DEF AddInv, AddTypeOK, FormType
  <2>10. QED
    BY <1>14, <2>1, <2>2, <2>7, <2>8, <2>9
<1>16. ASSUME NEW r \in asked, ProbeFails(r) \/ InstallAnswer(r) \/ InstallRefused(r) PROVE AddInv'
  <2>1. SshReq(r) /\ asked' = asked \ {r}
    BY <1>16 DEF ProbeFails, InstallAnswer, InstallRefused, SshReq
  <2>2. addVisible' => addVisible
    BY <1>16 DEF ProbeFails, InstallAnswer, InstallRefused
  <2>3. UNCHANGED <<ssh, pin, sshForm>>
    BY <1>16 DEF ProbeFails, InstallAnswer, InstallRefused
  <2>4. r.host # None => r.host \in Hosts
    BY <1>0 DEF ReqType, HostOrNone
  <2>5. AddTypeOK'
    <3>1. AddBooleans'
      BY <1>16, AddTypes DEF ProbeFails, InstallAnswer, InstallRefused, AddInv, AddBooleans
    <3>2. known' \subseteq known \cup {r.host} /\ (known' = known \/ r.host # None)
      BY <1>16 DEF ProbeFails, InstallAnswer, InstallRefused
    <3>3. addTab' = addTab
      BY <1>16 DEF ProbeFails, InstallAnswer, InstallRefused
    <3>4. AddOthers'
      <4>1. AddOthers
        BY AddTypes DEF AddInv
      <4>2. known' \subseteq Hosts
        <5>1. known \subseteq Hosts
          BY <4>1 DEF AddOthers
        <5>2. CASE known' = known
          BY <5>1, <5>2
        <5>3. CASE r.host # None
          BY <2>4, <3>2, <5>1, <5>3
        <5>4. QED
          BY <3>2, <5>2, <5>3
      <4>3. asked' \subseteq ReqType
        BY <1>0, <2>1
      <4>4. QED
        BY <2>3, <3>3, <4>1, <4>2, <4>3 DEF AddOthers
    <3>5. QED
      BY <3>1, <3>4, AddTypesNext
  <2>6. /\ \A f \in Forms : FormFits(ssh'[f])
        /\ pin' # None => sshForm \in Forms
        /\ pin' # None => (~ssh'[sshForm].retyped => ssh'[sshForm].host = pin')
    BY <2>3 DEF AddInv
  <2>7. sshForm' = sshForm
    BY <2>3
  <2>8. QED
    BY <1>14, <1>16, <2>1, <2>5, <2>6, <2>7, <2>2
<1>17. CASE CancelPin
  <2>1. /\ pin' = None
        /\ UNCHANGED <<addVisible, addTab, ssh, sshForm, sshSubmitting, asked, installCmd,
                       sshTaskId, known>>
    BY <1>17 DEF CancelPin
  <2>2. AddTypeOK'
    BY <2>1 DEF AddInv, AddTypeOK, HostOrNone
  <2>3. QED
    BY <2>1, <2>2 DEF AddInv, OneSshReq
<1>18. QED
  BY <1>2, <1>3, <1>4, <1>5, <1>7, <1>8, <1>9, <1>11, <1>12, <1>13, <1>15, <1>16, <1>17
  DEF AddNext

\* An installation that pins a fingerprint pins the one of the host it is for,
\* unless the host was typed, or the dialog opened again, after the fingerprint
\* was asked for (submitSSH, confirmPinAndInstall).
THEOREM PinsTheHost == AddSpec => []PinBelongsToHost
<1>1. AddInv => PinBelongsToHost
  BY DEF AddInv, PinBelongsToHost, InstallFits
<1>2. QED
  BY AddInitial, AddStep, <1>1, PTL DEF AddSpec

\* Every variable of the dialog keeps its type.
THEOREM AddTyped == AddSpec => []AddTypeOK
<1>1. AddInv => AddTypeOK
  BY DEF AddInv
<1>2. QED
  BY AddInitial, AddStep, <1>1, PTL DEF AddSpec

-----------------------------------------------------------------------------
(* The table and the upgrades (NodeList) *)

LoadRecords == [by : Nodes \cup {None}, served : BOOLEAN, filtered : BOOLEAN,
                snap : [Nodes -> {"absent", "old", "new"}]]
ListOps == {"status", "delete", "upgrade", "token"} \cup Batches
ActRecords == [op : ListOps, on : SUBSET Nodes]
ListForms ==
  /\ agent \in [Nodes -> {"old", "new", "gone"}]
  /\ pushed \subseteq Nodes /\ selected \subseteq Nodes
  /\ filtered \in BOOLEAN /\ upgrading \in BOOLEAN /\ batching \in BOOLEAN
  /\ rows \in [Nodes -> {"absent", "old", "new"}]
  /\ question \in [op : {"none", "delete", "upgrade", "token"} \cup Batches, on : SUBSET Nodes]
  /\ check \in [Nodes -> [step : {"off", "wait", "load"}, round : 0..MaxRounds, due : BOOLEAN]]
  /\ told \in [Nodes -> [said : {"nothing", "upgraded", "unchanged"}, due : BOOLEAN]]

\* The new version runs, or ran, only where a package was put in place.
Upgraded(n) == n \in pushed /\ agent[n] # "old"

\* Nothing shows the new version of a node that has not reported it.
SeenNew ==
  \A n \in Nodes : /\ agent[n] = "new" => n \in pushed
                   /\ rows[n] = "new" => Upgraded(n)
                   /\ \A l \in loads : l.snap[n] = "new" => Upgraded(n)

\* The check of a node has one list in flight, in its round.
OneRound ==
  \A n \in Nodes : \A l \in loads :
    l.by = n => check[n].step = "load" /\ \A k \in loads : k.by = n => k = l

\* A round that must find the new version asks for an unfiltered list of a node
\* that has reported it: once served, the list shows it, unless the node was removed.
DueRounds ==
  \A n \in Nodes : check[n].due =>
    /\ check[n].step = "load" /\ agent[n] # "old"
    /\ \A l \in loads : l.by = n =>
         /\ ~l.filtered
         /\ l.served => l.snap[n] = "new" \/ agent[n] = "gone"

\* A removal of the selected nodes is the one batch that asks.
QuestionOK == question.op # "batch" /\ (question.op = "none" => question = NoAct)

ListInv ==
  /\ ListTypeOK /\ SeenNew /\ OneRound /\ DueRounds /\ UpgradeNewsTrue
  /\ SpinnersEnd /\ QuestionOK

LEMMA ListTypes == ListTypeOK <=> ListForms /\ loads \subseteq LoadRecords /\ acts \subseteq ActRecords
  BY DEF ListTypeOK, ListForms, LoadRecords, ActRecords, ListOps

\* What is asked for is of nobody or of one check, and shows nothing yet.
LEMMA PlainLoads ==
  ASSUME filtered \in BOOLEAN, NEW f \in BOOLEAN
  PROVE  /\ Plain \in LoadRecords /\ Plain.by = None /\ Plain.snap = Absent
         /\ ~Plain.served /\ Plain.filtered = filtered
         /\ [Plain EXCEPT !.filtered = f] \in LoadRecords
         /\ [Plain EXCEPT !.filtered = f].by = None /\ [Plain EXCEPT !.filtered = f].snap = Absent
<1>1. Absent \in [Nodes -> {"absent", "old", "new"}]
  BY DEF Absent
<1>2. Plain \in LoadRecords /\ Plain.by = None /\ Plain.snap = Absent /\ Plain.served = FALSE
      /\ Plain.filtered = filtered
  BY <1>1 DEF Plain, LoadRecords
<1>3. /\ [Plain EXCEPT !.filtered = f] \in LoadRecords
      /\ [Plain EXCEPT !.filtered = f].by = None /\ [Plain EXCEPT !.filtered = f].snap = Absent
  BY <1>2 DEF LoadRecords
<1>4. QED
  BY <1>2, <1>3

LEMMA CheckLoads ==
  ASSUME filtered \in BOOLEAN, NEW n \in Nodes
  PROVE  /\ CheckOf(n) \in LoadRecords /\ CheckOf(n).by = n /\ ~CheckOf(n).served
         /\ CheckOf(n).filtered = filtered /\ CheckOf(n).snap = Absent
<1>1. /\ CheckOf(n) \in LoadRecords /\ CheckOf(n).by = n /\ CheckOf(n).served = Plain.served
      /\ CheckOf(n).filtered = Plain.filtered /\ CheckOf(n).snap = Plain.snap
  BY PlainLoads DEF CheckOf, LoadRecords
<1>2. QED
  BY <1>1, PlainLoads

LEMMA ListInitial == ListInit => ListInv
<1> SUFFICES ASSUME ListInit PROVE ListInv
  OBVIOUS
<1>1. filtered \in BOOLEAN /\ loads = {Plain} /\ acts = {} /\ MaxRounds \in Nat
  BY ListAssumption DEF ListInit
<1>2. Plain \in LoadRecords /\ Plain.by = None /\ Plain.snap = Absent
  BY <1>1, PlainLoads
<1>3. NoAct \in [op : {"none", "delete", "upgrade", "token"} \cup Batches, on : SUBSET Nodes]
      /\ NoAct.op = "none"
  BY DEF NoAct
<1>4. 0 \in 0..MaxRounds
  BY <1>1
<1>5. Off \in [step : {"off", "wait", "load"}, round : 0..MaxRounds, due : BOOLEAN] /\ ~Off.due
  BY <1>4 DEF Off
<1>6. ListTypeOK
  <2>1. ListForms
    BY <1>3, <1>5 DEF ListInit, ListForms, Absent
  <2>2. QED
    BY <2>1, <1>1, <1>2, ListTypes
<1>7. SeenNew /\ OneRound
  BY <1>1, <1>2, WebAssumption DEF ListInit, SeenNew, OneRound, Absent
<1>8. DueRounds /\ UpgradeNewsTrue
  BY <1>5 DEF ListInit, DueRounds, UpgradeNewsTrue
<1>9. SpinnersEnd /\ QuestionOK
  BY <1>3 DEF ListInit, SpinnersEnd, QuestionOK
<1>10. QED
  BY <1>6, <1>7, <1>8, <1>9 DEF ListInv

\* Rows come from lists, nodes leave, and what is asked for is of no check.
LEMMA NewsStays ==
  ASSUME SeenNew, OneRound, DueRounds, UpgradeNewsTrue,
         pushed \subseteq pushed', UNCHANGED <<check, told>>,
         \A n \in Nodes : agent'[n] \in {agent[n], "gone"},
         rows' = rows \/ \E l \in loads : rows' = l.snap,
         \A l \in loads' : l \in loads \/ (l.by = None /\ l.snap = Absent)
  PROVE  SeenNew' /\ OneRound' /\ DueRounds' /\ UpgradeNewsTrue'
<1>1. \A n \in Nodes : Upgraded(n) => Upgraded(n)'
  BY DEF Upgraded
<1>2. SeenNew'
  BY <1>1 DEF SeenNew, Absent
<1>3. OneRound'
  BY WebAssumption DEF OneRound
<1>4. DueRounds'
  BY WebAssumption DEF DueRounds
<1>5. UpgradeNewsTrue'
  BY DEF UpgradeNewsTrue
<1>6. QED
  BY <1>2, <1>3, <1>4, <1>5


LEMMA ListStep == ListInv /\ [ListNext]_listVars => ListInv'
<1> SUFFICES ASSUME ListInv, [ListNext]_listVars PROVE ListInv'
  OBVIOUS
<1>a. /\ ListForms /\ loads \subseteq LoadRecords /\ acts \subseteq ActRecords /\ QuestionOK
      /\ SeenNew /\ OneRound /\ DueRounds /\ UpgradeNewsTrue /\ SpinnersEnd
      /\ Nodes \cap Remote = Remote /\ MaxRounds \in Nat /\ 0 \in 0..MaxRounds
  BY ListTypes, ListAssumption DEF ListInv
<1>b. (/\ ListForms' /\ loads' \subseteq LoadRecords /\ acts' \subseteq ActRecords
       /\ SeenNew' /\ OneRound' /\ DueRounds' /\ UpgradeNewsTrue' /\ SpinnersEnd' /\ QuestionOK')
      => ListInv'
  <2>1. (ListForms' /\ loads' \subseteq LoadRecords /\ acts' \subseteq ActRecords) => ListTypeOK'
    BY DEF ListTypeOK, ListForms, LoadRecords, ActRecords, ListOps
  <2>2. QED
    BY <2>1 DEF ListInv
<1>c. NoAct \in [op : {"none", "delete", "upgrade", "token"} \cup Batches, on : SUBSET Nodes]
      /\ NoAct.op = "none" /\ "none" \notin Batches \cup {"upgrade"}
  BY DEF NoAct, Batches
<1>d. /\ Plain \in LoadRecords /\ Plain.by = None /\ Plain.snap = Absent
  BY <1>a, PlainLoads DEF ListForms
<1>1. ASSUME NEW f \in BOOLEAN, load(f) PROVE ListInv'
  <2> DEFINE x == [Plain EXCEPT !.filtered = f]
  <2>1. x \in LoadRecords /\ x.by = None /\ x.snap = Absent
    BY <1>a, PlainLoads DEF ListForms
  <2>2. /\ loads' = loads \cup {x} /\ filtered' = f
        /\ UNCHANGED <<agent, pushed, rows, acts, question, selected, upgrading, batching, check, told>>
    BY <1>1 DEF load
  <2> HIDE DEF x
  <2>3. ListForms' /\ loads' \subseteq LoadRecords /\ acts' \subseteq ActRecords
    BY <1>a, <1>1, <2>1, <2>2 DEF ListForms
  <2>4. SeenNew' /\ OneRound' /\ DueRounds' /\ UpgradeNewsTrue'
    BY <1>a, <2>1, <2>2, NewsStays
  <2>5. SpinnersEnd' /\ QuestionOK'
    BY <1>a, <2>2 DEF SpinnersEnd, QuestionOK
  <2>6. QED
    BY <1>b, <2>3, <2>4, <2>5
<1>2. ASSUME NEW l \in loads, Serve(l) PROVE ListInv'
  <2>1. PICK hidden \in SUBSET Nodes :
          /\ ~l.filtered => hidden = {}
          /\ loads' = (loads \ {l}) \cup
               {[l EXCEPT !.served = TRUE,
                          !.snap = [n \in Nodes |-> IF n \in hidden \/ agent[n] = "gone" THEN "absent"
                                                    ELSE agent[n]]]}
    BY <1>2 DEF Serve
  <2>2. ~l.served /\ UNCHANGED <<agent, pushed, filtered, rows, acts, question, selected, upgrading,
                                batching, check, told>>
    BY <1>2 DEF Serve
  <2> DEFINE snap == [n \in Nodes |-> IF n \in hidden \/ agent[n] = "gone" THEN "absent" ELSE agent[n]]
             x == [l EXCEPT !.served = TRUE, !.snap = snap]
  <2>3. snap \in [Nodes -> {"absent", "old", "new"}]
    BY <1>a DEF ListForms
  <2>4. l \in LoadRecords
    BY <1>a
  <2>5. x \in LoadRecords /\ x.by = l.by /\ x.filtered = l.filtered /\ x.snap = snap
    BY <2>3, <2>4 DEF LoadRecords
  <2>6. /\ \A n \in Nodes : snap[n] = "new" => agent[n] = "new"
        /\ ~l.filtered => \A n \in Nodes : agent[n] # "old" => snap[n] = "new" \/ agent[n] = "gone"
    BY <1>a, <2>1 DEF ListForms
  <2>7. loads' = (loads \ {l}) \cup {x}
    BY <2>1
  <2> HIDE DEF snap, x
  <2>8. ListForms' /\ loads' \subseteq LoadRecords /\ acts' \subseteq ActRecords
    BY <1>a, <2>2, <2>5, <2>7 DEF ListForms
  <2>9. SeenNew'
    BY <1>a, <2>2, <2>5, <2>6, <2>7 DEF SeenNew, Upgraded
  <2>10. OneRound'
    BY <1>a, <2>2, <2>5, <2>7 DEF OneRound
  <2>11. DueRounds'
    BY <1>a, <2>2, <2>5, <2>6, <2>7 DEF DueRounds
  <2>12. UpgradeNewsTrue' /\ SpinnersEnd' /\ QuestionOK'
    BY <1>a, <2>2 DEF UpgradeNewsTrue, SpinnersEnd, QuestionOK
  <2>13. QED
    BY <1>b, <2>8, <2>9, <2>10, <2>11, <2>12
<1>3. ASSUME NEW l \in loads, Loaded(l) PROVE ListInv'
  <2>1. /\ loads' = loads \ {l}
        /\ UNCHANGED <<agent, pushed, filtered, acts, question, upgrading, batching, check, told>>
        /\ (rows' = l.snap /\ selected' = {}) \/ UNCHANGED <<rows, selected>>
    BY <1>3 DEF Loaded, Shows
  <2>2. ListForms' /\ loads' \subseteq LoadRecords /\ acts' \subseteq ActRecords
    BY <1>a, <2>1 DEF ListForms, LoadRecords
  <2>3. SeenNew' /\ OneRound' /\ DueRounds' /\ UpgradeNewsTrue'
    BY <1>a, <2>1, NewsStays
  <2>4. SpinnersEnd' /\ QuestionOK'
    BY <1>a, <2>1 DEF SpinnersEnd, QuestionOK
  <2>5. QED
    BY <1>b, <2>2, <2>3, <2>4
<1>4. ASSUME NEW l \in loads, NEW n \in Nodes, verifyUpgradeLanded(n, l) PROVE ListInv'
  <2>1. /\ check[n].step = "load" /\ l.by = n /\ loads' = loads \ {l}
        /\ UNCHANGED <<agent, pushed, filtered, acts, question, upgrading, batching>>
    BY <1>4 DEF verifyUpgradeLanded
  <2>2. PICK seen \in [Nodes -> {"absent", "old", "new"}], due \in BOOLEAN :
          /\ Look(n, seen, due)
          /\ seen[n] = "new" => Upgraded(n)
          /\ due => seen[n] = "new" \/ agent[n] = "gone"
          /\ rows' = rows \/ rows' = l.snap
          /\ selected' \subseteq Nodes
    <3>1. CASE l.served /\ Shows(l) /\ Look(n, l.snap, check[n].due)
      <4>1. l.snap \in [Nodes -> {"absent", "old", "new"}] /\ check[n].due \in BOOLEAN
        BY <1>a DEF ListForms, LoadRecords
      <4>2. /\ l.snap[n] = "new" => Upgraded(n)
            /\ check[n].due => l.snap[n] = "new" \/ agent[n] = "gone"
        BY <1>a, <2>1, <3>1 DEF SeenNew, DueRounds
      <4>3. QED
        BY <3>1, <4>1, <4>2 DEF Shows
    <3>2. CASE UNCHANGED <<rows, selected>> /\ Look(n, rows, FALSE)
      BY <1>a, <3>2 DEF ListForms, SeenNew
    <3>3. QED
      BY <1>4, <3>1, <3>2 DEF verifyUpgradeLanded
  <2>3. /\ \E r \in 0..MaxRounds, step \in {"off", "wait"} :
             check' = [check EXCEPT ![n] = [step |-> step, round |-> r, due |-> FALSE]]
        /\ \/ told' = told
           \/ /\ told' = [told EXCEPT ![n] = [said |-> "upgraded", due |-> due]]
              /\ seen[n] = "new"
           \/ /\ told' = [told EXCEPT ![n] = [said |-> "unchanged", due |-> due]]
              /\ seen[n] # "new"
    <3>1. check[n].round \in 0..MaxRounds
      BY <1>a DEF ListForms
    <3>2. CASE seen[n] = "new"
      BY <1>a, <2>2, <3>2 DEF Look, Off
    <3>3. CASE seen[n] # "new" /\ check[n].round + 1 < MaxRounds
      <4>1. check[n].round + 1 \in 0..MaxRounds
        BY <1>a, <3>1, <3>3
      <4>2. QED
        BY <2>2, <3>3, <4>1 DEF Look
    <3>4. CASE seen[n] # "new" /\ ~(check[n].round + 1 < MaxRounds)
      BY <1>a, <2>2, <3>4 DEF Look, Off
    <3>5. QED
      BY <3>2, <3>3, <3>4
  <2>4. ListForms' /\ loads' \subseteq LoadRecords /\ acts' \subseteq ActRecords
    <3>1. loads' \subseteq LoadRecords /\ acts' \subseteq ActRecords
      BY <1>a, <2>1
    <3>2. rows' \in [Nodes -> {"absent", "old", "new"}]
      BY <1>a, <2>2 DEF ListForms, LoadRecords
    <3>3. check' \in [Nodes -> [step : {"off", "wait", "load"}, round : 0..MaxRounds, due : BOOLEAN]]
      BY <1>a, <2>3 DEF ListForms
    <3>4. told' \in [Nodes -> [said : {"nothing", "upgraded", "unchanged"}, due : BOOLEAN]]
      BY <1>a, <2>3 DEF ListForms
    <3>5. QED
      BY <1>a, <2>1, <2>2, <3>1, <3>2, <3>3, <3>4 DEF ListForms
  <2>5. SeenNew'
    BY <1>a, <2>1, <2>2 DEF SeenNew, Upgraded
  <2>6. \A m \in Nodes : m # n => check'[m] = check[m] /\ told'[m] = told[m]
    BY <1>a, <2>3 DEF ListForms
  <2>7. ~check'[n].due /\ \A k \in loads' : k.by # n
    BY <1>a, <2>1, <2>3 DEF ListForms, OneRound
  <2>8. OneRound' /\ DueRounds'
    BY <1>a, <2>1, <2>6, <2>7 DEF OneRound, DueRounds
  <2>9. UpgradeNewsTrue'
    <3>1. \/ told'[n] = told[n]
          \/ told'[n] = [said |-> "upgraded", due |-> due] /\ Upgraded(n)
          \/ told'[n] = [said |-> "unchanged", due |-> due] /\ (due => agent[n] = "gone")
      BY <1>a, <2>2, <2>3 DEF ListForms
    <3>2. QED
      BY <1>a, <2>1, <2>6, <3>1 DEF UpgradeNewsTrue, Upgraded
  <2>10. SpinnersEnd' /\ QuestionOK'
    BY <1>a, <2>1 DEF SpinnersEnd, QuestionOK
  <2>11. QED
    BY <1>b, <2>4, <2>5, <2>8, <2>9, <2>10
<1>5. ASSUME NEW S \in SUBSET Nodes, Select(S) PROVE ListInv'
  <2>1. /\ selected' = S
        /\ UNCHANGED <<agent, pushed, filtered, rows, loads, acts, question, upgrading, batching, check, told>>
    BY <1>5 DEF Select
  <2>2. ListForms' /\ loads' \subseteq LoadRecords /\ acts' \subseteq ActRecords
    BY <1>a, <2>1 DEF ListForms
  <2>3. SeenNew' /\ OneRound' /\ DueRounds' /\ UpgradeNewsTrue'
    BY <1>a, <2>1, NewsStays
  <2>4. SpinnersEnd' /\ QuestionOK'
    BY <1>a, <2>1 DEF SpinnersEnd, QuestionOK
  <2>5. QED
    BY <1>b, <2>2, <2>3, <2>4
<1>6. ASSUME NEW n \in Nodes, toggleStatus(n) PROVE ListInv'
  <2>1. /\ acts' = acts \cup {[op |-> "status", on |-> {n}]}
        /\ UNCHANGED <<agent, pushed, filtered, rows, loads, question, selected, upgrading, batching, check, told>>
    BY <1>6 DEF toggleStatus
  <2>2. ListForms' /\ loads' \subseteq LoadRecords /\ acts' \subseteq ActRecords
    BY <1>a, <2>1 DEF ListForms, ActRecords, ListOps
  <2>3. SeenNew' /\ OneRound' /\ DueRounds' /\ UpgradeNewsTrue'
    BY <1>a, <2>1, NewsStays
  <2>4. SpinnersEnd' /\ QuestionOK'
    BY <1>a, <2>1 DEF SpinnersEnd, QuestionOK
  <2>5. QED
    BY <1>b, <2>2, <2>3, <2>4
<1>7. ASSUME NEW op \in {"delete", "upgrade", "token"}, NEW n \in Nodes, AskFor(op, n) PROVE ListInv'
  <2>1. /\ question = NoAct /\ question' = [op |-> op, on |-> {n}]
        /\ UNCHANGED <<agent, pushed, filtered, rows, loads, acts, selected, upgrading, batching, check, told>>
    BY <1>7 DEF AskFor
  <2>2. ListForms' /\ loads' \subseteq LoadRecords /\ acts' \subseteq ActRecords
    BY <1>a, <2>1 DEF ListForms
  <2>3. SeenNew' /\ OneRound' /\ DueRounds' /\ UpgradeNewsTrue'
    BY <1>a, <2>1, NewsStays
  <2>4. SpinnersEnd' /\ QuestionOK'
    BY <1>a, <1>c, <2>1 DEF SpinnersEnd, QuestionOK, Batches
  <2>5. QED
    BY <1>b, <2>2, <2>3, <2>4
<1>8. ASSUME NEW op \in Batches, runBatch(op) PROVE ListInv'
  <2> DEFINE x == [op |-> op, on |-> selected]
  <2>1. /\ question = NoAct /\ batching' = TRUE
        /\ UNCHANGED <<agent, pushed, filtered, rows, loads, selected, upgrading, check, told>>
        /\ \/ op = "batchDelete" /\ question' = x /\ acts' = acts
           \/ op # "batchDelete" /\ acts' = acts \cup {x} /\ question' = question
    BY <1>8 DEF runBatch
  <2>2. /\ x \in [op : {"none", "delete", "upgrade", "token"} \cup Batches, on : SUBSET Nodes]
        /\ x \in ActRecords /\ x.op = op
    BY <1>a DEF ListForms, ActRecords, ListOps
  <2> HIDE DEF x
  <2>3. ListForms' /\ loads' \subseteq LoadRecords /\ acts' \subseteq ActRecords
    BY <1>a, <2>1, <2>2 DEF ListForms
  <2>4. SeenNew' /\ OneRound' /\ DueRounds' /\ UpgradeNewsTrue'
    BY <1>a, <2>1, NewsStays
  <2>5. SpinnersEnd'
    BY <1>a, <2>1, <2>2 DEF SpinnersEnd
  <2>6. QuestionOK'
    BY <1>a, <1>c, <2>1, <2>2 DEF QuestionOK
  <2>7. QED
    BY <1>b, <2>3, <2>4, <2>5, <2>6
<1>9. ASSUME Yes PROVE ListInv'
  <2>1. /\ question # NoAct /\ acts' = acts \cup {question} /\ question' = NoAct
        /\ upgrading' = (upgrading \/ question.op = "upgrade")
        /\ UNCHANGED <<agent, pushed, filtered, rows, loads, selected, batching, check, told>>
    BY <1>9 DEF Yes
  <2>2. question \in ActRecords
    BY <1>a, <2>1 DEF ListForms, QuestionOK, ActRecords, ListOps
  <2>3. ListForms' /\ loads' \subseteq LoadRecords /\ acts' \subseteq ActRecords
    BY <1>a, <1>c, <2>1, <2>2 DEF ListForms
  <2>4. SeenNew' /\ OneRound' /\ DueRounds' /\ UpgradeNewsTrue'
    BY <1>a, <2>1, NewsStays
  <2>5. SpinnersEnd' /\ QuestionOK'
    BY <1>a, <1>c, <2>1 DEF SpinnersEnd, QuestionOK
  <2>6. QED
    BY <1>b, <2>3, <2>4, <2>5
<1>10. ASSUME No PROVE ListInv'
  <2>1. /\ question # NoAct /\ question' = NoAct
        /\ batching' = (batching /\ question.op # "batchDelete")
        /\ UNCHANGED <<agent, pushed, filtered, rows, loads, acts, selected, upgrading, check, told>>
    BY <1>10 DEF No
  <2>2. ListForms' /\ loads' \subseteq LoadRecords /\ acts' \subseteq ActRecords
    BY <1>a, <1>c, <2>1 DEF ListForms
  <2>3. SeenNew' /\ OneRound' /\ DueRounds' /\ UpgradeNewsTrue'
    BY <1>a, <2>1, NewsStays
  <2>4. SpinnersEnd' /\ QuestionOK'
    BY <1>a, <1>c, <2>1 DEF SpinnersEnd, QuestionOK, Batches
  <2>5. QED
    BY <1>b, <2>2, <2>3, <2>4
<1>11. ASSUME NEW a \in acts, Done(a) PROVE ListInv'
  <2>1. /\ a.op # "upgrade" /\ acts' = acts \ {a}
        /\ agent' = [n \in Nodes |-> IF n \in a.on \cap Remote /\ a.op \in Removes THEN "gone" ELSE agent[n]]
        /\ loads' = loads \/ loads' = loads \cup {Plain}
        /\ selected' = selected \/ selected' = {}
        /\ batching' = (batching /\ a.op \notin Batches)
        /\ UNCHANGED <<pushed, filtered, rows, question, upgrading, check, told>>
    BY <1>11 DEF Done
  <2>2. /\ agent' \in [Nodes -> {"old", "new", "gone"}]
        /\ \A n \in Nodes : agent'[n] \in {agent[n], "gone"}
    BY <1>a, <2>1 DEF ListForms
  <2>3. ListForms' /\ loads' \subseteq LoadRecords /\ acts' \subseteq ActRecords
    <3>1. loads' \subseteq LoadRecords /\ acts' \subseteq ActRecords
      BY <1>a, <1>d, <2>1
    <3>2. QED
      BY <1>a, <2>1, <2>2, <3>1 DEF ListForms
  <2>4. SeenNew' /\ OneRound' /\ DueRounds' /\ UpgradeNewsTrue'
    BY <1>a, <1>d, <2>1, <2>2, NewsStays
  <2>5. SpinnersEnd' /\ QuestionOK'
    BY <1>a, <2>1 DEF SpinnersEnd, QuestionOK
  <2>6. QED
    BY <1>b, <2>3, <2>4, <2>5
<1>12. ASSUME NEW a \in acts, Refused(a) PROVE ListInv'
  <2>1. /\ a.op # "upgrade" /\ acts' = acts \ {a}
        /\ batching' = (batching /\ a.op \notin Batches)
        /\ UNCHANGED <<agent, pushed, filtered, rows, loads, question, selected, upgrading, check, told>>
    BY <1>12 DEF Refused
  <2>2. ListForms' /\ loads' \subseteq LoadRecords /\ acts' \subseteq ActRecords
    BY <1>a, <2>1 DEF ListForms
  <2>3. SeenNew' /\ OneRound' /\ DueRounds' /\ UpgradeNewsTrue'
    BY <1>a, <2>1, NewsStays
  <2>4. SpinnersEnd' /\ QuestionOK'
    BY <1>a, <2>1 DEF SpinnersEnd, QuestionOK
  <2>5. QED
    BY <1>b, <2>2, <2>3, <2>4
<1>13. ASSUME NEW a \in acts, UpgradeRefused(a) PROVE ListInv'
  <2>1. /\ a.op = "upgrade" /\ acts' = acts \ {a} /\ upgrading' = FALSE /\ loads' = loads \cup {Plain}
        /\ UNCHANGED <<agent, pushed, filtered, rows, question, selected, batching, check, told>>
    BY <1>13 DEF UpgradeRefused
  <2>2. ListForms' /\ loads' \subseteq LoadRecords /\ acts' \subseteq ActRecords
    BY <1>a, <1>d, <2>1 DEF ListForms
  <2>3. SeenNew' /\ OneRound' /\ DueRounds' /\ UpgradeNewsTrue'
    BY <1>a, <1>d, <2>1, NewsStays
  <2>4. SpinnersEnd' /\ QuestionOK'
    BY <1>a, <2>1 DEF SpinnersEnd, QuestionOK, Batches
  <2>5. QED
    BY <1>b, <2>2, <2>3, <2>4
<1>14. ASSUME NEW a \in acts, NEW n \in Nodes, UpgradeSent(a, n) PROVE ListInv'
  <2>1. /\ a.op = "upgrade" /\ check[n].step = "off" /\ acts' = acts \ {a} /\ upgrading' = FALSE
        /\ pushed' = pushed \cup {n}
        /\ UNCHANGED <<agent, filtered, rows, question, selected, batching>>
    BY <1>14 DEF UpgradeSent
  <2>2. SpinnersEnd' /\ QuestionOK' /\ acts' \subseteq ActRecords
    BY <1>a, <2>1 DEF SpinnersEnd, QuestionOK, Batches
  <2>3. CASE loads' = loads \cup {Plain} /\ UNCHANGED <<check, told>>
    <3>1. ListForms' /\ loads' \subseteq LoadRecords
      BY <1>a, <1>d, <2>1, <2>3 DEF ListForms
    <3>2. SeenNew' /\ OneRound' /\ DueRounds' /\ UpgradeNewsTrue'
      BY <1>a, <1>d, <2>1, <2>3, NewsStays
    <3>3. QED
      BY <1>b, <2>2, <3>1, <3>2
  <2>4. CASE /\ check' = [check EXCEPT ![n] = [Off EXCEPT !.step = "wait"]]
             /\ told' = [told EXCEPT ![n] = [said |-> "nothing", due |-> FALSE]]
             /\ UNCHANGED loads
    <3> DEFINE w == [Off EXCEPT !.step = "wait"]
    <3>1. w \in [step : {"off", "wait", "load"}, round : 0..MaxRounds, due : BOOLEAN] /\ ~w.due
      BY <1>a DEF Off
    <3>2. check' = [check EXCEPT ![n] = w] /\ told' = [told EXCEPT ![n] = [said |-> "nothing", due |-> FALSE]]
      BY <2>4
    <3> HIDE DEF w
    <3>3. ListForms' /\ loads' \subseteq LoadRecords
      <4>1. check' \in [Nodes -> [step : {"off", "wait", "load"}, round : 0..MaxRounds, due : BOOLEAN]]
        BY <1>a, <3>1, <3>2 DEF ListForms
      <4>2. told' \in [Nodes -> [said : {"nothing", "upgraded", "unchanged"}, due : BOOLEAN]]
        BY <1>a, <3>2 DEF ListForms
      <4>3. QED
        BY <1>a, <2>1, <2>4, <4>1, <4>2 DEF ListForms
    <3>4. /\ \A m \in Nodes : m # n => check'[m] = check[m] /\ told'[m] = told[m]
          /\ ~check'[n].due /\ told'[n].said = "nothing"
      BY <1>a, <3>1, <3>2 DEF ListForms
    <3>5. \A l \in loads : l.by # n
      BY <1>a, <2>1 DEF OneRound
    <3>6. SeenNew' /\ OneRound' /\ DueRounds'
      BY <1>a, <2>1, <2>4, <3>4, <3>5 DEF SeenNew, Upgraded, OneRound, DueRounds
    <3>7. UpgradeNewsTrue'
      BY <1>a, <2>1, <3>4 DEF UpgradeNewsTrue
    <3>8. QED
      BY <1>b, <2>2, <3>3, <3>6, <3>7
  <2>5. QED
    BY <1>14, <2>3, <2>4 DEF UpgradeSent
<1>15. ASSUME NEW n \in Nodes, Report(n) PROVE ListInv'
  <2>1. /\ n \in pushed /\ agent[n] = "old" /\ agent' = [agent EXCEPT ![n] = "new"]
        /\ UNCHANGED <<pushed, filtered, rows, loads, acts, question, selected, upgrading, batching, check, told>>
    BY <1>15 DEF Report
  <2>2. ListForms' /\ loads' \subseteq LoadRecords /\ acts' \subseteq ActRecords
    BY <1>a, <2>1 DEF ListForms
  <2>3. agent'[n] = "new" /\ \A m \in Nodes : m # n => agent'[m] = agent[m]
    BY <1>a, <2>1 DEF ListForms
  <2>4. SeenNew' /\ OneRound'
    BY <1>a, <2>1, <2>3 DEF SeenNew, Upgraded, OneRound
  <2>5. DueRounds' /\ UpgradeNewsTrue'
    BY <1>a, <2>1, <2>3 DEF DueRounds, UpgradeNewsTrue
  <2>6. SpinnersEnd' /\ QuestionOK'
    BY <1>a, <2>1 DEF SpinnersEnd, QuestionOK
  <2>7. QED
    BY <1>b, <2>2, <2>4, <2>5, <2>6
<1>16. ASSUME NEW n \in Nodes, CheckRound(n) PROVE ListInv'
  <2> DEFINE x == CheckOf(n)
             due == agent[n] = "new" /\ ~filtered
  <2>1. /\ check[n].step = "wait" /\ loads' = loads \cup {x}
        /\ check' = [check EXCEPT ![n] = [@ EXCEPT !.step = "load", !.due = due]]
        /\ UNCHANGED <<agent, pushed, filtered, rows, acts, question, selected, upgrading, batching, told>>
    BY <1>16 DEF CheckRound
  <2>2. x \in LoadRecords /\ x.by = n /\ ~x.served /\ x.filtered = filtered /\ x.snap = Absent
    BY <1>a, CheckLoads DEF ListForms
  <2>3. due \in BOOLEAN /\ (due => agent[n] # "old" /\ ~filtered)
    BY <1>a DEF ListForms
  <2> HIDE DEF x, due
  <2>4. ListForms' /\ loads' \subseteq LoadRecords /\ acts' \subseteq ActRecords
    <3>1. check' \in [Nodes -> [step : {"off", "wait", "load"}, round : 0..MaxRounds, due : BOOLEAN]]
      BY ZenonT(30), <1>a, <2>1, <2>3 DEF ListForms
    <3>2. QED
      BY <1>a, <2>1, <2>2, <3>1 DEF ListForms
  <2>5. /\ \A m \in Nodes : m # n => check'[m] = check[m]
        /\ check'[n].step = "load" /\ check'[n].due = due
    BY <1>a, <2>1 DEF ListForms
  <2>6. \A l \in loads : l.by # n
    BY <1>a, <2>1 DEF OneRound
  <2>7. SeenNew'
    BY <1>a, <2>1, <2>2 DEF SeenNew, Upgraded, Absent
  <2>8. OneRound'
    BY <1>a, <2>1, <2>2, <2>5, <2>6 DEF OneRound
  <2>9. DueRounds'
    BY <1>a, <2>1, <2>2, <2>3, <2>5, <2>6 DEF DueRounds
  <2>10. UpgradeNewsTrue' /\ SpinnersEnd' /\ QuestionOK'
    BY <1>a, <2>1 DEF UpgradeNewsTrue, SpinnersEnd, QuestionOK
  <2>11. QED
    BY <1>b, <2>4, <2>7, <2>8, <2>9, <2>10
<1>17. ASSUME UNCHANGED listVars PROVE ListInv'
  <2>1. UNCHANGED <<agent, pushed, filtered, rows, loads, acts, question, selected, upgrading, batching, check, told>>
    BY <1>17 DEF listVars
  <2>2. ListForms' /\ loads' \subseteq LoadRecords /\ acts' \subseteq ActRecords
    BY <1>a, <2>1 DEF ListForms
  <2>3. SeenNew' /\ OneRound' /\ DueRounds' /\ UpgradeNewsTrue'
    BY <1>a, <2>1, NewsStays
  <2>4. SpinnersEnd' /\ QuestionOK'
    BY <1>a, <2>1 DEF SpinnersEnd, QuestionOK
  <2>5. QED
    BY <1>b, <2>2, <2>3, <2>4
<1>18. QED
  BY <1>1, <1>2, <1>3, <1>4, <1>5, <1>6, <1>7, <1>8, <1>9, <1>10, <1>11, <1>12, <1>13, <1>14, <1>15, <1>16, <1>17
  DEF ListNext

\* What the check of an upgrade says is so: "upgraded" only of a node that runs the
\* new version, "unchanged" never of one that an answered, unfiltered round had to
\* show with the new one (verifyUpgradeLanded of NodesView.vue).
THEOREM UpgradeNewsHolds == ListSpec => []UpgradeNewsTrue
<1>1. ListInv => UpgradeNewsTrue
  BY DEF ListInv
<1>2. QED
  BY ListInitial, ListStep, <1>1, PTL DEF ListSpec

-----------------------------------------------------------------------------
(* The whole page: MCNodes, whose behaviours let one part move *)

\* A behaviour of the page is one of every part: what the parts keep, it keeps.
LEMMA PartsOfThePage ==
  Spec => /\ ListSpec /\ DrawerSpec /\ AddSpec
          /\ TermSpec /\ TokenSpec /\ SwapSpec
<1>1. Init => ListInit /\ DrawerInit /\ AddInit /\ TermInit /\ TokenInit /\ SwapInit
  BY DEF Init
<1>2. [Next]_nodesVars => /\ [ListNext]_listVars /\ [DrawerNext]_drawerVars /\ [AddNext]_addVars
                          /\ [TermNext]_termVars /\ [TokenNext]_tokenVars /\ [SwapNext]_swapVars
  BY DEF Next, nodesVars
<1>3. QED
  BY <1>1, <1>2, PTL DEF Spec, ListSpec, DrawerSpec, AddSpec, TermSpec, TokenSpec, SwapSpec

\* Every variable of the page keeps its type, for any nodes, hosts, keys and bounds.
THEOREM NodesTyped == Spec => []NodesTypeOK
<1>1. ListInv => ListTypeOK
  BY DEF ListInv
<1>2. ListSpec => []ListTypeOK
  BY ListInitial, ListStep, <1>1, PTL DEF ListSpec
<1>3. Spec => [](ListTypeOK /\ DrawerTypeOK /\ AddTypeOK /\ TermTypeOK /\ TokenTypeOK /\ SwapTypeOK)
  BY PartsOfThePage, <1>2, DrawerTyped, AddTyped, TerminalTyped, TokenTyped, SwapTyped, PTL
<1>4. QED
  BY <1>3, PTL DEF NodesTypeOK

\* Whenever the spinner of an upgrade or a batch button is up, there is a request
\* or a question whose end takes it down, and the agent's flag only in an upgrade;
\* the spinner of the terminal's connect button is up with an open socket to take it
\* down, or else the dialog was closed while connecting and none connected since, the
\* one case where the code leaves it up (NodesView.vue:1412-1443, agent/upgrade.go).
THEOREM SpinnersCanEndHolds == Spec => []SpinnersCanEnd
<1>1. ListInv => SpinnersEnd
  BY DEF ListInv
<1>2. ListSpec => []SpinnersEnd
  BY ListInitial, ListStep, <1>1, PTL DEF ListSpec
<1>3. Spec => [](SpinnersEnd /\ SpinnerCanEnd /\ UpgradePossible)
  BY PartsOfThePage, <1>2, TerminalSpinnerCanEnd, FlagFreed, PTL
<1>4. QED
  BY <1>3, PTL DEF SpinnersCanEnd

\* What the parts keep safe holds of the page as it is checked: news of upgrades
\* are true, the screen is of one node and writes reach the node it shows, pins,
\* shells and keys go to the host they belong to, tokens match and are not used
\* too often, and a replaced program survives.
THEOREM NodePageSafe ==
  Spec => [](/\ UpgradeNewsTrue /\ ScreenOfOneNode /\ WriteGoesWhereListed
             /\ PinBelongsToHost /\ ShellVouched /\ KeysGoToTheTitle
             /\ TokensMatch /\ NeverOverused /\ ProgramSurvives)
BY PartsOfThePage, UpgradeNewsHolds, OneNodeOnScreen, WritesReachTheirNode, PinsTheHost,
   ShellsAreVouchedFor, KeysFollowTheTitle, TokensAgree, NotOverused, ProgramKept, PTL
=============================================================================
