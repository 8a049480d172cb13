----------------------------- MODULE NodeDrawer -----------------------------
(***************************************************************************)
(* The detail drawer of the node page (web/src/views/NodesView.vue): one   *)
(* record, cur, that names the node every request is sent to, beside panes *)
(* and forms filled by requests of their own.                              *)
(*                                                                         *)
(* Data is abstracted to where it comes from: the rows of a pane, the      *)
(* contents of a form, are the node that listed them. The drawer and the   *)
(* dialogs above it are modal: the table of nodes is out of reach while    *)
(* the drawer is open, the drawer while a dialog or a question is. The     *)
(* spinners of the refresh buttons and the checks of typed text are left   *)
(* out.                                                                    *)
(***************************************************************************)
EXTENDS WebBase, FiniteSets

CONSTANTS
  Usb,     (* nodes on which the device path at hand is a USB disk or SD card *)
  Panes    (* panes filled by requests of their own                           *)

ASSUME DrawerAssumption ==
  /\ Usb \subseteq Nodes
  /\ Panes \subseteq {"live", "apps", "storage", "fw"}

VARIABLES
  drawer,    (* the drawer is open                                           *)
  cur,       (* the node it names, kept when it is closed                    *)
  forms,     (* the node the tags, group, and Docker forms were filled from  *)
  pane,      (* of each pane, the node its rows are from, None when empty    *)
  calls,     (* requests in flight                                           *)
  dlg,       (* the dialog or question open above the drawer                 *)
  busy,      (* the flags storageSubmitting and fwSubmitting                 *)
  late       (* history: an answer was applied to another node's detail      *)

drawerVars == <<drawer, cur, forms, pane, calls, dlg, busy, late>>

NodeOrNone == Nodes \cup {None}

\* Writes and the pane whose rows they are about. mountAuto is a mount with the
\* switch for automatic mounting on; thenAuto is its second request.
StorageDialogs == {"mount", "mountAuto", "auto", "format", "partition"}
StorageWrites == StorageDialogs \cup {"thenAuto", "unmount"}
FwWrites == {"rule", "toggle", "unrule"}
PaneOf == [k \in StorageWrites \cup FwWrites |-> IF k \in FwWrites THEN "fw" ELSE "storage"]
Flagged(k) == k # "unmount"

\* Dialogs with a button to submit, questions that follow one, and questions
\* asked at once.
DrawerDialogs == {"mount", "auto", "format", "partition", "rule"}
Asked   == {"format", "partition"}
AskedAtOnce == {"unmount", "toggle", "unrule"}

FormWrites == {"meta", "docker"}

NoDlg == [kind |-> "none", row |-> None, asking |-> FALSE, sure |-> FALSE]
Read(op, n)         == [op |-> op, node |-> n, row |-> n, sure |-> FALSE]
Write(k, n, r, sure) == [op |-> k, node |-> n, row |-> r, sure |-> sure]

ReadOps == Panes \cup {"detail", "refresh"}
Reads   == {c \in calls : c.op \in ReadOps}

DrawerRoom == Cardinality(calls) < MaxCalls

\* Nothing read is in flight and nothing has come late: what is on the screen
\* should be the node in the title.
Settled == Reads = {} /\ ~late

DrawerInit ==
  /\ drawer = FALSE
  /\ cur = None
  /\ forms = None
  /\ pane = [p \in Panes |-> None]
  /\ calls = {}
  /\ dlg = NoDlg
  /\ busy = {}
  /\ late = FALSE

-----------------------------------------------------------------------------
(* Opening and filling the drawer *)

\* Mutant of openDetail: a link in reach of an open dialog asks as well.
openDetailAnywhere(n) ==
  /\ DrawerRoom
  /\ calls' = calls \cup {Read("detail", n)}
  /\ UNCHANGED <<drawer, cur, forms, pane, dlg, busy, late>>

\* A click on a row asks for the node's detail; the table stays in reach until
\* the answer opens the drawer.
openDetail(n) ==
  /\ ~drawer /\ dlg = NoDlg
  /\ DrawerRoom
  /\ calls' = calls \cup {Read("detail", n)}
  /\ UNCHANGED <<drawer, cur, forms, pane, dlg, busy, late>>

\* A task begun in the drawer has finished: its node's detail is asked for
\* again, wherever the user is.
onTaskFinished ==
  /\ cur # None
  /\ DrawerRoom
  /\ calls' = calls \cup {Read("detail", cur)}
  /\ UNCHANGED <<drawer, cur, forms, pane, dlg, busy, late>>

\* A timer of the upgrade check.
refreshDetail ==
  /\ cur # None
  /\ DrawerRoom
  /\ calls' = calls \cup {Read("refresh", cur)}
  /\ UNCHANGED <<drawer, cur, forms, pane, dlg, busy, late>>

Fails(c) ==
  /\ calls' = calls \ {c}
  /\ UNCHANGED <<drawer, cur, forms, pane, dlg, busy, late>>

\* Mutant of DetailAnswer: the panes are left as they are.
DetailAnswerOnly(c) ==
  /\ c \in calls /\ c.op = "detail"
  /\ cur' = c.node
  /\ forms' = c.node
  /\ drawer' = TRUE
  /\ calls' = calls \ {c}
  /\ UNCHANGED <<pane, dlg, busy, late>>

\* The drawer opens for the node of this answer, and every pane is loaded.
\* Only the live pane is emptied first.
DetailAnswer(c) ==
  /\ c \in calls /\ c.op = "detail"
  /\ cur' = c.node
  /\ forms' = c.node
  /\ drawer' = TRUE
  /\ pane' = [p \in Panes |-> IF p = "live" THEN None ELSE pane[p]]
  /\ calls' = (calls \ {c}) \cup {Read(p, c.node) : p \in Panes}
  /\ UNCHANGED <<dlg, busy, late>>

\* The answer is merged into the record that is current by now, its id too.
RefreshAnswer(c) ==
  /\ c \in calls /\ c.op = "refresh"
  /\ calls' = calls \ {c}
  /\ cur' = c.node
  /\ late' = (late \/ c.node # cur)
  /\ UNCHANGED <<drawer, forms, pane, dlg, busy>>

\* Whichever node it is from, the answer fills the pane; a failure empties it.
PaneAnswer(c) ==
  /\ c \in calls /\ c.op \in Panes
  /\ calls' = calls \ {c}
  /\ \E rows \in {c.node, None} : pane' = [pane EXCEPT ![c.op] = rows]
  /\ late' = (late \/ c.node # cur)
  /\ UNCHANGED <<drawer, cur, forms, dlg, busy>>

ReadFails(c) ==
  /\ c \in calls /\ c.op \in {"detail", "refresh"}
  /\ Fails(c)

\* The refresh buttons and the checkbox of the storage pane.
reload(p) ==
  /\ drawer /\ dlg = NoDlg
  /\ DrawerRoom
  /\ calls' = calls \cup {Read(p, cur)}
  /\ UNCHANGED <<drawer, cur, forms, pane, dlg, busy, late>>

CloseDrawer ==
  /\ drawer /\ dlg = NoDlg
  /\ drawer' = FALSE
  /\ UNCHANGED <<cur, forms, pane, calls, dlg, busy, late>>

-----------------------------------------------------------------------------
(* Devices and firewall *)

\* assertOperable looks at the row, as its own node has listed it.
Offered(k) ==
  /\ drawer /\ dlg = NoDlg
  /\ PaneOf[k] \in Panes
  /\ pane[PaneOf[k]] # None
  /\ PaneOf[k] = "storage" => pane["storage"] \in Usb

OpenDialog(k) ==
  /\ Offered(k)
  /\ dlg' = [kind |-> k, row |-> pane[PaneOf[k]], asking |-> k \in AskedAtOnce,
             sure |-> Settled]
  /\ UNCHANGED <<drawer, cur, forms, pane, calls, busy, late>>

\* The button of the dialog is dead while a write of its pane is in flight.
CanSubmit == dlg.kind \in DrawerDialogs /\ ~dlg.asking /\ PaneOf[dlg.kind] \notin busy

Ask ==
  /\ CanSubmit
  /\ dlg.kind \in Asked
  /\ dlg' = [dlg EXCEPT !.asking = TRUE]
  /\ UNCHANGED <<drawer, cur, forms, pane, calls, busy, late>>

\* The request goes to the node that is current now, about the dialog's row.
Post(k) ==
  /\ DrawerRoom
  /\ calls' = calls \cup {Write(k, cur, dlg.row, dlg.sure)}
  /\ busy' = (IF Flagged(k) THEN busy \cup {PaneOf[k]} ELSE busy)
  /\ UNCHANGED <<drawer, cur, forms, pane, late>>

Submit ==
  /\ CanSubmit
  /\ dlg.kind \notin Asked
  /\ \E k \in IF dlg.kind = "mount" THEN {"mount", "mountAuto"} ELSE {dlg.kind} : Post(k)
  /\ UNCHANGED dlg

\* Yes to the question; the dialog below it stays.
Confirm ==
  /\ dlg.asking
  /\ Post(dlg.kind)
  /\ dlg' = (IF dlg.kind \in Asked THEN [dlg EXCEPT !.asking = FALSE] ELSE NoDlg)

Cancel ==
  /\ dlg # NoDlg
  /\ dlg' = (IF dlg.asking /\ dlg.kind \in Asked THEN [dlg EXCEPT !.asking = FALSE] ELSE NoDlg)
  /\ UNCHANGED <<drawer, cur, forms, pane, calls, busy, late>>

\* A finished write closes the dialog of its kind, its own or a later one, but
\* no question that was asked at once.
DialogAfter(k) ==
  IF dlg.kind \in DrawerDialogs /\ dlg.kind = (IF k = "mountAuto" THEN "mount" ELSE k)
  THEN NoDlg ELSE dlg

WriteAnswer(c) ==
  /\ c \in calls /\ c.op \in DOMAIN PaneOf
  /\ c.op # "mountAuto"
  /\ calls' = (calls \ {c}) \cup {Read(PaneOf[c.op], cur)}
  /\ dlg' = DialogAfter(c.op)
  /\ busy' = (IF Flagged(c.op) THEN busy \ {PaneOf[c.op]} ELSE busy)
  /\ UNCHANGED <<drawer, cur, forms, pane, late>>

\* The second request of a mount goes to the node that is current by now.
MountedThenAuto(c) ==
  /\ c \in calls /\ c.op = "mountAuto"
  /\ calls' = (calls \ {c}) \cup {Write("thenAuto", cur, c.row, c.sure)}
  /\ dlg' = DialogAfter(c.op)
  /\ UNCHANGED <<drawer, cur, forms, pane, busy, late>>

\* The dialog stays for another try.
WriteFails(c) ==
  /\ c \in calls /\ c.op \in DOMAIN PaneOf
  /\ calls' = calls \ {c}
  /\ busy' = (IF Flagged(c.op) THEN busy \ {PaneOf[c.op]} ELSE busy)
  /\ UNCHANGED <<drawer, cur, forms, pane, dlg, late>>

-----------------------------------------------------------------------------
(* Tags, group and Docker configuration *)

SaveForm(k) ==
  /\ drawer /\ dlg = NoDlg
  /\ DrawerRoom
  /\ calls' = calls \cup {Write(k, cur, forms, Settled)}
  /\ UNCHANGED <<drawer, cur, forms, pane, dlg, busy, late>>

FormSaved(c) ==
  /\ c \in calls /\ c.op \in FormWrites
  /\ Fails(c)

DrawerNext ==
  \/ \E n \in Nodes : openDetail(n)
  \/ onTaskFinished \/ refreshDetail \/ CloseDrawer
  \/ \E p \in Panes : reload(p)
  \/ \E k \in DrawerDialogs \cup AskedAtOnce : OpenDialog(k)
  \/ Ask \/ Submit \/ Confirm \/ Cancel
  \/ \E k \in FormWrites : SaveForm(k)
  \/ \E c \in calls : \/ DetailAnswer(c) \/ RefreshAnswer(c) \/ PaneAnswer(c) \/ ReadFails(c)
                      \/ WriteAnswer(c) \/ MountedThenAuto(c) \/ WriteFails(c) \/ FormSaved(c)

DrawerSpec == DrawerInit /\ [][DrawerNext]_drawerVars

-----------------------------------------------------------------------------
(* Properties *)

\* Types of the variables.
DrawerTypeOK ==
  /\ drawer \in BOOLEAN /\ late \in BOOLEAN
  /\ cur \in NodeOrNone /\ forms \in NodeOrNone
  /\ pane \in [Panes -> NodeOrNone]
  /\ calls \subseteq [op : ReadOps \cup DOMAIN PaneOf \cup FormWrites, node : NodeOrNone,
                      row : NodeOrNone, sure : BOOLEAN]
  /\ dlg \in [kind : DrawerDialogs \cup AskedAtOnce \cup {"none"}, row : NodeOrNone,
              asking : BOOLEAN, sure : BOOLEAN]
  /\ busy \subseteq {"storage", "fw"}

\* Once the drawer's own requests have all been answered, every pane and form
\* shows the node in the title, unless an answer has arrived after the drawer
\* had moved on to another node (openDetail, the load functions and
\* refreshDetail).
ScreenOfOneNode ==
  drawer /\ Settled => \A p \in Panes : pane[p] \in {cur, None} /\ forms = cur

\* Formatting, mounting, firewall rules, tags: a write begun when the screen had
\* settled reaches the node whose row or form the user saw, whatever arrives
\* while its dialog is open; the second request of a mount is the exception.
WriteGoesWhereListed ==
  \A c \in calls : c.sure /\ c.op # "thenAuto" => c.node = c.row
=============================================================================
