----------------------------- MODULE AppInstall -----------------------------
(***************************************************************************)
(* Starting a task from the apps page and following it: the install and    *)
(* run dialogs and the table of installed applications                     *)
(* (web/src/views/AppsView.vue), the progress dialog                       *)
(* (web/src/components/TaskProgressDialog.vue).                            *)
(*                                                                         *)
(* The progress dialog is one instance as long as the page has a task id,  *)
(* whatever id: its poll chain and what it shows outlive a change of id,   *)
(* and a poll in flight outlives the dialog. The table is read node by     *)
(* node: an installation that succeeded has a row, one that failed has     *)
(* none, and nothing is uninstalled meanwhile. Parameters, container       *)
(* settings and compatibility are left out: they decide whether and with   *)
(* what an installation is sent.                                           *)
(***************************************************************************)
EXTENDS WebBase, FiniteSets

CONSTANTS
  MaxTasks,    (* bound: tasks created                     *)
  MaxChains    (* bound: readings of the table in flight   *)

ASSUME InstallAssumption == MaxTasks \in Nat /\ MaxChains \in Nat

VARIABLES
  nodesLoaded,   (* recipes and nodes have come                               *)
  appTab,        (* the tab shown                                             *)
  startDlg,      (* the dialog: none, install or run                          *)
  starting,      (* the flags submitting and running                          *)
  starts,        (* requests to create a task in flight                       *)
  tasks,         (* tasks created: kind, node, whether over and successful    *)
  taskId,        (* the task whose progress is shown, 0 if none               *)
  taskKind,
  polled,        (* last answer of the progress dialog: task, over, success   *)
  pollStep,      (* its chain: 0 if ended, Timer, or the task asked about     *)
  orphans,       (* tasks still asked about for dialogs that are closed       *)
  swapped,       (* history: the id has changed under this dialog             *)
  chains,        (* readings of the table: nodes left, rows so far            *)
  installedRows,
  due,           (* history: installations the user has seen succeed          *)
  listMissed     (* history: the last reading failed or was not alone         *)

dialogVars == <<startDlg, starting, starts>>
followVars == <<taskId, taskKind, polled, pollStep, orphans, swapped>>
tableVars == <<chains, installedRows, due, listMissed>>
installVars == <<nodesLoaded, appTab, dialogVars, tasks, followVars, tableVars>>

TaskIds == 1..MaxTasks
Timer == MaxTasks + 1
Kinds == {"install", "run"}
NoTask == [kind |-> "none", node |-> None, over |-> FALSE, ok |-> FALSE]
Nothing == [task |-> 0, over |-> FALSE, ok |-> FALSE]
Status(t) == [task |-> t, over |-> tasks[t].over, ok |-> tasks[t].ok]

Made == {t \in TaskIds : tasks[t].kind # "none"}
Installed(n) == {t \in Made : tasks[t].kind = "install" /\ tasks[t].node = n /\ tasks[t].ok}
Free == startDlg = "none" /\ taskId = 0

InstallInit ==
  /\ nodesLoaded = FALSE
  /\ appTab = "catalog"
  /\ startDlg = "none" /\ starting = {} /\ starts = {}
  /\ tasks = [t \in TaskIds |-> NoTask]
  /\ taskId = 0 /\ taskKind = "install"
  /\ polled = Nothing /\ pollStep = 0 /\ orphans = {} /\ swapped = FALSE
  /\ chains = {} /\ installedRows = {} /\ due = {} /\ listMissed = FALSE

-----------------------------------------------------------------------------
(* The table *)

LoadCatalog ==
  /\ ~nodesLoaded
  /\ nodesLoaded' = TRUE
  /\ UNCHANGED <<appTab, dialogVars, tasks, followVars, tableVars>>

\* A reading goes through the nodes of the page in turn.
loadInstalled ==
  /\ chains' = chains \cup {[left |-> IF nodesLoaded THEN Nodes ELSE {}, rows |-> {}]}
  /\ listMissed' = (chains # {} \/ ~nodesLoaded)

onTabChange(t) ==
  /\ Free /\ appTab # t
  /\ appTab' = t
  /\ IF t = "installed"
       THEN Cardinality(chains) < MaxChains /\ loadInstalled
       ELSE UNCHANGED <<chains, listMissed>>
  /\ UNCHANGED <<nodesLoaded, dialogVars, tasks, followVars, installedRows, due>>

ReadNode(c, n) ==
  /\ n \in c.left
  /\ chains' = (chains \ {c}) \cup
       {[left |-> c.left \ {n}, rows |-> c.rows \cup Installed(n)]}
  /\ UNCHANGED <<nodesLoaded, appTab, dialogVars, tasks, followVars, installedRows, due, listMissed>>

\* Mutant of ReadingEnds: a node whose list fails is passed over.
ReadingEndsShort(c) ==
  /\ chains' = chains \ {c}
  /\ installedRows' = c.rows
  /\ UNCHANGED <<nodesLoaded, appTab, dialogVars, tasks, followVars, due, listMissed>>

\* All rows or, if one node's list fails, none.
ReadingEnds(c) ==
  /\ chains' = chains \ {c}
  /\ \/ c.left = {} /\ installedRows' = c.rows /\ UNCHANGED listMissed
     \/ c.left # {} /\ listMissed' = TRUE /\ UNCHANGED installedRows
  /\ UNCHANGED <<nodesLoaded, appTab, dialogVars, tasks, followVars, due>>

-----------------------------------------------------------------------------
(* Starting a task *)

OpenStart(k) ==
  /\ Free /\ nodesLoaded
  /\ startDlg' = k
  /\ UNCHANGED <<nodesLoaded, appTab, starting, starts, tasks, followVars, tableVars>>

CancelStart ==
  /\ startDlg # "none" /\ taskId = 0
  /\ startDlg' = "none"
  /\ UNCHANGED <<nodesLoaded, appTab, starting, starts, tasks, followVars, tableVars>>

submit(n) ==
  /\ startDlg # "none" /\ taskId = 0
  /\ startDlg \notin starting
  /\ Cardinality(Made) + Cardinality(starts) < MaxTasks
  /\ starting' = starting \cup {startDlg}
  /\ starts' = starts \cup {[kind |-> startDlg, node |-> n]}
  /\ UNCHANGED <<nodesLoaded, appTab, startDlg, tasks, followVars, tableVars>>

\* The dialog of its kind closes. The progress dialog appears and asks at once;
\* one that is there already is kept as it is.
Started(s) ==
  /\ starts' = starts \ {s}
  /\ starting' = starting \ {s.kind}
  /\ startDlg' = (IF startDlg = s.kind THEN "none" ELSE startDlg)
  /\ \E t \in TaskIds \ Made :
       /\ t - 1 \in Made \cup {0}
       /\ tasks' = [tasks EXCEPT ![t] = [NoTask EXCEPT !.kind = s.kind, !.node = s.node]]
       /\ taskId' = t
       /\ taskKind' = s.kind
       /\ IF taskId = 0
            THEN polled' = Nothing /\ pollStep' = t /\ swapped' = FALSE
            ELSE swapped' = TRUE /\ UNCHANGED <<polled, pollStep>>
  /\ UNCHANGED <<nodesLoaded, appTab, orphans, tableVars>>

StartRefused(s) ==
  /\ starts' = starts \ {s}
  /\ starting' = starting \ {s.kind}
  /\ UNCHANGED <<nodesLoaded, appTab, startDlg, tasks, followVars, tableVars>>

TaskEnds(t, ok) ==
  /\ t \in Made /\ ~tasks[t].over
  /\ tasks' = [tasks EXCEPT ![t].over = TRUE, ![t].ok = ok]
  /\ UNCHANGED <<nodesLoaded, appTab, dialogVars, followVars, tableVars>>

-----------------------------------------------------------------------------
(* Following it *)

\* After 1.5 seconds the task of the id as it is now is asked about.
PollTimer ==
  /\ taskId # 0 /\ pollStep = Timer
  /\ pollStep' = taskId
  /\ UNCHANGED <<nodesLoaded, appTab, dialogVars, tasks, taskId, taskKind, polled, orphans,
                 swapped, tableVars>>

\* Mutant of PollAnswer: a failed poll ends the chain.
PollAnswerOnce ==
  /\ taskId # 0 /\ pollStep \in TaskIds
  /\ \/ polled' = Status(pollStep)
        /\ pollStep' = (IF polled'.over THEN 0 ELSE Timer)
     \/ pollStep' = 0 /\ UNCHANGED polled
  /\ UNCHANGED <<nodesLoaded, appTab, dialogVars, tasks, taskId, taskKind, orphans, swapped,
                 tableVars>>

\* The chain ends with an answer that says the task is over; a failed poll
\* keeps what was shown.
PollAnswer ==
  /\ taskId # 0 /\ pollStep \in TaskIds
  /\ polled' \in {polled, Status(pollStep)}
  /\ pollStep' = (IF polled'.over THEN 0 ELSE Timer)
  /\ UNCHANGED <<nodesLoaded, appTab, dialogVars, tasks, taskId, taskKind, orphans, swapped,
                 tableVars>>

\* A timer is cleared with the dialog, a poll in flight is not.
CloseProgress ==
  /\ taskId' = 0
  /\ pollStep' = 0
  /\ polled' = Nothing
  /\ orphans' = (IF pollStep \in TaskIds THEN orphans \cup {pollStep} ELSE orphans)

onClose ==
  /\ taskId # 0
  /\ CloseProgress
  /\ UNCHANGED <<nodesLoaded, appTab, dialogVars, tasks, taskKind, swapped, tableVars>>

\* The button that appears with the end of the task, a failure's as well.
onFinished ==
  /\ taskId # 0 /\ polled.over
  /\ CloseProgress
  /\ IF taskKind = "run"
       THEN UNCHANGED <<appTab, chains, due, listMissed>>
       ELSE /\ appTab' = "installed"
            /\ Cardinality(chains) < MaxChains
            /\ loadInstalled
            /\ due' = due \cup {t \in {polled.task} \cap Made : polled.ok /\ tasks[t].kind = "install"}
  /\ UNCHANGED <<nodesLoaded, dialogVars, tasks, taskKind, swapped, installedRows>>

\* The chain of a closed dialog ends with its task.
OrphanPoll(t) ==
  /\ t \in orphans /\ tasks[t].over
  /\ orphans' = orphans \ {t}
  /\ UNCHANGED <<nodesLoaded, appTab, dialogVars, tasks, taskId, taskKind, polled, pollStep,
                 swapped, tableVars>>

InstallNext ==
  \/ LoadCatalog \/ CancelStart \/ PollTimer \/ PollAnswer \/ onClose \/ onFinished
  \/ \E t \in {"catalog", "installed"} : onTabChange(t)
  \/ \E c \in chains : ReadingEnds(c) \/ \E n \in Nodes : ReadNode(c, n)
  \/ \E k \in Kinds : OpenStart(k)
  \/ \E n \in Nodes : submit(n)
  \/ \E s \in starts : Started(s) \/ StartRefused(s)
  \/ \E t \in TaskIds : OrphanPoll(t) \/ \E ok \in BOOLEAN : TaskEnds(t, ok)

InstallSpec == InstallInit /\ [][InstallNext]_installVars

-----------------------------------------------------------------------------
(* Properties *)

\* Types of the variables.
InstallTypeOK ==
  /\ nodesLoaded \in BOOLEAN /\ swapped \in BOOLEAN /\ listMissed \in BOOLEAN
  /\ appTab \in {"catalog", "installed"}
  /\ startDlg \in Kinds \cup {"none"} /\ starting \subseteq Kinds
  /\ starts \subseteq [kind : Kinds, node : Nodes]
  /\ tasks \in [TaskIds -> [kind : Kinds \cup {"none"}, node : Nodes \cup {None},
                       over : BOOLEAN, ok : BOOLEAN]]
  /\ taskId \in 0..MaxTasks /\ taskKind \in Kinds
  /\ polled \in [task : 0..MaxTasks, over : BOOLEAN, ok : BOOLEAN]
  /\ pollStep \in 0..Timer
  /\ orphans \subseteq TaskIds
  /\ chains \subseteq [left : SUBSET Nodes, rows : SUBSET TaskIds]
  /\ installedRows \subseteq TaskIds /\ due \subseteq TaskIds

\* The progress dialog shows the task it was opened for, never another one's
\* end or outcome, and asks on until it has shown its end, unless the answer of
\* another start has changed the task under it.
TaskIsFollowed ==
  taskId # 0 /\ ~swapped =>
    /\ polled.task \in {0, taskId}
    /\ polled.over => tasks[taskId].over /\ polled.ok = tasks[taskId].ok
    /\ ~polled.over => pollStep \in {Timer, taskId}

\* An installation the user has seen succeed, and left by the button that
\* finished it, is in the table once the reading that followed is over, unless a
\* node's list failed or another reading was in flight when it began
\* (loadInstalled, onFinished). The button comes with a failure too, and leads
\* to a table without it.
FinishedIsListed ==
  chains = {} /\ ~listMissed => due \subseteq installedRows
=============================================================================
