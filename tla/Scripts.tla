------------------------------ MODULE Scripts ------------------------------
(***************************************************************************)
(* The scripts of the apps page (web/src/views/AppsView.vue): the dialog   *)
(* that edits one, whose text is asked for after the dialog has opened,    *)
(* and the dialogs that deploy it to a node and run it there.              *)
(*                                                                         *)
(* One dialog at a time is open, and what a closed one holds is filled     *)
(* again before it is read, the chosen node of the deploy dialog apart: a  *)
(* watcher asks for the deployments of a script when that node changes.    *)
(* A text is abstracted to the script it is the text of, the user's        *)
(* changes included.                                                       *)
(***************************************************************************)
EXTENDS WebBase, FiniteSets

CONSTANTS AllScripts    (* scripts the list shows at first *)

ASSUME ScriptAssumption == None \notin AllScripts

VARIABLES
  scripts,        (* scripts that exist                                          *)
  scriptDialog,   (* the dialog: kind, script, text in it, node, status shown,   *)
                  (* and (history) whether an answer for another dialog's script *)
                  (* or node has come into it                                    *)
  deployNode,     (* deployForm.node_id                                          *)
  runTask,        (* the progress of a run is shown, above any dialog           *)
  scriptBusy,     (* the flags scriptSaving, deploying and running               *)
  scriptCalls     (* requests in flight                                          *)

scriptVars == <<scripts, scriptDialog, deployNode, runTask, scriptBusy, scriptCalls>>

ScriptOrNone == AllScripts \cup {None}
Chosen(s, n) == [script |-> s, node |-> n]
NoStatus == Chosen(None, None)
NoDialog == [kind |-> "none", script |-> None, text |-> None, node |-> None,
             status |-> NoStatus, stray |-> FALSE]

ScriptAsk(op, s, n) == [op |-> op, script |-> s, node |-> n, text |-> None, stray |-> FALSE]

ScriptRoom == Cardinality(scriptCalls) < MaxCalls
InReach(k) == scriptDialog.kind = k /\ ~runTask   \* what is on top takes the clicks
OpenScriptDialog(k, s, n) ==
  /\ InReach("none")
  /\ scriptDialog' = [NoDialog EXCEPT !.kind = k, !.script = s, !.node = n]
CloseIf(k) == IF scriptDialog.kind = k THEN NoDialog ELSE scriptDialog

ScriptInit ==
  /\ scripts = AllScripts
  /\ scriptDialog = NoDialog
  /\ deployNode = None
  /\ runTask = FALSE
  /\ scriptBusy = {}
  /\ scriptCalls = {}

\* A button with a spinner: dead until its request is answered.
SubmitOnce(k, c) ==
  /\ InReach(k) /\ k \notin scriptBusy /\ ScriptRoom
  /\ scriptBusy' = scriptBusy \cup {k}
  /\ scriptCalls' = scriptCalls \cup {c}
  /\ UNCHANGED <<scripts, scriptDialog, deployNode, runTask>>

Answered(c) == scriptCalls' = scriptCalls \ {c}

CancelScriptDialog ==
  /\ scriptDialog.kind # "none" /\ ~runTask
  /\ scriptDialog' = NoDialog
  /\ UNCHANGED <<scripts, deployNode, runTask, scriptBusy, scriptCalls>>

-----------------------------------------------------------------------------
(* Editing *)

openCreateScript ==
  /\ OpenScriptDialog("edit", None, None)
  /\ UNCHANGED <<scripts, deployNode, runTask, scriptBusy, scriptCalls>>

\* The dialog opens empty: the list has no texts.
openEditScript(s) ==
  /\ s \in scripts /\ ScriptRoom
  /\ OpenScriptDialog("edit", s, None)
  /\ scriptCalls' = scriptCalls \cup {ScriptAsk("detail", s, None)}
  /\ UNCHANGED <<scripts, deployNode, runTask, scriptBusy>>

\* The text goes into the form, whichever script it is open for by now.
DetailCame(c) ==
  /\ c.op = "detail"
  /\ Answered(c)
  /\ scriptDialog' \in
       {scriptDialog} \cup   \* it fails
       {IF scriptDialog.kind = "edit"
          THEN [scriptDialog EXCEPT !.text = c.script, !.stray = @ \/ c.script # scriptDialog.script]
          ELSE scriptDialog}
  /\ UNCHANGED <<scripts, deployNode, runTask, scriptBusy>>

\* Typing into an empty form makes a text of the script in the title.
TypeScript ==
  /\ InReach("edit")
  /\ scriptDialog.script # None /\ scriptDialog.text = None
  /\ scriptDialog' = [scriptDialog EXCEPT !.text = scriptDialog.script]
  /\ UNCHANGED <<scripts, deployNode, runTask, scriptBusy, scriptCalls>>

\* A script that exists needs a text to be saved.
submitScript ==
  /\ scriptDialog.script # None => scriptDialog.text # None
  /\ SubmitOnce("edit", [ScriptAsk("edit", scriptDialog.script, None) EXCEPT
                           !.text = scriptDialog.text, !.stray = scriptDialog.stray])

\* A success closes the dialog that is open by now.
ScriptSaved(c) ==
  /\ c.op = "edit"
  /\ Answered(c)
  /\ scriptBusy' = scriptBusy \ {"edit"}
  /\ scriptDialog' \in {scriptDialog, CloseIf("edit")}
  /\ UNCHANGED <<scripts, deployNode, runTask>>

removeScript(s) ==
  /\ InReach("none") /\ s \in scripts /\ ScriptRoom
  /\ scriptCalls' = scriptCalls \cup {ScriptAsk("delete", s, None)}
  /\ UNCHANGED <<scripts, scriptDialog, deployNode, runTask, scriptBusy>>

ScriptRemoved(c) ==
  /\ c.op = "delete"
  /\ Answered(c)
  /\ scripts' \in {scripts, scripts \ {c.script}}
  /\ UNCHANGED <<scriptDialog, deployNode, runTask, scriptBusy>>

-----------------------------------------------------------------------------
(* Deploying and running *)

\* The first node is chosen each time; the watcher is silent when it is the
\* node of the last time. The request names the script of the dialog.
openDeployScript(s, first) ==
  /\ s \in scripts /\ ScriptRoom
  /\ OpenScriptDialog("deploy", s, first)
  /\ deployNode' = first
  /\ scriptCalls' = (IF first = deployNode THEN scriptCalls
                     ELSE scriptCalls \cup {ScriptAsk("deployments", s, first)})
  /\ UNCHANGED <<scripts, runTask, scriptBusy>>

\* Mutant of ChooseNode: the state of the node before stays on the screen.
ChooseNodeKeeping(n) ==
  /\ InReach("deploy") /\ n # deployNode /\ ScriptRoom
  /\ deployNode' = n
  /\ scriptDialog' = [scriptDialog EXCEPT !.node = n]
  /\ scriptCalls' = scriptCalls \cup {ScriptAsk("deployments", scriptDialog.script, n)}
  /\ UNCHANGED <<scripts, runTask, scriptBusy>>

ChooseNode(n) ==
  /\ InReach("deploy") /\ n # deployNode /\ ScriptRoom
  /\ deployNode' = n
  /\ scriptDialog' = [scriptDialog EXCEPT !.node = n, !.status = NoStatus]
  /\ scriptCalls' = scriptCalls \cup {ScriptAsk("deployments", scriptDialog.script, n)}
  /\ UNCHANGED <<scripts, runTask, scriptBusy>>

\* The state of the script and node asked about is shown, and the switch for
\* automatic start set by it.
DeploymentsCame(c) ==
  /\ c.op = "deployments"
  /\ Answered(c)
  /\ LET of == Chosen(c.script, c.node)
         here == Chosen(scriptDialog.script, scriptDialog.node)
     IN  scriptDialog' \in
           {scriptDialog} \cup   \* it fails
           {IF scriptDialog.kind = "deploy"
              THEN [scriptDialog EXCEPT !.status = of, !.stray = @ \/ of # here]
              ELSE scriptDialog}
  /\ UNCHANGED <<scripts, deployNode, runTask, scriptBusy>>

submitDeploy == SubmitOnce("deploy", ScriptAsk("deploy", scriptDialog.script, deployNode))

openRunScript(s, n) ==
  /\ s \in scripts
  /\ OpenScriptDialog("run", s, n)
  /\ UNCHANGED <<scripts, deployNode, runTask, scriptBusy, scriptCalls>>

submitRun == SubmitOnce("run", ScriptAsk("run", scriptDialog.script, scriptDialog.node))

\* Done, the dialog of its kind closes; a run goes on to the progress of its
\* task. Refused, it stays.
Sent(c) ==
  /\ c.op \in {"deploy", "run"}
  /\ Answered(c)
  /\ scriptBusy' = scriptBusy \ {c.op}
  /\ \/ /\ c.script \in scripts
        /\ scriptDialog' = CloseIf(c.op)
        /\ runTask' = (runTask \/ c.op = "run")
     \/ UNCHANGED <<scriptDialog, runTask>>
  /\ UNCHANGED <<scripts, deployNode>>

CloseRunTask ==
  /\ runTask
  /\ runTask' = FALSE
  /\ UNCHANGED <<scripts, scriptDialog, deployNode, scriptBusy, scriptCalls>>

ScriptNext ==
  \/ openCreateScript \/ TypeScript \/ submitScript \/ submitDeploy \/ submitRun
  \/ CancelScriptDialog \/ CloseRunTask
  \/ \E s \in AllScripts : openEditScript(s) \/ removeScript(s)
  \/ \E s \in AllScripts, n \in Nodes : openDeployScript(s, n) \/ openRunScript(s, n)
  \/ \E n \in Nodes : ChooseNode(n)
  \/ \E c \in scriptCalls : \/ DetailCame(c) \/ ScriptSaved(c) \/ ScriptRemoved(c)
                            \/ DeploymentsCame(c) \/ Sent(c)

ScriptSpec == ScriptInit /\ [][ScriptNext]_scriptVars

-----------------------------------------------------------------------------
(* Properties *)

\* Types of the variables.
ScriptTypeOK ==
  /\ scripts \subseteq AllScripts
  /\ scriptDialog \in [kind : {"none", "edit", "deploy", "run"}, script : ScriptOrNone,
                       text : ScriptOrNone, node : Nodes \cup {None},
                       status : [script : ScriptOrNone, node : Nodes \cup {None}],
                       stray : BOOLEAN]
  /\ deployNode \in Nodes \cup {None} /\ runTask \in BOOLEAN
  /\ scriptBusy \subseteq {"edit", "deploy", "run"}
  /\ scriptCalls \subseteq [op : {"detail", "edit", "delete", "deployments", "deploy", "run"},
                            script : ScriptOrNone, node : Nodes \cup {None},
                            text : ScriptOrNone, stray : BOOLEAN]

\* A script is overwritten only with a text of its own, typed or loaded in its
\* dialog, unless the text of another script has arrived in that dialog after
\* it was opened (openEditScript fills the form after its await).
ScriptKeepsItsText ==
  \A c \in scriptCalls : c.op = "edit" /\ ~c.stray => c.text = c.script

\* The state shown beside the switch for automatic start is of the script and
\* node chosen, unless the answer for another choice has come into the dialog
\* (the watcher of deployForm.node_id).
StatusOfTheChoice ==
  scriptDialog.kind = "deploy" /\ scriptDialog.status # NoStatus /\ ~scriptDialog.stray =>
    scriptDialog.status = Chosen(scriptDialog.script, deployNode)

\* Of both dialogs: what is sent or shown in them is of the script in the title.
DialogsKeepTheirScript == ScriptKeepsItsText /\ StatusOfTheChoice
=============================================================================
