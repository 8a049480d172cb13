---------------------------- MODULE AppLifecycle ----------------------------
(***************************************************************************)
(* Installing and uninstalling one application on one node                 *)
(* (internal/apps), as background tasks of the runner: the installation    *)
(* record in the panel's database against what is on the node, a systemd   *)
(* unit for the native method and a container for the docker one.          *)
(*                                                                         *)
(* The runner is taken at what TaskQueue promises: a node executes one row *)
(* at a time, a row may be claimed by two workers, and after the process   *)
(* has ended the rows left running are reconciled before any is executed.  *)
(* Deleting the node, which deletes its records, is left out.              *)
(***************************************************************************)
EXTENDS Integers

CONSTANTS
  NoRecord,   (* no row of app_installations                                 *)
  MaxTasks,   (* bound: rows ever requested                                  *)
  MaxDowns,   (* bound: times the panel process ends                         *)
  MaxErrs     (* bound: calls to the node, or readings of the record, that   *)
              (* fail: no answer comes                                       *)

Methods == {"native", "docker"}

ASSUME AppAssumption ==
  /\ NoRecord \notin Methods
  /\ MaxTasks \in Nat /\ MaxDowns \in Nat /\ MaxErrs \in Nat

VARIABLES
  count,    (* rows requested so far                                         *)
  op,       (* install or uninstall, of each row                             *)
  meth,     (* method in the row's payload                                   *)
  status,   (* status column of the row                                      *)
  held,     (* workers that have claimed the row and wait for the node       *)
  cur,      (* row the node executes, 0 if none                              *)
  pc,       (* progress of its handler                                       *)
  verdict,  (* terminal status the handler is about to return                *)
  rec,      (* installation record: its method, or NoRecord                  *)
  art,      (* what each method has left on the node                         *)
  proc,     (* progress of the panel process                                 *)
  todo,     (* rows the boot reconciliation has still to decide              *)
  downs,    (* times the process has ended                                   *)
  errs,     (* calls and readings that have failed                           *)
  last,     (* history: the row that has just succeeded, if any              *)
  tried,    (* history: an uninstall has worked on the record                *)
  disturbed, (* history: a service action ran while a row was executed, an   *)
             (* uninstall worked on the record of the other method, or       *)
             (* reconciliation recorded a service without its unit file      *)
  refused,  (* history: the node refused a stop or a removal of the last     *)
            (* uninstall                                                     *)
  blind     (* history: the install under way could not read the record      *)

rowVars  == <<count, op, meth>>
histVars == <<last, tried, disturbed, refused, blind>>
execVars == <<cur, pc, verdict>>
procVars == <<proc, todo, downs>>
vars == <<rowVars, histVars, execVars, procVars, status, held, rec, art, errs>>

TaskIds  == 1..MaxTasks
Terminal == {"success", "failure"}
NoRow    == [op |-> "none", meth |-> "native"]

\* A unit file or container is present, and running or not; a stray is a
\* service still active whose unit file is gone.
Artefacts == {"none", "present", "running", "stray"}
Active(m) == art[m] \in {"running", "stray"}
Running   == {t \in TaskIds : status[t] = "running"}

\* A record of method m, unless there is one already.
RecordIfAbsent(m) ==
  /\ rec' = (IF rec = NoRecord THEN m ELSE rec)
  /\ tried' = (tried /\ rec # NoRecord)

Up(m)    == [art EXCEPT ![m] = CASE @ = "present" -> "running" [] OTHER -> @]
Down(m)  == [art EXCEPT ![m] = CASE @ = "running" -> "present" [] @ = "stray" -> "none" [] OTHER -> @]

\* A call to the node answers, or fails; a failed call may have taken effect.
Answers == UNCHANGED errs
Fails   == errs < MaxErrs /\ errs' = errs + 1

Init ==
  /\ count = 0
  /\ op = [t \in TaskIds |-> "install"]
  /\ meth = [t \in TaskIds |-> "native"]
  /\ status = [t \in TaskIds |-> "absent"]
  /\ held = [t \in TaskIds |-> 0]
  /\ cur = 0
  /\ pc = "idle"
  /\ verdict = "failure"
  /\ rec = NoRecord
  /\ art = [m \in Methods |-> "none"]
  /\ proc = "working"
  /\ todo = {}
  /\ downs = 0
  /\ errs = 0
  /\ last = NoRow
  /\ tried = FALSE
  /\ disturbed = FALSE
  /\ refused = FALSE
  /\ blind = FALSE

-----------------------------------------------------------------------------
(* HTTP handlers *)

Request(o, m) ==
  /\ proc # "down"
  /\ count < MaxTasks
  /\ count' = count + 1
  /\ op'     = [op EXCEPT ![count + 1] = o]
  /\ meth'   = [meth EXCEPT ![count + 1] = m]
  /\ status' = [status EXCEPT ![count + 1] = "queued"]
  /\ UNCHANGED <<histVars, execVars, procVars, held, rec, art, errs>>

RequestInstall(m) == Request("install", m)

\* The method is the record's when the request is served, native without one.
RequestUninstall == Request("uninstall", IF rec = NoRecord THEN "native" ELSE rec)

\* start, stop and restart act on the node at once, whatever it executes.
ServiceAction ==
  /\ proc # "down"
  /\ rec # NoRecord
  /\ art[rec] # "none"
  /\ art' \in {Up(rec), Down(rec)}
  /\ disturbed' = (disturbed \/ cur # 0)
  /\ UNCHANGED <<rowVars, execVars, procVars, status, held, rec, errs, last, tried, refused, blind>>

\* The service ends by itself.
Dies(m) ==
  /\ art' = Down(m)
  /\ UNCHANGED <<rowVars, histVars, execVars, procVars, status, held, rec, errs>>

-----------------------------------------------------------------------------
(* The runner *)

\* The oldest queued row is claimed by one worker, or by two.
Claim(t, n) ==
  /\ proc = "working"
  /\ status[t] = "queued"
  /\ \A u \in TaskIds : status[u] = "queued" => t <= u
  /\ status' = [status EXCEPT ![t] = "running"]
  /\ held' = [held EXCEPT ![t] = @ + n]
  /\ UNCHANGED <<rowVars, histVars, execVars, procVars, rec, art, errs>>

\* Mutant of Begin: the claim of the row is given back as well.
BeginTwice(t) ==
  /\ cur = 0
  /\ held[t] > 0
  /\ held' = [held EXCEPT ![t] = @ + 1]
  /\ cur' = t
  /\ pc' = "check"
  /\ last' = NoRow
  /\ refused' = FALSE
  /\ UNCHANGED <<rowVars, procVars, verdict, status, rec, art, errs, tried, disturbed, blind>>

Begin(t) ==
  /\ cur = 0
  /\ held[t] > 0
  /\ held' = [held EXCEPT ![t] = @ - 1]
  /\ cur' = t
  /\ pc' = "check"
  /\ last' = NoRow
  /\ refused' = FALSE
  /\ UNCHANGED <<rowVars, procVars, verdict, status, rec, art, errs, tried, disturbed, blind>>

Outcome(t, st) == IF st = "success" THEN [op |-> op[t], meth |-> meth[t]] ELSE NoRow

Finish ==
  /\ pc = "finish"
  /\ status' = [status EXCEPT ![cur] = verdict]
  /\ last' = Outcome(cur, verdict)
  /\ blind' = FALSE
  /\ cur' = 0
  /\ pc' = "idle"
  /\ verdict' = "failure"
  /\ UNCHANGED <<rowVars, procVars, held, rec, art, errs, tried, disturbed, refused>>

GoDown ==
  /\ proc # "down"
  /\ downs < MaxDowns
  /\ downs' = downs + 1
  /\ proc' = "down"
  /\ todo' = {}
  /\ held' = [t \in TaskIds |-> 0]
  /\ cur' = 0
  /\ pc' = "idle"
  /\ verdict' = "failure"
  /\ blind' = FALSE
  /\ UNCHANGED <<rowVars, last, tried, disturbed, refused, status, rec, art, errs>>

Boot ==
  /\ proc = "down"
  /\ proc' = "reconciling"
  /\ todo' = Running
  /\ UNCHANGED <<rowVars, histVars, execVars, downs, status, held, rec, art, errs>>

StartWorkers ==
  /\ proc = "reconciling"
  /\ todo = {}
  /\ proc' = "working"
  /\ UNCHANGED <<rowVars, histVars, execVars, todo, downs, status, held, rec, art, errs>>

-----------------------------------------------------------------------------
(* The handlers *)

At(o, l)    == pc = l /\ op[cur] = o   \* pc = "idle" where there is no row
Goto(l)     == pc' = l /\ UNCHANGED verdict
Returns(st) == pc' = "finish" /\ verdict' = st
Aside       == UNCHANGED <<rowVars, procVars, status, held, cur, last>>
Elsewhere   == Aside /\ UNCHANGED <<disturbed, refused, blind>>

\* Mutant of InstallCheck: only the node is looked at, never the records.
InstallCheckNode ==
  /\ At("install", "check")
  /\ IF meth[cur] = "docker" /\ art["docker"] # "none" THEN Returns("failure") ELSE Goto("deploy")
  /\ Answers
  /\ Elsewhere
  /\ UNCHANGED <<rec, art, tried>>

\* Refused if a record is read, or a container of that name is seen. A reading
\* or a listing that fails finds nothing, and the install goes on.
Seen == meth[cur] = "docker" /\ art["docker"] # "none"

InstallCheck ==
  /\ At("install", "check")
  /\ \E read, listed \in BOOLEAN :
       /\ ~listed => meth[cur] = "docker" /\ ~(read /\ rec # NoRecord)
       /\ IF read /\ listed THEN Answers ELSE Fails
       /\ IF (read /\ rec # NoRecord) \/ (listed /\ Seen) THEN Returns("failure") ELSE Goto("deploy")
       /\ blind' = ~read
  /\ Aside
  /\ UNCHANGED <<rec, art, tried, disturbed, refused>>

\* The preparation, the variables, a step of the recipe, the image, its
\* architecture or a statement on the record fails.
Aborts ==
  /\ \/ \E l \in {"check", "deploy", "verify", "record"} : At("install", l)
     \/ \E l \in {"check", "forget"} : At("uninstall", l)
     \/ At("uninstall", "remove") /\ meth[cur] = "native"
  /\ Returns("failure")
  /\ Elsewhere
  /\ UNCHANGED <<rec, art, errs, tried>>

\* The unit file is written over; a container of that name must not exist.
Deployed ==
  [art EXCEPT ![meth[cur]] = CASE @ = "none" -> "present" [] @ = "stray" -> "running" [] OTHER -> @]

Deploy ==
  /\ At("install", "deploy")
  /\ \/ meth[cur] = "docker" /\ art["docker"] # "none" /\ Returns("failure") /\ UNCHANGED art /\ Answers
     \/ (meth[cur] = "docker" => art["docker"] = "none") /\ art' = Deployed /\ Goto("start") /\ Answers
     \/ art' \in {art} \cup (IF meth[cur] = "docker" /\ art["docker"] # "none" THEN {} ELSE {Deployed})
          /\ Returns("failure") /\ Fails
  /\ Elsewhere
  /\ UNCHANGED <<rec, tried>>

\* The exit code of systemctl is not looked at, an answer of the engine is.
Start ==
  /\ At("install", "start")
  /\ \/ art' = Up(meth[cur]) /\ Goto("verify") /\ Answers
     \/ UNCHANGED art /\ meth[cur] = "native" /\ Goto("verify") /\ Answers
     \/ UNCHANGED art /\ meth[cur] = "docker" /\ Returns("failure") /\ Answers
     \/ art' \in {art, Up(meth[cur])} /\ Returns("failure") /\ Fails
  /\ Elsewhere
  /\ UNCHANGED <<rec, tried>>

\* Waiting for the recipe's healthcheck, which may succeed on a dead service;
\* when it fails, the application is recorded all the same, in error. Without
\* one, a native service must be active and a container is not looked at.
Verify ==
  /\ At("install", "verify")
  /\ \/ Goto("record") /\ UNCHANGED <<rec, tried>>
     \/ RecordIfAbsent(meth[cur]) /\ Returns("failure")
     \/ meth[cur] = "native" /\ ~Active("native") /\ Returns("failure") /\ UNCHANGED <<rec, tried>>
  /\ Elsewhere
  /\ UNCHANGED <<art, errs>>

\* CreateInstallation, which the unique key refuses if there is a record.
Record ==
  /\ At("install", "record")
  /\ IF rec = NoRecord THEN Returns("success") /\ rec' = meth[cur] /\ tried' = FALSE
                       ELSE Returns("failure") /\ UNCHANGED <<rec, tried>>
  /\ Elsewhere
  /\ UNCHANGED <<art, errs>>

\* A container uninstall of a native record finds no container id and no
\* container name in it, and goes straight to deleting it.
UninstallCheck ==
  /\ At("uninstall", "check")
  /\ \/ rec = NoRecord /\ Returns("failure") /\ UNCHANGED <<tried, disturbed>>
     \/ /\ rec # NoRecord
        /\ Goto(IF meth[cur] = "docker" /\ rec = "native" THEN "forget" ELSE "stop")
        /\ tried' = TRUE
        /\ disturbed' = (disturbed \/ meth[cur] # rec)
  /\ Aside
  /\ UNCHANGED <<rec, art, errs, refused, blind>>

\* The node answers a stop or a removal: it has done it, or it refuses, by an
\* exit code or a status.
Replies(result) ==
  /\ \/ art' = result /\ UNCHANGED refused
     \/ UNCHANGED art /\ refused' = TRUE
  /\ Answers

\* Whether the service stops is not looked at.
StopService ==
  /\ At("uninstall", "stop")
  /\ \/ Replies(Down(meth[cur]))
     \/ art' \in {art, Down(meth[cur])} /\ UNCHANGED refused /\ Fails
  /\ Goto("remove")
  /\ Aside
  /\ UNCHANGED <<rec, tried, disturbed, blind>>

\* Removing a unit file does not stop the service; removing a container does.
Removed ==
  [art EXCEPT ![meth[cur]] = IF meth[cur] = "native" /\ Active("native") THEN "stray" ELSE "none"]

\* What an answer says is not looked at; only a docker call that gets none ends
\* the uninstall.
Remove ==
  /\ At("uninstall", "remove")
  /\ \/ Replies(Removed) /\ Goto("forget")
     \/ /\ art' \in {art, Removed} /\ UNCHANGED refused /\ Fails
        /\ IF meth[cur] = "docker" THEN Returns("failure") ELSE Goto("forget")
  /\ Aside
  /\ UNCHANGED <<rec, tried, disturbed, blind>>

Forget ==
  /\ At("uninstall", "forget")
  /\ rec' = NoRecord
  /\ Returns("success")
  /\ Elsewhere
  /\ UNCHANGED <<art, errs, tried>>

-----------------------------------------------------------------------------
(* Reconciliation of the rows a dead process left running *)

Next1(t) == proc = "reconciling" /\ t \in todo /\ (\A u \in todo : t <= u) /\ todo' = todo \ {t}

Decide(t, st) ==
  /\ Next1(t)
  /\ status' = [status EXCEPT ![t] = st]
  /\ last' = IF st = "queued" THEN last ELSE Outcome(t, st)
  /\ refused' = (st = "queued" /\ refused)
  /\ UNCHANGED <<rowVars, execVars, proc, downs, held, art, blind>>

\* The node is not reachable, or has no executor or engine.
Requeue(t) ==
  /\ Decide(t, "queued")
  /\ UNCHANGED <<rec, errs, tried, disturbed>>

\* Mutant of ReconcileInstall: the record a crash has prevented is not made up for.
ReconcileInstallUnrecorded(t) ==
  /\ op[t] = "install"
  /\ Decide(t, IF Active(meth[t]) THEN "success" ELSE "failure")
  /\ UNCHANGED <<rec, tried, errs, disturbed>>

\* Mutant of ReconcileInstall: the row is trusted, the node not asked.
ReconcileInstallTrusting(t) ==
  /\ op[t] = "install"
  /\ Decide(t, "success")
  /\ RecordIfAbsent(meth[t])
  /\ UNCHANGED <<errs, disturbed>>

\* An active service makes the install a success and its record is made up
\* for; a question that fails counts as not active.
ReconcileInstall(t) ==
  /\ op[t] = "install"
  /\ \/ /\ Active(meth[t])
        /\ Decide(t, "success")
        /\ RecordIfAbsent(meth[t])
        /\ disturbed' = (disturbed \/ (rec = NoRecord /\ art[meth[t]] = "stray"))
        /\ Answers
     \/ /\ (~Active(meth[t]) /\ Answers) \/ Fails
        /\ Decide(t, "failure")
        /\ UNCHANGED <<rec, tried, disturbed>>

\* Mutant of ReconcileUninstall: a service that does not run is taken for gone.
ReconcileUninstallActive(t) ==
  /\ op[t] = "uninstall"
  /\ Decide(t, IF Active(meth[t]) THEN "queued" ELSE "success")
  /\ UNCHANGED <<rec, tried, errs, disturbed>>

\* Nothing left on the node makes the uninstall a success, its record staying;
\* a question that fails counts as nothing left.
ReconcileUninstall(t) ==
  /\ op[t] = "uninstall"
  /\ \/ art[meth[t]] # "none" /\ Decide(t, "queued") /\ Answers
     \/ ((art[meth[t]] = "none" /\ Answers) \/ Fails) /\ Decide(t, "success")
  /\ UNCHANGED <<rec, tried, disturbed>>

Handler ==
  \/ InstallCheck \/ Deploy \/ Start \/ Verify \/ Record
  \/ UninstallCheck \/ StopService \/ Remove \/ Forget
  \/ Aborts

Next ==
  \/ \E m \in Methods : RequestInstall(m)
  \/ RequestUninstall
  \/ ServiceAction
  \/ \E m \in Methods : Dies(m)
  \/ \E t \in TaskIds, n \in 1..2 : Claim(t, n)
  \/ \E t \in TaskIds : Begin(t)
  \/ Handler
  \/ Finish
  \/ GoDown
  \/ Boot
  \/ \E t \in TaskIds : Requeue(t) \/ ReconcileInstall(t) \/ ReconcileUninstall(t)
  \/ StartWorkers

Spec == Init /\ [][Next]_vars
-----------------------------------------------------------------------------
(* Properties *)

TypeOK ==
  /\ count \in 0..MaxTasks
  /\ op \in [TaskIds -> {"install", "uninstall"}]
  /\ meth \in [TaskIds -> Methods]
  /\ status \in [TaskIds -> {"absent", "queued", "running"} \cup Terminal]
  /\ held \in [TaskIds -> 0..2]
  /\ cur \in {0} \cup TaskIds
  /\ pc \in {"idle", "check", "deploy", "start", "verify", "record", "stop", "remove", "forget", "finish"}
  /\ verdict \in Terminal
  /\ rec \in Methods \cup {NoRecord}
  /\ art \in [Methods -> Artefacts] /\ art["docker"] # "stray"
  /\ proc \in {"down", "reconciling", "working"}
  /\ todo \subseteq TaskIds
  /\ downs \in 0..MaxDowns
  /\ errs \in 0..MaxErrs
  /\ last \in [op : {"install", "uninstall", "none"}, meth : Methods]
  /\ tried \in BOOLEAN
  /\ disturbed \in BOOLEAN
  /\ refused \in BOOLEAN
  /\ blind \in BOOLEAN

\* An application whose install has just been reported as a success has its
\* installation record, whatever interrupted or repeated the task: without one
\* it runs on the node and can be neither managed nor uninstalled.
InstalledHasRecord ==
  last.op = "install" => rec # NoRecord

\* The record is looked up long before it is written; still, no other task has
\* written one in between, so an install that has read that there is none never
\* ends on the unique key. One that could not read it goes on without knowing,
\* works on the node of the application that is installed, and does end there.
RecordNotContended == (pc = "record" /\ ~blind) => rec = NoRecord

Undisturbed == errs = 0 /\ ~disturbed

\* A record stands for something on the node: as long as no uninstall has
\* worked on it, its unit or container exists. Said where no call or reading
\* has failed and nothing disturbed the tasks from outside the queue; a stop
\* that an uninstall was refused can leave a service without its unit file,
\* which a later install cut short is taken for, and that case is not said.
RecordHasArtefact == (Undisturbed /\ rec # NoRecord /\ ~tried) => art[rec] # "none"

\* An uninstall that has just been reported as a success has left nothing of
\* its method on the node, however often it was interrupted and executed anew,
\* and whatever earlier tasks had left there. Said of an uninstall that the node
\* has refused neither the stop nor the removal, where no call has failed and
\* nothing disturbed the tasks: the code deletes the record and reports the
\* success of one that was refused as well.
UninstalledIsGone ==
  (Undisturbed /\ ~refused /\ last.op = "uninstall") => art[last.meth] = "none"

\* "The uninstall method follows the installation record" (comment of
\* uninstallApp): an uninstall works on the record with the record's method.
UninstallFollowsRecord ==
  pc \in {"stop", "remove", "forget"} => rec = meth[cur]

\* "A container of that name exists, please uninstall first" (error of
\* DockerInstall): an install so refused can be helped by an uninstall.
ConflictCanBeUninstalled ==
  (proc = "working" /\ cur = 0 /\ \A t \in TaskIds : status[t] \in {"absent"} \cup Terminal)
  => (art["docker"] # "none" => rec # NoRecord)
=============================================================================
