------------------------------- MODULE Runner -------------------------------
(***************************************************************************)
(* The background task runner of the panel (internal/runner) over the      *)
(* background_tasks table (internal/store), with the panel_restart tasks   *)
(* of internal/self, which share the table but bypass the queue.           *)
(*                                                                         *)
(* A row is created queued by an HTTP handler, claimed by one of a fixed   *)
(* pool of workers with two separate SQL statements, executed under the    *)
(* mutex of its node, written terminal and reported to the finish hooks.   *)
(* The panel process may stop or crash at any point; the next one confirms *)
(* restart tasks, reconciles the rows left running, and only then starts   *)
(* its workers.                                                            *)
(***************************************************************************)
EXTENDS Integers, FiniteSets

CONSTANTS
  Workers,       (* worker goroutines of one panel process                   *)
  Free,          (* holder of a node mutex nobody has locked                 *)
  LockKeys,      (* the ids that select a node mutex                         *)
  NoNode,        (* ... among them 0, for the rows that belong to no node    *)
  Kinds,         (* task types an HTTP handler may enqueue                   *)
  Handled,       (* ... those with a registered handler                      *)
  Reconcilable,  (* ... those with a registered reconciler                   *)
  PanelRestart,  (* task type of a panel restart, never enqueued             *)
  MaxTasks,      (* bound: rows ever inserted                                *)
  MaxDowns,      (* bound: times the process ends                            *)
  MaxFaults      (* bound: database statements that fail                     *)

ASSUME RunnerAssumption ==
  /\ Workers # {} /\ Free \notin Workers
  /\ NoNode \in LockKeys
  /\ Handled \subseteq Kinds
  /\ Reconcilable \subseteq Kinds
  /\ PanelRestart \notin Kinds
  /\ MaxTasks \in Nat
  /\ MaxDowns \in Nat
  /\ MaxFaults \in Nat

VARIABLES
  count,       (* rows inserted so far; ids are 1..count (AUTOINCREMENT)     *)
  status,      (* status column                                              *)
  kind,        (* type column                                                *)
  key,         (* node_id column, as the key of the mutex it selects         *)
  proc,        (* progress of the panel process                              *)
  cancelled,   (* its context is cancelled: a stop signal has arrived        *)
  pc,          (* control state of each worker                               *)
  cur,         (* id the worker has selected, 0 if none                      *)
  outcome,     (* terminal status the worker is about to write               *)
  holder,      (* holder of each node mutex                                  *)
  wakeup,      (* the notify channel (capacity 1) holds a token              *)
  toNotify,    (* HTTP handlers between their INSERT and their Notify        *)
  launching,   (* restart rows whose systemd launch has not returned         *)
  todo,        (* rows the boot reconciliation has still to decide           *)
  toReport,    (* row it has just decided, whose hooks have not run; or 0    *)
  downs,       (* times the process has ended                                *)
  faults,      (* database statements that have failed                       *)
  faulted,     (* history: rows one of whose statements has failed           *)
  interrupted, (* history: rows running when the process last ended          *)
  hooks        (* history: times the hooks ran for the row, up to HookCap    *)

rowVars   == <<count, kind, key>>
workVars  == <<pc, cur, outcome, holder>>
callVars  == <<wakeup, toNotify, launching>>
bootVars  == <<todo, toReport>>
lifeVars  == <<proc, cancelled, downs, interrupted>>
faultVars == <<faults, faulted>>
vars == <<status, rowVars, workVars, callVars, bootVars, lifeVars, faultVars, hooks>>

TaskIds  == 1..MaxTasks
Terminal == {"success", "failure"}
Statuses == {"absent", "queued", "running"} \cup Terminal
HookCap  == 2     \* the history of hook calls tells 0, 1 and "more than once"

Queued  == {t \in TaskIds : status[t] = "queued"}
Running == {t \in TaskIds : status[t] = "running"}
IsNewest(t, S) == t \in S /\ \A u \in S : u <= t  \* mutant of IsOldest
IsOldest(t, S) == t \in S /\ \A u \in S : t <= u

Serving == proc \in {"listing", "reconciling", "working"} \* HTTP handlers run

\* Outcome of a database statement about row t: it succeeds, or it fails and
\* the code logs or ignores the error.
DbOk       == UNCHANGED faultVars
DbFails(S) == /\ faults < MaxFaults
              /\ faults'  = faults + 1
              /\ faulted' = faulted \cup S

Init ==
  /\ count  = 0
  /\ status = [t \in TaskIds |-> "absent"]
  /\ kind   = [t \in TaskIds |-> PanelRestart]
  /\ key    = [t \in TaskIds |-> NoNode]
  /\ proc = "boot"
  /\ cancelled = FALSE
  /\ pc      = [w \in Workers |-> "off"]
  /\ cur     = [w \in Workers |-> 0]
  /\ outcome = [w \in Workers |-> "failure"]
  /\ holder  = [k \in LockKeys |-> Free]
  /\ wakeup = FALSE
  /\ toNotify = 0
  /\ launching = {}
  /\ todo = {}
  /\ toReport = 0
  /\ downs = 0
  /\ faults = 0
  /\ faulted = {}
  /\ interrupted = {}
  /\ hooks = [t \in TaskIds |-> 0]

-----------------------------------------------------------------------------
(* HTTP handlers *)

Insert(k, n, st) ==
  /\ Serving
  /\ count < MaxTasks
  /\ count' = count + 1
  /\ status' = [status EXCEPT ![count + 1] = st]
  /\ kind'   = [kind EXCEPT ![count + 1] = k]
  /\ key'    = [key EXCEPT ![count + 1] = n]

\* CreateTask of an install, uninstall, script, ... request.
Enqueue(k, n) ==
  /\ Insert(k, n, "queued")
  /\ toNotify' = toNotify + 1
  /\ UNCHANGED <<wakeup, launching, workVars, bootVars, lifeVars, faultVars, hooks>>

\* Mutant of Notify: without the channel's buffer a send is dropped where the
\* worker that found no row (pc = "wait") has not yet come to its select.
NotifyUnbuffered ==
  /\ toNotify > 0
  /\ toNotify' = toNotify - 1
  /\ wakeup' \in {wakeup, TRUE}
  /\ UNCHANGED <<status, rowVars, launching, workVars, bootVars, lifeVars, faultVars, hooks>>

\* The same handler's non-blocking send on the notify channel.
Notify ==
  /\ toNotify > 0
  /\ toNotify' = toNotify - 1
  /\ wakeup' = TRUE
  /\ UNCHANGED <<status, rowVars, launching, workVars, bootVars, lifeVars, faultVars, hooks>>

\* A panel restart inserts its row already running; no worker ever sees it.
RestartCreate ==
  /\ Insert(PanelRestart, NoNode, "running")
  /\ launching' = launching \cup {count + 1}
  /\ UNCHANGED <<wakeup, toNotify, workVars, bootVars, lifeVars, faultVars, hooks>>

\* The delayed restart is launched, or fails and the row is closed.
RestartLaunch(t) ==
  /\ t \in launching
  /\ launching' = launching \ {t}
  /\ \/ UNCHANGED <<status, faultVars>>
     \/ status' = [status EXCEPT ![t] = "failure"] /\ DbOk
     \/ UNCHANGED status /\ DbFails({t})
  /\ UNCHANGED <<rowVars, wakeup, toNotify, workVars, bootVars, lifeVars, hooks>>

-----------------------------------------------------------------------------
(* Life of the process *)

\* SIGTERM or SIGINT cancels the context; nothing waits for the workers.
Stop ==
  /\ Serving
  /\ ~cancelled
  /\ downs < MaxDowns
  /\ cancelled' = TRUE
  /\ UNCHANGED <<status, rowVars, workVars, callVars, bootVars, proc, downs, interrupted, faultVars, hooks>>

\* Everything but the database is lost.
GoDown ==
  /\ proc # "down"
  /\ downs < MaxDowns
  /\ downs' = downs + 1
  /\ proc' = "down"
  /\ cancelled' = FALSE
  /\ interrupted' = Running
  /\ pc'      = [w \in Workers |-> "off"]
  /\ cur'     = [w \in Workers |-> 0]
  /\ outcome' = [w \in Workers |-> "failure"]
  /\ holder'  = [k \in LockKeys |-> Free]
  /\ wakeup' = FALSE
  /\ toNotify' = 0
  /\ launching' = {}
  /\ todo' = {}
  /\ toReport' = 0
  /\ UNCHANGED <<status, rowVars, faultVars, hooks>>

Exit  == cancelled /\ GoDown
Crash == GoDown

Boot ==
  /\ proc = "down"
  /\ proc' = "boot"
  /\ UNCHANGED <<status, rowVars, workVars, callVars, bootVars, cancelled, downs, interrupted, faultVars, hooks>>

\* Mutant of FinalizeBoot: the confirmation is left to the reconciliation.
FinalizeNothing ==
  /\ proc = "boot"
  /\ proc' = "listing"
  /\ UNCHANGED <<status, faultVars, rowVars, workVars, callVars, bootVars, cancelled, downs, interrupted, hooks>>

\* Restart rows left running are closed as successful, before anything else
\* looks at the table; a failed statement abandons the remaining ones.
FinalizeBoot ==
  /\ proc = "boot"
  /\ proc' = "listing"
  /\ LET restarts == {t \in Running : kind[t] = PanelRestart}
     IN \/ /\ status' = [t \in TaskIds |-> IF t \in restarts THEN "success" ELSE status[t]]
           /\ DbOk
        \/ \E n \in TaskIds : LET done == {t \in restarts : t < n} IN
             /\ status' = [t \in TaskIds |-> IF t \in done THEN "success" ELSE status[t]]
             /\ DbFails(restarts \ done)
  /\ UNCHANGED <<rowVars, workVars, callVars, bootVars, cancelled, downs, interrupted, hooks>>

\* ListRunningTasks; when it fails, the rows left running are not reconciled.
ReconcileList ==
  /\ proc = "listing"
  /\ proc' = "reconciling"
  /\ \/ todo' = Running /\ DbOk
     \/ todo' = {} /\ DbFails(Running)
  /\ UNCHANGED <<status, rowVars, workVars, callVars, toReport, cancelled, downs, interrupted, hooks>>

ReconcileNext(t) ==
  /\ proc = "reconciling"
  /\ toReport = 0
  /\ IsOldest(t, todo)
  /\ todo' = todo \ {t}

\* Mutant of ReconcileRequeue: a status of its own, which no reader knows.
RequeueAsPending(t) ==
  /\ ReconcileNext(t)
  /\ kind[t] \in Reconcilable
  /\ status' = [status EXCEPT ![t] = "pending"]
  /\ wakeup' = TRUE
  /\ UNCHANGED <<rowVars, workVars, toNotify, launching, toReport, lifeVars, faultVars, hooks>>

\* The reconciler wants the row executed again.
ReconcileRequeue(t) ==
  /\ ReconcileNext(t)
  /\ kind[t] \in Reconcilable
  /\ \/ status' = [status EXCEPT ![t] = "queued"] /\ DbOk
     \/ UNCHANGED status /\ DbFails({t})
  /\ wakeup' = TRUE
  /\ UNCHANGED <<rowVars, workVars, toNotify, launching, toReport, lifeVars, hooks>>

\* The reconciler has decided, or failed, or there is none (failure).
ReconcileFinish(t, st) ==
  /\ ReconcileNext(t)
  /\ st = "success" => kind[t] \in Reconcilable
  /\ \/ status' = [status EXCEPT ![t] = st] /\ DbOk
     \/ UNCHANGED status /\ DbFails({t})
  /\ toReport' = t
  /\ UNCHANGED <<rowVars, workVars, callVars, lifeVars, hooks>>

CountHook(t) == hooks' = [hooks EXCEPT ![t] = IF @ < HookCap THEN @ + 1 ELSE @]

ReconcileReport ==
  /\ toReport # 0
  /\ CountHook(toReport)
  /\ toReport' = 0
  /\ UNCHANGED <<status, rowVars, workVars, callVars, todo, lifeVars, faultVars>>

\* Mutant of StartWorkers: the workers do not wait for the reconciliation.
StartWorkersEarly ==
  /\ proc = "reconciling"
  /\ toReport = 0
  /\ proc' = "working"
  /\ pc' = [w \in Workers |-> "claim"]
  /\ UNCHANGED <<status, rowVars, cur, outcome, holder, callVars, bootVars, cancelled, downs, interrupted, faultVars, hooks>>

StartWorkers ==
  /\ proc = "reconciling"
  /\ todo = {}
  /\ toReport = 0
  /\ proc' = "working"
  /\ pc' = [w \in Workers |-> "claim"]
  /\ UNCHANGED <<status, rowVars, cur, outcome, holder, callVars, bootVars, cancelled, downs, interrupted, faultVars, hooks>>

-----------------------------------------------------------------------------
(* Workers *)

Goto(w, l) == pc' = [pc EXCEPT ![w] = l]

\* First statement of ClaimQueuedTask: the oldest queued row. No context is
\* looked at before it, so a cancelled worker keeps claiming.
ClaimSelect(w) ==
  /\ pc[w] = "claim"
  /\ \/ /\ \E t \in Queued : IsOldest(t, Queued) /\ cur' = [cur EXCEPT ![w] = t]
        /\ Goto(w, "update")
        /\ DbOk
     \/ /\ (Queued = {} /\ DbOk) \/ DbFails({})
        /\ Goto(w, "wait")
        /\ UNCHANGED cur
  /\ UNCHANGED <<status, rowVars, outcome, holder, callVars, bootVars, lifeVars, hooks>>

\* Mutant of MarkRunning: the UPDATE without its "AND status = queued".
MarkRunningAnyway(t) == status' = [status EXCEPT ![t] = "running"]

\* Its second statement, UPDATE ... WHERE status = queued: the number of rows
\* it changed is not looked at.
MarkRunning(t) ==
  status' = IF status[t] = "queued" THEN [status EXCEPT ![t] = "running"] ELSE status

\* ... and the row is read back, whatever its status has become.
ClaimUpdate(w) ==
  /\ pc[w] = "update"
  /\ MarkRunning(cur[w])
  /\ Goto(w, "lock")
  /\ DbOk
  /\ UNCHANGED <<rowVars, cur, outcome, holder, callVars, bootVars, lifeVars, hooks>>

\* The UPDATE fails, or the read after it does: the worker drops the row.
ClaimFails(w) ==
  /\ pc[w] = "update"
  /\ (UNCHANGED status \/ MarkRunning(cur[w]))
  /\ DbFails({cur[w]})
  /\ Goto(w, "wait")
  /\ cur' = [cur EXCEPT ![w] = 0]
  /\ UNCHANGED <<rowVars, outcome, holder, callVars, bootVars, lifeVars, hooks>>

\* Mutant of Begin: the handler runs without the mutex of its node.
BeginUnlocked(w) ==
  /\ pc[w] = "lock"
  /\ Goto(w, "handler")
  /\ UNCHANGED <<outcome, holder, status, rowVars, cur, callVars, bootVars, lifeVars, faultVars, hooks>>

\* The mutex of the row's node is acquired, and the handler looked up.
Begin(w) ==
  LET t == cur[w]
  IN /\ pc[w] = "lock"
     /\ holder[key[t]] = Free
     /\ holder' = [holder EXCEPT ![key[t]] = w]
     /\ IF kind[t] \in Handled
        THEN Goto(w, "handler") /\ UNCHANGED outcome
        ELSE Goto(w, "finish") /\ outcome' = [outcome EXCEPT ![w] = "failure"]
     /\ UNCHANGED <<status, rowVars, cur, callVars, bootVars, lifeVars, faultVars, hooks>>

HandlerReturns(w, st) ==
  /\ pc[w] = "handler"
  /\ outcome' = [outcome EXCEPT ![w] = st]
  /\ Goto(w, "finish")
  /\ UNCHANGED <<status, rowVars, cur, holder, callVars, bootVars, lifeVars, faultVars, hooks>>

\* FinishTask writes whatever the row's status is; its error is only logged.
Finish(w) ==
  /\ pc[w] = "finish"
  /\ \/ status' = [status EXCEPT ![cur[w]] = outcome[w]] /\ DbOk
     \/ UNCHANGED status /\ DbFails({cur[w]})
  /\ Goto(w, "hook")
  /\ UNCHANGED <<rowVars, cur, outcome, holder, callVars, bootVars, lifeVars, hooks>>

FireFinish(w) ==
  /\ pc[w] = "hook"
  /\ CountHook(cur[w])
  /\ Goto(w, "release")
  /\ UNCHANGED <<status, rowVars, cur, outcome, holder, callVars, bootVars, lifeVars, faultVars>>

\* Mutant of Release: an early return on failure skips the unlock.
ReleaseOnSuccess(w) ==
  /\ pc[w] = "release"
  /\ holder' = IF outcome[w] = "success" THEN [holder EXCEPT ![key[cur[w]]] = Free] ELSE holder
  /\ cur' = [cur EXCEPT ![w] = 0]
  /\ Goto(w, "claim")
  /\ UNCHANGED <<status, rowVars, outcome, callVars, bootVars, lifeVars, faultVars, hooks>>

\* The deferred calls: the writer is closed, then the mutex unlocked.
Release(w) ==
  /\ pc[w] = "release"
  /\ holder' = [holder EXCEPT ![key[cur[w]]] = Free]
  /\ cur' = [cur EXCEPT ![w] = 0]
  /\ Goto(w, "claim")
  /\ UNCHANGED <<status, rowVars, outcome, callVars, bootVars, lifeVars, faultVars, hooks>>

\* The select of the worker loop: a token, the 2s timer, or the context.
WakeByToken(w) ==
  /\ pc[w] = "wait"
  /\ wakeup
  /\ wakeup' = FALSE
  /\ Goto(w, "claim")
  /\ UNCHANGED <<status, rowVars, cur, outcome, holder, toNotify, launching, bootVars, lifeVars, faultVars, hooks>>

WakeByTimer(w) ==
  /\ pc[w] = "wait"
  /\ Goto(w, "claim")
  /\ UNCHANGED <<status, rowVars, cur, outcome, holder, callVars, bootVars, lifeVars, faultVars, hooks>>

Leave(w) ==
  /\ pc[w] = "wait"
  /\ cancelled
  /\ Goto(w, "off")
  /\ UNCHANGED <<status, rowVars, cur, outcome, holder, callVars, bootVars, lifeVars, faultVars, hooks>>

WorkerStep(w) ==
  \/ ClaimSelect(w)
  \/ ClaimUpdate(w)
  \/ ClaimFails(w)
  \/ Begin(w)
  \/ \E st \in Terminal : HandlerReturns(w, st)
  \/ Finish(w)
  \/ FireFinish(w)
  \/ Release(w)
  \/ WakeByToken(w)
  \/ WakeByTimer(w)
  \/ Leave(w)

BootStep ==
  \/ Boot
  \/ FinalizeBoot
  \/ ReconcileList
  \/ \E t \in TaskIds : ReconcileRequeue(t)
  \/ \E t \in TaskIds, st \in Terminal : ReconcileFinish(t, st)
  \/ ReconcileReport
  \/ StartWorkers

Next ==
  \/ \E k \in Kinds, n \in LockKeys : Enqueue(k, n)
  \/ Notify
  \/ RestartCreate
  \/ \E t \in TaskIds : RestartLaunch(t)
  \/ Stop
  \/ Exit
  \/ Crash
  \/ BootStep
  \/ \E w \in Workers : WorkerStep(w)

Spec == Init /\ [][Next]_vars

\* A worker's goroutine and the boot sequence keep running, a handler returns
\* (the agent client bounds every call it makes), a stopped process ends, and
\* sync.Mutex does not starve a waiter.
Fairness ==
  /\ WF_vars(BootStep)
  /\ WF_vars(Exit)
  /\ WF_vars(Notify)
  /\ \A w \in Workers : WF_vars(WorkerStep(w)) /\ SF_vars(Begin(w))

FairSpec == Spec /\ Fairness
-----------------------------------------------------------------------------
(* Properties *)

WorkerStates == {"off", "claim", "update", "lock", "handler", "finish", "hook", "release", "wait"}
Locked       == {"handler", "finish", "hook", "release"}
Unsettled    == {"lock", "handler", "finish"}

TypeOK ==
  /\ count \in 0..MaxTasks
  /\ status \in [TaskIds -> Statuses]
  /\ kind \in [TaskIds -> Kinds \cup {PanelRestart}]
  /\ key \in [TaskIds -> LockKeys]
  /\ proc \in {"down", "boot", "listing", "reconciling", "working"}
  /\ cancelled \in BOOLEAN
  /\ pc \in [Workers -> WorkerStates]
  /\ cur \in [Workers -> {0} \cup TaskIds]
  /\ outcome \in [Workers -> Terminal]
  /\ holder \in [LockKeys -> Workers \cup {Free}]
  /\ wakeup \in BOOLEAN
  /\ toNotify \in Nat
  /\ launching \subseteq TaskIds
  /\ todo \subseteq TaskIds
  /\ toReport \in {0} \cup TaskIds
  /\ downs \in 0..MaxDowns
  /\ faults \in 0..MaxFaults
  /\ faulted \subseteq TaskIds
  /\ interrupted \subseteq TaskIds
  /\ hooks \in [TaskIds -> 0..HookCap]

\* Tasks of one node never overlap: no two workers are between the lock and
\* the unlock of execute with rows of the same node, however the claims went.
NodeSerial ==
  \A v, w \in Workers :
    (v # w /\ pc[v] \in Locked /\ pc[w] \in Locked) => key[cur[v]] # key[cur[w]]

Owned(t) == \E w \in Workers : cur[w] = t /\ pc[w] \in Unsettled

\* No row is left running with nobody to finish it: once the workers have been
\* started it is a restart row, or a worker has it in hand, or a statement
\* about it failed. Before that, the reconciliation still has it to decide.
RunningIsOwned ==
  \A t \in Running \ faulted :
    \/ kind[t] = PanelRestart
    \/ proc \in {"down", "boot", "listing"}
    \/ proc = "reconciling" /\ t \in todo
    \/ proc = "working" /\ Owned(t)

\* A terminal row never goes back to the queue and is never marked running
\* again, though a stale claim may still be about to update it, reconciliation
\* requeues without looking at the status, and a second execution may rewrite it.
TerminalNeverReopens ==
  [][\A t \in TaskIds : status[t] \in Terminal => status'[t] \in Terminal]_vars

\* The hooks (audit record, notification, wiping of credentials) only run for
\* a row whose terminal status is in the table, unless a statement failed.
HooksFollowStatus ==
  \A t \in TaskIds \ faulted : hooks[t] > 0 => status[t] \in Terminal

\* The wake-up is not lost between the INSERT of a row, the notification and
\* a worker's decision to wait: a queued row with every worker waiting has its
\* token in the channel, or its handler about to put it there.
NoLostWakeup ==
  (faults = 0 /\ proc = "working" /\ ~cancelled /\ Queued # {}
     /\ \A w \in Workers : pc[w] = "wait")
  => (wakeup \/ toNotify > 0)

\* A restart that did happen is reported as a success: no restart row of an
\* earlier process is left running for the reconciliation, which would fail it.
RestartConfirmed ==
  proc \notin {"down", "boot"} =>
    \A t \in interrupted \ faulted : kind[t] = PanelRestart => status[t] = "success"

\* Every queued row is executed or decided in the end, whatever its kind, its
\* node and the state of its neighbours, if no database statement fails.
EveryTaskSettles ==
  \A t \in TaskIds : (status[t] = "queued") ~> (status[t] \in Terminal)

\* "Called once when a task reaches its terminal status" (comment of FinishHook):
\* never twice, though two workers may claim the same row, and never not at all
\* for a settled row nobody has in hand any more, though the process may end
\* between FinishTask and fireFinish.
HooksCalledOnce ==
  /\ \A t \in TaskIds : hooks[t] <= 1
  /\ proc = "working" =>
       \A t \in TaskIds \ faulted :
         (status[t] \in Terminal /\ kind[t] # PanelRestart /\ \A w \in Workers : cur[w] # t)
         => hooks[t] > 0

\* The runner keeps the promises of TaskQueue; the row a node works on is the
\* one the holder of its mutex has in hand. Stated for tables none of whose
\* statements failed: a lost terminal write lets a node rest on a running row.
Queue == INSTANCE TaskQueue WITH
  Direct <- PanelRestart,
  busy <- [k \in LockKeys |-> IF holder[k] = Free THEN 0 ELSE cur[holder[k]]]

RunnerImplementsQueue == Queue!Spec
=============================================================================
