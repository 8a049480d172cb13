---------------------------- MODULE RunnerProofs ----------------------------
(* Proofs of the safety properties of Runner, for any number of workers,    *)
(* nodes, task types, rows, process ends and failing statements.            *)
EXTENDS Runner, TLAPS

\* Where a worker has a row in hand, its local variable names one.
HasRow    == {"update", "lock"} \cup Locked
RowInHand == \A w \in Workers : pc[w] \in HasRow => cur[w] \in TaskIds

TypeInv == TypeOK /\ RowInHand

\* TypeInv is inductive.
LEMMA TypeInvariant == Spec => []TypeInv
<1> USE RunnerAssumption DEF Statuses, Terminal, HookCap, WorkerStates
<1>1. Init => TypeInv
  <2> SUFFICES ASSUME Init PROVE TypeInv
    OBVIOUS
  <2> USE DEF Init
  <2>1. /\ count \in 0..MaxTasks
        /\ status \in [TaskIds -> Statuses]
        /\ kind \in [TaskIds -> Kinds \cup {PanelRestart}]
        /\ key \in [TaskIds -> LockKeys]
    OBVIOUS
  <2>7. hooks \in [TaskIds -> 0..HookCap]
    OBVIOUS
  <2>2. /\ pc \in [Workers -> WorkerStates]
        /\ cur \in [Workers -> {0} \cup TaskIds]
        /\ outcome \in [Workers -> Terminal]
        /\ holder \in [LockKeys -> Workers \cup {Free}]
    OBVIOUS
  <2>3. /\ proc \in {"down", "boot", "listing", "reconciling", "working"}
        /\ toNotify \in Nat
        /\ downs \in 0..MaxDowns
        /\ faults \in 0..MaxFaults
    OBVIOUS
  <2>8. cancelled \in BOOLEAN /\ wakeup \in BOOLEAN
    OBVIOUS
  <2>4. /\ launching \subseteq TaskIds
        /\ todo \subseteq TaskIds
        /\ toReport \in {0} \cup TaskIds
        /\ faulted \subseteq TaskIds
        /\ interrupted \subseteq TaskIds
    OBVIOUS
  <2>5. RowInHand
    BY DEF RowInHand, HasRow, Locked
  <2> HIDE DEF Init, Statuses, Terminal, HookCap, WorkerStates
  <2>6. QED
    BY <2>1, <2>2, <2>3, <2>4, <2>5, <2>7, <2>8 DEF TypeInv, TypeOK
<1>2. TypeInv /\ [Next]_vars => TypeInv'
  <2> SUFFICES ASSUME TypeInv, [Next]_vars
               PROVE  TypeInv'
    OBVIOUS
  <2> USE DEF TypeInv, RowInHand, HasRow, Locked, TypeOK, DbOk, DbFails, Goto, rowVars, workVars, callVars, bootVars, lifeVars, faultVars
  <2>1. ASSUME NEW k \in Kinds, NEW n \in LockKeys, Enqueue(k, n)
        PROVE  TypeInv'
    BY <2>1 DEF Enqueue, Insert, TaskIds
  <2>2. CASE Notify
    BY <2>2 DEF Notify
  <2>3. CASE RestartCreate
    BY <2>3 DEF RestartCreate, Insert, TaskIds
  <2>4. ASSUME NEW t \in TaskIds, RestartLaunch(t)
        PROVE  TypeInv'
    BY <2>4 DEF RestartLaunch
  <2>5. CASE Stop
    BY <2>5 DEF Stop
  <2>6. CASE GoDown
    <3> USE <2>6 DEF GoDown
    <3>1. /\ downs' \in 0..MaxDowns
          /\ interrupted' \subseteq TaskIds
      BY DEF Running
    <3>2. /\ pc' \in [Workers -> WorkerStates]
          /\ cur' \in [Workers -> {0} \cup TaskIds]
          /\ outcome' \in [Workers -> Terminal]
          /\ holder' \in [LockKeys -> Workers \cup {Free}]
      OBVIOUS
    <3>3. QED
      BY <3>1, <3>2
  <2>7. CASE Boot
    BY <2>7 DEF Boot
  <2>8. CASE FinalizeBoot
    BY <2>8 DEF FinalizeBoot, Running
  <2>9. CASE ReconcileList
    BY <2>9 DEF ReconcileList, Running
  <2>10. ASSUME NEW t \in TaskIds, ReconcileRequeue(t)
         PROVE  TypeInv'
    BY <2>10 DEF ReconcileRequeue, ReconcileNext
  <2>11. ASSUME NEW t \in TaskIds, NEW st \in Terminal, ReconcileFinish(t, st)
         PROVE  TypeInv'
    BY <2>11 DEF ReconcileFinish, ReconcileNext
  <2>12. CASE ReconcileReport
    BY <2>12 DEF ReconcileReport, CountHook
  <2>13. CASE StartWorkers
    BY <2>13 DEF StartWorkers
  <2>14. ASSUME NEW w \in Workers, WorkerStep(w)
         PROVE  TypeInv'
    <3>1. CASE ClaimSelect(w)
      BY <3>1 DEF ClaimSelect, Queued, IsOldest
    <3>2. CASE ClaimUpdate(w)
      BY <3>2 DEF ClaimUpdate, MarkRunning
    <3>3. CASE ClaimFails(w)
      BY <3>3 DEF ClaimFails, MarkRunning
    <3>4. CASE Begin(w)
      BY <3>4 DEF Begin
    <3>5. ASSUME NEW st \in Terminal, HandlerReturns(w, st)
          PROVE  TypeInv'
      BY <3>5 DEF HandlerReturns
    <3>6. CASE Finish(w)
      BY <3>6 DEF Finish
    <3>7. CASE FireFinish(w)
      BY <3>7 DEF FireFinish, CountHook
    <3>8. CASE Release(w)
      BY <3>8 DEF Release
    <3>9. CASE WakeByToken(w)
      BY <3>9 DEF WakeByToken
    <3>10. CASE WakeByTimer(w)
      BY <3>10 DEF WakeByTimer
    <3>11. CASE Leave(w)
      BY <3>11 DEF Leave
    <3>12. QED
      BY <2>14, <3>1, <3>2, <3>3, <3>4, <3>5, <3>6, <3>7, <3>8, <3>9, <3>10, <3>11
      DEF WorkerStep
  <2>15. CASE UNCHANGED vars
    BY <2>15 DEF vars
  <2>16. QED
    BY <2>1, <2>2, <2>3, <2>4, <2>5, <2>6, <2>7, <2>8, <2>9, <2>10, <2>11, <2>12,
       <2>13, <2>14, <2>15
    DEF Next, BootStep, Exit, Crash
<1>3. QED
  BY <1>1, <1>2, PTL DEF Spec

\* Every variable keeps its type.
THEOREM TypeCorrect == Spec => []TypeOK
<1>1. TypeInv => TypeOK
  BY DEF TypeInv
<1>2. QED
  BY <1>1, TypeInvariant, PTL
-----------------------------------------------------------------------------
(* The node mutexes                                                         *)

\* Only inserted rows have a status, and only they are in a worker's hand; the
\* key of a row in hand therefore never changes, and whoever is between lock
\* and unlock is the holder of the mutex of its row's node.
RowsInserted == \A t \in TaskIds :
                  status[t] # "absent" \/ t \in launching \/ t \in todo => t <= count
HandInserted == \A w \in Workers : pc[w] \in HasRow => cur[w] <= count
LocksHeld    == \A w \in Workers : pc[w] \in Locked => holder[key[cur[w]]] = w

SerialInv == RowsInserted /\ HandInserted /\ LocksHeld

LEMMA SerialInit == Init => SerialInv
  BY RunnerAssumption
  DEF Init, SerialInv, RowsInserted, HandInserted, LocksHeld, HasRow, Locked, TaskIds

LEMMA SerialStep == TypeInv /\ SerialInv /\ [Next]_vars => SerialInv'
<1> SUFFICES ASSUME TypeInv, SerialInv, [Next]_vars
             PROVE  SerialInv'
  OBVIOUS
<1> USE RunnerAssumption
    DEF TypeInv, TypeOK, RowInHand, HasRow, Locked, Goto, TaskIds, Statuses, Terminal,
        SerialInv, RowsInserted, HandInserted, LocksHeld,
        rowVars, workVars, callVars, bootVars, lifeVars, faultVars
<1>1. ASSUME NEW k \in Kinds \cup {PanelRestart}, NEW n \in LockKeys, NEW st \in Statuses,
             Insert(k, n, st), UNCHANGED <<workVars, todo>>,
             launching' \subseteq launching \cup {count + 1}
      PROVE  SerialInv'
  <2>1. RowsInserted'
    BY <1>1 DEF Insert
  <2>2. HandInserted'
    BY <1>1 DEF Insert
  <2>3. LocksHeld'
    BY <1>1 DEF Insert
  <2>4. QED
    BY <2>1, <2>2, <2>3
<1>2. ASSUME NEW k \in Kinds, NEW n \in LockKeys, Enqueue(k, n)
      PROVE  SerialInv'
  BY <1>1, <1>2 DEF Enqueue
<1>3. CASE RestartCreate
  BY <1>1, <1>3 DEF RestartCreate
<1>4. CASE Notify \/ Stop \/ Boot \/ ReconcileList \/ ReconcileReport \/ UNCHANGED vars
  BY SMTT(20), <1>4 DEF Notify, Stop, Boot, ReconcileList, Running, ReconcileReport, vars
<1>5. ASSUME NEW t \in TaskIds, RestartLaunch(t)
      PROVE  SerialInv'
  BY <1>5 DEF RestartLaunch
<1>6. CASE GoDown
  BY <1>6 DEF GoDown
<1>7. CASE FinalizeBoot
  BY <1>7 DEF FinalizeBoot, Running
<1>8. ASSUME NEW t \in TaskIds, NEW st \in Terminal, ReconcileRequeue(t) \/ ReconcileFinish(t, st)
      PROVE  SerialInv'
  BY <1>8 DEF ReconcileRequeue, ReconcileFinish, ReconcileNext, IsOldest
<1>9. CASE StartWorkers
  BY <1>9 DEF StartWorkers
<1>10. ASSUME NEW w \in Workers, WorkerStep(w)
       PROVE  SerialInv'
  <2>1. CASE ClaimSelect(w)
    <3>1. \A t \in Queued : t <= count
      BY DEF Queued
    <3>2. /\ UNCHANGED <<status, count, key, holder, launching, todo>>
          /\ \A v \in Workers \ {w} : pc'[v] = pc[v] /\ cur'[v] = cur[v]
          /\ \/ pc'[w] = "update" /\ cur'[w] \in Queued
             \/ pc'[w] = "wait"
      BY <2>1 DEF ClaimSelect, Queued, IsOldest
    <3>3. QED
      BY <3>1, <3>2
  <2>2. CASE ClaimUpdate(w)
    BY <2>2 DEF ClaimUpdate, MarkRunning
  <2>10. CASE ClaimFails(w)
    BY <2>10 DEF ClaimFails, MarkRunning
  <2>3. CASE Begin(w)
    BY <2>3 DEF Begin
  <2>4. ASSUME NEW st \in Terminal, HandlerReturns(w, st)
        PROVE  SerialInv'
    BY <2>4 DEF HandlerReturns
  <2>5. CASE Finish(w)
    BY <2>5 DEF Finish
  <2>6. CASE FireFinish(w)
    BY <2>6 DEF FireFinish
  <2>7. CASE Release(w)
    BY <2>7 DEF Release
  <2>8. CASE WakeByToken(w)
    BY <2>8 DEF WakeByToken
  <2>12. CASE WakeByTimer(w)
    BY <2>12 DEF WakeByTimer
  <2>9. CASE Leave(w)
    BY <2>9 DEF Leave
  <2>11. QED
    BY <1>10, <2>1, <2>2, <2>3, <2>4, <2>5, <2>6, <2>7, <2>8, <2>9, <2>10, <2>12 DEF WorkerStep
<1>11. QED
  BY <1>2, <1>3, <1>4, <1>5, <1>6, <1>7, <1>8, <1>9, <1>10
  DEF Next, BootStep, Exit, Crash

LEMMA SerialInvariant == Spec => []SerialInv
  BY SerialInit, SerialStep, TypeInvariant, PTL DEF Spec

\* Tasks of one node never overlap, for any number of workers and nodes, although
\* two workers may claim the same row.
THEOREM NodeSerialHolds == Spec => []NodeSerial
<1>1. SerialInv => NodeSerial
  BY DEF SerialInv, LocksHeld, NodeSerial
<1>2. QED
  BY <1>1, SerialInvariant, PTL
-----------------------------------------------------------------------------
(* The status of a row                                                      *)

\* Workers only exist while the process works, and reconciliation has rows to
\* decide only before that; rows it has to decide are running, unless they are
\* restart rows; the queue and the workers never see restart rows.
WorkersStarted == /\ \A w \in Workers : pc[w] # "off" => proc = "working"
                  /\ todo # {} => proc = "reconciling"
TodoRunning    == \A t \in todo : status[t] = "running" \/ kind[t] = PanelRestart
QueuedKinds    == \A t \in TaskIds : status[t] = "queued" => kind[t] \in Kinds
LaunchKinds    == \A t \in launching : kind[t] = PanelRestart
HandKinds      == \A w \in Workers : pc[w] \in HasRow => kind[cur[w]] \in Kinds

StatusInv == WorkersStarted /\ TodoRunning /\ QueuedKinds /\ LaunchKinds /\ HandKinds

LEMMA StatusInit == Init => StatusInv
  BY RunnerAssumption
  DEF Init, StatusInv, WorkersStarted, TodoRunning, QueuedKinds, LaunchKinds, HandKinds, HasRow, Locked, TaskIds

LEMMA StatusStep == TypeInv /\ SerialInv /\ StatusInv /\ [Next]_vars => StatusInv'
<1> SUFFICES ASSUME TypeInv, SerialInv, StatusInv, [Next]_vars
             PROVE  StatusInv'
  OBVIOUS
<1> USE RunnerAssumption
    DEF TypeInv, TypeOK, RowInHand, HasRow, Locked, Goto, TaskIds, Statuses, Terminal,
        SerialInv, RowsInserted, HandInserted,
        StatusInv, WorkersStarted, TodoRunning, QueuedKinds, LaunchKinds, HandKinds,
        rowVars, workVars, callVars, bootVars, lifeVars, faultVars
<1>1. ASSUME NEW k \in Kinds, NEW n \in LockKeys, Enqueue(k, n)
      PROVE  StatusInv'
  BY <1>1 DEF Enqueue, Insert
<1>2. CASE RestartCreate
  BY <1>2 DEF RestartCreate, Insert
<1>3. CASE Notify \/ Stop \/ ReconcileReport \/ UNCHANGED vars
  BY <1>3 DEF Notify, Stop, ReconcileReport, vars
<1>4. ASSUME NEW t \in TaskIds, RestartLaunch(t)
      PROVE  StatusInv'
  BY <1>4 DEF RestartLaunch
<1>5. CASE GoDown
  BY <1>5 DEF GoDown
<1>6. CASE Boot
  BY <1>6 DEF Boot
<1>7. CASE FinalizeBoot
  <2>1. /\ todo = {}
        /\ UNCHANGED <<kind, cur, pc, todo, launching>>
        /\ proc' = "listing" /\ \A w \in Workers : pc[w] = "off"
    BY <1>7 DEF FinalizeBoot
  <2>2. \A t \in TaskIds : status'[t] = status[t] \/ status'[t] = "success"
    BY ZenonT(30), <1>7 DEF FinalizeBoot, Running
  <2>3. QED
    BY <2>1, <2>2
<1>8. CASE ReconcileList
  BY <1>8 DEF ReconcileList, Running
<1>9. ASSUME NEW t \in TaskIds, ReconcileRequeue(t)
      PROVE  StatusInv'
  BY <1>9 DEF ReconcileRequeue, ReconcileNext, IsOldest
<1>10. ASSUME NEW t \in TaskIds, NEW st \in Terminal, ReconcileFinish(t, st)
       PROVE  StatusInv'
  BY <1>10 DEF ReconcileFinish, ReconcileNext, IsOldest
<1>11. CASE StartWorkers
  BY <1>11 DEF StartWorkers
<1>12. ASSUME NEW w \in Workers, WorkerStep(w)
       PROVE  StatusInv'
  <2>1. CASE ClaimSelect(w)
    BY <2>1 DEF ClaimSelect, Queued, IsOldest
  <2>2. CASE ClaimUpdate(w)
    BY <2>2 DEF ClaimUpdate, MarkRunning
  <2>3. CASE ClaimFails(w)
    BY <2>3 DEF ClaimFails, MarkRunning
  <2>4. CASE Begin(w)
    BY <2>4 DEF Begin
  <2>5. ASSUME NEW st \in Terminal, HandlerReturns(w, st)
        PROVE  StatusInv'
    BY <2>5 DEF HandlerReturns
  <2>6. CASE Finish(w)
    BY <2>6 DEF Finish
  <2>7. CASE FireFinish(w)
    BY <2>7 DEF FireFinish
  <2>8. CASE Release(w)
    BY <2>8 DEF Release
  <2>9. CASE WakeByToken(w)
    BY <2>9 DEF WakeByToken
  <2>10. CASE WakeByTimer(w)
    BY <2>10 DEF WakeByTimer
  <2>11. CASE Leave(w)
    BY <2>11 DEF Leave
  <2>12. QED
    BY <1>12, <2>1, <2>2, <2>3, <2>4, <2>5, <2>6, <2>7, <2>8, <2>9, <2>10, <2>11 DEF WorkerStep
<1>13. QED
  BY <1>1, <1>2, <1>3, <1>4, <1>5, <1>6, <1>7, <1>8, <1>9, <1>10, <1>11, <1>12
  DEF Next, BootStep, Exit, Crash

LEMMA StatusInvariant == Spec => []StatusInv
  BY StatusInit, StatusStep, TypeInvariant, SerialInvariant, PTL DEF Spec

StaysTerminal == \A t \in TaskIds : status[t] \in Terminal => status'[t] \in Terminal

\* No step, of any actor, takes a row out of its terminal status.
LEMMA TerminalStep ==
  TypeInv /\ SerialInv /\ StatusInv /\ [Next]_vars => StaysTerminal
<1> SUFFICES ASSUME TypeInv, SerialInv, StatusInv, [Next]_vars, NEW t \in TaskIds,
                    status[t] \in Terminal
             PROVE  status'[t] \in Terminal
  BY DEF StaysTerminal
<1> USE RunnerAssumption
    DEF TypeInv, TypeOK, Terminal, SerialInv, RowsInserted, StatusInv
<1>1. ASSUME NEW k \in Kinds, NEW n \in LockKeys, Enqueue(k, n)
      PROVE  status'[t] \in Terminal
  BY <1>1 DEF Enqueue, Insert, TaskIds
<1>2. CASE RestartCreate
  BY <1>2 DEF RestartCreate, Insert, TaskIds
<1>3. CASE Notify \/ Stop \/ ReconcileReport \/ GoDown \/ Boot \/ StartWorkers \/ UNCHANGED vars
  BY <1>3 DEF Notify, Stop, ReconcileReport, GoDown, Boot, StartWorkers, vars
<1>4. ASSUME NEW u \in TaskIds, RestartLaunch(u)
      PROVE  status'[t] \in Terminal
  BY <1>4 DEF RestartLaunch
<1>5. CASE FinalizeBoot
  BY <1>5 DEF FinalizeBoot
<1>6. CASE ReconcileList
  BY <1>6 DEF ReconcileList
<1>7. ASSUME NEW u \in TaskIds, ReconcileRequeue(u)
      PROVE  status'[t] \in Terminal
  BY <1>7 DEF ReconcileRequeue, ReconcileNext, IsOldest, TodoRunning
<1>8. ASSUME NEW u \in TaskIds, NEW st \in Terminal, ReconcileFinish(u, st)
      PROVE  status'[t] \in Terminal
  BY <1>8 DEF ReconcileFinish
<1>9. ASSUME NEW w \in Workers, WorkerStep(w)
      PROVE  status'[t] \in Terminal
  <2>1. CASE ClaimUpdate(w) \/ ClaimFails(w)
    BY <2>1 DEF ClaimUpdate, ClaimFails, MarkRunning
  <2>2. CASE Finish(w)
    BY <2>2 DEF Finish
  <2>3. CASE ClaimSelect(w) \/ Begin(w) \/ FireFinish(w) \/ Release(w)
             \/ WakeByToken(w) \/ WakeByTimer(w) \/ Leave(w)
             \/ \E st \in Terminal : HandlerReturns(w, st)
    BY <2>3 DEF ClaimSelect, Begin, FireFinish, Release, WakeByToken, WakeByTimer, Leave,
                HandlerReturns
  <2>4. QED
    BY <1>9, <2>1, <2>2, <2>3 DEF WorkerStep
<1>10. QED
  BY <1>1, <1>2, <1>3, <1>4, <1>5, <1>6, <1>7, <1>8, <1>9 DEF Next, BootStep, Exit, Crash

\* A terminal row is never claimed, requeued or marked running again, although
\* claiming takes two statements and requeuing does not look at the status.
THEOREM TerminalIsFinal == Spec => TerminalNeverReopens
<1>1. TypeInv /\ SerialInv /\ StatusInv /\ [Next]_vars => [StaysTerminal]_vars
  BY TerminalStep
<1>2. QED
  BY <1>1, TypeInvariant, SerialInvariant, StatusInvariant, PTL
  DEF Spec, TerminalNeverReopens, StaysTerminal

-----------------------------------------------------------------------------
(* Ownership of the running rows                                            *)

LEMMA OwnedInit == Init => RunningIsOwned
  BY DEF Init, RunningIsOwned, Running

LEMMA OwnedStep ==
  TypeInv /\ SerialInv /\ StatusInv /\ RunningIsOwned /\ [Next]_vars => RunningIsOwned'
<1> SUFFICES ASSUME TypeInv, SerialInv, StatusInv, RunningIsOwned, [Next]_vars,
                    NEW t \in TaskIds, status'[t] = "running", t \notin faulted'
             PROVE  \/ kind'[t] = PanelRestart
                    \/ proc' \in {"down", "boot", "listing"}
                    \/ proc' = "reconciling" /\ t \in todo'
                    \/ proc' = "working" /\ Owned(t)'
  BY DEF RunningIsOwned, Running
<1> DEFINE Answerable == \/ kind[t] = PanelRestart
                         \/ proc \in {"down", "boot", "listing"}
                         \/ proc = "reconciling" /\ t \in todo
                         \/ proc = "working" /\ Owned(t)
<1>0. status[t] = "running" /\ t \notin faulted => Answerable
  BY DEF RunningIsOwned, Running
<1> USE DEF TypeInv, TypeOK, RowInHand, HasRow, Locked, Goto, Terminal, Owned, Unsettled,
        SerialInv, RowsInserted, StatusInv, WorkersStarted,
        rowVars, workVars, callVars, bootVars, lifeVars, faultVars, DbOk, DbFails
<1>1. ASSUME NEW k \in Kinds, NEW n \in LockKeys, Enqueue(k, n)
      PROVE  Answerable'
  BY <1>0, <1>1 DEF Enqueue, Insert, TaskIds
<1>2. CASE RestartCreate
  BY <1>0, <1>2 DEF RestartCreate, Insert, TaskIds
<1>3. CASE Notify \/ Stop \/ ReconcileReport \/ UNCHANGED vars
  BY <1>0, <1>3 DEF Notify, Stop, ReconcileReport, vars
<1>4. ASSUME NEW u \in TaskIds, RestartLaunch(u)
      PROVE  Answerable'
  BY <1>0, <1>4 DEF RestartLaunch
<1>5. CASE GoDown \/ Boot \/ FinalizeBoot
  BY <1>5 DEF GoDown, Boot, FinalizeBoot
<1>6. CASE ReconcileList
  BY <1>6 DEF ReconcileList, Running
<1>7. ASSUME NEW u \in TaskIds, NEW st \in Terminal, ReconcileRequeue(u) \/ ReconcileFinish(u, st)
      PROVE  Answerable'
  BY <1>0, <1>7 DEF ReconcileRequeue, ReconcileFinish, ReconcileNext, IsOldest
<1>8. CASE StartWorkers
  BY <1>0, <1>8 DEF StartWorkers
<1>9. ASSUME NEW w \in Workers, WorkerStep(w)
      PROVE  Answerable'
  <2>1. CASE ClaimSelect(w)
    BY <1>0, <2>1 DEF ClaimSelect
  <2>2. CASE ClaimUpdate(w)
    BY <1>0, <2>2 DEF ClaimUpdate, MarkRunning
  <2>3. CASE ClaimFails(w)
    BY <1>0, <2>3 DEF ClaimFails, MarkRunning
  <2>4. CASE Begin(w)
    BY <1>0, <2>4 DEF Begin
  <2>5. ASSUME NEW st \in Terminal, HandlerReturns(w, st)
        PROVE  Answerable'
    BY <1>0, <2>5 DEF HandlerReturns
  <2>6. CASE Finish(w)
    BY <1>0, <2>6 DEF Finish
  <2>7. CASE FireFinish(w) \/ Release(w)
    BY <1>0, <2>7 DEF FireFinish, Release
  <2>8. CASE WakeByToken(w) \/ WakeByTimer(w) \/ Leave(w)
    BY <1>0, <2>8 DEF WakeByToken, WakeByTimer, Leave
  <2>9. QED
    BY <1>9, <2>1, <2>2, <2>3, <2>4, <2>5, <2>6, <2>7, <2>8 DEF WorkerStep
<1>10. QED
  BY <1>1, <1>2, <1>3, <1>4, <1>5, <1>6, <1>7, <1>8, <1>9 DEF Next, BootStep, Exit, Crash

\* A row is never left running with nobody to finish it: reconciliation is over
\* before the first claim, and every claim ends in a terminal write.
THEOREM RunningIsOwnedHolds == Spec => []RunningIsOwned
  BY OwnedInit, OwnedStep, TypeInvariant, SerialInvariant, StatusInvariant, PTL DEF Spec
-----------------------------------------------------------------------------
(* The finish hooks                                                         *)

\* A row about to be reported, by a worker or by reconciliation, is terminal.
Reported(t)   == t \in faulted \/ status[t] \in Terminal
ReportPending == /\ \A w \in Workers : pc[w] = "hook" => Reported(cur[w])
                 /\ toReport # 0 => Reported(toReport)

HookInv == HooksFollowStatus /\ ReportPending

LEMMA HookInit == Init => HookInv
  BY DEF Init, HookInv, HooksFollowStatus, ReportPending

LEMMA HookStep ==
  TypeInv /\ SerialInv /\ StatusInv /\ HookInv /\ [Next]_vars => HookInv'
<1> SUFFICES ASSUME TypeInv, SerialInv, StatusInv, HookInv, [Next]_vars
             PROVE  HookInv'
  OBVIOUS
<1>0. \A t \in TaskIds : Reported(t) => Reported(t)'
  <2>1. faulted \subseteq faulted'
    BY DEF Next, BootStep, WorkerStep, Exit, Crash, Enqueue, Insert, RestartCreate, Notify, Stop,
           ReconcileReport, RestartLaunch, GoDown, Boot, FinalizeBoot, ReconcileList,
           ReconcileRequeue, ReconcileFinish, StartWorkers, ClaimSelect, ClaimUpdate, ClaimFails,
           Begin, HandlerReturns, Finish, FireFinish, Release, WakeByToken, WakeByTimer, Leave,
           DbOk, DbFails, faultVars, vars
  <2>2. QED
    BY <2>1, TerminalStep DEF Reported, StaysTerminal
<1>1. ASSUME UNCHANGED <<hooks, pc, cur, toReport>>
      PROVE  HookInv'
  BY <1>0, <1>1 DEF HookInv, HooksFollowStatus, ReportPending, Reported, TypeInv, TypeOK,
                    RowInHand, HasRow, Locked
<1> USE DEF TypeInv, TypeOK, RowInHand, HasRow, Locked, Goto,
            HookInv, HooksFollowStatus, ReportPending, workVars, bootVars
<1>12. ASSUME NEW u \in TaskIds, Reported(u), CountHook(u)
       PROVE  HooksFollowStatus'
  <2>1. \A t \in TaskIds : t # u => hooks'[t] = hooks[t]
    BY <1>12 DEF CountHook
  <2>2. \A t \in TaskIds : hooks[t] > 0 => Reported(t)
    BY DEF Reported
  <2>3. \A t \in TaskIds : hooks'[t] > 0 => Reported(t)'
    BY <1>0, <1>12, <2>1, <2>2
  <2>4. QED
    BY <2>3 DEF Reported
<1>2. ASSUME NEW k \in Kinds, NEW n \in LockKeys, Enqueue(k, n)
      PROVE  HookInv'
  BY <1>1, <1>2 DEF Enqueue
<1>3. CASE Notify \/ RestartCreate \/ Stop \/ Boot \/ FinalizeBoot \/ ReconcileList \/ UNCHANGED vars
  BY <1>1, <1>3 DEF Notify, RestartCreate, Stop, Boot, FinalizeBoot, ReconcileList, vars
<1>4. ASSUME NEW t \in TaskIds, RestartLaunch(t)
      PROVE  HookInv'
  BY <1>1, <1>4 DEF RestartLaunch
<1>5. CASE GoDown
  BY <1>0, <1>5 DEF GoDown, Reported
<1>6. ASSUME NEW t \in TaskIds, ReconcileRequeue(t)
      PROVE  HookInv'
  BY <1>1, <1>6 DEF ReconcileRequeue
<1>7. ASSUME NEW t \in TaskIds, NEW st \in Terminal, ReconcileFinish(t, st)
      PROVE  HookInv'
  <2>1. Reported(t)'
    BY <1>7 DEF ReconcileFinish, DbFails, Reported
  <2>2. UNCHANGED <<hooks, pc, cur>> /\ toReport' = t
    BY <1>7 DEF ReconcileFinish
  <2>3. QED
    BY <1>0, <2>1, <2>2 DEF Reported
<1>8. CASE ReconcileReport
  <2>1. HooksFollowStatus'
    BY <1>12, <1>8 DEF ReconcileReport
  <2>2. UNCHANGED <<pc, cur>> /\ toReport' = 0
    BY <1>8 DEF ReconcileReport
  <2>3. QED
    BY <1>0, <2>1, <2>2 DEF Reported
<1>9. CASE StartWorkers
  BY <1>0, <1>9 DEF StartWorkers, Reported
<1>10. ASSUME NEW w \in Workers, WorkerStep(w)
       PROVE  HookInv'
  <2>1. CASE Finish(w)
    <3>1. Reported(cur[w])'
      BY <2>1 DEF Finish, DbFails, Reported, Terminal
    <3>2. UNCHANGED <<hooks, cur, toReport>> /\ pc' = [pc EXCEPT ![w] = "hook"]
      BY <2>1 DEF Finish
    <3>3. QED
      BY <1>0, <3>1, <3>2 DEF Reported
  <2>2. CASE FireFinish(w)
    <3>1. HooksFollowStatus'
      BY <1>12, <2>2 DEF FireFinish
    <3>2. UNCHANGED <<cur, toReport>> /\ pc' = [pc EXCEPT ![w] = "release"]
      BY <2>2 DEF FireFinish
    <3>3. QED
      BY <1>0, <3>1, <3>2 DEF Reported
  <2>3. ASSUME UNCHANGED <<hooks, toReport>>,
               \A v \in Workers \ {w} : pc'[v] = pc[v] /\ cur'[v] = cur[v],
               pc'[w] # "hook"
        PROVE  HookInv'
    BY <1>0, <2>3 DEF Reported
  <2>4. CASE ClaimSelect(w)
    BY <2>3, <2>4 DEF ClaimSelect
  <2>5. CASE ClaimUpdate(w) \/ ClaimFails(w)
    BY <2>3, <2>5 DEF ClaimUpdate, ClaimFails
  <2>6. CASE Begin(w)
    BY <2>3, <2>6 DEF Begin
  <2>7. ASSUME NEW st \in Terminal, HandlerReturns(w, st)
        PROVE  HookInv'
    BY <2>3, <2>7 DEF HandlerReturns
  <2>8. CASE Release(w)
    BY <2>3, <2>8 DEF Release
  <2>9. CASE WakeByToken(w)
    BY <2>3, <2>9 DEF WakeByToken
  <2>10. CASE WakeByTimer(w)
    BY <2>3, <2>10 DEF WakeByTimer
  <2>11. CASE Leave(w)
    BY <2>3, <2>11 DEF Leave
  <2>12. QED
    BY <1>10, <2>1, <2>2, <2>4, <2>5, <2>6, <2>7, <2>8, <2>9, <2>10, <2>11 DEF WorkerStep
<1>11. QED
  BY <1>2, <1>3, <1>4, <1>5, <1>6, <1>7, <1>8, <1>9, <1>10 DEF Next, BootStep, Exit, Crash

\* The audit record and the notification of a row are only produced once its
\* terminal status is written, and the row never leaves that status afterwards.
THEOREM HooksFollowStatusHolds == Spec => []HooksFollowStatus
<1>1. Spec => []HookInv
  BY HookInit, HookStep, TypeInvariant, SerialInvariant, StatusInvariant, PTL DEF Spec
<1>2. HookInv => HooksFollowStatus
  BY DEF HookInv
<1>3. QED
  BY <1>1, <1>2, PTL
-----------------------------------------------------------------------------
(* The restart rows                                                         *)

\* Rows found running by the last end of the process are old ones, untouched
\* until the boot confirms them, and in nobody's hand: neither a delayed launch
\* nor, unless a statement failed, the reconciliation will write them.
InterruptedOld  == \A t \in interrupted : t <= count /\ t \notin launching
InterruptedKept == proc \in {"down", "boot"} =>
                     launching = {} /\ \A t \in interrupted : status[t] = "running"
TodoUnconfirmed == \A t \in todo \cap interrupted : kind[t] = PanelRestart => t \in faulted

RestartInv == InterruptedOld /\ InterruptedKept /\ TodoUnconfirmed /\ RestartConfirmed

LEMMA RestartInit == Init => RestartInv
  BY DEF Init, RestartInv, InterruptedOld, InterruptedKept, TodoUnconfirmed, RestartConfirmed

LEMMA RestartStep ==
  TypeInv /\ SerialInv /\ StatusInv /\ RestartInv /\ [Next]_vars => RestartInv'
<1> SUFFICES ASSUME TypeInv, SerialInv, StatusInv, RestartInv, [Next]_vars
             PROVE  RestartInv'
  OBVIOUS
<1> USE RunnerAssumption
    DEF TypeInv, TypeOK, RowInHand, SerialInv, RowsInserted, RestartInv, InterruptedOld,
        InterruptedKept, TodoUnconfirmed, RestartConfirmed, Serving,
        rowVars, workVars, callVars, bootVars, lifeVars, faultVars, DbOk, DbFails
<1>1. ASSUME NEW k \in Kinds, NEW n \in LockKeys, Enqueue(k, n)
      PROVE  RestartInv'
  BY <1>1 DEF Enqueue, Insert, TaskIds
<1>2. CASE RestartCreate
  BY <1>2 DEF RestartCreate, Insert, TaskIds
<1>3. CASE Notify \/ Stop \/ Boot \/ ReconcileReport \/ StartWorkers \/ UNCHANGED vars
  BY <1>3 DEF Notify, Stop, Boot, ReconcileReport, StartWorkers, vars
<1>4. ASSUME NEW t \in TaskIds, RestartLaunch(t)
      PROVE  RestartInv'
  BY <1>4 DEF RestartLaunch
<1>5. CASE GoDown
  BY <1>5 DEF GoDown, Running, TaskIds
<1>6. CASE FinalizeBoot
  <2>1. /\ proc' = "listing" /\ proc = "boot"
        /\ UNCHANGED <<kind, count, todo, launching, interrupted>>
    BY <1>6 DEF FinalizeBoot
  <2>2. todo = {}
    BY <2>1 DEF StatusInv, WorkersStarted
  <2>3. \A t \in interrupted \ faulted' : kind[t] = PanelRestart => status'[t] = "success"
    BY <1>6 DEF FinalizeBoot, Running
  <2>4. QED
    BY <2>1, <2>2, <2>3
<1>7. CASE ReconcileList
  BY <1>7 DEF ReconcileList, Running
<1>8. ASSUME NEW t \in TaskIds, NEW st \in Terminal, ReconcileRequeue(t) \/ ReconcileFinish(t, st)
      PROVE  RestartInv'
  <2>1. t \in todo /\ todo' \subseteq todo /\ proc = "reconciling"
    BY <1>8 DEF ReconcileRequeue, ReconcileFinish, ReconcileNext, IsOldest
  <2>2. UNCHANGED <<kind, count, launching, proc, interrupted>> /\ faulted \subseteq faulted'
    BY <1>8 DEF ReconcileRequeue, ReconcileFinish
  <2>3. \A u \in TaskIds : u # t => status'[u] = status[u]
    BY <1>8 DEF ReconcileRequeue, ReconcileFinish
  <2>4. QED
    BY <2>1, <2>2, <2>3
<1>9. ASSUME NEW w \in Workers, WorkerStep(w)
      PROVE  RestartInv'
  <2>1. UNCHANGED <<kind, count, launching, todo, proc, interrupted>> /\ faulted \subseteq faulted'
    BY <1>9 DEF WorkerStep, ClaimSelect, ClaimUpdate, ClaimFails, Begin, HandlerReturns, Finish,
                FireFinish, Release, WakeByToken, WakeByTimer, Leave
  <2>2. proc = "working"
    BY <1>9 DEF WorkerStep, ClaimSelect, ClaimUpdate, ClaimFails, Begin, HandlerReturns, Finish,
                FireFinish, Release, WakeByToken, WakeByTimer, Leave, StatusInv, WorkersStarted
  <2>3. \A t \in TaskIds : kind[t] = PanelRestart => status'[t] = status[t]
    <3>1. CASE ClaimUpdate(w) \/ ClaimFails(w)
      BY <3>1 DEF ClaimUpdate, ClaimFails, MarkRunning, StatusInv, HandKinds, HasRow
    <3>2. CASE Finish(w)
      BY <3>2 DEF Finish, StatusInv, HandKinds, HasRow, Locked
    <3>3. CASE UNCHANGED status
      BY <3>3
    <3>4. QED
      BY <1>9, <3>1, <3>2, <3>3
      DEF WorkerStep, ClaimSelect, Begin, HandlerReturns, FireFinish, Release, WakeByToken,
          WakeByTimer, Leave
  <2>4. QED
    BY <2>1, <2>2, <2>3
<1>10. QED
  BY <1>1, <1>2, <1>3, <1>4, <1>5, <1>6, <1>7, <1>8, <1>9 DEF Terminal, Next, BootStep, Exit, Crash

\* A restart that took the process down is reported as a success by the next
\* one: the boot confirms it before reconciliation, which would fail it.
THEOREM RestartConfirmedHolds == Spec => []RestartConfirmed
<1>1. Spec => []RestartInv
  BY RestartInit, RestartStep, TypeInvariant, SerialInvariant, StatusInvariant, PTL DEF Spec
<1>2. RestartInv => RestartConfirmed
  BY DEF RestartInv
<1>3. QED
  BY <1>1, <1>2, PTL
-----------------------------------------------------------------------------
(* The wake-up of the workers                                               *)

\* A queued row has a token or a notification on its way, or a worker that will
\* look at the table before it waits.
Awake == (faults = 0 /\ proc = "working" /\ ~cancelled /\ Queued # {})
           => wakeup \/ toNotify > 0 \/ \E w \in Workers : pc[w] \notin {"wait", "off"}

LEMMA AwakeInit == Init => Awake
  BY DEF Init, Awake

LEMMA AwakeStep == TypeInv /\ StatusInv /\ Awake /\ [Next]_vars => Awake'
<1> SUFFICES ASSUME TypeInv, StatusInv, Awake, [Next]_vars,
                    faults' = 0, proc' = "working", ~cancelled', Queued' # {}
             PROVE  wakeup' \/ toNotify' > 0 \/ \E w \in Workers : pc'[w] \notin {"wait", "off"}
  BY DEF Awake
<1> DEFINE Called == wakeup \/ toNotify > 0 \/ \E w \in Workers : pc[w] \notin {"wait", "off"}
<1>0. faults = 0 /\ proc = "working" /\ ~cancelled /\ Queued # {} => Called
  BY DEF Awake
<1> USE RunnerAssumption DEF TypeInv, TypeOK, StatusInv, WorkersStarted, Goto, DbOk, DbFails,
        rowVars, workVars, callVars, bootVars, lifeVars, faultVars
<1>1. ASSUME NEW k \in Kinds, NEW n \in LockKeys, Enqueue(k, n)
      PROVE  Called'
  BY <1>1 DEF Enqueue
<1>2. CASE Notify
  BY <1>2 DEF Notify
<1>3. CASE RestartCreate
  BY <1>0, <1>3 DEF RestartCreate, Insert, Queued
<1>4. ASSUME NEW t \in TaskIds, RestartLaunch(t)
      PROVE  Called'
  BY <1>0, <1>4 DEF RestartLaunch, Queued
<1>5. CASE Stop \/ GoDown \/ Boot \/ FinalizeBoot \/ ReconcileList
  BY <1>5 DEF Stop, GoDown, Boot, FinalizeBoot, ReconcileList
<1>6. ASSUME NEW t \in TaskIds, NEW st \in Terminal, ReconcileRequeue(t) \/ ReconcileFinish(t, st)
      PROVE  Called'
  BY <1>6 DEF ReconcileRequeue, ReconcileFinish, ReconcileNext
<1>7. CASE ReconcileReport \/ UNCHANGED vars
  BY <1>0, <1>7 DEF ReconcileReport, vars, Queued
<1>8. CASE StartWorkers
  BY <1>8 DEF StartWorkers
<1>9. ASSUME NEW w \in Workers, WorkerStep(w)
      PROVE  Called'
  <2>1. CASE ClaimSelect(w)
    BY <1>0, <2>1 DEF ClaimSelect, Queued
  <2>2. CASE ClaimFails(w)
    BY <2>2 DEF ClaimFails
  <2>3. CASE \/ ClaimUpdate(w) \/ Begin(w) \/ Finish(w) \/ FireFinish(w) \/ Release(w)
             \/ WakeByToken(w) \/ WakeByTimer(w) \/ \E st \in Terminal : HandlerReturns(w, st)
    <3>1. pc'[w] \notin {"wait", "off"}
      BY <2>3 DEF ClaimUpdate, Begin, Finish, FireFinish, Release, WakeByToken, WakeByTimer, HandlerReturns
    <3>2. QED
      BY <3>1
  <2>4. CASE Leave(w)
    BY <2>4 DEF Leave
  <2>5. QED
    BY <1>9, <2>1, <2>2, <2>3, <2>4 DEF WorkerStep
<1>10. QED
  BY <1>1, <1>2, <1>3, <1>4, <1>5, <1>6, <1>7, <1>8, <1>9 DEF Next, BootStep, Exit, Crash

\* The wake-up of a queued row is never lost: with every worker waiting its token
\* is in the channel, or its handler about to put it there.
THEOREM NoLostWakeupHolds == Spec => []NoLostWakeup
<1>1. Awake => NoLostWakeup
  BY DEF Awake, NoLostWakeup
<1>2. QED
  BY <1>1, AwakeInit, AwakeStep, TypeInvariant, StatusInvariant, PTL DEF Spec
-----------------------------------------------------------------------------
(* What the runner promises of its table                                    *)

\* The facts a step needs to be one of TaskQueue: every inserted row has a
\* status; a locked mutex is held by a worker between lock and unlock, with a
\* row of that node; a claim still to be confirmed names the oldest queued row;
\* a row in hand has been taken, and settled before its hooks run; a restart row
\* still to be launched or reconciled is open, or failed by the other of the two.
Begun         == {"running"} \cup Terminal
InsertedRows  == \A t \in TaskIds : t <= count => status[t] # "absent"
HolderWorks   == \A k \in LockKeys : holder[k] # Free =>
                   pc[holder[k]] \in Locked /\ key[cur[holder[k]]] = k
OldestFirst   == \A w \in Workers : (pc[w] = "update" /\ status[cur[w]] = "queued") =>
                   \A u \in Queued : cur[w] <= u
TakenInHand   == \A w \in Workers : pc[w] \in {"lock"} \cup Locked => status[cur[w]] \in Begun
SettledInHand == faults = 0 =>
                   \A w \in Workers : pc[w] \in {"hook", "release"} => status[cur[w]] \in Terminal
RestartOpen   == /\ \A t \in launching \cup todo :
                      kind[t] = PanelRestart => status[t] \in {"running", "failure"}
                 /\ proc \in {"down", "boot"} => launching = {}

QueueInv == InsertedRows /\ HolderWorks /\ OldestFirst /\ TakenInHand /\ SettledInHand /\ RestartOpen

LEMMA QueueInit == Init => QueueInv
  BY RunnerAssumption
  DEF Init, QueueInv, InsertedRows, HolderWorks, OldestFirst, TakenInHand, SettledInHand,
      RestartOpen, Locked, TaskIds

LEMMA QueueStep ==
  TypeInv /\ SerialInv /\ StatusInv /\ QueueInv /\ [Next]_vars => QueueInv'
<1> SUFFICES ASSUME TypeInv, SerialInv, StatusInv, QueueInv, [Next]_vars
             PROVE  QueueInv'
  OBVIOUS
<1>0. StaysTerminal
  BY TerminalStep
<1> USE RunnerAssumption
    DEF TypeInv, TypeOK, RowInHand, HasRow, Locked, Goto, Terminal, Begun, Serving,
        SerialInv, RowsInserted, HandInserted, LocksHeld, StatusInv, WorkersStarted,
        QueueInv, InsertedRows, HolderWorks, OldestFirst, TakenInHand, SettledInHand, RestartOpen,
        rowVars, workVars, callVars, bootVars, lifeVars, faultVars, DbOk, DbFails
<1>1. ASSUME NEW k \in Kinds \cup {PanelRestart}, NEW n \in LockKeys,
             NEW st \in {"queued", "running"}, Insert(k, n, st), UNCHANGED <<workVars, todo, proc, faults>>,
             \/ launching' = launching
             \/ st = "running" /\ launching' = launching \cup {count + 1}
      PROVE  QueueInv'
  <2>1. /\ count' = count + 1 /\ proc \notin {"down", "boot"}
        /\ count + 1 \in TaskIds /\ status'[count + 1] = st /\ key'[count + 1] = n
        /\ \A t \in TaskIds : t # count + 1 =>
             status'[t] = status[t] /\ key'[t] = key[t] /\ kind'[t] = kind[t]
        /\ UNCHANGED <<todo, proc>>
    BY <1>1 DEF Insert, TaskIds, Statuses
  <2>2. \A w \in Workers : pc[w] \in HasRow => cur[w] \in TaskIds /\ cur[w] # count + 1
    BY DEF TaskIds
  <2>3. InsertedRows'
    <3>1. \A t \in TaskIds : t <= count + 1 => t <= count \/ t = count + 1
      BY DEF TaskIds
    <3>2. QED
      BY <2>1, <3>1
  <2>4. RestartOpen'
    <3>1. \A t \in launching \cup todo : t # count + 1
      BY DEF TaskIds
    <3>2. launching' \subseteq launching \cup {count + 1}
      BY <1>1
    <3>3. count + 1 \in launching' => st = "running"
      BY <1>1, <3>1
    <3>4. QED
      BY <2>1, <3>1, <3>2, <3>3
  <2>5. HolderWorks' /\ TakenInHand' /\ SettledInHand'
    BY <1>1, <2>1, <2>2
  <2>6. OldestFirst'
    BY <1>1, <2>1, <2>2 DEF Queued, TaskIds
  <2>7. QED
    BY <2>3, <2>4, <2>5, <2>6
<1>2. ASSUME NEW k \in Kinds, NEW n \in LockKeys, Enqueue(k, n)
      PROVE  QueueInv'
  <2>1. Insert(k, n, "queued") /\ UNCHANGED <<workVars, todo, proc, faults, launching>>
    BY <1>2 DEF Enqueue
  <2>2. QED
    BY <1>1, <2>1
<1>3. CASE RestartCreate
  <2>1. /\ Insert(PanelRestart, NoNode, "running") /\ UNCHANGED <<workVars, todo, proc, faults>>
        /\ launching' = launching \cup {count + 1}
    BY <1>3 DEF RestartCreate
  <2>2. QED
    BY <1>1, <2>1
<1>4. CASE Notify \/ Stop \/ Boot \/ ReconcileReport \/ UNCHANGED vars
  BY <1>4 DEF Notify, Stop, Boot, ReconcileReport, vars, Queued
<1>12. CASE ReconcileList
  <2>1. /\ UNCHANGED <<status, count, kind, key, holder, pc, cur, launching>>
        /\ todo' \subseteq Running
        /\ proc' = "reconciling"
        /\ faults' = 0 => faults = 0
    BY <1>12 DEF ReconcileList
  <2>2. QED
    BY <2>1 DEF Running, Queued
<1>5. ASSUME NEW t \in TaskIds, RestartLaunch(t)
      PROVE  QueueInv'
  <2>1. /\ UNCHANGED <<count, kind, key, holder, pc, cur, proc, todo>>
        /\ launching' = launching \ {t} /\ t \in launching /\ (faults' = 0 => faults = 0)
        /\ status' = status \/ status' = [status EXCEPT ![t] = "failure"]
    BY <1>5 DEF RestartLaunch
  <2>2. QED
    BY <2>1 DEF Queued
<1>6. CASE GoDown
  BY <1>6 DEF GoDown
<1>7. CASE FinalizeBoot
  <2>1. /\ UNCHANGED <<count, key, holder, pc, cur, launching, todo>>
        /\ launching = {} /\ todo = {}
        /\ \A w \in Workers : pc[w] = "off"
    BY <1>7 DEF FinalizeBoot
  <2>2. \A t \in TaskIds : status'[t] \in {status[t], "success"}
    BY <1>7 DEF FinalizeBoot
  <2>3. QED
    BY <2>1, <2>2
<1>8. ASSUME NEW t \in TaskIds, NEW st \in Terminal, ReconcileRequeue(t) \/ ReconcileFinish(t, st)
      PROVE  QueueInv'
  <2>1. /\ UNCHANGED <<count, key, kind, holder, pc, cur, launching, proc>>
        /\ todo' \subseteq todo
        /\ \A w \in Workers : pc[w] = "off"
    BY <1>8 DEF ReconcileRequeue, ReconcileFinish, ReconcileNext
  <2>2. \A u \in TaskIds : status'[u] \in {status[u], "queued"} \cup Terminal
    BY <1>8 DEF ReconcileRequeue, ReconcileFinish, ReconcileNext
  <2>3. \A u \in launching \cup todo :
          kind[u] = PanelRestart => status'[u] \in {"running", "failure"}
    BY <1>8 DEF ReconcileRequeue, ReconcileFinish, ReconcileNext
  <2>4. QED
    BY <2>1, <2>2, <2>3
<1>9. CASE StartWorkers
  BY <1>9 DEF StartWorkers, Queued
<1>10. ASSUME NEW w \in Workers, WorkerStep(w)
       PROVE  QueueInv'
  <2>0. /\ UNCHANGED <<count, key, launching, proc>>
        /\ \A v \in Workers \ {w} : pc'[v] = pc[v] /\ cur'[v] = cur[v]
        /\ faults' = 0 => faults = 0
        /\ \A t \in TaskIds : status[t] \in Begun => status'[t] \in Begun
    BY <1>0, <1>10 DEF WorkerStep, ClaimSelect, ClaimUpdate, ClaimFails, MarkRunning, Begin,
       HandlerReturns, Finish, FireFinish, Release, WakeByToken, WakeByTimer, Leave, StaysTerminal
  <2>1. InsertedRows' /\ RestartOpen'
    BY <1>10, <2>0 DEF WorkerStep, ClaimSelect, ClaimUpdate, ClaimFails, MarkRunning, Begin,
       HandlerReturns, Finish, FireFinish, Release, WakeByToken, WakeByTimer, Leave, LaunchKinds, HandKinds
  <2>2. CASE ClaimSelect(w)
    <3>1. /\ UNCHANGED <<status, holder, faults>> \/ UNCHANGED <<status, holder>>
          /\ pc[w] = "claim"
          /\ \/ pc'[w] = "wait"
             \/ pc'[w] = "update" /\ \A u \in Queued : cur'[w] <= u
      BY <2>2 DEF ClaimSelect, IsOldest
    <3>2. QED
      BY <2>0, <2>1, <3>1 DEF Queued
  <2>3. CASE ClaimUpdate(w)
    <3>1. UNCHANGED <<cur, holder>> /\ pc[w] = "update" /\ pc' = [pc EXCEPT ![w] = "lock"]
      BY <2>3 DEF ClaimUpdate
    <3>2. status'[cur[w]] \in Begun /\ Queued' \subseteq Queued
      BY <2>3 DEF ClaimUpdate, MarkRunning, Queued, Statuses
    <3>3. HolderWorks' /\ TakenInHand' /\ SettledInHand'
      BY <1>0, <2>0, <3>1, <3>2 DEF StaysTerminal
    <3>4. OldestFirst'
      BY <2>0, <3>1, <3>2 DEF Queued
    <3>5. QED
      BY <2>1, <3>3, <3>4
  <2>4. CASE ClaimFails(w)
    <3>1. UNCHANGED holder /\ pc[w] = "update" /\ pc'[w] = "wait" /\ faults' # 0
      BY <2>4 DEF ClaimFails
    <3>2. Queued' \subseteq Queued
      BY <2>4 DEF ClaimFails, MarkRunning, Queued
    <3>3. HolderWorks' /\ TakenInHand' /\ SettledInHand'
      BY <2>0, <3>1
    <3>4. OldestFirst'
      BY <2>0, <3>1, <3>2 DEF Queued
    <3>5. QED
      BY <2>1, <3>3, <3>4
  <2>5. CASE Begin(w)
    BY <2>0, <2>1, <2>5 DEF Begin, Queued
  <2>6. ASSUME NEW st \in Terminal, HandlerReturns(w, st)
        PROVE  QueueInv'
    BY <2>0, <2>1, <2>6 DEF HandlerReturns, Queued
  <2>7. CASE Finish(w)
    <3>1. UNCHANGED <<cur, holder>> /\ pc[w] = "finish" /\ pc' = [pc EXCEPT ![w] = "hook"]
      BY <2>7 DEF Finish
    <3>2. /\ Queued' \subseteq Queued
          /\ faults' = 0 => status'[cur[w]] \in Terminal
      BY <2>7 DEF Finish, Queued
    <3>3. HolderWorks' /\ TakenInHand' /\ SettledInHand'
      BY <1>0, <2>0, <3>1, <3>2 DEF StaysTerminal
    <3>4. OldestFirst'
      BY <2>0, <3>1, <3>2 DEF Queued
    <3>5. QED
      BY <2>1, <3>3, <3>4
  <2>8. CASE FireFinish(w)
    BY <2>0, <2>1, <2>8 DEF FireFinish, Queued
  <2>9. CASE Release(w)
    <3>1. /\ UNCHANGED status /\ pc[w] = "release" /\ pc'[w] = "claim"
          /\ holder' = [holder EXCEPT ![key[cur[w]]] = Free]
      BY <2>9 DEF Release
    <3>2. HolderWorks'
      BY <2>0, <3>1
    <3>3. QED
      BY <2>0, <2>1, <3>1, <3>2 DEF Queued
  <2>10. CASE WakeByToken(w) \/ WakeByTimer(w) \/ Leave(w)
    BY <2>0, <2>1, <2>10 DEF WakeByToken, WakeByTimer, Leave, Queued
  <2>11. QED
    BY <1>10, <2>2, <2>3, <2>4, <2>5, <2>6, <2>7, <2>8, <2>9, <2>10 DEF WorkerStep
<1>11. QED
  BY <1>2, <1>3, <1>4, <1>5, <1>6, <1>7, <1>8, <1>9, <1>10, <1>12
  DEF Next, BootStep, Exit, Crash

LEMMA QueueInvariant == Spec => []QueueInv
  BY QueueInit, QueueStep, TypeInvariant, SerialInvariant, StatusInvariant, PTL DEF Spec

\* The row each node works on: what TaskQueue's busy stands for.
Busy == [k \in LockKeys |-> IF holder[k] = Free THEN 0 ELSE cur[holder[k]]]

\* A worker that holds no mutex may change its row, and a holder its control
\* state, without any node noticing.
LEMMA BusyKept ==
  ASSUME QueueInv, TypeInv, NEW w \in Workers, UNCHANGED holder,
         \A v \in Workers \ {w} : cur'[v] = cur[v],
         cur'[w] = cur[w] \/ pc[w] \notin Locked
  PROVE  UNCHANGED Busy
<1>1. ASSUME NEW k \in LockKeys, holder[k] # Free
      PROVE  holder[k] \in Workers /\ cur'[holder[k]] = cur[holder[k]]
  BY <1>1, RunnerAssumption DEF QueueInv, HolderWorks, TypeInv, TypeOK
<1>2. QED
  BY <1>1 DEF Busy

\* Every step that fails no statement is a step of the queue, or not seen by it.
LEMMA QueueRefined ==
  TypeInv /\ SerialInv /\ StatusInv /\ QueueInv /\ [Next]_vars /\ faults' = 0
    => [Queue!Next]_(Queue!vars)
<1> SUFFICES ASSUME TypeInv, SerialInv, StatusInv, QueueInv, [Next]_vars, faults' = 0
             PROVE  Queue!Next \/ UNCHANGED <<status, kind, key, Busy>>
  BY DEF Queue!vars, Busy
<1>0. /\ status \in [TaskIds -> Statuses] /\ kind \in [TaskIds -> Kinds \cup {PanelRestart}]
      /\ key \in [TaskIds -> LockKeys] /\ holder \in [LockKeys -> Workers \cup {Free}]
      /\ cur \in [Workers -> {0} \cup TaskIds] /\ count \in 0..MaxTasks /\ faults \in Nat
  BY RunnerAssumption DEF TypeInv, TypeOK
<1>1. ASSUME NEW k \in Kinds \cup {PanelRestart}, NEW n \in LockKeys,
             Insert(k, n, IF k = PanelRestart THEN "running" ELSE "queued"), UNCHANGED workVars
      PROVE  Queue!Next
  <2>1. count + 1 \in TaskIds
    BY <1>0, <1>1, RunnerAssumption DEF Insert, TaskIds
  <2>2. Queue!Submit(count + 1)
    <3>1. status[count + 1] = "absent" /\ \A u \in TaskIds : u < count + 1 => status[u] # "absent"
      BY <1>0, <2>1 DEF SerialInv, RowsInserted, QueueInv, InsertedRows, TaskIds
    <3>2. UNCHANGED Busy
      BY <1>1 DEF Busy, workVars
    <3>3. QED
      BY <1>1, <3>1, <3>2 DEF Queue!Submit, Insert, Busy
  <2>3. QED
    BY <2>1, <2>2 DEF Queue!Next
<1>2. ASSUME NEW k \in Kinds, NEW n \in LockKeys, Enqueue(k, n)
      PROVE  Queue!Next
  BY <1>1, <1>2, RunnerAssumption DEF Enqueue
<1>3. CASE RestartCreate
  BY <1>1, <1>3, RunnerAssumption DEF RestartCreate
<1>4. CASE Notify \/ Stop \/ Boot \/ ReconcileList \/ ReconcileReport \/ StartWorkers \/ UNCHANGED vars
  BY <1>4 DEF Notify, Stop, Boot, ReconcileList, ReconcileReport, StartWorkers, vars,
              rowVars, workVars, Busy
<1>5. ASSUME NEW S \in SUBSET TaskIds, NEW st \in Terminal,
             \A u \in S : status[u] = "running" /\ kind[u] = PanelRestart,
             status' = [u \in TaskIds |-> IF u \in S THEN st ELSE status[u]],
             UNCHANGED <<kind, key, Busy>>
      PROVE  Queue!Next
  <2>1. Queue!Close(S, st)
    BY <1>5 DEF Queue!Close, Busy
  <2>2. QED
    BY <2>1 DEF Queue!Next, Queue!Terminal, Terminal
<1>6. ASSUME NEW t \in TaskIds, RestartLaunch(t)
      PROVE  Queue!Next \/ UNCHANGED <<status, kind, key, Busy>>
  <2>1. UNCHANGED <<kind, key, Busy>>
    BY <1>6 DEF RestartLaunch, rowVars, workVars, Busy
  <2>2. status[t] \in {"running", "failure"} /\ kind[t] = PanelRestart
    BY <1>6 DEF RestartLaunch, QueueInv, RestartOpen, StatusInv, LaunchKinds
  <2>3. CASE UNCHANGED status
    BY <2>1, <2>3
  <2>4. CASE status' = [status EXCEPT ![t] = "failure"]
    <3>1. CASE status[t] = "running"
      <4>1. {t} \in SUBSET TaskIds /\ \A u \in {t} : status[u] = "running" /\ kind[u] = PanelRestart
        BY <2>2, <3>1
      <4>2. status' = [u \in TaskIds |-> IF u \in {t} THEN "failure" ELSE status[u]]
        BY <1>0, <2>4
      <4>3. QED
        BY <1>5, <2>1, <4>1, <4>2 DEF Terminal
    <3>2. CASE status[t] = "failure"
      BY <1>0, <2>1, <2>4, <3>2
    <3>3. QED
      BY <2>2, <3>1, <3>2
  <2>5. QED
    BY <1>6, <2>3, <2>4 DEF RestartLaunch
<1>7. CASE GoDown
  <2>1. UNCHANGED <<status, kind, key>> /\ Busy' = [k \in LockKeys |-> 0]
    BY <1>7 DEF GoDown, rowVars, Busy
  <2>2. Queue!LoseWork
    BY <2>1 DEF Queue!LoseWork, Busy
  <2>3. QED
    BY <2>2 DEF Queue!Next
<1>8. CASE FinalizeBoot
  <2>1. UNCHANGED <<kind, key, Busy>>
    BY <1>8 DEF FinalizeBoot, rowVars, workVars, Busy
  <2>2. \E S \in SUBSET TaskIds :
          /\ \A u \in S : status[u] = "running" /\ kind[u] = PanelRestart
          /\ status' = [u \in TaskIds |-> IF u \in S THEN "success" ELSE status[u]]
    BY <1>0, <1>8 DEF FinalizeBoot, Running, DbFails
  <2>3. QED
    BY <1>5, <2>1, <2>2 DEF Terminal
\* A row the reconciliation decides is one of the queue's, lost with the process, or
\* a restart row whose confirmation came too late; no node is at work by then.
<1>9. ASSUME NEW t \in TaskIds, NEW st \in Terminal, ReconcileRequeue(t) \/ ReconcileFinish(t, st)
      PROVE  Queue!Next \/ UNCHANGED <<status, kind, key, Busy>>
  <2>1. UNCHANGED <<kind, key, Busy>>
    BY <1>9 DEF ReconcileRequeue, ReconcileFinish, rowVars, workVars, Busy
  <2>2. Queue!Idle
    <3>1. \A w \in Workers : pc[w] = "off"
      BY <1>9 DEF ReconcileRequeue, ReconcileFinish, ReconcileNext, StatusInv, WorkersStarted
    <3>2. \A k \in LockKeys : holder[k] = Free
      BY <1>0, <3>1 DEF QueueInv, HolderWorks, Locked
    <3>3. QED
      BY <3>2 DEF Queue!Idle
  <2>3. status[t] = "running" \/ kind[t] = PanelRestart
    BY <1>9 DEF ReconcileRequeue, ReconcileFinish, ReconcileNext, IsOldest, StatusInv, TodoRunning
  <2>4. PICK new \in Terminal \cup {"queued"} :
          /\ status' \in {status, [status EXCEPT ![t] = new]}
          /\ kind[t] = PanelRestart => new = "failure"
    <3>1. CASE ReconcileRequeue(t)
      BY <3>1, RunnerAssumption DEF ReconcileRequeue, ReconcileNext
    <3>2. CASE ReconcileFinish(t, st)
      BY <3>2, RunnerAssumption DEF ReconcileFinish, ReconcileNext, Terminal
    <3>3. QED
      BY <1>9, <3>1, <3>2
  <2>5. CASE kind[t] # PanelRestart /\ status' = [status EXCEPT ![t] = new]
    <3>1. Queue!Recover(t, new)
      BY <2>1, <2>2, <2>3, <2>4, <2>5 DEF Queue!Recover, Queue!Terminal, Terminal, Busy
    <3>2. QED
      BY <3>1 DEF Queue!Next, Queue!Terminal, Terminal
  <2>6. CASE kind[t] = PanelRestart /\ status' = [status EXCEPT ![t] = "failure"]
    <3>1. status[t] \in {"running", "failure"}
      BY <1>9, <2>6 DEF ReconcileRequeue, ReconcileFinish, ReconcileNext, IsOldest, QueueInv, RestartOpen
    <3>2. CASE status[t] = "running"
      <4>1. {t} \in SUBSET TaskIds /\ \A u \in {t} : status[u] = "running" /\ kind[u] = PanelRestart
        BY <2>6, <3>2
      <4>2. status' = [u \in TaskIds |-> IF u \in {t} THEN "failure" ELSE status[u]]
        BY <1>0, <2>6
      <4>3. QED
        BY <1>5, <2>1, <4>1, <4>2 DEF Terminal
    <3>3. CASE status[t] = "failure"
      BY <1>0, <2>1, <2>6, <3>3
    <3>4. QED
      BY <3>1, <3>2, <3>3
  <2>7. QED
    BY <2>1, <2>4, <2>5, <2>6
<1>10. ASSUME NEW w \in Workers, WorkerStep(w)
       PROVE  Queue!Next \/ UNCHANGED <<status, kind, key, Busy>>
  <2>0. /\ UNCHANGED <<kind, key>> /\ \A v \in Workers \ {w} : cur'[v] = cur[v]
        /\ pc[w] \in HasRow => cur[w] \in TaskIds
    BY <1>10 DEF WorkerStep, ClaimSelect, ClaimUpdate, ClaimFails, Begin, HandlerReturns, Finish,
       FireFinish, Release, WakeByToken, WakeByTimer, Leave, rowVars, TypeInv, TypeOK, RowInHand
  <2>1. CASE \/ ClaimSelect(w) \/ FireFinish(w) \/ WakeByToken(w) \/ WakeByTimer(w) \/ Leave(w)
             \/ \E st \in Terminal : HandlerReturns(w, st)
    <3>1. UNCHANGED <<status, holder>> /\ (cur'[w] = cur[w] \/ pc[w] \notin Locked)
      BY <2>1 DEF ClaimSelect, FireFinish, WakeByToken, WakeByTimer, Leave, HandlerReturns, Locked
    <3>2. QED
      BY <2>0, <3>1, BusyKept
  <2>2. CASE ClaimUpdate(w)
    <3>1. PICK t \in TaskIds : t = cur[w]
      BY <2>0, <2>2 DEF ClaimUpdate, HasRow
    <3>2. UNCHANGED Busy
      BY <2>0, <2>2, BusyKept DEF ClaimUpdate
    <3>3. CASE status[t] = "queued"
      <4>1. Queue!Take(t)
        BY <2>0, <2>2, <3>1, <3>2, <3>3 DEF ClaimUpdate, MarkRunning, Queue!Take, Queue!Waiting,
           QueueInv, OldestFirst, Queued, Busy
      <4>2. QED
        BY <4>1 DEF Queue!Next
    <3>4. CASE status[t] # "queued"
      BY <2>0, <2>2, <3>1, <3>2, <3>4 DEF ClaimUpdate, MarkRunning
    <3>5. QED
      BY <3>3, <3>4
  <2>3. CASE ClaimFails(w)
    BY <1>0, <2>3 DEF ClaimFails, DbFails
  <2>4. CASE Begin(w)
    <3>1. PICK t \in TaskIds : t = cur[w]
      BY <2>0, <2>4 DEF Begin, HasRow
    <3>2. status[t] \in {"running"} \cup Terminal /\ kind[t] # PanelRestart
      BY <2>4, <3>1, RunnerAssumption
      DEF Begin, HasRow, QueueInv, TakenInHand, Begun, StatusInv, HandKinds
    <3>3. Busy[key[t]] = 0 /\ Busy' = [Busy EXCEPT ![key[t]] = t]
      BY <1>0, <2>4, <3>1, RunnerAssumption DEF Begin, Busy
    <3>4. Queue!Work(t)
      BY <2>0, <2>4, <3>2, <3>3 DEF Begin, Queue!Work, Queue!Terminal, Terminal, Busy
    <3>5. QED
      BY <3>4 DEF Queue!Next
  <2>5. CASE Finish(w)
    <3>1. PICK t \in TaskIds, st \in Terminal : t = cur[w] /\ st = outcome[w]
      BY <2>0, <2>5 DEF Finish, HasRow, Locked, TypeInv, TypeOK
    <3>2. Busy[key[t]] = t /\ UNCHANGED Busy
      BY <1>0, <2>0, <2>5, <3>1, BusyKept, RunnerAssumption
      DEF Finish, Busy, SerialInv, LocksHeld, Locked
    <3>3. status' = [status EXCEPT ![t] = st]
      BY <1>0, <2>5, <3>1 DEF Finish, DbFails
    <3>4. Queue!Settle(t, st)
      BY <2>0, <3>2, <3>3 DEF Queue!Settle, Busy
    <3>5. QED
      BY <3>4 DEF Queue!Next, Queue!Terminal, Terminal
  <2>6. CASE Release(w)
    <3>1. PICK t \in TaskIds, k \in LockKeys : t = cur[w] /\ k = key[t]
      BY <1>0, <2>0, <2>6 DEF Release, HasRow, Locked
    <3>2. holder[k] = w /\ \A l \in LockKeys : l # k => holder[l] # w
      BY <1>0, <2>6, <3>1, RunnerAssumption
      DEF Release, SerialInv, LocksHeld, Locked, QueueInv, HolderWorks
    <3>3. t # 0 /\ Busy[k] = t /\ Busy' = [Busy EXCEPT ![k] = 0]
      <4>1. holder' = [holder EXCEPT ![k] = Free] /\ t # 0
        BY <2>6, <3>1 DEF Release, TaskIds
      <4>2. \A l \in LockKeys : l # k /\ holder[l] # Free => cur'[holder[l]] = cur[holder[l]]
        BY <1>0, <2>0, <3>2
      <4>3. \A l \in LockKeys : Busy'[l] = IF l = k THEN 0 ELSE Busy[l]
        BY <1>0, <4>1, <4>2 DEF Busy
      <4>4. QED
        BY <3>1, <3>2, <4>1, <4>3, RunnerAssumption DEF Busy
    <3>4. status[t] \in Terminal
      BY <2>6, <3>1 DEF Release, QueueInv, SettledInHand, faultVars
    <3>5. Queue!Rest(k)
      BY <2>0, <2>6, <3>3, <3>4 DEF Release, Queue!Rest, Queue!Terminal, Terminal, Busy
    <3>6. QED
      BY <3>5 DEF Queue!Next
  <2>7. QED
    BY <1>10, <2>1, <2>2, <2>3, <2>4, <2>5, <2>6 DEF WorkerStep
<1>11. QED
  BY <1>2, <1>3, <1>4, <1>6, <1>7, <1>8, <1>9, <1>10 DEF Next, BootStep, Exit, Crash, Terminal
\* A panel whose database statements succeed keeps the promises of TaskQueue: rows
\* are taken in the order of their ids, a node works on one row at a time and rests
\* on settled ones only, and beside the workers only a panel that went down, or the
\* launch of a restart, decides a row.
THEOREM RunnerRefinesQueue == Spec /\ [](faults = 0) => RunnerImplementsQueue
<1>1. Init => Queue!Init
  BY RunnerAssumption DEF Init, Queue!Init
<1>2. TypeInv /\ SerialInv /\ StatusInv /\ QueueInv /\ [Next]_vars /\ (faults = 0)'
        => [Queue!Next]_(Queue!vars)
  BY QueueRefined
<1>3. QED
  BY <1>1, <1>2, TypeInvariant, SerialInvariant, StatusInvariant, QueueInvariant, PTL
  DEF Spec, RunnerImplementsQueue, Queue!Spec
=============================================================================
