----------------------------- MODULE AppProofs ------------------------------
(* Proofs about AppLifecycle, for any number of rows, process ends and      *)
(* failing calls.                                                           *)
EXTENDS AppLifecycle, TLAPS

\* The rows that are claimed, executed or reconciled have been requested; a
\* queued row is in no worker's hand, and no worker has one before the
\* workers are started.
Requested == /\ cur <= count
             /\ \A t \in TaskIds : status[t] # "absent" \/ held[t] > 0 \/ t \in todo => t <= count
Hands     == /\ (pc = "idle") <=> (cur = 0)
             /\ \A t \in TaskIds : status[t] = "queued" => held[t] = 0
             /\ proc # "working" => cur = 0 /\ \A t \in TaskIds : held[t] = 0

TypeInv == TypeOK /\ Requested /\ Hands

LEMMA TypeInit == Init => TypeInv
<1> SUFFICES ASSUME Init PROVE TypeInv
  OBVIOUS
<1> USE AppAssumption DEF Init
<1>1. /\ count \in 0..MaxTasks
      /\ op \in [TaskIds -> {"install", "uninstall"}]
      /\ meth \in [TaskIds -> Methods]
      /\ status \in [TaskIds -> {"absent", "queued", "running"} \cup Terminal]
      /\ held \in [TaskIds -> 0..2]
  BY DEF Methods
<1>2. /\ cur \in {0} \cup TaskIds
      /\ verdict \in Terminal
      /\ rec \in Methods \cup {NoRecord}
      /\ art \in [Methods -> Artefacts] /\ art["docker"] # "stray"
      /\ todo \subseteq TaskIds
      /\ downs \in 0..MaxDowns
      /\ errs \in 0..MaxErrs
  BY DEF Terminal, Artefacts, Methods
<1>3. last \in [op : {"install", "uninstall", "none"}, meth : Methods]
  BY DEF NoRow, Methods
<1>4. tried \in BOOLEAN /\ disturbed \in BOOLEAN /\ refused \in BOOLEAN /\ blind \in BOOLEAN
  OBVIOUS
<1>5. Requested /\ Hands
  BY DEF Requested, Hands, TaskIds
<1>6. QED
  BY <1>1, <1>2, <1>3, <1>4, <1>5 DEF TypeInv, TypeOK

LEMMA TypeStep == TypeInv /\ [Next]_vars => TypeInv'
<1> SUFFICES ASSUME TypeInv, [Next]_vars
             PROVE  TypeInv'
  OBVIOUS
<1> USE AppAssumption
    DEF TypeInv, TypeOK, Requested, Hands, Terminal, Methods, NoRow, Artefacts,
        rowVars, histVars, execVars, procVars
<1>a. \A m \in Methods : /\ Up(m) \in [Methods -> Artefacts] /\ Up(m)["docker"] # "stray"
                         /\ Down(m) \in [Methods -> Artefacts] /\ Down(m)["docker"] # "stray"
  BY DEF Up, Down
<1>1. ASSUME NEW o \in {"install", "uninstall"}, NEW m \in Methods, Request(o, m)
      PROVE  TypeInv'
  <2>a. count' \in 0..MaxTasks
    BY <1>1 DEF Request
  <2>b. op' \in [TaskIds -> {"install", "uninstall"}]
    BY <1>1 DEF Request
  <2>c. meth' \in [TaskIds -> Methods]
    BY <1>1 DEF Request
  <2>1. status' \in [TaskIds -> {"absent", "queued", "running"} \cup Terminal]
    BY <1>1 DEF Request
  <2>2. Requested'
    BY <1>1 DEF Request, TaskIds
  <2>3. Hands'
    <3>1. count + 1 \in TaskIds => held[count + 1] = 0
      BY SMTT(20) DEF TaskIds
    <3>2. QED
      BY <1>1, <3>1 DEF Request
  <2>4. QED
    BY <1>1, <2>a, <2>b, <2>c, <2>1, <2>2, <2>3 DEF Request
<1>2. CASE RequestUninstall
  BY <1>1, <1>2 DEF RequestUninstall
<1>3. CASE ServiceAction
  BY <1>a, <1>3 DEF ServiceAction
<1>4. ASSUME NEW m \in Methods, Dies(m)
      PROVE  TypeInv'
  BY <1>a, <1>4 DEF Dies
<1>5. ASSUME NEW t \in TaskIds, NEW n \in 1..2, Claim(t, n)
      PROVE  TypeInv'
  BY <1>5 DEF Claim
<1>6. ASSUME NEW t \in TaskIds, Begin(t)
      PROVE  TypeInv'
  <2>1. held' \in [TaskIds -> 0..2] /\ held[t] > 0 /\ \A u \in TaskIds : held'[u] > 0 => held[u] > 0
    BY <1>6 DEF Begin, TaskIds
  <2>2. TypeOK'
    BY <1>6, <2>1 DEF Begin
  <2>3. Requested'
    BY <1>6, <2>1 DEF Begin
  <2>4. Hands'
    BY <1>6, <2>1 DEF Begin, TaskIds
  <2>5. QED
    BY <2>2, <2>3, <2>4
<1>7. CASE Finish
  <2>1. cur \in TaskIds
    BY <1>7 DEF Finish
  <2>2. last' \in [op : {"install", "uninstall", "none"}, meth : Methods]
    BY <1>7, <2>1 DEF Finish, Outcome
  <2>3. TypeOK'
    BY <1>7, <2>1, <2>2 DEF Finish
  <2>4. Requested' /\ Hands'
    BY <1>7, <2>1 DEF Finish, TaskIds
  <2>5. QED
    BY <2>3, <2>4
<1>8. CASE GoDown
  <2>a. downs' \in 0..MaxDowns
    BY <1>8 DEF GoDown
  <2>b. held' \in [TaskIds -> 0..2] /\ todo' \subseteq TaskIds /\ cur' \in {0} \cup TaskIds
    BY <1>8 DEF GoDown
  <2>1. TypeOK'
    BY <1>8, <2>a, <2>b DEF GoDown
  <2>2. Requested' /\ Hands'
    BY <1>8 DEF GoDown, TaskIds
  <2>3. QED
    BY <2>1, <2>2
<1>9. CASE Boot \/ StartWorkers
  BY <1>9 DEF Boot, StartWorkers, Running
<1>10. ASSUME NEW t \in TaskIds, Requeue(t) \/ ReconcileInstall(t) \/ ReconcileUninstall(t)
       PROVE  TypeInv'
  <2>1. ASSUME NEW st \in Terminal \cup {"queued"}, Decide(t, st),
               rec' \in Methods \cup {NoRecord}, tried' \in BOOLEAN, disturbed' \in BOOLEAN,
               errs' \in 0..MaxErrs
        PROVE  TypeInv'
    BY <2>1 DEF Decide, Next1, Outcome
  <2>2. CASE Requeue(t)
    BY <2>1, <2>2 DEF Requeue
  <2>3. CASE ReconcileInstall(t)
    <3>1. rec' \in Methods \cup {NoRecord} /\ errs' \in 0..MaxErrs /\ tried' \in BOOLEAN /\ disturbed' \in BOOLEAN
      <4>1. meth[t] \in Methods
        OBVIOUS
      <4>2. rec' \in Methods \cup {NoRecord} /\ errs' \in 0..MaxErrs
        BY <2>3, <4>1 DEF RecordIfAbsent, ReconcileInstall, Answers, Fails
      <4>3. tried' \in BOOLEAN /\ disturbed' \in BOOLEAN
        BY <2>3 DEF RecordIfAbsent, ReconcileInstall
      <4>4. QED
        BY <4>2, <4>3
    <3>2. QED
      BY <2>1, <2>3, <3>1 DEF RecordIfAbsent, ReconcileInstall
  <2>4. CASE ReconcileUninstall(t)
    BY <2>1, <2>4 DEF ReconcileUninstall, Answers, Fails
  <2>5. QED
    BY <1>10, <2>2, <2>3, <2>4
<1>11. CASE Handler
  <2>a. cur \in TaskIds
    BY <1>11
    DEF Handler, At, InstallCheck, Deploy, Start, RecordIfAbsent, Verify, Record, UninstallCheck, StopService,
        Remove, Forget, Aborts
  <2>b. /\ Deployed \in [Methods -> Artefacts] /\ Deployed["docker"] # "stray"
        /\ Removed \in [Methods -> Artefacts] /\ Removed["docker"] # "stray"
    BY <2>a DEF Deployed, Removed
  <2>1. ASSUME Aside, verdict' \in Terminal, rec' \in Methods \cup {NoRecord},
               pc' \in {"deploy", "start", "verify", "record", "stop", "remove", "forget", "finish"},
               art' \in [Methods -> Artefacts], art'["docker"] # "stray", errs' \in 0..MaxErrs,
               tried' \in BOOLEAN, disturbed' \in BOOLEAN, refused' \in BOOLEAN, blind' \in BOOLEAN
        PROVE  TypeInv'
    <3>1. pc # "idle" /\ pc' # "idle" /\ cur' # 0 /\ cur' = cur
      BY <2>a, <2>1 DEF Aside, TaskIds
    <3>2. Requested' /\ Hands'
      BY <2>1, <3>1 DEF Aside
    <3>3. QED
      BY <2>1, <3>2 DEF Aside
  <2> USE DEF Answers, Fails, Goto, Returns, Elsewhere
  <2>2. CASE InstallCheck
    <3>1. PICK read \in BOOLEAN, listed \in BOOLEAN :
            /\ IF read /\ listed THEN Answers ELSE Fails
            /\ IF (read /\ rec # NoRecord) \/ (listed /\ Seen) THEN Returns("failure") ELSE Goto("deploy")
            /\ blind' = ~read
      BY <2>2 DEF InstallCheck
    <3>2. errs' \in 0..MaxErrs /\ blind' \in BOOLEAN /\ verdict' \in Terminal /\ pc' \in {"deploy", "finish"}
      BY <3>1
    <3>3. QED
      BY <2>1, <2>2, <3>2 DEF InstallCheck, Aside
  <2>3. CASE Deploy
    BY <2>1, <2>b, <2>3 DEF Deploy, Aside
  <2>4. CASE Start
    BY <2>1, <2>a, <1>a, <2>4 DEF Start, Aside
  <2>5. CASE Verify
    BY <2>1, <2>a, <2>5 DEF RecordIfAbsent, Verify, Aside
  <2>6. CASE Record
    BY <2>1, <2>a, <2>6 DEF Record, Aside
  <2>7. CASE UninstallCheck
    BY <2>1, <2>a, <2>7 DEF UninstallCheck, Aside
  <2>8. CASE StopService
    <3>1. art' \in {art, Down(meth[cur])} /\ (errs' = errs \/ Fails) /\ refused' \in BOOLEAN
      BY <2>8 DEF StopService, Replies
    <3>2. art' \in [Methods -> Artefacts] /\ art'["docker"] # "stray" /\ errs' \in 0..MaxErrs
      BY <3>1, <2>a, <1>a
    <3>3. QED
      BY <2>1, <2>8, <3>1, <3>2 DEF StopService
  <2>9. CASE Remove
    <3>1. art' \in {art, Removed} /\ (errs' = errs \/ Fails) /\ refused' \in BOOLEAN
      BY <2>9 DEF Remove, Replies
    <3>2. art' \in [Methods -> Artefacts] /\ art'["docker"] # "stray" /\ errs' \in 0..MaxErrs
      BY <3>1, <2>b
    <3>3. QED
      BY <2>1, <2>9, <3>1, <3>2 DEF Remove
  <2>10. CASE Forget \/ Aborts
    BY <2>1, <2>10 DEF Forget, Aborts, Aside
  <2>11. QED
    BY <1>11, <2>2, <2>3, <2>4, <2>5, <2>6, <2>7, <2>8, <2>9, <2>10 DEF Handler
<1>12. CASE UNCHANGED vars
  BY <1>12 DEF vars
<1>13. QED
  BY <1>1, <1>2, <1>3, <1>4, <1>5, <1>6, <1>7, <1>8, <1>9, <1>10, <1>11, <1>12
  DEF Next, RequestInstall

LEMMA TypeInvariant == Spec => []TypeInv
  BY TypeInit, TypeStep, PTL DEF Spec

\* Every variable keeps its type.
THEOREM TypeCorrect == Spec => []TypeOK
<1>1. TypeInv => TypeOK
  BY DEF TypeInv
<1>2. QED
  BY <1>1, TypeInvariant, PTL
-----------------------------------------------------------------------------
(* The installation record                                                  *)

\* While a row is executed none counts as decided, and an install about to
\* return success has its record: only an uninstall deletes one.
Recorded == /\ pc # "idle" => last.op = "none"
            /\ (pc = "finish" /\ verdict = "success" /\ op[cur] = "install") => rec # NoRecord

RecordInv == Recorded /\ InstalledHasRecord

LEMMA RecordInit == Init => RecordInv
  BY DEF Init, RecordInv, Recorded, InstalledHasRecord, NoRow

LEMMA RecordStep == TypeInv /\ RecordInv /\ [Next]_vars => RecordInv'
<1> SUFFICES ASSUME TypeInv, RecordInv, [Next]_vars
             PROVE  RecordInv'
  OBVIOUS
<1> USE AppAssumption
    DEF TypeInv, TypeOK, Requested, Hands, RecordInv, Recorded, InstalledHasRecord,
        rowVars, histVars, execVars, procVars
<1>1. ASSUME NEW o \in {"install", "uninstall"}, NEW m \in Methods, Request(o, m)
      PROVE  RecordInv'
  <2>1. cur # 0 => op'[cur] = op[cur]
    BY <1>1 DEF Request, TaskIds
  <2>2. QED
    BY <1>1, <2>1 DEF Request
<1>2. CASE RequestUninstall
  BY <1>1, <1>2 DEF RequestUninstall, Methods
<1>3. CASE ServiceAction \/ Boot \/ StartWorkers \/ UNCHANGED vars
  BY <1>3 DEF ServiceAction, Boot, StartWorkers, vars
<1>4. ASSUME NEW m \in Methods, Dies(m)
      PROVE  RecordInv'
  BY <1>4 DEF Dies
<1>5. ASSUME NEW t \in TaskIds, NEW n \in 1..2, Claim(t, n)
      PROVE  RecordInv'
  BY <1>5 DEF Claim
<1>6. ASSUME NEW t \in TaskIds, Begin(t)
      PROVE  RecordInv'
  BY <1>6 DEF Begin, NoRow
<1>7. CASE Finish
  BY <1>7 DEF Finish, Outcome, NoRow
<1>8. CASE GoDown
  BY <1>8 DEF GoDown
<1>9. ASSUME NEW t \in TaskIds, Requeue(t) \/ ReconcileInstall(t) \/ ReconcileUninstall(t)
      PROVE  RecordInv'
  <2>2. pc = "idle" /\ pc' = pc
    BY <1>9 DEF Requeue, RecordIfAbsent, ReconcileInstall, ReconcileUninstall, Decide, Next1
  <2>3. CASE Requeue(t)
    BY <2>2, <2>3 DEF Requeue, Decide
  <2>4. CASE ReconcileInstall(t)
    BY <2>2, <2>4 DEF RecordIfAbsent, ReconcileInstall, Decide, Outcome, NoRow
  <2>5. CASE ReconcileUninstall(t)
    BY <2>2, <2>5 DEF ReconcileUninstall, Decide, Outcome
  <2>6. QED
    BY <1>9, <2>3, <2>4, <2>5
<1>10. CASE Handler
  <2>1. /\ pc # "idle"
        /\ UNCHANGED <<last, cur, op>>
    BY <1>10
    DEF Handler, At, Elsewhere, Aside, InstallCheck, Deploy, Start, RecordIfAbsent, Verify, Record,
        UninstallCheck, StopService, Remove, Forget, Aborts
  <2>2. (pc' = "finish" /\ verdict' = "success" /\ op[cur] = "install") => rec' # NoRecord
    BY <1>10
    DEF Handler, At, Goto, Returns, InstallCheck, Deploy, Start, RecordIfAbsent, Verify, Record,
        UninstallCheck, StopService, Remove, Forget, Aborts
  <2>3. QED
    BY <2>1, <2>2
<1>11. QED
  BY <1>1, <1>2, <1>3, <1>4, <1>5, <1>6, <1>7, <1>8, <1>9, <1>10 DEF Next, RequestInstall

\* An install reported as a success has its record, for any number of tasks,
\* crashes and failing calls: reconciliation makes up for the record it finds
\* missing, and nothing but an uninstall takes one away.
THEOREM InstalledHasRecordHolds == Spec => []InstalledHasRecord
<1>1. Spec => []RecordInv
  BY RecordInit, RecordStep, TypeInvariant, PTL DEF Spec
<1>2. RecordInv => InstalledHasRecord
  BY DEF RecordInv
<1>3. QED
  BY <1>1, <1>2, PTL

\* From the check to the write of its record, an install that has read that
\* there is none meets no record: no other task executes, and reconciliation
\* only writes while none does.
Uncontended == (pc \in {"deploy", "start", "verify", "record"} /\ ~blind) => rec = NoRecord

LEMMA UncontendedStep == TypeInv /\ Uncontended /\ [Next]_vars => Uncontended'
<1> SUFFICES ASSUME TypeInv, Uncontended, [Next]_vars
             PROVE  Uncontended'
  OBVIOUS
<1> USE DEF Uncontended, rowVars, histVars, execVars, procVars
<1>1. CASE \/ \E m \in Methods : RequestInstall(m)
           \/ RequestUninstall \/ ServiceAction \/ Boot \/ StartWorkers \/ UNCHANGED vars
  BY <1>1 DEF RequestInstall, RequestUninstall, Request, ServiceAction, Boot, StartWorkers, vars
<1>2. CASE \/ \E m \in Methods : Dies(m)
           \/ \E t \in TaskIds, n \in 1..2 : Claim(t, n)
           \/ \E t \in TaskIds : Begin(t)
           \/ Finish \/ GoDown
  BY <1>2 DEF Dies, Claim, Begin, Finish, GoDown
<1>3. ASSUME NEW t \in TaskIds, Requeue(t) \/ ReconcileInstall(t) \/ ReconcileUninstall(t)
      PROVE  Uncontended'
  <2>1. proc = "reconciling" /\ pc' = pc
    BY <1>3 DEF Requeue, ReconcileInstall, ReconcileUninstall, Decide, Next1
  <2>2. pc = "idle"
    BY <2>1 DEF TypeInv, Hands
  <2>3. QED
    BY <2>1, <2>2
<1>4. CASE Handler
  <2>1. CASE InstallCheck
    BY <2>1 DEF InstallCheck, Goto, Returns
  <2>2. CASE ~InstallCheck
    BY <1>4, <2>2
    DEF Handler, At, Goto, Returns, Elsewhere, Deploy, Start, RecordIfAbsent, Verify, Record,
        UninstallCheck, StopService, Remove, Forget, Aborts
  <2>3. QED
    BY <2>1, <2>2
<1>5. QED
  BY <1>1, <1>2, <1>3, <1>4 DEF Next

\* An install whose reading of the record was answered never ends on the unique
\* key of app_installations, although the record is looked up many steps before
\* it is written.
THEOREM RecordNotContendedHolds == Spec => []RecordNotContended
<1>1. Init => Uncontended
  BY DEF Init, Uncontended
<1>2. Spec => []Uncontended
  BY <1>1, UncontendedStep, TypeInvariant, PTL DEF Spec
<1>3. Uncontended => RecordNotContended
  BY DEF Uncontended, RecordNotContended
<1>4. QED
  BY <1>2, <1>3, PTL
-----------------------------------------------------------------------------
(* The record and what it stands for on the node                            *)

\* Where no call has failed and nothing works on the record from outside the
\* queue: a unit is stopped before its file is removed, unless the node refuses;
\* an install that has deployed has something to record, with its unit file; and
\* an uninstall that is not refused has emptied the node before it forgets the
\* record. A service without its unit file, which a refused stop leaves, is
\* given one by the next install that deploys.
Whole(m)  == art[m] \in {"present", "running"}
StopFirst == (pc = "remove" /\ ~refused) => ~Active(meth[cur])
InPlace   == pc \in {"start", "verify", "record"} => Whole(meth[cur])
Worked    == pc \in {"stop", "remove", "forget"} => tried
Emptied   == (~refused /\ (pc = "forget" \/ (pc = "finish" /\ verdict = "success" /\ op[cur] = "uninstall")))
             => art[meth[cur]] = "none"
Kept      == (rec # NoRecord /\ ~tried) => Whole(rec)
Gone      == (last.op = "uninstall" /\ ~refused) => art[last.meth] = "none"

Site    == StopFirst /\ InPlace /\ Worked /\ Emptied /\ Kept /\ Gone
SiteInv == Undisturbed => Site

LEMMA SiteInit == Init => SiteInv
  BY DEF Init, SiteInv, Site, StopFirst, InPlace, Worked, Emptied, Kept, Gone, NoRow

\* Starting and stopping make nothing appear, and take nothing that has its unit
\* file away; stopping leaves nothing active.
LEMMA UpDown ==
  ASSUME TypeOK, NEW m \in Methods, NEW a \in {Up(m), Down(m)}
  PROVE  \A n \in Methods : /\ art[n] = "none" => a[n] = "none"
                            /\ Whole(n) => a[n] \in {"present", "running"}
  BY DEF TypeOK, Methods, Artefacts, Up, Down, Whole

\* What executes is a row, whose method is one of the two.
LEMMA Executed ==
  ASSUME TypeInv, pc # "idle"
  PROVE  cur \in TaskIds /\ meth[cur] \in Methods
  BY DEF TypeInv, TypeOK, Hands

LEMMA SiteHandler ==
  ASSUME TypeInv, RecordInv, Undisturbed, Undisturbed', Site, Handler
  PROVE  Site'
<1> USE AppAssumption DEF Site, At, Goto, Returns, Elsewhere, Aside, Answers, Fails, Undisturbed
<1>0. pc # "idle"
  BY DEF Handler, InstallCheck, Deploy, Start, Verify, Record, UninstallCheck, StopService, Remove, Forget, Aborts
<1>1. /\ cur \in TaskIds /\ meth[cur] \in Methods /\ last.op = "none"
      /\ art \in [Methods -> Artefacts] /\ errs \in Nat /\ rec \in Methods \cup {NoRecord}
  BY <1>0, Executed DEF TypeInv, TypeOK, RecordInv, Recorded
<1>2. cur' = cur /\ meth' = meth /\ op' = op /\ last' = last
  BY DEF Handler, InstallCheck, Deploy, Start, Verify, Record, UninstallCheck, StopService, Remove, Forget, Aborts,
         rowVars
<1>3. ~(errs' = errs + 1)
  BY <1>1
<1>4. Gone'
  BY <1>1, <1>2 DEF Gone
<1>5. ASSUME art' = art, rec' = rec, tried' = tried, pc' \notin {"start", "verify", "record", "remove", "forget", "stop"},
             pc' = "finish" /\ verdict' = "success" => op[cur] = "install"
      PROVE  Site'
  BY <1>2, <1>4, <1>5 DEF Whole, StopFirst, InPlace, Worked, Emptied, Kept
<1>6. CASE InstallCheck
  <2>1. pc' = "deploy" \/ (pc' = "finish" /\ verdict' = "failure")
    BY <1>6 DEF InstallCheck
  <2>2. QED
    BY <1>5, <1>6, <2>1 DEF InstallCheck
<1>7. CASE Aborts
  BY <1>3, <1>5, <1>7 DEF Aborts
<1>8. CASE Deploy
  <2>1. CASE pc' # "start"
    BY <1>3, <1>5, <1>8, <2>1 DEF Deploy
  <2>2. CASE pc' = "start"
    <3>1. art' = Deployed /\ rec' = rec /\ tried' = tried
      BY <1>3, <1>8, <2>2 DEF Deploy
    <3>2. \A n \in Methods : Whole(n) => Whole(n)'
      BY <1>1, <3>1 DEF Deployed, Whole
    <3>3. Whole(meth[cur])'
      BY <1>1, <1>2, <3>1 DEF Deployed, Whole, Artefacts
    <3>4. QED
      BY <1>1, <1>2, <1>4, <2>2, <3>1, <3>2, <3>3 DEF StopFirst, InPlace, Worked, Emptied, Kept
  <2>3. QED
    BY <2>1, <2>2
<1>9. CASE Start
  <2>1. /\ art' \in {art, Up(meth[cur])} /\ rec' = rec /\ tried' = tried
        /\ pc = "start" /\ op[cur] = "install"
        /\ pc' = "verify" \/ (pc' = "finish" /\ verdict' = "failure")
    BY <1>3, <1>9 DEF Start
  <2>2. \A n \in Methods : Whole(n) => Whole(n)'
    BY <1>1, <2>1, UpDown DEF TypeInv, Whole
  <2>3. QED
    BY <1>1, <1>2, <1>4, <2>1, <2>2 DEF StopFirst, InPlace, Worked, Emptied, Kept
<1>10. CASE Verify
  BY <1>1, <1>2, <1>4, <1>10 DEF Verify, RecordIfAbsent, Whole, StopFirst, InPlace, Worked, Emptied, Kept
<1>11. CASE Record
  BY <1>1, <1>2, <1>4, <1>11 DEF Record, Whole, StopFirst, InPlace, Worked, Emptied, Kept
<1>12. CASE UninstallCheck
  <2>1. /\ art' = art /\ rec' = rec
        /\ \/ pc' = "finish" /\ verdict' = "failure" /\ tried' = tried
           \/ pc' = "stop" /\ tried' = TRUE
    BY <1>12 DEF UninstallCheck
  <2>2. QED
    BY <1>2, <1>4, <2>1 DEF Whole, StopFirst, InPlace, Worked, Emptied, Kept
<1>13. CASE StopService
  <2>1. /\ pc = "stop" /\ pc' = "remove" /\ rec' = rec /\ tried' = tried
        /\ ~refused' => art' = Down(meth[cur])
    BY <1>3, <1>13 DEF StopService, Replies
  <2>2. ~refused' => ~Active(meth[cur])'
    BY <1>1, <1>2, <2>1 DEF Down, Artefacts, Active
  <2>3. QED
    BY <1>1, <1>2, <1>4, <2>1, <2>2 DEF StopFirst, InPlace, Worked, Emptied, Kept
<1>14. CASE Remove
  <2>1. /\ pc = "remove" /\ pc' = "forget" /\ rec' = rec /\ tried' = tried
        /\ ~refused' => art' = Removed /\ ~refused
    BY <1>3, <1>14 DEF Remove, Replies, TypeInv, TypeOK
  <2>2. ~refused' => art'[meth[cur]] = "none"
    BY <1>1, <2>1 DEF Removed, StopFirst
  <2>3. QED
    BY <1>1, <1>2, <1>4, <2>1, <2>2 DEF StopFirst, InPlace, Worked, Emptied, Kept
<1>15. CASE Forget
  BY <1>1, <1>2, <1>4, <1>15 DEF Forget, StopFirst, InPlace, Worked, Emptied, Kept
<1>16. QED
  BY <1>6, <1>7, <1>8, <1>9, <1>10, <1>11, <1>12, <1>13, <1>14, <1>15 DEF Handler

\* The failures counted and the disturbances noted are never taken back.
LEMMA StaysDisturbed == TypeInv /\ [Next]_vars /\ Undisturbed' => Undisturbed
<1> SUFFICES ASSUME TypeInv, [Next]_vars, Undisturbed'
             PROVE  Undisturbed
  OBVIOUS
<1>1. errs \in Nat /\ disturbed \in BOOLEAN
  BY AppAssumption DEF TypeInv, TypeOK
<1>2. errs' = errs \/ errs' = errs + 1
  <2>1. CASE Handler
    BY <2>1 DEF Handler, Answers, Fails, InstallCheck, Deploy, Start, Verify, Record, UninstallCheck, StopService,
                Replies, Remove, Forget, Aborts
  <2>2. CASE ~Handler
    BY <2>2 DEF Next, RequestInstall, RequestUninstall, Request, ServiceAction, Dies, Claim, Begin, Finish, GoDown, Boot,
                StartWorkers, Requeue, ReconcileInstall, ReconcileUninstall, Answers, Fails, vars
  <2>3. QED
    BY <2>1, <2>2
<1>3. disturbed => disturbed'
  BY DEF Next, RequestInstall, RequestUninstall, Request, ServiceAction, Dies, Claim, Begin, Finish, GoDown, Boot,
         StartWorkers, Requeue, ReconcileInstall, ReconcileUninstall, Decide, Handler, Elsewhere, InstallCheck, Deploy,
         Start, Verify, Record, UninstallCheck, StopService, Remove, Forget, Aborts, vars, histVars
<1>4. QED
  BY <1>1, <1>2, <1>3 DEF Undisturbed

LEMMA SiteStep == TypeInv /\ RecordInv /\ SiteInv /\ [Next]_vars => SiteInv'
<1> SUFFICES ASSUME TypeInv, RecordInv, SiteInv, [Next]_vars, Undisturbed'
             PROVE  Site'
  BY DEF SiteInv
<1>0. Undisturbed /\ Site
  BY StaysDisturbed DEF SiteInv
<1>a. /\ TypeOK /\ rec \in Methods \cup {NoRecord} /\ errs \in Nat /\ last.meth \in Methods
      /\ art \in [Methods -> Artefacts] /\ meth \in [TaskIds -> Methods]
      /\ pc # "idle" => cur \in TaskIds /\ meth[cur] \in Methods
  BY <1>0, AppAssumption, Executed DEF TypeInv, TypeOK, Site
<1> USE DEF Site, StopFirst, InPlace, Worked, Emptied, Kept, Gone, rowVars, histVars, execVars, procVars
<1>1. ASSUME NEW o \in {"install", "uninstall"}, NEW m \in Methods, Request(o, m)
      PROVE  Site'
  <2>1. pc # "idle" => op'[cur] = op[cur] /\ meth'[cur] = meth[cur]
    BY <1>1, <1>a DEF Request, TypeInv, TypeOK, Requested, TaskIds
  <2>2. UNCHANGED <<pc, verdict, cur, art, rec, tried, last, refused>>
    BY <1>1 DEF Request
  <2>3. QED
    BY <1>0, <2>1, <2>2 DEF Active, Whole
<1>2. CASE RequestUninstall
  BY <1>1, <1>2, <1>a DEF RequestUninstall, Methods
<1>3. CASE ServiceAction
  <2>1. cur = 0 /\ pc = "idle"
    BY <1>3, <1>a DEF ServiceAction, Undisturbed, TypeInv, TypeOK, Hands, TaskIds
  <2>2. \A n \in Methods : (art[n] = "none" => art'[n] = "none") /\ (Whole(n) => Whole(n)')
    BY <1>3, <1>a, UpDown DEF ServiceAction, Whole
  <2>3. QED
    BY <1>0, <1>3, <1>a, <2>1, <2>2 DEF ServiceAction
<1>4. ASSUME NEW m \in Methods, Dies(m)
      PROVE  Site'
  <2>1. \A n \in Methods : (art[n] = "none" => art'[n] = "none") /\ (Whole(n) => Whole(n)')
    BY <1>4, <1>a, UpDown DEF Dies, Whole
  <2>2. \A n \in Methods : ~Active(n) => ~Active(n)'
    BY <1>4, <1>a DEF Dies, Down, Artefacts, Active
  <2>3. UNCHANGED <<pc, verdict, cur, op, meth, rec, tried, last, refused>>
    BY <1>4 DEF Dies
  <2>4. QED
    BY <1>0, <1>a, <2>1, <2>2, <2>3
<1>5. ASSUME NEW t \in TaskIds, NEW n \in 1..2, Claim(t, n)
      PROVE  Site'
  BY <1>0, <1>5 DEF Claim, Active, Whole
<1>6. ASSUME NEW t \in TaskIds, Begin(t)
      PROVE  Site'
  BY <1>0, <1>6 DEF Begin, NoRow, Active, Whole
<1>7. CASE Finish
  BY <1>0, <1>7, <1>a DEF Finish, Outcome, NoRow, Active, Whole
<1>8. CASE GoDown \/ Boot \/ StartWorkers \/ UNCHANGED vars
  BY <1>0, <1>8 DEF GoDown, Boot, StartWorkers, vars, Active, Whole
<1>9. ASSUME NEW t \in TaskIds, Requeue(t) \/ ReconcileInstall(t) \/ ReconcileUninstall(t)
      PROVE  Site'
  <2>1. pc = "idle" /\ pc' = "idle" /\ art' = art /\ ~(errs' = errs + 1) /\ meth[t] \in Methods
    BY <1>0, <1>9, <1>a
    DEF Requeue, ReconcileInstall, ReconcileUninstall, Decide, Next1, Undisturbed, TypeInv, Hands, TypeOK, TaskIds
  <2>2. CASE Requeue(t)
    BY <1>0, <2>1, <2>2 DEF Requeue, Decide, Whole
  <2>3. CASE ReconcileInstall(t)
    <3>1. last'.op # "uninstall"
      BY <2>3 DEF ReconcileInstall, Decide, Outcome, NoRow
    <3>2. Kept'
      <4>1. CASE rec' = rec /\ tried' = tried
        BY <1>0, <2>1, <4>1 DEF Whole
      <4>2. CASE Active(meth[t]) /\ RecordIfAbsent(meth[t])
        <5>1. rec = NoRecord => art[meth[t]] = "running"
          BY <2>3, <4>2, <1>0, <2>1 DEF ReconcileInstall, Undisturbed, Active, Fails
        <5>2. QED
          BY <1>0, <2>1, <4>2, <5>1 DEF RecordIfAbsent, Whole
      <4>3. QED
        BY <2>3, <4>1, <4>2 DEF ReconcileInstall
    <3>3. QED
      BY <1>0, <2>1, <3>1, <3>2
  <2>4. CASE ReconcileUninstall(t)
    <3>1. Gone'
      <4>1. CASE Decide(t, "queued")
        BY <1>0, <2>1, <4>1 DEF Decide
      <4>2. CASE Decide(t, "success") /\ art[meth[t]] = "none"
        BY <1>0, <2>1, <4>2 DEF Decide, Outcome
      <4>3. QED
        BY <2>1, <2>4, <4>1, <4>2 DEF ReconcileUninstall, Fails
    <3>2. QED
      BY <1>0, <2>1, <2>4, <3>1 DEF ReconcileUninstall, Decide, Whole
  <2>5. QED
    BY <1>9, <2>2, <2>3, <2>4
<1>10. CASE Handler
  BY <1>0, <1>10, SiteHandler
<1>11. QED
  BY <1>1, <1>2, <1>3, <1>4, <1>5, <1>6, <1>7, <1>8, <1>9, <1>10 DEF Next, RequestInstall

LEMMA SiteInvariant == Spec => []SiteInv
<1>1. Spec => []RecordInv
  BY RecordInit, RecordStep, TypeInvariant, PTL DEF Spec
<1>2. QED
  BY <1>1, SiteInit, SiteStep, TypeInvariant, PTL DEF Spec

\* A record stands for a unit or container on the node until an uninstall works
\* on it: recorded after the deployment or made up for by reconciliation, it is
\* written only when there is one, and only an uninstall takes one away.
THEOREM RecordHasArtefactHolds == Spec => []RecordHasArtefact
<1>1. SiteInv => RecordHasArtefact
  BY DEF SiteInv, Site, Kept, Whole, RecordHasArtefact
<1>2. QED
  BY <1>1, SiteInvariant, PTL

\* A successful uninstall has left nothing of its method on the node, however
\* often it was interrupted and requeued: the unit is stopped before its file
\* goes, and no install of the same node runs beside it.
THEOREM UninstalledIsGoneHolds == Spec => []UninstalledIsGone
<1>1. SiteInv => UninstalledIsGone
  BY DEF SiteInv, Site, Gone, UninstalledIsGone
<1>2. QED
  BY <1>1, SiteInvariant, PTL
=============================================================================
