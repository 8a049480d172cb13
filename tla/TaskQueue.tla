----------------------------- MODULE TaskQueue -----------------------------
(***************************************************************************)
(* What the runner promises of the background_tasks table, without         *)
(* workers, statements or processes: rows are taken in the order of their  *)
(* ids, a node works on at most one row at a time, a row in work has been  *)
(* taken, and only a panel that has gone down and lost all its work        *)
(* decides rows by other means than working on them.                       *)
(*                                                                         *)
(* It does not promise that a row is worked on once: Runner.tla shows why. *)
(***************************************************************************)
EXTENDS Integers

CONSTANTS
  LockKeys,  (* what a row's node is identified by                           *)
  TaskIds,   (* row ids, in the order of insertion                           *)
  Kinds,     (* types of the rows that are queued                            *)
  Direct     (* the type of rows that are inserted running, beside the queue *)

VARIABLES
  status,   (* of each row *)
  kind,
  key,
  busy      (* busy[k]: the row node k is working on, or 0 *)

vars == <<status, kind, key, busy>>

Terminal == {"success", "failure"}
Idle     == \A k \in LockKeys : busy[k] = 0
Waiting(t) == status[t] = "queued"

Init ==
  /\ status = [t \in TaskIds |-> "absent"]
  /\ kind = [t \in TaskIds |-> Direct]
  /\ key \in [TaskIds -> LockKeys]
  /\ busy = [k \in LockKeys |-> 0]

\* A new row, after all the rows there are.
Submit(t) ==
  /\ status[t] = "absent"
  /\ \A u \in TaskIds : u < t => status[u] # "absent"
  /\ \E k \in Kinds \cup {Direct}, n \in LockKeys :
       /\ kind' = [kind EXCEPT ![t] = k]
       /\ key' = [key EXCEPT ![t] = n]
       /\ status' = [status EXCEPT ![t] = IF k = Direct THEN "running" ELSE "queued"]
  /\ UNCHANGED busy

Take(t) ==
  /\ Waiting(t)
  /\ \A u \in TaskIds : Waiting(u) => t <= u
  /\ status' = [status EXCEPT ![t] = "running"]
  /\ UNCHANGED <<kind, key, busy>>

Work(t) ==
  /\ status[t] \in {"running"} \cup Terminal
  /\ kind[t] # Direct
  /\ busy[key[t]] = 0
  /\ busy' = [busy EXCEPT ![key[t]] = t]
  /\ UNCHANGED <<status, kind, key>>

Settle(t, st) ==
  /\ busy[key[t]] = t
  /\ status' = [status EXCEPT ![t] = st]
  /\ UNCHANGED <<kind, key, busy>>

Rest(k) ==
  /\ busy[k] # 0
  /\ status[busy[k]] \in Terminal
  /\ busy' = [busy EXCEPT ![k] = 0]
  /\ UNCHANGED <<status, kind, key>>

LoseWork ==
  /\ busy' = [k \in LockKeys |-> 0]
  /\ UNCHANGED <<status, kind, key>>

\* After the loss, a row left running is decided or queued again.
Recover(t, st) ==
  /\ Idle
  /\ status[t] = "running"
  /\ kind[t] # Direct
  /\ st \in Terminal \cup {"queued"}
  /\ status' = [status EXCEPT ![t] = st]
  /\ UNCHANGED <<kind, key, busy>>

\* Rows outside the queue are closed by whoever opened them, one or several
\* at a time.
Close(S, st) ==
  /\ \A t \in S : status[t] = "running" /\ kind[t] = Direct
  /\ status' = [t \in TaskIds |-> IF t \in S THEN st ELSE status[t]]
  /\ UNCHANGED <<kind, key, busy>>

Next ==
  \/ \E t \in TaskIds : Submit(t) \/ Take(t) \/ Work(t)
  \/ \E t \in TaskIds, st \in Terminal : Settle(t, st)
  \/ \E k \in LockKeys : Rest(k)
  \/ LoseWork
  \/ \E t \in TaskIds, st \in Terminal \cup {"queued"} : Recover(t, st)
  \/ \E S \in SUBSET TaskIds, st \in Terminal : Close(S, st)

Spec == Init /\ [][Next]_vars
=============================================================================
