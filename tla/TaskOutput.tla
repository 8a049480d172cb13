------------------------------ MODULE TaskOutput ------------------------------
(***************************************************************************)
(* The output column of one row of background_tasks: the writer that       *)
(* execute gives to a handler (internal/runner/writer.go) and the two      *)
(* statements of AppendTaskOutput. The task's goroutine and the writer's   *)
(* flush loop share the buffer under a mutex, and the column under none.   *)
(*                                                                         *)
(* A row may be executed again, by a second worker that claimed it or      *)
(* after a boot; the node's mutex keeps its executions apart. What a       *)
(* process that ends takes with it, its buffer, is left out.               *)
(***************************************************************************)
EXTENDS Integers, Sequences

CONSTANTS
  Cap,        (* maxOutput and maxTaskOutput, in lines                       *)
  MaxExecs,   (* bound: executions of the row                                *)
  MaxLines,   (* bound: lines written by its handlers                        *)
  MaxFaults   (* bound: statements that fail                                 *)

ASSUME OutputAssumption ==
  /\ Cap \in Nat \ {0}
  /\ MaxExecs \in Nat /\ MaxLines \in Nat /\ MaxFaults \in Nat

VARIABLES
  execs,    (* executions of the row so far                                  *)
  lines,    (* lines its handlers have written                               *)
  task,     (* progress of the goroutine in execute                          *)
  loop,     (* flushLoop of the writer: on or off                            *)
  stop,     (* the writer's stop channel is closed                           *)
  buf,      (* taskWriter.buf                                                *)
  step,     (* progress of a flush, of either goroutine                      *)
  chunk,    (* what that flush has taken from the buffer                     *)
  seen,     (* the column as its SELECT has read it                          *)
  out,      (* the column                                                    *)
  written,  (* history: lines written so far, numbered in order              *)
  overlap,  (* history: two flushes were under way at once                   *)
  faults    (* statements that have failed                                   *)

rowVars    == <<execs, lines, written>>
writerVars == <<loop, stop, buf>>
flushVars  == <<step, chunk, seen>>
vars == <<rowVars, task, writerVars, flushVars, out, overlap, faults>>

Flushers == {"task", "loop"}
Mark     == 0   \* the line that says that earlier ones are cut off
Line     == written + 1

Ending(s, n)  == SubSeq(s, Len(s) - n + 1, Len(s))
Buffered(s)   == IF Len(s) > Cap THEN <<Mark>> \o Ending(s, Cap) ELSE s
\* Mutant of Shortened: the column is never cut.
ShortenedNever(s, n) == s
Shortened(s, n) == IF Len(s) > n THEN <<Mark>> \o Ending(s, Cap - 1) ELSE s
Merged(s, c)  == Shortened(s \o Shortened(c, Cap - 1), Cap)

Fails == faults < MaxFaults /\ faults' = faults + 1

Init ==
  /\ execs = 0
  /\ lines = 0
  /\ task = "idle"
  /\ loop = "off"
  /\ stop = FALSE
  /\ buf = <<>>
  /\ step = [p \in Flushers |-> "none"]
  /\ chunk = [p \in Flushers |-> <<>>]
  /\ seen = [p \in Flushers |-> <<>>]
  /\ out = <<>>
  /\ written = 0
  /\ overlap = FALSE
  /\ faults = 0

-----------------------------------------------------------------------------
(* A flush *)

\* Mutant of Take: the buffer is copied and not emptied.
TakeCopying(p) ==
  /\ step[p] = "none"
  /\ buf # <<>>
  /\ chunk' = [chunk EXCEPT ![p] = buf]
  /\ step' = [step EXCEPT ![p] = "read"]
  /\ overlap' = (overlap \/ \E q \in Flushers : step[q] # "none")
  /\ UNCHANGED <<rowVars, task, writerVars, seen, out, faults>>

Take(p) ==
  /\ step[p] = "none"
  /\ buf # <<>>
  /\ chunk' = [chunk EXCEPT ![p] = buf]
  /\ buf' = <<>>
  /\ step' = [step EXCEPT ![p] = "read"]
  /\ overlap' = (overlap \/ \E q \in Flushers : step[q] # "none")
  /\ UNCHANGED <<rowVars, task, loop, stop, seen, out, faults>>

\* A SELECT that fails is not noticed: the column counts as empty.
Fetch(p) ==
  /\ step[p] = "read"
  /\ \/ seen' = [seen EXCEPT ![p] = out] /\ UNCHANGED faults
     \/ Fails /\ UNCHANGED seen
  /\ step' = [step EXCEPT ![p] = "store"]
  /\ UNCHANGED <<rowVars, task, writerVars, chunk, out, overlap>>

\* Where WriteAll and Close continue.
Returned == CASE task = "start" -> "running" [] task = "end" -> "closing" [] OTHER -> "idle"

\* Mutant of Save: the buffer is emptied only once its content is stored.
SaveResetting(p) ==
  /\ step[p] = "store"
  /\ out' = Merged(seen[p], chunk[p])
  /\ step' = [step EXCEPT ![p] = "none"]
  /\ chunk' = [chunk EXCEPT ![p] = <<>>]
  /\ seen' = [seen EXCEPT ![p] = <<>>]
  /\ task' = (IF p = "task" THEN Returned ELSE task)
  /\ buf' = <<>>
  /\ UNCHANGED <<rowVars, loop, stop, overlap, faults>>

\* The error of an UPDATE that fails is not looked at by any caller.
Save(p) ==
  /\ step[p] = "store"
  /\ \/ out' = Merged(seen[p], chunk[p]) /\ UNCHANGED faults
     \/ Fails /\ UNCHANGED out
  /\ step' = [step EXCEPT ![p] = "none"]
  /\ chunk' = [chunk EXCEPT ![p] = <<>>]
  /\ seen' = [seen EXCEPT ![p] = <<>>]
  /\ task' = (IF p = "task" THEN Returned ELSE task)
  /\ UNCHANGED <<rowVars, writerVars, overlap>>

-----------------------------------------------------------------------------
(* The goroutine in execute *)

Write == buf' = Buffered(Append(buf, Line)) /\ written' = Line

\* newTaskWriter, and the first half of WriteAll("task begins").
Begin ==
  /\ task = "idle"
  /\ execs < MaxExecs
  /\ execs' = execs + 1
  /\ task' = "start"
  /\ loop' = "on"
  /\ stop' = FALSE
  /\ buf' = Buffered(<<Line>>)
  /\ written' = Line
  /\ UNCHANGED <<lines, flushVars, out, overlap, faults>>

WriteLine ==
  /\ task = "running"
  /\ lines < MaxLines
  /\ lines' = lines + 1
  /\ Write
  /\ UNCHANGED <<execs, task, loop, stop, flushVars, out, overlap, faults>>

\* The handler returns: the first half of WriteAll("success" or "failure").
Conclude ==
  /\ task = "running"
  /\ task' = "end"
  /\ Write
  /\ UNCHANGED <<execs, lines, loop, stop, flushVars, out, overlap, faults>>

\* A flush that finds the buffer empty returns at once.
NothingToFlush ==
  /\ task \in {"start", "end", "final"}
  /\ step["task"] = "none"
  /\ buf = <<>>
  /\ task' = Returned
  /\ UNCHANGED <<rowVars, writerVars, flushVars, out, overlap, faults>>

TaskTake == task \in {"start", "end", "final"} /\ Take("task")

\* Mutant of Close: the loop is waited for but never told to end.
CloseSilently ==
  /\ task = "closing"
  /\ task' = "joining"
  /\ UNCHANGED <<rowVars, writerVars, flushVars, out, overlap, faults>>

\* Deferred, after the status is written and the hooks have run.
Close ==
  /\ task = "closing"
  /\ stop' = TRUE
  /\ task' = "joining"
  /\ UNCHANGED <<rowVars, loop, buf, flushVars, out, overlap, faults>>

\* Mutant of Join: Close does not wait for the loop.
JoinAtOnce ==
  /\ task = "joining"
  /\ task' = "final"
  /\ UNCHANGED <<rowVars, writerVars, flushVars, out, overlap, faults>>

Join ==
  /\ task = "joining"
  /\ loop = "off"
  /\ task' = "final"
  /\ UNCHANGED <<rowVars, writerVars, flushVars, out, overlap, faults>>

TaskStep ==
  \/ WriteLine \/ Conclude
  \/ NothingToFlush \/ TaskTake \/ Fetch("task") \/ Save("task")
  \/ Close \/ Join

-----------------------------------------------------------------------------
(* The flush loop *)

\* The ticker and the stop channel may be ready together; either is served.
Tick == loop = "on" /\ Take("loop")

LoopStops ==
  /\ loop = "on"
  /\ step["loop"] = "none"
  /\ stop
  /\ loop' = "off"
  /\ UNCHANGED <<rowVars, task, stop, buf, flushVars, out, overlap, faults>>

LoopStep == Tick \/ Fetch("loop") \/ Save("loop") \/ LoopStops

Next == Begin \/ TaskStep \/ LoopStep

Spec == Init /\ [][Next]_vars

\* Handlers return, and the two goroutines and the ticker keep running.
FairSpec == Spec /\ WF_vars(TaskStep) /\ WF_vars(LoopStep)
-----------------------------------------------------------------------------
(* Properties *)

TypeOK ==
  /\ execs \in 0..MaxExecs
  /\ lines \in 0..MaxLines
  /\ task \in {"idle", "start", "running", "end", "closing", "joining", "final"}
  /\ loop \in {"on", "off"}
  /\ stop \in BOOLEAN
  /\ buf \in Seq(Nat) /\ Len(buf) <= Cap + 1
  /\ step \in [Flushers -> {"none", "read", "store"}]
  /\ chunk \in [Flushers -> Seq(Nat)]
  /\ seen \in [Flushers -> Seq(Nat)]
  /\ out \in Seq(Nat) /\ Len(out) <= Cap
  /\ written \in Nat
  /\ overlap \in BOOLEAN
  /\ faults \in 0..MaxFaults

\* However flushes overlap or fail, no line is stored twice.
NoneTwice ==
  \A i, j \in DOMAIN out : (i # j /\ out[i] # Mark) => out[i] # out[j]

\* When execute gives the node back, its writer is done with the row: nothing
\* of it can overwrite what the next execution, or anybody else, appends.
WriterStopped ==
  task = "idle" => loop = "off" /\ \A p \in Flushers : step[p] = "none"

\* Lines are lost or out of order only where two flushes overlapped or a
\* statement failed: otherwise the column ends with the last line, goes back
\* without a gap, and starts with the first unless it starts with the mark.
CompleteUnlessOverlapping ==
  (task = "idle" /\ ~overlap /\ faults = 0) =>
    /\ \A i \in DOMAIN out :
         IF out[i] = Mark THEN i = 1 ELSE out[i] = written - Len(out) + i
    /\ Len(out) = written \/ (out # <<>> /\ out[1] = Mark)

\* Closing the writer waits for its loop, and is never left waiting.
ExecutionEnds == (task # "idle") ~> (task = "idle")

\* "WriteAll merges the content into the buffer at once and forces it into the
\* database, for key points" (comment of WriteAll): when an execution is over,
\* its last line, success or failure, is in the column.
WriteAllIsStored ==
  (task = "idle" /\ execs > 0) => \E i \in DOMAIN out : out[i] = written
=============================================================================
