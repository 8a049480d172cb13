------------------------------ MODULE NodeList ------------------------------
(***************************************************************************)
(* The table of nodes and the upgrade of their agents                      *)
(* (web/src/views/NodesView.vue).                                          *)
(*                                                                         *)
(* A request for the list is served at one moment and applied at a later   *)
(* one. A filter may hide any node: which ones depends on whether they are *)
(* online when the request is served. The check that follows an upgrade    *)
(* reads the list like any click does, filter included.                    *)
(***************************************************************************)
EXTENDS WebBase, FiniteSets, Integers

CONSTANTS
  Remote,      (* nodes that are not the panel's own machine *)
  MaxRounds    (* times the check asks, 9 in the code        *)

ASSUME ListAssumption == Remote \subseteq Nodes /\ MaxRounds \in Nat \ {0}

VARIABLES
  agent,      (* what each node reports to the panel: old or new agent, or gone *)
  pushed,     (* nodes an upgrade package has been put in place on           *)
  filtered,   (* a filter is set                                             *)
  rows,       (* what the table shows                                        *)
  loads,      (* lists asked for                                             *)
  acts,       (* other requests in flight: [op, on]                          *)
  question,   (* the question on the screen                                  *)
  selected,
  upgrading,  (* the spinner of the upgrade button                           *)
  batching,
  check,      (* of each node, the check of its upgrade                      *)
  told        (* what the last check said, and what it should have seen      *)

listVars == <<agent, pushed, filtered, rows, loads, acts, question, selected, upgrading,
              batching, check, told>>

Absent == [n \in Nodes |-> "absent"]
NoAct  == [op |-> "none", on |-> {}]
Off    == [step |-> "off", round |-> 0, due |-> FALSE]

\* A list asked for by a click or by the check of node n, before it is served.
Plain    == [by |-> None, served |-> FALSE, filtered |-> filtered, snap |-> Absent]
CheckOf(n) == [Plain EXCEPT !.by = n]

ListInit ==
  /\ agent = [n \in Nodes |-> "old"]
  /\ pushed = {}
  /\ filtered = FALSE
  /\ rows = Absent
  /\ loads = {Plain}
  /\ acts = {}
  /\ question = NoAct
  /\ selected = {}
  /\ upgrading = FALSE
  /\ batching = FALSE
  /\ check = [n \in Nodes |-> Off]
  /\ told = [n \in Nodes |-> [said |-> "nothing", due |-> FALSE]]

-----------------------------------------------------------------------------
(* The list *)

ListRoom == Cardinality(loads) + Cardinality(acts) < MaxCalls
Shown == {n \in Nodes : rows[n] # "absent"}

\* The refresh button, or a filter changed.
load(f) ==
  /\ question = NoAct /\ ListRoom
  /\ filtered' = f
  /\ loads' = loads \cup {[Plain EXCEPT !.filtered = f]}
  /\ UNCHANGED <<agent, pushed, rows, acts, question, selected, upgrading, batching,
                 check, told>>

Serve(l) ==
  /\ ~l.served
  /\ \E hidden \in IF l.filtered THEN SUBSET Nodes ELSE {{}} :
       LET snap == [n \in Nodes |-> IF n \in hidden \/ agent[n] = "gone" THEN "absent"
                                    ELSE agent[n]]
       IN  loads' = (loads \ {l}) \cup {[l EXCEPT !.served = TRUE, !.snap = snap]}
  /\ UNCHANGED <<agent, pushed, filtered, rows, acts, question, selected, upgrading,
                 batching, check, told>>

\* New rows take the selection with them.
Shows(l) ==
  /\ rows' = l.snap
  /\ selected' = {}

Loaded(l) ==
  /\ l.by = None
  /\ loads' = loads \ {l}
  /\ \/ l.served /\ Shows(l)
     \/ UNCHANGED <<rows, selected>>   \* it fails: the old rows stay
  /\ UNCHANGED <<agent, pushed, filtered, acts, question, upgrading, batching, check, told>>

-----------------------------------------------------------------------------
(* One node, or the selected ones *)

Select(S) ==
  /\ question = NoAct
  /\ S \subseteq Shown
  /\ selected' = S
  /\ UNCHANGED <<agent, pushed, filtered, rows, loads, acts, question, upgrading,
                 batching, check, told>>

toggleStatus(n) ==
  /\ question = NoAct /\ ListRoom
  /\ n \in Shown \cap Remote
  /\ acts' = acts \cup {[op |-> "status", on |-> {n}]}
  /\ UNCHANGED <<agent, pushed, filtered, rows, loads, question, selected, upgrading,
                 batching, check, told>>

\* Removing, upgrading and rotating a token ask first.
AskFor(op, n) ==
  /\ question = NoAct /\ ListRoom
  /\ n \in Shown
  /\ op \in {"delete", "upgrade"} => n \in Remote
  /\ op = "upgrade" => ~upgrading
  /\ question' = [op |-> op, on |-> {n}]
  /\ UNCHANGED <<agent, pushed, filtered, rows, loads, acts, selected, upgrading,
                 batching, check, told>>

\* The rows are those selected now. Only a removal asks.
runBatch(op) ==
  /\ question = NoAct /\ ListRoom
  /\ selected # {} /\ ~batching
  /\ batching' = TRUE
  /\ IF op = "batchDelete" THEN /\ question' = [op |-> op, on |-> selected]
                                /\ UNCHANGED acts
                           ELSE /\ acts' = acts \cup {[op |-> op, on |-> selected]}
                                /\ UNCHANGED question
  /\ UNCHANGED <<agent, pushed, filtered, rows, loads, selected, upgrading, check, told>>

Yes ==
  /\ question # NoAct
  /\ acts' = acts \cup {question}
  /\ question' = NoAct
  /\ upgrading' = (upgrading \/ question.op = "upgrade")
  /\ UNCHANGED <<agent, pushed, filtered, rows, loads, selected, batching, check, told>>

No ==
  /\ question # NoAct
  /\ question' = NoAct
  /\ batching' = (batching /\ question.op # "batchDelete")
  /\ UNCHANGED <<agent, pushed, filtered, rows, loads, acts, selected, upgrading, check, told>>

Batches == {"batch", "batchDelete"}
Removes == {"delete", "batchDelete"}

\* A success is followed by a load, but for a new token.
Done(a) ==
  /\ a.op # "upgrade"
  /\ acts' = acts \ {a}
  /\ agent' = [n \in Nodes |-> IF n \in a.on \cap Remote /\ a.op \in Removes THEN "gone" ELSE agent[n]]
  /\ loads' = (IF a.op = "token" THEN loads ELSE loads \cup {Plain})
  /\ selected' = (IF a.op \in Batches THEN {} ELSE selected)
  /\ batching' = (batching /\ a.op \notin Batches)
  /\ UNCHANGED <<pushed, filtered, rows, question, upgrading, check, told>>

Refused(a) ==
  /\ a.op # "upgrade"
  /\ acts' = acts \ {a}
  /\ batching' = (batching /\ a.op \notin Batches)
  /\ UNCHANGED <<agent, pushed, filtered, rows, loads, question, selected, upgrading,
                 check, told>>

-----------------------------------------------------------------------------
(* Upgrade and its check *)

\* The package is in place; a version that can be compared is checked for.
UpgradeSent(a, n) ==
  /\ a.op = "upgrade" /\ a.on = {n}
  /\ check[n].step = "off"   \* bound: one check of a node at a time
  /\ acts' = acts \ {a}
  /\ pushed' = pushed \cup {n}
  /\ upgrading' = FALSE
  /\ \/ /\ check' = [check EXCEPT ![n] = [Off EXCEPT !.step = "wait"]]
        /\ told' = [told EXCEPT ![n] = [said |-> "nothing", due |-> FALSE]]
        /\ UNCHANGED loads
     \/ /\ loads' = loads \cup {Plain}   \* a development build: one load, later
        /\ UNCHANGED <<check, told>>
  /\ UNCHANGED <<agent, filtered, rows, question, selected, batching>>

\* Mutant of UpgradeRefused: the spinner is taken down by a success only.
UpgradeRefusedSpins(a) ==
  /\ a.op = "upgrade"
  /\ acts' = acts \ {a}
  /\ loads' = loads \cup {Plain}
  /\ UNCHANGED <<agent, pushed, filtered, rows, question, selected, upgrading, batching, check, told>>

UpgradeRefused(a) ==
  /\ a.op = "upgrade"
  /\ acts' = acts \ {a}
  /\ upgrading' = FALSE
  /\ loads' = loads \cup {Plain}
  /\ UNCHANGED <<agent, pushed, filtered, rows, question, selected, batching, check, told>>

\* The restarted agent reports its version.
Report(n) ==
  /\ n \in pushed /\ agent[n] = "old"
  /\ agent' = [agent EXCEPT ![n] = "new"]
  /\ UNCHANGED <<pushed, filtered, rows, loads, acts, question, selected, upgrading,
                 batching, check, told>>

\* After ten seconds. due: this round, if answered, must find the new version.
CheckRound(n) ==
  /\ check[n].step = "wait"
  /\ loads' = loads \cup {CheckOf(n)}
  /\ check' = [check EXCEPT ![n] = [@ EXCEPT !.step = "load",
                                             !.due = agent[n] = "new" /\ ~filtered]]
  /\ UNCHANGED <<agent, pushed, filtered, rows, acts, question, selected, upgrading,
                 batching, told>>

\* Mutant of Look: the check asks without a bound on its rounds.
LookForever(n, r, due) ==
  IF r[n] = "new"
    THEN /\ check' = [check EXCEPT ![n] = Off]
         /\ told' = [told EXCEPT ![n] = [said |-> "upgraded", due |-> due]]
    ELSE /\ check' = [check EXCEPT ![n] = [step |-> "wait", round |-> @.round + 1, due |-> FALSE]]
         /\ UNCHANGED told

\* What the check does with the rows r after its load.
Look(n, r, due) ==
  LET round == check[n].round + 1 IN
  IF r[n] = "new"
    THEN /\ check' = [check EXCEPT ![n] = Off]
         /\ told' = [told EXCEPT ![n] = [said |-> "upgraded", due |-> due]]
    ELSE IF round < MaxRounds
    THEN /\ check' = [check EXCEPT ![n] = [step |-> "wait", round |-> round, due |-> FALSE]]
         /\ UNCHANGED told
    ELSE /\ check' = [check EXCEPT ![n] = Off]
         /\ told' = [told EXCEPT ![n] = [said |-> "unchanged", due |-> due]]

\* Mutant of verifyUpgradeLanded: it looks at the rows there were before its load.
verifyBeforeLoad(n, l) ==
  /\ check[n].step = "load"
  /\ l.by = n
  /\ loads' = loads \ {l}
  /\ \/ l.served /\ Shows(l) /\ Look(n, rows, check[n].due)
     \/ UNCHANGED <<rows, selected>> /\ Look(n, rows, FALSE)
  /\ UNCHANGED <<agent, pushed, filtered, acts, question, upgrading, batching>>

\* A failed load is not told apart: the check looks at the rows there are.
verifyUpgradeLanded(n, l) ==
  /\ check[n].step = "load"
  /\ l.by = n
  /\ loads' = loads \ {l}
  /\ \/ l.served /\ Shows(l) /\ Look(n, l.snap, check[n].due)
     \/ UNCHANGED <<rows, selected>> /\ Look(n, rows, FALSE)
  /\ UNCHANGED <<agent, pushed, filtered, acts, question, upgrading, batching>>

ListNext ==
  \/ \E f \in BOOLEAN : load(f)
  \/ \E l \in loads : Serve(l) \/ Loaded(l) \/ \E n \in Nodes : verifyUpgradeLanded(n, l)
  \/ \E S \in SUBSET Nodes : Select(S)
  \/ \E n \in Nodes : \/ toggleStatus(n) \/ Report(n) \/ CheckRound(n)
                      \/ \E op \in {"delete", "upgrade", "token"} : AskFor(op, n)
                      \/ \E a \in acts : UpgradeSent(a, n)
  \/ \E op \in Batches : runBatch(op)
  \/ Yes \/ No
  \/ \E a \in acts : Done(a) \/ Refused(a) \/ UpgradeRefused(a)

ListSpec == ListInit /\ [][ListNext]_listVars

-----------------------------------------------------------------------------
(* Properties *)

\* Types of the variables.
ListTypeOK ==
  /\ agent \in [Nodes -> {"old", "new", "gone"}]
  /\ pushed \subseteq Nodes /\ selected \subseteq Nodes
  /\ filtered \in BOOLEAN /\ upgrading \in BOOLEAN /\ batching \in BOOLEAN
  /\ rows \in [Nodes -> {"absent", "old", "new"}]
  /\ loads \subseteq [by : Nodes \cup {None}, served : BOOLEAN, filtered : BOOLEAN,
                      snap : [Nodes -> {"absent", "old", "new"}]]
  /\ acts \subseteq [op : {"status", "delete", "upgrade", "token"} \cup Batches,
                     on : SUBSET Nodes]
  /\ question \in [op : {"none", "delete", "upgrade", "token"} \cup Batches, on : SUBSET Nodes]
  /\ check \in [Nodes -> [step : {"off", "wait", "load"}, round : 0..MaxRounds,
                          due : BOOLEAN]]
  /\ told \in [Nodes -> [said : {"nothing", "upgraded", "unchanged"}, due : BOOLEAN]]

\* What the check of an upgrade says is so: that the node runs the new version
\* only when it does, and that it still runs the old one never when the node had
\* reported the new one before the last round, no filter was set, the round was
\* answered and the node not removed (verifyUpgradeLanded).
UpgradeNewsTrue ==
  \A n \in Nodes : /\ told[n].said = "upgraded" => n \in pushed /\ agent[n] # "old"
                   /\ told[n].said = "unchanged" => ~told[n].due \/ agent[n] = "gone"

\* A spinner that disables its button is up only while its request is in
\* flight or its question is asked, so one more answer takes it down.
SpinnersEnd ==
  /\ upgrading => \E a \in acts : a.op = "upgrade"
  /\ batching => \E a \in acts \cup {question} : a.op \in Batches
=============================================================================
