------------------------------ MODULE MCNodes -------------------------------
(***************************************************************************)
(* Model checking of the node page: the table, the drawer, the dialog that *)
(* adds a node and the terminal, and of the tokens of nodes and the        *)
(* replacement of executables behind it.                                   *)
(* They share no state of their models, so a behaviour begins by choosing  *)
(* the part that moves.                                                    *)
(***************************************************************************)
EXTENDS NodeList, NodeDrawer, NodeAdd, NodeTerminal, NodeToken, BinarySwap, TLC

VARIABLE part   (* the part that moves *)

nodesVars == <<part, listVars, drawerVars, addVars, termVars, tokenVars, swapVars>>

\* The machines' host keys are chosen when the terminal moves.
Init ==
  /\ part \in {"list", "drawer", "add", "terminal", "token", "swap"}
  /\ ListInit /\ DrawerInit /\ AddInit /\ TokenInit
  /\ SwapInit /\ (part # "swap" => side = "panel")
  /\ TermInit /\ (part # "terminal" => \A n, m \in Nodes : termHost[n] = termHost[m])

Next ==
  /\ \/ part = "list" /\ ListNext /\ UNCHANGED <<drawerVars, addVars, termVars, tokenVars, swapVars>>
     \/ part = "drawer" /\ DrawerNext /\ UNCHANGED <<listVars, addVars, termVars, tokenVars, swapVars>>
     \/ part = "add" /\ AddNext /\ UNCHANGED <<listVars, drawerVars, termVars, tokenVars, swapVars>>
     \/ part = "terminal" /\ TermNext /\ UNCHANGED <<listVars, drawerVars, addVars, tokenVars, swapVars>>
     \/ part = "token" /\ TokenNext /\ UNCHANGED <<listVars, drawerVars, addVars, termVars, swapVars>>
     \/ part = "swap" /\ SwapNext /\ UNCHANGED <<listVars, drawerVars, addVars, termVars, tokenVars>>
  /\ UNCHANGED part

Spec == Init /\ [][Next]_nodesVars

\* The configuration gives Hosts, HostKeys, Agents and Updaters the same
\* values, which nothing tells apart.
Sym == Permutations(Hosts)

-----------------------------------------------------------------------------
(* Properties of several parts *)

\* Types of the variables of every part.
NodesTypeOK == ListTypeOK /\ DrawerTypeOK /\ AddTypeOK /\ TermTypeOK /\ TokenTypeOK /\ SwapTypeOK

\* The spinners of the upgrade and batch buttons are up only while a request is
\* under way whose answer takes them down. That of the terminal's connect button is
\* up only while a socket is open that takes it down, or when the dialog was
\* closed while connecting and none connected since: teardownTerm then drops the
\* socket's handlers and nothing takes it down, a dead button in the next dialog
\* (NodesView.vue:1276, 1412-1443). The agent's own flag, which refuses upgrades, is
\* up only during one (agent/upgrade.go).
SpinnersCanEnd == SpinnersEnd /\ SpinnerCanEnd /\ UpgradePossible
=============================================================================
