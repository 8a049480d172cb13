----------------------------- MODULE NodeToken ------------------------------
(***************************************************************************)
(* The token a node's agent and the panel share: the registration with a   *)
(* registration token of limited use, and its rotation                     *)
(* (internal/node/service.go, internal/agent).                             *)
(*                                                                         *)
(* Tokens are numbers in the order in which they are made; a node is named *)
(* by its first one. Every statement of the database is a step. A request  *)
(* to an agent may be lost, its answer too, and it may arrive after the    *)
(* panel has given up. Heartbeats change no token: the panel never puts a  *)
(* token into its answer. Nodes added by hand, the expiry and the deletion *)
(* of registration tokens are left out.                                    *)
(***************************************************************************)
EXTENDS Naturals, FiniteSets

CONSTANTS
  Agents,      (* machines that register with one registration token *)
  MaxUses,     (* its max_uses                                       *)
  MaxTokens    (* bound: tokens made                                 *)

ASSUME TokenAssumption == MaxUses \in Nat \ {0} /\ MaxTokens \in Nat

VARIABLES
  usedCount,     (* used_count of the registration token                         *)
  minted,        (* tokens made so far                                           *)
  registering,   (* Register's handlers: agent, its token, step, whether the     *)
                 (* agent still waits for the answer                             *)
  nodeAgent,     (* the agent at each node's address, as a set                   *)
  nodeToken,     (* agent_token_hash of each node, 0 without such a node         *)
  sealed,        (* nodes whose token is stored encrypted as well                *)
  deletedNodes,
  holder,        (* each agent's token in memory, 0 before it has one            *)
  agentFile,     (* the token in its agent.json                                  *)
  home,          (* history: the node each agent has registered as, or 0         *)
  rotating,      (* RotateToken's requests: node, old and new token, what the    *)
                 (* agent has done, whether the panel waits for the answer       *)
  torn           (* history: nodes of which the outcome of a rotation was lost,  *)
                 (* that restarted after one, or worked on two at once           *)

panelRows == <<usedCount, nodeAgent, nodeToken, sealed, deletedNodes>>
agentVars == <<holder, agentFile, home>>
tokenVars == <<panelRows, minted, registering, agentVars, rotating, torn>>

Tokens == 1..MaxTokens

TokenInit ==
  /\ usedCount = 0 /\ minted = 0
  /\ registering = {} /\ rotating = {}
  /\ nodeAgent = [n \in Tokens |-> {}]
  /\ nodeToken = [n \in Tokens |-> 0]
  /\ sealed = {} /\ deletedNodes = {} /\ torn = {}
  /\ holder = [a \in Agents |-> 0] /\ agentFile = [a \in Agents |-> 0]
  /\ home = [a \in Agents |-> 0]

-----------------------------------------------------------------------------
(* Registration *)

Registration(a, t, step, waiting) == [agent |-> a, token |-> t, step |-> step, waiting |-> waiting]

\* An agent without a token asks; the use is claimed in one statement.
ClaimRegistrationToken(a) ==
  /\ holder[a] = 0 /\ minted < MaxTokens
  /\ \A h \in registering : ~(h.agent = a /\ h.waiting)
  /\ usedCount < MaxUses
  /\ usedCount' = usedCount + 1
  /\ minted' = minted + 1
  /\ registering' = registering \cup {Registration(a, minted + 1, "claimed", TRUE)}
  /\ UNCHANGED <<nodeAgent, nodeToken, sealed, deletedNodes, agentVars, rotating, torn>>

\* Fifteen seconds without an answer, or the agent ends: it asks anew.
StopsWaiting(h) ==
  /\ h.waiting
  /\ registering' = (registering \ {h}) \cup {[h EXCEPT !.waiting = FALSE]}
  /\ UNCHANGED <<panelRows, minted, agentVars, rotating, torn>>

CreateNode(h) ==
  /\ h.step = "claimed"
  /\ nodeAgent' = [nodeAgent EXCEPT ![h.token] = {h.agent}]
  /\ nodeToken' = [nodeToken EXCEPT ![h.token] = h.token]
  /\ registering' = (registering \ {h}) \cup {[h EXCEPT !.step = "created"]}
  /\ UNCHANGED <<usedCount, sealed, deletedNodes, minted, agentVars, rotating, torn>>

\* The use is given back unless that fails too.
CreateNodeFails(h) ==
  /\ h.step = "claimed"
  /\ usedCount' \in {usedCount, IF usedCount = 0 THEN 0 ELSE usedCount - 1}
  /\ registering' = registering \ {h}
  /\ UNCHANGED <<nodeAgent, nodeToken, sealed, deletedNodes, minted, agentVars, rotating, torn>>

\* The UPDATE writes the hash and the encrypted token of a node, if it exists.
SetNodeToken(n, t) ==
  /\ nodeToken' = [nodeToken EXCEPT ![n] = IF n \in deletedNodes THEN nodeToken[n] ELSE t]
  /\ sealed' = (IF n \in deletedNodes THEN sealed ELSE sealed \cup {n})

saveEncryptedToken(h) ==
  /\ h.step = "created"
  /\ SetNodeToken(h.token, h.token)
  /\ registering' = (registering \ {h}) \cup {[h EXCEPT !.step = "saved"]}
  /\ UNCHANGED <<usedCount, nodeAgent, deletedNodes, minted, agentVars, rotating, torn>>

\* The agent writes agent.json and starts to serve.
Registered(h) ==
  /\ h.step = "saved" /\ h.waiting
  /\ registering' = registering \ {h}
  /\ holder' = [holder EXCEPT ![h.agent] = h.token]
  /\ agentFile' = [agentFile EXCEPT ![h.agent] = h.token]
  /\ home' = [home EXCEPT ![h.agent] = h.token]
  /\ UNCHANGED <<panelRows, minted, rotating, torn>>

\* Mutant of RegistrationEnds: the use is given back although the node exists.
RegistrationUndone(h) ==
  /\ usedCount' = (IF h.step = "created" /\ usedCount > 0 THEN usedCount - 1 ELSE usedCount)
  /\ registering' = registering \ {h}
  /\ UNCHANGED <<nodeAgent, nodeToken, sealed, deletedNodes, minted, agentVars, rotating, torn>>

\* The token cannot be stored, the answer is lost, or the panel ends: what was
\* claimed and created stays.
RegistrationEnds(h) ==
  /\ registering' = registering \ {h}
  /\ UNCHANGED <<panelRows, minted, agentVars, rotating, torn>>

-----------------------------------------------------------------------------
(* Rotation *)

Stored(n) == nodeToken[n] # 0 /\ n \notin deletedNodes

\* The handler reads the old token and sends the new one under it; nothing
\* keeps two handlers of one node apart.
RotateToken(n) ==
  /\ Stored(n) /\ n \in sealed /\ minted < MaxTokens
  /\ minted' = minted + 1
  /\ rotating' = rotating \cup
       {[node |-> n, old |-> nodeToken[n], new |-> minted + 1, step |-> "sent", waiting |-> TRUE]}
  /\ UNCHANGED <<panelRows, registering, agentVars, torn>>

\* Mutant of Admits: the agent does not compare the token it is called with.
AdmitsAny(a, r) == holder[a] # 0

\* The agent's middleware: the request carries the token the agent has.
Admits(a, r) == holder[a] = r.old

InAgent(n) == {r \in rotating : r.node = n /\ r.step = "admitted"}

auth(r) ==
  /\ r.step = "sent"
  /\ \E a \in nodeAgent[r.node] : Admits(a, r)
  /\ rotating' = (rotating \ {r}) \cup {[r EXCEPT !.step = "admitted"]}
  /\ torn' = (IF InAgent(r.node) = {} THEN torn ELSE torn \cup {r.node})
  /\ UNCHANGED <<panelRows, minted, registering, agentVars>>

\* The agent's handler, later: in memory only, and without looking again.
rotate(r) ==
  /\ r.step = "admitted"
  /\ \E a \in nodeAgent[r.node] : holder[a] # 0 /\ holder' = [holder EXCEPT ![a] = r.new]
  /\ IF r.waiting
     THEN rotating' = (rotating \ {r}) \cup {[r EXCEPT !.step = "taken"]} /\ UNCHANGED torn
     ELSE rotating' = rotating \ {r} /\ torn' = torn \cup {r.node}
  /\ UNCHANGED <<panelRows, minted, registering, agentFile, home>>

\* The agent has another token, or no whole request reaches it: nothing is
\* changed.
RotationRefused(r) ==
  /\ r.step # "taken"
  /\ rotating' = rotating \ {r}
  /\ UNCHANGED <<panelRows, minted, registering, agentVars, torn>>

\* Ten seconds without an answer, or the panel ends. The request may still
\* arrive, or be on its way through the agent.
GivesUp(r) ==
  /\ r.step # "taken" /\ r.waiting
  /\ rotating' = (rotating \ {r}) \cup {[r EXCEPT !.waiting = FALSE]}
  /\ UNCHANGED <<panelRows, minted, registering, agentVars, torn>>

\* The answer is lost, the token cannot be stored, or the panel ends.
OutcomeLost(r) ==
  /\ r.step = "taken"
  /\ rotating' = rotating \ {r} /\ torn' = torn \cup {r.node}
  /\ UNCHANGED <<panelRows, minted, registering, agentVars>>

SaveRotated(r) ==
  /\ r.step = "taken"
  /\ SetNodeToken(r.node, r.new)
  /\ rotating' = rotating \ {r}
  /\ UNCHANGED <<usedCount, nodeAgent, deletedNodes, minted, registering, agentVars, torn>>

DeleteNode(n) ==
  /\ Stored(n)
  /\ deletedNodes' = deletedNodes \cup {n}
  /\ UNCHANGED <<usedCount, nodeAgent, nodeToken, sealed, minted, registering, agentVars, rotating, torn>>

\* Its handlers end with it, and it reads agent.json again.
AgentRestarts(a) ==
  /\ home[a] # 0
  /\ holder' = [holder EXCEPT ![a] = agentFile[a]]
  /\ torn' = (IF holder[a] = agentFile[a] THEN torn ELSE torn \cup {home[a]})
  /\ rotating' = rotating \ InAgent(home[a])
  /\ UNCHANGED <<panelRows, minted, registering, agentFile, home>>

TokenNext ==
  \/ \E a \in Agents : ClaimRegistrationToken(a) \/ AgentRestarts(a)
  \/ \E h \in registering :
       \/ StopsWaiting(h) \/ CreateNode(h) \/ CreateNodeFails(h)
       \/ saveEncryptedToken(h) \/ Registered(h) \/ RegistrationEnds(h)
  \/ \E n \in Tokens : RotateToken(n) \/ DeleteNode(n)
  \/ \E r \in rotating :
       auth(r) \/ rotate(r) \/ RotationRefused(r) \/ GivesUp(r) \/ OutcomeLost(r) \/ SaveRotated(r)

TokenSpec == TokenInit /\ [][TokenNext]_tokenVars

-----------------------------------------------------------------------------
(* Properties *)

\* Types of the variables.
TokenTypeOK ==
  /\ usedCount \in 0..MaxUses /\ minted \in 0..MaxTokens
  /\ registering \subseteq [agent : Agents, token : Tokens,
                            step : {"claimed", "created", "saved"}, waiting : BOOLEAN]
  /\ nodeAgent \in [Tokens -> SUBSET Agents]
  /\ nodeToken \in [Tokens -> 0..MaxTokens]
  /\ sealed \subseteq Tokens /\ deletedNodes \subseteq Tokens /\ torn \subseteq Tokens
  /\ holder \in [Agents -> 0..MaxTokens] /\ agentFile \in [Agents -> 0..MaxTokens]
  /\ home \in [Agents -> 0..MaxTokens]
  /\ rotating \subseteq [node : Tokens, old : Tokens, new : Tokens,
                         step : {"sent", "admitted", "taken"}, waiting : BOOLEAN]

\* However many agents register at once and whatever fails, a registration
\* token makes no more nodes than it may (ClaimRegistrationToken,
\* ReleaseRegistrationToken).
NeverOverused == Cardinality({n \in Tokens : nodeToken[n] # 0}) <= MaxUses

\* Panel and agent have the same token whenever no rotation is between them,
\* in whatever order concurrent rotations were sent, taken and stored: the node
\* can be commanded and its heartbeats are accepted. The agent refuses one that
\* comes when another has changed its token. Of nodes that lost the outcome of a
\* rotation or restarted after one nothing is said, nor of those whose agent had
\* two rotations between its middleware, which compares, and its handler, which
\* sets (auth, rotate of the agent): these can be stored in the other order.
TokensMatch ==
  \A a \in Agents :
    LET n == home[a] IN
    (n # 0 /\ n \notin deletedNodes \cup torn
       /\ \A r \in rotating : ~(r.node = n /\ r.step = "taken"))
      => nodeToken[n] = holder[a]

=============================================================================
