----------------------------- MODULE TokenProofs -----------------------------
(***************************************************************************)
(* Proofs about NodeToken, for any agents, uses and number of tokens: the  *)
(* panel and an agent have the same token unless the outcome of a rotation *)
(* was lost, and a registration token makes no more nodes than it may.     *)
(*                                                                         *)
(* That a late request of an old rotation is refused rests on every token  *)
(* being made for one node and being new when it is made: the invariant    *)
(* says so with a function own that names the node of each token, which    *)
(* every step but the making of a token leaves as it is.                   *)
(***************************************************************************)
EXTENDS NodeToken, FiniteSetTheorems, TLAPS

RegType == [agent : Agents, token : Tokens, step : {"claimed", "created", "saved"}, waiting : BOOLEAN]
RotType == [node : Tokens, old : Tokens, new : Tokens, step : {"sent", "admitted", "taken"}, waiting : BOOLEAN]

OrNone == Tokens \cup {0}

\* The types, with numbers only where they count.
TypeInv ==
  /\ usedCount \in 0..MaxUses /\ minted \in 0..MaxTokens
  /\ registering \subseteq RegType /\ rotating \subseteq RotType
  /\ nodeAgent \in [Tokens -> SUBSET Agents] /\ nodeToken \in [Tokens -> OrNone]
  /\ sealed \subseteq Tokens /\ deletedNodes \subseteq Tokens /\ torn \subseteq Tokens
  /\ holder \in [Agents -> OrNone] /\ agentFile \in [Agents -> OrNone] /\ home \in [Agents -> OrNone]

\* Every token has been made for one node, own says which.
Belongs(own) ==
  /\ \A h \in registering : own[h.token] = h.token
  /\ \A n \in Tokens : nodeToken[n] # 0 => own[nodeToken[n]] = n
  /\ \A r \in rotating : own[r.old] = r.node /\ own[r.new] = r.node
  /\ \A a \in Agents : holder[a] # 0 => own[holder[a]] = home[a]
  /\ \A a \in Agents : agentFile[a] # 0 => own[agentFile[a]] = home[a]

\* What is in use has been made.
Made ==
  /\ \A h \in registering : h.token <= minted
  /\ \A n \in Tokens : nodeToken[n] <= minted /\ (nodeToken[n] # 0 => n <= minted)
  /\ \A r \in rotating : r.old <= minted /\ r.new <= minted
  /\ \A a \in Agents : holder[a] <= minted /\ agentFile[a] <= minted

\* Registrations have tokens of their own, and an agent waits for one at a time.
Apart(g, h) == g.token = h.token \/ (g.agent = h.agent /\ g.waiting /\ h.waiting) => g = h

\* Until its answer is taken a registration's node is nobody's home.
Registers(h) ==
  /\ \A a \in Agents : home[a] # h.token
  /\ h.waiting => home[h.agent] = 0
  /\ nodeToken[h.token] = IF h.step = "claimed" THEN 0 ELSE h.token
  /\ h.step # "claimed" => nodeAgent[h.token] = {h.agent}

RegistrationsApart == \A g, h \in registering : Apart(g, h)
RegistrationsHold == \A h \in registering : Registers(h)

HomesHold ==
  \A a \in Agents :
    /\ holder[a] = 0 <=> home[a] = 0
    /\ agentFile[a] = 0 <=> home[a] = 0
    /\ home[a] # 0 => nodeToken[home[a]] # 0 /\ nodeAgent[home[a]] = {a}

\* A new token is unknown to the panel until it is stored, and known to the
\* agent once it has been taken; a request that the agent has admitted is alone
\* there and carries the token the agent has, unless the node is torn.
New(r, s) ==
  /\ r.new = s.new => r = s
  /\ r.new # s.old
  /\ (r.node = s.node /\ r.step = "admitted" /\ s.step = "admitted") => r = s \/ r.node \in torn
Rotates(r) ==
  /\ nodeToken[r.node] # 0
  /\ \A n \in Tokens : nodeToken[n] # r.new
  /\ r.step = "admitted" =>
       \E a \in Agents : home[a] = r.node /\ (r.node \notin torn => holder[a] = r.old)
  /\ r.step = "taken" =>
       \E a \in Agents : home[a] = r.node /\ (r.node \notin torn => holder[a] = r.new)

TokensNew == \A r, s \in rotating : New(r, s)
RotationsHold == \A r \in rotating : Rotates(r)

TokenInv(own) ==
  /\ TypeInv /\ Belongs(own) /\ Made
  /\ RegistrationsApart /\ RegistrationsHold /\ HomesHold
  /\ TokensNew /\ RotationsHold /\ TokensMatch

SomeInv == \E own \in [Tokens -> Tokens] : TokenInv(own)

LEMMA ZeroIsNoToken == 0 \notin Tokens
  BY DEF Tokens

LEMMA Types == TypeInv => TokenTypeOK
<1>1. OrNone = 0..MaxTokens
  BY TokenAssumption DEF OrNone, Tokens
<1> QED
  BY <1>1 DEF TypeInv, TokenTypeOK, RegType, RotType

LEMMA StopsWaitingStep ==
  ASSUME NEW own \in [Tokens -> Tokens], TokenInv(own), NEW h \in registering, StopsWaiting(h)
  PROVE  TokenInv(own)'
<1> USE ZeroIsNoToken DEF TokenInv, OrNone
<1>1. h \in RegType /\ Registers(h) /\ own[h.token] = h.token /\ h.token <= minted
  BY DEF TypeInv, RegType, RegistrationsHold, Belongs, Made
<1> DEFINE s == [h EXCEPT !.waiting = FALSE]
<1>2. s \in RegType /\ s.token = h.token /\ s.agent = h.agent /\ s.step = h.step /\ s.waiting = FALSE
  BY <1>1 DEF RegType
<1>3. registering' = (registering \ {h}) \cup {s}
      /\ UNCHANGED <<usedCount, minted, nodeAgent, nodeToken, sealed, deletedNodes, holder,
                     agentFile, home, rotating, torn>>
  BY <1>1 DEF StopsWaiting, panelRows, agentVars
<1> HIDE DEF s
<1>4. TypeInv'
  BY <1>1, <1>2, <1>3 DEF TypeInv
<1>5. Belongs(own)'
  BY <1>1, <1>2, <1>3 DEF Belongs
<1>6. Made'
  BY <1>1, <1>2, <1>3 DEF Made
<1>7. RegistrationsApart'
  BY <1>1, <1>2, <1>3 DEF RegistrationsApart, Apart
<1>8. RegistrationsHold'
  BY <1>1, <1>2, <1>3 DEF RegistrationsHold, Registers
<1>9. HomesHold'
  BY <1>1, <1>2, <1>3 DEF HomesHold
<1>10. TokensNew'
  BY <1>1, <1>2, <1>3 DEF TokensNew, New
<1>11. RotationsHold'
  BY <1>1, <1>2, <1>3 DEF RotationsHold, Rotates
<1>12. TokensMatch'
  BY <1>1, <1>2, <1>3 DEF TokensMatch
<1> QED
  BY <1>4, <1>5, <1>6, <1>7, <1>8, <1>9, <1>10, <1>11, <1>12

LEMMA CreateStep ==
  ASSUME NEW own \in [Tokens -> Tokens], TokenInv(own), NEW h \in registering, CreateNode(h)
  PROVE  TokenInv(own)'
<1> USE ZeroIsNoToken DEF TokenInv, OrNone
<1>1. h \in RegType /\ Registers(h) /\ own[h.token] = h.token /\ h.token <= minted
  BY DEF TypeInv, RegType, RegistrationsHold, Belongs, Made
<1> DEFINE s == [h EXCEPT !.step = "created"]
<1>2. s \in RegType /\ s.token = h.token /\ s.agent = h.agent
      /\ s.step = "created" /\ s.waiting = h.waiting
  BY <1>1 DEF RegType
<1>3. registering' = (registering \ {h}) \cup {s}
      /\ UNCHANGED <<usedCount, minted, sealed, deletedNodes, holder, agentFile, home, rotating,
                     torn>>
  BY <1>1 DEF CreateNode, agentVars
<1>4. /\ h.step = "claimed" /\ nodeToken[h.token] = 0
      /\ nodeAgent' = [nodeAgent EXCEPT ![h.token] = {h.agent}]
      /\ nodeToken' = [nodeToken EXCEPT ![h.token] = h.token]
  BY <1>1 DEF CreateNode, Registers
<1>5. /\ \A n \in Tokens : nodeToken'[n] = IF n = h.token THEN h.token ELSE nodeToken[n]
      /\ \A n \in Tokens : nodeAgent'[n] = IF n = h.token THEN {h.agent} ELSE nodeAgent[n]
      /\ nodeToken' \in [Tokens -> OrNone] /\ nodeAgent' \in [Tokens -> SUBSET Agents]
      /\ h.token \in Tokens /\ h.token # 0
  BY <1>1, <1>4 DEF TypeInv, RegType
<1> HIDE DEF s
<1>6. TypeInv'
  BY <1>1, <1>2, <1>3, <1>4, <1>5 DEF TypeInv
<1>7. Belongs(own)'
  BY <1>1, <1>2, <1>3, <1>4, <1>5 DEF Belongs
<1>8. Made'
  BY <1>1, <1>2, <1>3, <1>4, <1>5 DEF Made
<1>9. RegistrationsApart'
  BY <1>1, <1>2, <1>3, <1>4, <1>5 DEF RegistrationsApart, Apart
<1>10. RegistrationsHold'
  <2> SUFFICES ASSUME NEW g \in registering' PROVE Registers(g)'
    BY DEF RegistrationsHold
  <2>1. CASE g = s
    BY <1>1, <1>2, <1>3, <1>5, <2>1 DEF Registers
  <2>2. CASE g # s
    <3>1. g \in registering /\ g # h /\ g.token # h.token /\ g.token \in Tokens /\ Registers(g)
      BY <1>3, <2>2 DEF RegistrationsApart, Apart, RegistrationsHold, TypeInv, RegType
    <3> QED
      BY <1>3, <1>5, <3>1 DEF Registers
  <2> QED
    BY <2>1, <2>2
<1>11. HomesHold'
  BY <1>1, <1>2, <1>3, <1>4, <1>5 DEF HomesHold
<1>12. TokensNew'
  BY <1>1, <1>2, <1>3, <1>4, <1>5 DEF TokensNew, New
<1>13. RotationsHold'
  <2> SUFFICES ASSUME NEW r \in rotating PROVE Rotates(r)'
    BY <1>3 DEF RotationsHold
  <2>1. /\ r.node \in Tokens /\ r.new \in Tokens /\ Rotates(r) /\ own[r.new] = r.node
    BY DEF TypeInv, RotType, RotationsHold, Belongs
  <2>2. r.node # h.token /\ r.new # h.token
    BY <1>1, <1>4, <2>1 DEF Rotates
  <2> QED
    BY <1>3, <1>5, <2>1, <2>2 DEF Rotates
<1>14. TokensMatch'
  <2> SUFFICES ASSUME NEW a \in Agents, home[a] # 0, home[a] \notin deletedNodes \cup torn,
                      \A r \in rotating : ~(r.node = home[a] /\ r.step = "taken")
               PROVE  nodeToken'[home[a]] = holder[a]
    BY <1>3 DEF TokensMatch
  <2>1. home[a] # h.token /\ home[a] \in Tokens
    BY <1>1 DEF Registers, TypeInv
  <2> QED
    BY <1>5, <2>1 DEF TokensMatch
<1> QED
  BY <1>6, <1>7, <1>8, <1>9, <1>10, <1>11, <1>12, <1>13, <1>14

LEMMA CreateFailsStep ==
  ASSUME NEW own \in [Tokens -> Tokens], TokenInv(own), NEW h \in registering, CreateNodeFails(h)
  PROVE  TokenInv(own)'
<1> USE ZeroIsNoToken DEF TokenInv, OrNone
<1>1. registering' = registering \ {h}
      /\ UNCHANGED <<minted, nodeAgent, nodeToken, sealed, deletedNodes, holder, agentFile,
                     home, rotating, torn>>
  BY DEF CreateNodeFails, agentVars
<1>2. usedCount' \in 0..MaxUses
  BY TokenAssumption DEF CreateNodeFails, TypeInv
<1>3. TypeInv'
  BY <1>1, <1>2 DEF TypeInv
<1>4. Belongs(own)'
  BY <1>1, <1>2 DEF Belongs
<1>5. Made'
  BY <1>1, <1>2 DEF Made
<1>6. RegistrationsApart'
  BY <1>1, <1>2 DEF RegistrationsApart, Apart
<1>7. RegistrationsHold'
  BY <1>1, <1>2 DEF RegistrationsHold, Registers
<1>8. HomesHold'
  BY <1>1, <1>2 DEF HomesHold
<1>9. TokensNew'
  BY <1>1, <1>2 DEF TokensNew, New
<1>10. RotationsHold'
  BY <1>1, <1>2 DEF RotationsHold, Rotates
<1>11. TokensMatch'
  BY <1>1, <1>2 DEF TokensMatch
<1> QED
  BY <1>3, <1>4, <1>5, <1>6, <1>7, <1>8, <1>9, <1>10, <1>11

LEMMA SaveStep ==
  ASSUME NEW own \in [Tokens -> Tokens], TokenInv(own), NEW h \in registering, saveEncryptedToken(h)
  PROVE  TokenInv(own)'
<1> USE ZeroIsNoToken DEF TokenInv, OrNone
<1>1. h \in RegType /\ Registers(h) /\ own[h.token] = h.token /\ h.token <= minted
  BY DEF TypeInv, RegType, RegistrationsHold, Belongs, Made
<1> DEFINE s == [h EXCEPT !.step = "saved"]
<1>2. s \in RegType /\ s.token = h.token /\ s.agent = h.agent
      /\ s.step = "saved" /\ s.waiting = h.waiting
  BY <1>1 DEF RegType
<1>3. registering' = (registering \ {h}) \cup {s}
      /\ UNCHANGED <<usedCount, minted, nodeAgent, deletedNodes, holder, agentFile, home,
                     rotating, torn>>
  BY <1>1 DEF saveEncryptedToken, SetNodeToken, agentVars
<1>4. h.step = "created" /\ nodeToken' = nodeToken
  BY <1>1 DEF saveEncryptedToken, SetNodeToken, Registers, TypeInv, RegType
<1>5. sealed' \subseteq Tokens
  BY <1>1 DEF saveEncryptedToken, SetNodeToken, TypeInv, RegType
<1> HIDE DEF s
<1>6. TypeInv'
  BY <1>1, <1>2, <1>3, <1>4, <1>5 DEF TypeInv
<1>7. Belongs(own)'
  BY <1>1, <1>2, <1>3, <1>4, <1>5 DEF Belongs
<1>8. Made'
  BY <1>1, <1>2, <1>3, <1>4, <1>5 DEF Made
<1>9. RegistrationsApart'
  BY <1>1, <1>2, <1>3, <1>4, <1>5 DEF RegistrationsApart, Apart
<1>10. RegistrationsHold'
  BY <1>1, <1>2, <1>3, <1>4, <1>5 DEF RegistrationsHold, Registers
<1>11. HomesHold'
  BY <1>1, <1>2, <1>3, <1>4, <1>5 DEF HomesHold
<1>12. TokensNew'
  BY <1>1, <1>2, <1>3, <1>4, <1>5 DEF TokensNew, New
<1>13. RotationsHold'
  BY <1>1, <1>2, <1>3, <1>4, <1>5 DEF RotationsHold, Rotates
<1>14. TokensMatch'
  BY <1>1, <1>2, <1>3, <1>4, <1>5 DEF TokensMatch
<1> QED
  BY <1>6, <1>7, <1>8, <1>9, <1>10, <1>11, <1>12, <1>13, <1>14

LEMMA RegisteredStep ==
  ASSUME NEW own \in [Tokens -> Tokens], TokenInv(own), NEW h \in registering, Registered(h)
  PROVE  TokenInv(own)'
<1> USE ZeroIsNoToken DEF TokenInv, OrNone
<1>1. h \in RegType /\ Registers(h) /\ own[h.token] = h.token /\ h.token <= minted
  BY DEF TypeInv, RegType, RegistrationsHold, Belongs, Made
<1>2. /\ h.step = "saved" /\ h.waiting /\ registering' = registering \ {h}
      /\ UNCHANGED <<usedCount, minted, nodeAgent, nodeToken, sealed, deletedNodes, rotating, torn>>
  BY DEF Registered, panelRows
<1>3. /\ h.agent \in Agents /\ h.token \in Tokens /\ h.token # 0
      /\ home[h.agent] = 0 /\ nodeToken[h.token] = h.token /\ nodeAgent[h.token] = {h.agent}
      /\ \A a \in Agents : home[a] # h.token
  BY <1>1, <1>2 DEF Registers, RegType
<1>4. /\ \A a \in Agents : holder'[a] = IF a = h.agent THEN h.token ELSE holder[a]
      /\ \A a \in Agents : agentFile'[a] = IF a = h.agent THEN h.token ELSE agentFile[a]
      /\ \A a \in Agents : home'[a] = IF a = h.agent THEN h.token ELSE home[a]
      /\ holder' \in [Agents -> OrNone] /\ agentFile' \in [Agents -> OrNone]
      /\ home' \in [Agents -> OrNone]
  BY <1>3 DEF Registered, TypeInv
<1>5. TypeInv'
  BY <1>1, <1>2, <1>3, <1>4 DEF TypeInv
<1>6. Belongs(own)'
  BY <1>1, <1>2, <1>3, <1>4 DEF Belongs
<1>7. Made'
  BY <1>1, <1>2, <1>3, <1>4 DEF Made
<1>8. RegistrationsApart'
  BY <1>1, <1>2, <1>3, <1>4 DEF RegistrationsApart, Apart
<1>9. RegistrationsHold'
  <2> SUFFICES ASSUME NEW g \in registering, g # h PROVE Registers(g)'
    BY <1>2 DEF RegistrationsHold
  <2>1. /\ g.agent \in Agents /\ Registers(g) /\ g.token # h.token
        /\ g.waiting => g.agent # h.agent
    BY <1>2 DEF RegistrationsApart, Apart, RegistrationsHold, TypeInv, RegType
  <2> QED
    BY <1>2, <1>4, <2>1 DEF Registers
<1>10. HomesHold'
  BY <1>1, <1>2, <1>3, <1>4 DEF HomesHold
<1>11. TokensNew'
  BY <1>1, <1>2, <1>3, <1>4 DEF TokensNew, New
<1>12. RotationsHold'
  <2> SUFFICES ASSUME NEW r \in rotating PROVE Rotates(r)'
    BY <1>2 DEF RotationsHold
  <2>1. r.node \in Tokens /\ Rotates(r)
    BY DEF TypeInv, RotType, RotationsHold
  <2>2. ASSUME NEW t, \E a \in Agents : home[a] = r.node /\ (r.node \notin torn => holder[a] = t)
        PROVE  \E a \in Agents : home'[a] = r.node /\ (r.node \notin torn => holder'[a] = t)
    <3>1. PICK a \in Agents : home[a] = r.node /\ (r.node \notin torn => holder[a] = t)
      BY <2>2
    <3>2. a # h.agent
      BY <1>3, <2>1, <3>1
    <3> QED
      BY <1>4, <3>1, <3>2
  <2> QED
    BY <1>2, <2>1, <2>2 DEF Rotates
<1>13. TokensMatch'
  BY <1>1, <1>2, <1>3, <1>4 DEF TokensMatch
<1> QED
  BY <1>5, <1>6, <1>7, <1>8, <1>9, <1>10, <1>11, <1>12, <1>13

LEMMA RegistrationEndsStep ==
  ASSUME NEW own \in [Tokens -> Tokens], TokenInv(own), NEW h \in registering, RegistrationEnds(h)
  PROVE  TokenInv(own)'
<1> USE ZeroIsNoToken DEF TokenInv, OrNone
<1>1. registering' = registering \ {h}
      /\ UNCHANGED <<usedCount, minted, nodeAgent, nodeToken, sealed, deletedNodes, holder,
                     agentFile, home, rotating, torn>>
  BY DEF RegistrationEnds, panelRows, agentVars
<1>2. TypeInv'
  BY <1>1 DEF TypeInv
<1>3. Belongs(own)'
  BY <1>1 DEF Belongs
<1>4. Made'
  BY <1>1 DEF Made
<1>5. RegistrationsApart'
  BY <1>1 DEF RegistrationsApart, Apart
<1>6. RegistrationsHold'
  BY <1>1 DEF RegistrationsHold, Registers
<1>7. HomesHold'
  BY <1>1 DEF HomesHold
<1>8. TokensNew'
  BY <1>1 DEF TokensNew, New
<1>9. RotationsHold'
  BY <1>1 DEF RotationsHold, Rotates
<1>10. TokensMatch'
  BY <1>1 DEF TokensMatch
<1> QED
  BY <1>2, <1>3, <1>4, <1>5, <1>6, <1>7, <1>8, <1>9, <1>10

LEMMA RefusedStep ==
  ASSUME NEW own \in [Tokens -> Tokens], TokenInv(own), NEW r \in rotating, RotationRefused(r)
  PROVE  TokenInv(own)'
<1> USE ZeroIsNoToken DEF TokenInv, OrNone
<1>1. r.step # "taken" /\ rotating' = rotating \ {r}
      /\ UNCHANGED <<usedCount, minted, registering, nodeAgent, nodeToken, sealed, deletedNodes,
                     holder, agentFile, home, torn>>
  BY DEF RotationRefused, panelRows, agentVars
<1>2. TypeInv'
  BY <1>1 DEF TypeInv
<1>3. Belongs(own)'
  BY <1>1 DEF Belongs
<1>4. Made'
  BY <1>1 DEF Made
<1>5. RegistrationsApart'
  BY <1>1 DEF RegistrationsApart, Apart
<1>6. RegistrationsHold'
  BY <1>1 DEF RegistrationsHold, Registers
<1>7. HomesHold'
  BY <1>1 DEF HomesHold
<1>8. TokensNew'
  BY <1>1 DEF TokensNew, New
<1>9. RotationsHold'
  BY <1>1 DEF RotationsHold, Rotates
<1>10. TokensMatch'
  BY <1>1 DEF TokensMatch
<1> QED
  BY <1>2, <1>3, <1>4, <1>5, <1>6, <1>7, <1>8, <1>9, <1>10

LEMMA OutcomeStep ==
  ASSUME NEW own \in [Tokens -> Tokens], TokenInv(own), NEW r \in rotating, OutcomeLost(r)
  PROVE  TokenInv(own)'
<1> USE ZeroIsNoToken DEF TokenInv, OrNone
<1>1. r \in RotType /\ Rotates(r) /\ own[r.old] = r.node /\ own[r.new] = r.node /\ r.new <= minted
      /\ r.node \in Tokens /\ r.new \in Tokens
  BY DEF TypeInv, RotType, RotationsHold, Belongs, Made
<1>2. /\ rotating' = rotating \ {r} /\ torn' = torn \cup {r.node}
      /\ UNCHANGED <<usedCount, minted, registering, nodeAgent, nodeToken, sealed, deletedNodes,
                     holder, agentFile, home>>
  BY DEF OutcomeLost, panelRows, agentVars
<1>3. TypeInv'
  BY <1>1, <1>2 DEF TypeInv
<1>4. Belongs(own)'
  BY <1>1, <1>2 DEF Belongs
<1>5. Made'
  BY <1>1, <1>2 DEF Made
<1>6. RegistrationsApart'
  BY <1>1, <1>2 DEF RegistrationsApart, Apart
<1>7. RegistrationsHold'
  BY <1>1, <1>2 DEF RegistrationsHold, Registers
<1>8. HomesHold'
  BY <1>1, <1>2 DEF HomesHold
<1>9. TokensNew'
  BY <1>1, <1>2 DEF TokensNew, New
<1>10. RotationsHold'
  BY <1>1, <1>2 DEF RotationsHold, Rotates
<1>11. TokensMatch'
  BY <1>1, <1>2 DEF TokensMatch
<1> QED
  BY <1>3, <1>4, <1>5, <1>6, <1>7, <1>8, <1>9, <1>10, <1>11

LEMMA GivesUpStep ==
  ASSUME NEW own \in [Tokens -> Tokens], TokenInv(own), NEW r \in rotating, GivesUp(r)
  PROVE  TokenInv(own)'
<1> USE ZeroIsNoToken DEF TokenInv, OrNone
<1>1. r \in RotType /\ Rotates(r) /\ own[r.old] = r.node /\ own[r.new] = r.node /\ r.new <= minted
      /\ r.node \in Tokens /\ r.new \in Tokens
  BY DEF TypeInv, RotType, RotationsHold, Belongs, Made
<1> DEFINE s == [r EXCEPT !.waiting = FALSE]
<1>2. s \in RotType /\ s.node = r.node /\ s.old = r.old /\ s.new = r.new /\ s.step = r.step
  BY <1>1 DEF RotType
<1>3. rotating' = (rotating \ {r}) \cup {s}
      /\ UNCHANGED <<usedCount, minted, registering, nodeAgent, nodeToken, sealed, deletedNodes,
                     holder, agentFile, home, torn>>
  BY DEF GivesUp, panelRows, agentVars
<1> HIDE DEF s
<1>4. TypeInv'
  BY <1>1, <1>2, <1>3 DEF TypeInv
<1>5. Belongs(own)'
  BY <1>1, <1>2, <1>3 DEF Belongs
<1>6. Made'
  BY <1>1, <1>2, <1>3 DEF Made
<1>7. RegistrationsApart'
  BY <1>1, <1>2, <1>3 DEF RegistrationsApart, Apart
<1>8. RegistrationsHold'
  BY <1>1, <1>2, <1>3 DEF RegistrationsHold, Registers
<1>9. HomesHold'
  BY <1>1, <1>2, <1>3 DEF HomesHold
<1>10. TokensNew'
  <2>1. \A q, p \in rotating : New(q, p)'
    BY <1>3 DEF TokensNew, New
  <2>2. \A q \in rotating : q # r => New(q, s)' /\ New(s, q)'
    BY <1>2, <1>3 DEF TokensNew, New
  <2>3. New(s, s)'
    BY <1>2 DEF TokensNew, New
  <2> QED
    BY <1>3, <2>1, <2>2, <2>3 DEF TokensNew
<1>11. RotationsHold'
  BY <1>1, <1>2, <1>3 DEF RotationsHold, Rotates
<1>12. TokensMatch'
  BY <1>1, <1>2, <1>3 DEF TokensMatch
<1> QED
  BY <1>4, <1>5, <1>6, <1>7, <1>8, <1>9, <1>10, <1>11, <1>12

LEMMA SaveRotatedStep ==
  ASSUME NEW own \in [Tokens -> Tokens], TokenInv(own), NEW r \in rotating, SaveRotated(r)
  PROVE  TokenInv(own)'
<1> USE ZeroIsNoToken DEF TokenInv, OrNone
<1>1. r \in RotType /\ Rotates(r) /\ own[r.old] = r.node /\ own[r.new] = r.node /\ r.new <= minted
      /\ r.node \in Tokens /\ r.new \in Tokens
  BY DEF TypeInv, RotType, RotationsHold, Belongs, Made
<1>2. r.step = "taken" /\ rotating' = rotating \ {r}
      /\ UNCHANGED <<usedCount, minted, registering, nodeAgent, deletedNodes, holder, agentFile,
                     home, torn>>
  BY DEF SaveRotated, agentVars
<1>3. r.node \in Tokens /\ r.new \in Tokens /\ r.new # 0
  BY <1>1 DEF RotType
<1>4. /\ \A n \in Tokens :
           nodeToken'[n] = IF n = r.node /\ n \notin deletedNodes THEN r.new ELSE nodeToken[n]
      /\ nodeToken' \in [Tokens -> OrNone] /\ sealed' \subseteq Tokens
  BY <1>3 DEF SaveRotated, SetNodeToken, TypeInv
<1>5. PICK a \in Agents : home[a] = r.node /\ (r.node \notin torn => holder[a] = r.new)
  BY <1>1, <1>2 DEF Rotates
<1>6. TypeInv'
  BY <1>1, <1>2, <1>3, <1>4, <1>5 DEF TypeInv
<1>7. Belongs(own)'
  BY <1>1, <1>2, <1>3, <1>4, <1>5 DEF Belongs
<1>8. Made'
  BY <1>1, <1>2, <1>4 DEF Made, Rotates
<1>9. RegistrationsApart'
  BY <1>1, <1>2, <1>3, <1>4, <1>5 DEF RegistrationsApart, Apart
<1>10. RegistrationsHold'
  <2> SUFFICES ASSUME NEW g \in registering PROVE Registers(g)'
    BY <1>2 DEF RegistrationsHold
  <2>1. g.token \in Tokens /\ Registers(g) /\ g.token # r.node
    BY <1>5 DEF TypeInv, RegType, RegistrationsHold, Registers
  <2> QED
    BY <1>2, <1>4, <2>1 DEF Registers
<1>11. HomesHold'
  <2> SUFFICES ASSUME NEW b \in Agents, home[b] # 0 PROVE nodeToken'[home[b]] # 0
    BY <1>2 DEF HomesHold
  <2>1. home[b] \in Tokens /\ nodeToken[home[b]] # 0
    BY DEF TypeInv, HomesHold
  <2> QED
    BY <1>3, <1>4, <2>1
<1>12. TokensNew'
  BY <1>1, <1>2, <1>3, <1>4, <1>5 DEF TokensNew, New
<1>13. RotationsHold'
  <2> SUFFICES ASSUME NEW q \in rotating, q # r PROVE Rotates(q)'
    BY <1>2 DEF RotationsHold
  <2>1. q.node \in Tokens /\ Rotates(q) /\ q.new # r.new
    BY DEF TypeInv, RotType, RotationsHold, TokensNew, New
  <2> QED
    BY <1>2, <1>3, <1>4, <2>1 DEF Rotates
<1>14. TokensMatch'
  <2> SUFFICES ASSUME NEW b \in Agents, home[b] # 0, home[b] \notin deletedNodes \cup torn,
                      \A q \in rotating' : ~(q.node = home[b] /\ q.step = "taken")
               PROVE  nodeToken'[home[b]] = holder[b]
    BY <1>2 DEF TokensMatch
  <2>1. home[b] \in Tokens /\ nodeAgent[home[b]] = {b}
    BY DEF TypeInv, HomesHold
  <2>2. CASE home[b] = r.node
    <3>1. a = b
      BY <1>3, <1>5, <2>1, <2>2 DEF HomesHold
    <3> QED
      BY <1>4, <1>5, <2>1, <2>2, <3>1
  <2>3. CASE home[b] # r.node
    BY <1>2, <1>4, <2>1, <2>3 DEF TokensMatch
  <2> QED
    BY <2>2, <2>3
<1> QED
  BY <1>6, <1>7, <1>8, <1>9, <1>10, <1>11, <1>12, <1>13, <1>14

LEMMA DeleteStep ==
  ASSUME NEW own \in [Tokens -> Tokens], TokenInv(own), NEW n \in Tokens, DeleteNode(n)
  PROVE  TokenInv(own)'
<1> USE ZeroIsNoToken DEF TokenInv, OrNone
<1>1. /\ deletedNodes' = deletedNodes \cup {n}
      /\ UNCHANGED <<usedCount, minted, registering, nodeAgent, nodeToken, sealed, holder,
                     agentFile, home, rotating, torn>>
  BY DEF DeleteNode, agentVars
<1>2. TypeInv'
  BY <1>1 DEF TypeInv
<1>3. Belongs(own)'
  BY <1>1 DEF Belongs
<1>4. Made'
  BY <1>1 DEF Made
<1>5. RegistrationsApart'
  BY <1>1 DEF RegistrationsApart, Apart
<1>6. RegistrationsHold'
  BY <1>1 DEF RegistrationsHold, Registers
<1>7. HomesHold'
  BY <1>1 DEF HomesHold
<1>8. TokensNew'
  BY <1>1 DEF TokensNew, New
<1>9. RotationsHold'
  BY <1>1 DEF RotationsHold, Rotates
<1>10. TokensMatch'
  BY <1>1 DEF TokensMatch
<1> QED
  BY <1>2, <1>3, <1>4, <1>5, <1>6, <1>7, <1>8, <1>9, <1>10

LEMMA RestartStep ==
  ASSUME NEW own \in [Tokens -> Tokens], TokenInv(own), NEW a \in Agents, AgentRestarts(a)
  PROVE  TokenInv(own)'
<1> USE ZeroIsNoToken DEF TokenInv, OrNone
<1>1. /\ home[a] # 0
      /\ UNCHANGED <<usedCount, minted, registering, nodeAgent, nodeToken, sealed, deletedNodes,
                     agentFile, home>>
  BY DEF AgentRestarts, panelRows
<1>0. /\ rotating' \subseteq rotating
      /\ \A q \in rotating' : q.node = home[a] => q.step # "admitted"
      /\ \A q \in rotating : q.step = "taken" => q \in rotating'
  BY DEF AgentRestarts, InAgent
<1>2. /\ holder' \in [Agents -> OrNone]
      /\ \A b \in Agents : holder'[b] = IF b = a THEN agentFile[a] ELSE holder[b]
  BY DEF AgentRestarts, TypeInv
<1>3. /\ torn' = torn \/ torn' = torn \cup {home[a]}
      /\ torn' = torn => holder[a] = agentFile[a] \/ home[a] \in torn
      /\ home[a] \in Tokens
  BY <1>1 DEF AgentRestarts, TypeInv
<1>4. TypeInv'
  BY <1>0, <1>1, <1>2, <1>3 DEF TypeInv
<1>5. Belongs(own)'
  BY <1>0, <1>1, <1>2, <1>3 DEF Belongs
<1>6. Made'
  BY <1>0, <1>1, <1>2, <1>3 DEF Made
<1>7. RegistrationsApart'
  BY <1>0, <1>1, <1>2, <1>3 DEF RegistrationsApart, Apart
<1>8. RegistrationsHold'
  BY <1>0, <1>1, <1>2, <1>3 DEF RegistrationsHold, Registers
<1>9. HomesHold'
  BY <1>0, <1>1, <1>2, <1>3 DEF HomesHold
<1>10. TokensNew'
  BY <1>0, <1>1, <1>2, <1>3 DEF TokensNew, New
<1>11. RotationsHold'
  BY <1>0, <1>1, <1>2, <1>3 DEF RotationsHold, Rotates
<1>12. TokensMatch'
  BY <1>0, <1>1, <1>2, <1>3 DEF TokensMatch
<1> QED
  BY <1>4, <1>5, <1>6, <1>7, <1>8, <1>9, <1>10, <1>11, <1>12

LEMMA AuthStep ==
  ASSUME NEW own \in [Tokens -> Tokens], TokenInv(own), NEW r \in rotating, auth(r)
  PROVE  TokenInv(own)'
<1> USE ZeroIsNoToken DEF TokenInv, OrNone
<1>1. /\ r \in RotType /\ Rotates(r) /\ own[r.old] = r.node /\ own[r.new] = r.node /\ r.new <= minted
      /\ r.old <= minted /\ r.node \in Tokens /\ r.old \in Tokens /\ r.new \in Tokens
  BY DEF TypeInv, RotType, RotationsHold, Belongs, Made
<1>2. PICK a \in nodeAgent[r.node] : holder[a] = r.old
  BY DEF auth, Admits
<1>3. /\ r.step = "sent" /\ a \in Agents /\ home[a] = r.node
      /\ UNCHANGED <<usedCount, minted, registering, nodeAgent, nodeToken, sealed, deletedNodes,
                     holder, agentFile, home>>
  BY <1>1, <1>2 DEF auth, panelRows, agentVars, TypeInv, Belongs
<1> DEFINE s == [r EXCEPT !.step = "admitted"]
<1>4. s \in RotType /\ s.node = r.node /\ s.old = r.old /\ s.new = r.new /\ s.step = "admitted"
  BY <1>1 DEF RotType
<1>5. rotating' = (rotating \ {r}) \cup {s}
  BY DEF auth
<1>6. /\ torn \subseteq torn' /\ torn' \subseteq torn \cup {r.node}
      /\ \A q \in rotating : q.node = r.node /\ q.step = "admitted" => r.node \in torn'
  BY DEF auth, InAgent
<1> HIDE DEF s
<1>7. TypeInv'
  BY <1>1, <1>3, <1>4, <1>5, <1>6 DEF TypeInv
<1>8. Belongs(own)'
  BY <1>1, <1>3, <1>4, <1>5 DEF Belongs
<1>9. Made'
  BY <1>1, <1>3, <1>4, <1>5 DEF Made
<1>10. RegistrationsApart' /\ RegistrationsHold' /\ HomesHold'
  BY <1>3 DEF RegistrationsApart, Apart, RegistrationsHold, Registers, HomesHold
<1>11. TokensNew'
  <2>1. \A q \in rotating : New(q, q)' /\ (q # r => New(q, s)' /\ New(s, q)')
    BY <1>3, <1>4, <1>6 DEF TokensNew, New
  <2>2. \A q, p \in rotating : New(q, p)'
    BY <1>6 DEF TokensNew, New
  <2>3. New(s, s)'
    BY <1>4, <2>1 DEF TokensNew, New
  <2> QED
    BY <1>5, <2>1, <2>2, <2>3 DEF TokensNew
<1>12. RotationsHold'
  <2>1. Rotates(s)'
    BY <1>1, <1>2, <1>3, <1>4 DEF Rotates
  <2>2. \A q \in rotating : Rotates(q)'
    BY <1>3, <1>6 DEF RotationsHold, Rotates
  <2> QED
    BY <1>5, <2>1, <2>2 DEF RotationsHold
<1>13. TokensMatch'
  <2>1. \A q \in rotating : q.step = "taken" => q \in rotating'
    BY <1>3, <1>5
  <2> QED
    BY <1>3, <1>6, <2>1 DEF TokensMatch
<1> QED
  BY <1>7, <1>8, <1>9, <1>10, <1>11, <1>12, <1>13

LEMMA RotateStep ==
  ASSUME NEW own \in [Tokens -> Tokens], TokenInv(own), NEW r \in rotating, rotate(r)
  PROVE  TokenInv(own)'
<1> USE ZeroIsNoToken DEF TokenInv, OrNone
<1>1. r \in RotType /\ Rotates(r) /\ own[r.old] = r.node /\ own[r.new] = r.node /\ r.new <= minted
      /\ r.node \in Tokens /\ r.new \in Tokens
  BY DEF TypeInv, RotType, RotationsHold, Belongs, Made
<1>2. PICK a \in nodeAgent[r.node] : holder[a] # 0 /\ holder' = [holder EXCEPT ![a] = r.new]
  BY DEF rotate
<1>3. /\ a \in Agents /\ r.step = "admitted"
      /\ UNCHANGED <<usedCount, minted, registering, nodeAgent, nodeToken, sealed, deletedNodes,
                     agentFile, home>>
  BY <1>1, <1>2 DEF rotate, panelRows, TypeInv
<1>4. /\ home[a] = r.node /\ \A b \in Agents : home[b] = r.node => b = a
      /\ r.node \notin torn => holder[a] = r.old
  <2>1. PICK b \in Agents : home[b] = r.node /\ (r.node \notin torn => holder[b] = r.old)
    BY <1>1, <1>3 DEF Rotates
  <2>2. \A c \in Agents : home[c] = r.node => nodeAgent[r.node] = {c}
    BY <1>1 DEF HomesHold
  <2> QED
    BY <1>2, <2>1, <2>2
<1>5. /\ holder' \in [Agents -> OrNone]
      /\ \A b \in Agents : holder'[b] = IF b = a THEN r.new ELSE holder[b]
  BY <1>1, <1>2, <1>3 DEF TypeInv
<1> DEFINE s == [r EXCEPT !.step = "taken"]
<1>6. s \in RotType /\ s.node = r.node /\ s.old = r.old /\ s.new = r.new /\ s.step = "taken"
  BY <1>1 DEF RotType
<1>7. \/ rotating' = (rotating \ {r}) \cup {s} /\ torn' = torn
      \/ rotating' = rotating \ {r} /\ torn' = torn \cup {r.node}
  BY DEF rotate
<1>8. rotating' \subseteq (rotating \ {r}) \cup {s} /\ torn \subseteq torn'
  BY <1>7
<1> HIDE DEF s
<1>9. \A q \in rotating \ {r} : q.node = r.node /\ q.step \in {"admitted", "taken"} => q.node \in torn
  <2> SUFFICES ASSUME NEW q \in rotating \ {r}, q.node = r.node, q.node \notin torn,
                      q.step \in {"admitted", "taken"}
               PROVE  FALSE
    OBVIOUS
  <2>1. New(q, r) /\ Rotates(q)
    BY DEF TokensNew, RotationsHold
  <2>2. CASE q.step = "admitted"
    BY <1>3, <2>1, <2>2 DEF New
  <2>3. CASE q.step = "taken"
    BY <1>4, <2>1, <2>3 DEF New, Rotates
  <2> QED
    BY <2>2, <2>3
<1>10. TypeInv'
  BY <1>1, <1>3, <1>5, <1>6, <1>7 DEF TypeInv
<1>11. Belongs(own)'
  BY <1>1, <1>3, <1>4, <1>5, <1>6, <1>8 DEF Belongs
<1>12. Made'
  BY <1>1, <1>3, <1>5, <1>6, <1>8 DEF Made
<1>13. RegistrationsApart'
  BY <1>3 DEF RegistrationsApart, Apart
<1>14. RegistrationsHold'
  BY <1>3 DEF RegistrationsHold, Registers
<1>15. HomesHold'
  BY <1>1, <1>2, <1>3, <1>5 DEF HomesHold
<1>16. TokensNew'
  <2>1. \A q, p \in rotating : New(q, p)'
    BY <1>8 DEF TokensNew, New
  <2>2. \A q \in rotating \ {r} : New(q, s)' /\ New(s, q)'
    BY <1>6 DEF TokensNew, New
  <2>3. New(s, s)'
    BY <1>6 DEF TokensNew, New
  <2> QED
    BY <1>8, <2>1, <2>2, <2>3 DEF TokensNew
<1>17. RotationsHold'
  <2>1. Rotates(s)'
    BY <1>1, <1>3, <1>4, <1>5, <1>6 DEF Rotates
  <2>2. ASSUME NEW q \in rotating \ {r} PROVE Rotates(q)'
    <3>1. Rotates(q) /\ (q.node = r.node /\ q.step \in {"admitted", "taken"} => q.node \in torn)
      BY <1>9 DEF RotationsHold
    <3> QED
      BY <1>3, <1>4, <1>5, <1>8, <3>1 DEF Rotates
  <2> QED
    BY <1>8, <2>1, <2>2 DEF RotationsHold
<1>18. TokensMatch'
  BY <1>1, <1>3, <1>4, <1>5, <1>6, <1>7, <1>8 DEF TokensMatch
<1> QED
  BY <1>10, <1>11, <1>12, <1>13, <1>14, <1>15, <1>16, <1>17, <1>18

\* The next token is in use nowhere.
LEMMA Fresh ==
  ASSUME NEW own \in [Tokens -> Tokens], TokenInv(own), minted < MaxTokens,
         NEW t, t = minted + 1
  PROVE  /\ t \in Tokens /\ t # 0 /\ t \in 0..MaxTokens
         /\ \A x \in OrNone : x <= minted => x <= t /\ x # t
         /\ \A h \in registering : h.token # t
         /\ \A n \in Tokens : nodeToken[n] # t
         /\ nodeToken[t] = 0
         /\ \A r \in rotating : r.old # t /\ r.new # t /\ r.node # t
         /\ \A a \in Agents : holder[a] # t /\ agentFile[a] # t /\ home[a] # t
<1> USE DEF TokenInv
<1>1. minted \in Nat /\ MaxTokens \in Nat
  BY TokenAssumption DEF TypeInv
<1>2. OrNone = 0..MaxTokens
  BY <1>1 DEF OrNone, Tokens
<1>3. t \in Tokens /\ t # 0 /\ t \in 0..MaxTokens
  BY <1>1 DEF Tokens
<1>4. \A x \in OrNone : x <= minted => x <= t /\ x # t
  BY <1>1, <1>2
<1>5. \A x \in Tokens : x \in OrNone
  BY DEF OrNone
<1>6. \A h \in registering : h.token # t
  BY <1>4, <1>5 DEF TypeInv, RegType, Made
<1>7. \A n \in Tokens : nodeToken[n] # t
  BY <1>4 DEF TypeInv, Made
<1>8. \A n \in Tokens : nodeToken[n] # 0 => n # t
  BY <1>4, <1>5 DEF Made
<1>9. nodeToken[t] = 0
  BY <1>3, <1>8
<1>10. \A r \in rotating : r.old \in OrNone /\ r.new \in OrNone /\ r.node \in Tokens
  BY <1>5 DEF TypeInv, RotType
<1>11. \A r \in rotating : r.old # t /\ r.new # t /\ r.node # t
  BY <1>4, <1>8, <1>10 DEF Made, RotationsHold, Rotates
<1>12. \A a \in Agents : holder[a] # t /\ agentFile[a] # t
  BY <1>4 DEF TypeInv, Made
<1>13. \A a \in Agents : home[a] # t
  <2> SUFFICES ASSUME NEW a \in Agents, home[a] # 0 PROVE home[a] # t
    BY <1>3
  <2>1. home[a] \in Tokens /\ nodeToken[home[a]] # 0
    BY DEF TypeInv, OrNone, HomesHold
  <2> QED
    BY <1>8, <2>1
<1> QED
  BY <1>3, <1>4, <1>6, <1>7, <1>9, <1>11, <1>12, <1>13

\* What has been made stays so.
LEMMA MadeLater ==
  ASSUME NEW own \in [Tokens -> Tokens], TokenInv(own), minted < MaxTokens, minted' = minted + 1,
         UNCHANGED <<nodeToken, holder, agentFile>>,
         \A h \in registering' : h \in registering \/ h.token = minted',
         \A r \in rotating' : r \in rotating \/ (r.old <= minted /\ r.old \in Tokens /\ r.new = minted')
  PROVE  Made'
<1>1. minted' \in Nat /\ minted' <= minted' /\ \A x \in OrNone : x <= minted => x <= minted'
  BY Fresh, TokenAssumption DEF TokenInv, TypeInv
<1>2. \A x \in Tokens : x \in OrNone
  BY DEF OrNone
<1>3. \A h \in registering' : h.token <= minted'
  BY <1>1, <1>2 DEF TokenInv, TypeInv, RegType, Made
<1>4. \A r \in rotating' : r.old <= minted' /\ r.new <= minted'
  BY <1>1, <1>2 DEF TokenInv, TypeInv, RotType, Made
<1>5. \A n \in Tokens : nodeToken'[n] <= minted' /\ (nodeToken'[n] # 0 => n <= minted')
  BY <1>1, <1>2 DEF TokenInv, TypeInv, Made
<1>6. \A a \in Agents : holder'[a] <= minted' /\ agentFile'[a] <= minted'
  BY <1>1 DEF TokenInv, TypeInv, Made
<1> QED
  BY <1>3, <1>4, <1>5, <1>6 DEF Made

LEMMA ClaimStep ==
  ASSUME NEW own \in [Tokens -> Tokens], TokenInv(own), NEW a \in Agents, ClaimRegistrationToken(a)
  PROVE  SomeInv'
<1> USE ZeroIsNoToken DEF TokenInv
<1>1. PICK t : t = minted + 1
  OBVIOUS
<1> DEFINE f == Registration(a, t, "claimed", TRUE)
           w == [own EXCEPT ![t] = t]
<1>2. /\ holder[a] = 0 /\ minted < MaxTokens /\ usedCount < MaxUses /\ usedCount' = usedCount + 1
      /\ \A h \in registering : ~(h.agent = a /\ h.waiting)
      /\ minted' = t /\ registering' = registering \cup {f}
      /\ UNCHANGED <<nodeAgent, nodeToken, sealed, deletedNodes, holder, agentFile, home,
                     rotating, torn>>
  BY <1>1 DEF ClaimRegistrationToken, agentVars
<1>3. /\ t \in Tokens /\ t # 0 /\ t \in 0..MaxTokens
      /\ \A h \in registering : h.token # t
      /\ \A n \in Tokens : nodeToken[n] # t
      /\ nodeToken[t] = 0
      /\ \A r \in rotating : r.old # t /\ r.new # t /\ r.node # t
      /\ \A b \in Agents : holder[b] # t /\ agentFile[b] # t /\ home[b] # t
  BY <1>1, <1>2, Fresh
<1>4. f \in RegType /\ f.agent = a /\ f.token = t /\ f.step = "claimed" /\ f.waiting = TRUE
  BY <1>3 DEF Registration, RegType
<1>5. w \in [Tokens -> Tokens] /\ w[t] = t /\ \A n \in Tokens : n # t => w[n] = own[n]
  BY <1>3
<1>6. usedCount' \in 0..MaxUses
  BY <1>2, TokenAssumption DEF TypeInv
<1>7. Made'
  <2>1. \A h \in registering' : h \in registering \/ h.token = minted'
    BY <1>2, <1>4
  <2> QED
    BY <1>1, <1>2, <2>1, MadeLater
<1> HIDE DEF f, w
<1>8. TypeInv'
  BY <1>2, <1>3, <1>4, <1>6 DEF TypeInv
<1>9. Belongs(w)'
  <2>1. \A h \in registering : h.token \in Tokens /\ w[h.token] = h.token
    BY <1>3, <1>5 DEF Belongs, TypeInv, RegType
  <2>2. \A n \in Tokens : nodeToken[n] # 0 => w[nodeToken[n]] = n
    <3>1. \A n \in Tokens : nodeToken[n] # 0 => nodeToken[n] \in Tokens /\ own[nodeToken[n]] = n
      BY DEF Belongs, TypeInv, OrNone
    <3> QED
      BY <1>3, <1>5, <3>1
  <2>3. \A r \in rotating : w[r.old] = r.node /\ w[r.new] = r.node
    BY <1>3, <1>5 DEF Belongs, TypeInv, RotType
  <2>4. /\ \A b \in Agents : holder[b] # 0 => w[holder[b]] = home[b]
        /\ \A b \in Agents : agentFile[b] # 0 => w[agentFile[b]] = home[b]
    <3>1. /\ \A b \in Agents : holder[b] # 0 => holder[b] \in Tokens /\ own[holder[b]] = home[b]
          /\ \A b \in Agents : agentFile[b] # 0 =>
               agentFile[b] \in Tokens /\ own[agentFile[b]] = home[b]
      BY DEF Belongs, TypeInv, OrNone
    <3> QED
      BY <1>3, <1>5, <3>1
  <2> QED
    BY <1>2, <1>4, <1>5, <2>1, <2>2, <2>3, <2>4 DEF Belongs
<1>10. RegistrationsApart'
  BY <1>2, <1>3, <1>4 DEF RegistrationsApart, Apart
<1>11. RegistrationsHold'
  <2>1. Registers(f)'
    BY <1>2, <1>3, <1>4 DEF Registers, HomesHold
  <2>2. \A h \in registering : Registers(h)'
    BY <1>2 DEF RegistrationsHold, Registers
  <2> QED
    BY <1>2, <2>1, <2>2 DEF RegistrationsHold
<1>12. HomesHold' /\ TokensNew' /\ RotationsHold' /\ TokensMatch'
  BY <1>2 DEF HomesHold, TokensNew, New, RotationsHold, Rotates, TokensMatch
<1>13. TokenInv(w)'
  BY <1>7, <1>8, <1>9, <1>10, <1>11, <1>12
<1> QED
  BY <1>5, <1>13 DEF SomeInv

LEMMA RotateTokenStep ==
  ASSUME NEW own \in [Tokens -> Tokens], TokenInv(own), NEW n \in Tokens, RotateToken(n)
  PROVE  SomeInv'
<1> USE ZeroIsNoToken DEF TokenInv
<1>1. PICK t : t = minted + 1
  OBVIOUS
<1>2. PICK o : o = nodeToken[n]
  OBVIOUS
<1> DEFINE f == [node |-> n, old |-> o, new |-> t, step |-> "sent", waiting |-> TRUE]
           w == [own EXCEPT ![t] = n]
<1>3. /\ minted < MaxTokens /\ o # 0 /\ minted' = t /\ rotating' = rotating \cup {f}
      /\ UNCHANGED <<usedCount, registering, nodeAgent, nodeToken, sealed, deletedNodes, holder,
                     agentFile, home, torn>>
  BY <1>1, <1>2 DEF RotateToken, Stored, panelRows, agentVars
<1>4. /\ t \in Tokens /\ t # 0 /\ t \in 0..MaxTokens
      /\ \A h \in registering : h.token # t
      /\ \A m \in Tokens : nodeToken[m] # t
      /\ nodeToken[t] = 0
      /\ \A r \in rotating : r.old # t /\ r.new # t /\ r.node # t
      /\ \A b \in Agents : holder[b] # t /\ agentFile[b] # t /\ home[b] # t
  BY <1>1, <1>3, Fresh
<1>5. o \in Tokens /\ own[o] = n /\ o <= minted /\ o # t /\ n # t
  BY <1>2, <1>3, <1>4 DEF TypeInv, OrNone, Belongs, Made
<1>6. f \in RotType /\ f.node = n /\ f.old = o /\ f.new = t /\ f.step = "sent"
  BY <1>4, <1>5 DEF RotType
<1>7. w \in [Tokens -> Tokens] /\ w[t] = n /\ \A m \in Tokens : m # t => w[m] = own[m]
  BY <1>4
<1>8. Made'
  <2>1. \A r \in rotating' : r \in rotating \/ (r.old <= minted /\ r.old \in Tokens /\ r.new = minted')
    BY <1>3, <1>5, <1>6
  <2> QED
    BY <1>1, <1>3, <2>1, MadeLater
<1> HIDE DEF f, w
<1>9. TypeInv'
  BY <1>3, <1>4, <1>6 DEF TypeInv
<1>10. Belongs(w)'
  <2>1. \A h \in registering : h.token \in Tokens /\ w[h.token] = h.token
    BY <1>4, <1>7 DEF Belongs, TypeInv, RegType
  <2>2. \A m \in Tokens : nodeToken[m] # 0 => w[nodeToken[m]] = m
    <3>1. \A m \in Tokens : nodeToken[m] # 0 => nodeToken[m] \in Tokens /\ own[nodeToken[m]] = m
      BY DEF Belongs, TypeInv, OrNone
    <3> QED
      BY <1>4, <1>7, <3>1
  <2>3. \A r \in rotating : w[r.old] = r.node /\ w[r.new] = r.node
    BY <1>4, <1>7 DEF Belongs, TypeInv, RotType
  <2>4. /\ \A b \in Agents : holder[b] # 0 => w[holder[b]] = home[b]
        /\ \A b \in Agents : agentFile[b] # 0 => w[agentFile[b]] = home[b]
    <3>1. /\ \A b \in Agents : holder[b] # 0 => holder[b] \in Tokens /\ own[holder[b]] = home[b]
          /\ \A b \in Agents : agentFile[b] # 0 =>
               agentFile[b] \in Tokens /\ own[agentFile[b]] = home[b]
      BY DEF Belongs, TypeInv, OrNone
    <3> QED
      BY <1>4, <1>7, <3>1
  <2>5. w[f.old] = f.node /\ w[f.new] = f.node
    BY <1>5, <1>6, <1>7
  <2> QED
    BY <1>3, <2>1, <2>2, <2>3, <2>4, <2>5 DEF Belongs
<1>11. RegistrationsApart' /\ RegistrationsHold' /\ HomesHold'
  BY <1>3 DEF RegistrationsApart, Apart, RegistrationsHold, Registers, HomesHold
<1>12. TokensNew'
  <2>1. \A r \in rotating : r.new # o
    BY <1>2 DEF RotationsHold, Rotates
  <2> QED
    BY <1>3, <1>4, <1>5, <1>6, <2>1 DEF TokensNew, New
<1>13. RotationsHold'
  <2>1. Rotates(f)'
    BY <1>2, <1>3, <1>4, <1>6 DEF Rotates
  <2>2. \A r \in rotating : Rotates(r)'
    BY <1>3 DEF RotationsHold, Rotates
  <2> QED
    BY <1>3, <2>1, <2>2 DEF RotationsHold
<1>14. TokensMatch'
  <2> SUFFICES ASSUME NEW a \in Agents, home[a] # 0, home[a] \notin deletedNodes \cup torn,
                      \A r \in rotating' : ~(r.node = home[a] /\ r.step = "taken")
               PROVE  nodeToken[home[a]] = holder[a]
    BY <1>3 DEF TokensMatch
  <2> QED
    BY <1>3 DEF TokensMatch
<1>15. TokenInv(w)'
  BY <1>8, <1>9, <1>10, <1>11, <1>12, <1>13, <1>14
<1> QED
  BY <1>7, <1>15 DEF SomeInv

LEMMA TokenInitial == TokenInit => SomeInv
<1> SUFFICES ASSUME TokenInit PROVE SomeInv
  OBVIOUS
<1> USE ZeroIsNoToken DEF TokenInit
<1> DEFINE w == [n \in Tokens |-> n]
<1>1. TypeInv
  BY TokenAssumption DEF TypeInv, OrNone
<1>2. Belongs(w) /\ RegistrationsApart /\ RegistrationsHold /\ HomesHold
  BY DEF Belongs, RegistrationsApart, RegistrationsHold, HomesHold
<1>3. Made
  BY DEF Made
<1>4. TokensNew /\ RotationsHold /\ TokensMatch
  BY DEF TokensNew, RotationsHold, TokensMatch
<1> QED
  BY <1>1, <1>2, <1>3, <1>4 DEF SomeInv, TokenInv

LEMMA TokenStep == SomeInv /\ [TokenNext]_tokenVars => SomeInv'
<1> SUFFICES ASSUME SomeInv, [TokenNext]_tokenVars PROVE SomeInv'
  OBVIOUS
<1> PICK own \in [Tokens -> Tokens] : TokenInv(own)
  BY DEF SomeInv
<1>1. ASSUME NEW a \in Agents, ClaimRegistrationToken(a) PROVE SomeInv'
  BY <1>1, ClaimStep
<1>2. ASSUME NEW a \in Agents, AgentRestarts(a) PROVE TokenInv(own)'
  BY <1>2, RestartStep
<1>3. ASSUME NEW h \in registering, \/ StopsWaiting(h) \/ CreateNode(h) \/ CreateNodeFails(h)
                                    \/ saveEncryptedToken(h) \/ Registered(h) \/ RegistrationEnds(h)
      PROVE  TokenInv(own)'
  BY <1>3, StopsWaitingStep, CreateStep, CreateFailsStep, SaveStep, RegisteredStep, RegistrationEndsStep
<1>4. ASSUME NEW n \in Tokens, RotateToken(n) PROVE SomeInv'
  BY <1>4, RotateTokenStep
<1>5. ASSUME NEW n \in Tokens, DeleteNode(n) PROVE TokenInv(own)'
  BY <1>5, DeleteStep
<1>6. ASSUME NEW r \in rotating,
             auth(r) \/ rotate(r) \/ RotationRefused(r) \/ GivesUp(r) \/ OutcomeLost(r) \/ SaveRotated(r)
      PROVE  TokenInv(own)'
  BY <1>6, AuthStep, RotateStep, RefusedStep, GivesUpStep, OutcomeStep, SaveRotatedStep
<1>7. CASE UNCHANGED tokenVars
  <2>1. UNCHANGED <<usedCount, minted, registering, nodeAgent, nodeToken, sealed, deletedNodes, holder,
                    agentFile, home, rotating, torn>>
    BY <1>7 DEF tokenVars, panelRows, agentVars
  <2>2. TypeInv' /\ Belongs(own)' /\ Made'
    BY <2>1 DEF TokenInv, TypeInv, Belongs, Made
  <2>3. RegistrationsApart' /\ RegistrationsHold' /\ HomesHold'
    BY <2>1 DEF TokenInv, RegistrationsApart, Apart, RegistrationsHold, Registers, HomesHold
  <2>4. TokensNew' /\ RotationsHold' /\ TokensMatch'
    BY <2>1 DEF TokenInv, TokensNew, New, RotationsHold, Rotates, TokensMatch
  <2>5. TokenInv(own)'
    BY <2>2, <2>3, <2>4 DEF TokenInv
  <2> QED
    BY <2>5 DEF SomeInv
<1>8. TokenInv(own)' => SomeInv'
  BY DEF SomeInv
<1> QED
  BY <1>1, <1>2, <1>3, <1>4, <1>5, <1>6, <1>7, <1>8 DEF TokenNext

\* Panel and agent have the same token whenever no rotation is between them,
\* in whatever order rotations were sent, taken and stored, unless the outcome
\* of one was lost, the agent restarted after one, or it had compared the tokens
\* of two before it set either (RotateToken, auth and rotate of the agent).
THEOREM TokensAgree == TokenSpec => []TokensMatch
<1>1. SomeInv => TokensMatch
  BY DEF SomeInv, TokenInv
<1> QED
  BY TokenInitial, TokenStep, <1>1, PTL DEF TokenSpec

\* Every variable keeps its type; no use of a registration token is counted
\* beyond its limit.
THEOREM TokenTyped == TokenSpec => []TokenTypeOK
<1>1. SomeInv => TokenTypeOK
  BY Types DEF SomeInv, TokenInv
<1> QED
  BY TokenInitial, TokenStep, <1>1, PTL DEF TokenSpec

-----------------------------------------------------------------------------
(* The uses of the registration token *)

\* The tokens a use has been taken for: of nodes, and of registrations that
\* have not created theirs.
Spent == {t \in Tokens : \/ nodeToken[t] # 0
                         \/ \E h \in registering : h.token = t /\ h.step = "claimed"}
UsesCounted == Cardinality(Spent) <= usedCount

LEMMA SpentIsFinite == IsFiniteSet(Spent) /\ Cardinality(Spent) \in Nat
<1>1. IsFiniteSet(Tokens)
  BY FS_Interval, TokenAssumption DEF Tokens
<1>2. Spent \subseteq Tokens
  BY DEF Spent
<1>3. IsFiniteSet(Spent)
  BY <1>1, <1>2, FS_Subset
<1> QED
  BY <1>3, FS_CardinalityType

\* Nothing is spent without being counted.
LEMMA NoMoreSpent ==
  ASSUME usedCount \in Nat, UsesCounted, usedCount' = usedCount, Spent' \subseteq Spent
  PROVE  UsesCounted'
<1>1. Cardinality(Spent') <= Cardinality(Spent) /\ Cardinality(Spent') \in Nat
  BY SpentIsFinite, FS_Subset, FS_CardinalityType
<1> QED
  BY <1>1, SpentIsFinite DEF UsesCounted

LEMMA SpentByClaim ==
  ASSUME NEW own \in [Tokens -> Tokens], TokenInv(own), UsesCounted,
         NEW a \in Agents, ClaimRegistrationToken(a)
  PROVE  UsesCounted'
<1>1. PICK t : t = minted + 1
  OBVIOUS
<1> DEFINE f == Registration(a, t, "claimed", TRUE)
<1>2. usedCount' = usedCount + 1 /\ registering' = registering \cup {f} /\ nodeToken' = nodeToken
  BY <1>1 DEF ClaimRegistrationToken
<1>3. f.token = t
  BY DEF Registration
<1> HIDE DEF f
<1>4. Spent' \subseteq Spent \cup {t}
  BY <1>2, <1>3 DEF Spent
<1>5. IsFiniteSet(Spent \cup {t}) /\ Cardinality(Spent \cup {t}) <= Cardinality(Spent) + 1
  BY SpentIsFinite, FS_AddElement
<1>6. /\ Cardinality(Spent') <= Cardinality(Spent \cup {t})
      /\ Cardinality(Spent') \in Nat /\ Cardinality(Spent \cup {t}) \in Nat
  BY <1>4, <1>5, FS_Subset, FS_CardinalityType
<1>7. usedCount \in Nat
  BY TokenAssumption DEF TokenInv, TypeInv
<1> QED
  BY <1>2, <1>5, <1>6, <1>7, SpentIsFinite DEF UsesCounted

LEMMA SpentByFailure ==
  ASSUME NEW own \in [Tokens -> Tokens], TokenInv(own), UsesCounted,
         NEW h \in registering, CreateNodeFails(h)
  PROVE  UsesCounted'
<1>1. /\ h.step = "claimed" /\ registering' = registering \ {h} /\ nodeToken' = nodeToken
      /\ usedCount' = usedCount \/ usedCount' = IF usedCount = 0 THEN 0 ELSE usedCount - 1
  BY DEF CreateNodeFails
<1>2. h.token \in Tokens /\ nodeToken[h.token] = 0 /\ usedCount \in Nat
  BY <1>1, TokenAssumption DEF TokenInv, TypeInv, RegType, RegistrationsHold, Registers
<1>3. h.token \in Spent
  BY <1>1, <1>2 DEF Spent
<1>4. Spent' \subseteq Spent \ {h.token}
  BY <1>1, <1>2 DEF Spent, TokenInv, RegistrationsApart, Apart
<1>5. /\ IsFiniteSet(Spent \ {h.token})
      /\ Cardinality(Spent \ {h.token}) = Cardinality(Spent) - 1
  BY <1>3, SpentIsFinite, FS_RemoveElement
<1>6. /\ Cardinality(Spent') <= Cardinality(Spent \ {h.token})
      /\ Cardinality(Spent') \in Nat /\ Cardinality(Spent \ {h.token}) \in Nat
  BY <1>4, <1>5, FS_Subset, FS_CardinalityType
<1> QED
  BY <1>1, <1>2, <1>5, <1>6, SpentIsFinite DEF UsesCounted

LEMMA UsesStep == SomeInv /\ UsesCounted /\ [TokenNext]_tokenVars => UsesCounted'
<1> SUFFICES ASSUME SomeInv, UsesCounted, [TokenNext]_tokenVars PROVE UsesCounted'
  OBVIOUS
<1> PICK own \in [Tokens -> Tokens] : TokenInv(own)
  BY DEF SomeInv
<1>0. usedCount \in Nat
  BY TokenAssumption DEF TokenInv, TypeInv
<1>1. ASSUME NEW a \in Agents, ClaimRegistrationToken(a) PROVE UsesCounted'
  BY <1>1, SpentByClaim
<1>2. ASSUME NEW h \in registering, CreateNodeFails(h) PROVE UsesCounted'
  BY <1>2, SpentByFailure
<1>3. ASSUME NEW h \in registering, StopsWaiting(h) PROVE UsesCounted'
  <2>1. h \in RegType
    BY DEF TokenInv, TypeInv
  <2> DEFINE s == [h EXCEPT !.waiting = FALSE]
  <2>2. s.token = h.token /\ s.step = h.step
    BY <2>1 DEF RegType
  <2>3. /\ registering' = (registering \ {h}) \cup {s} /\ nodeToken' = nodeToken
        /\ usedCount' = usedCount
    BY <1>3 DEF StopsWaiting, panelRows
  <2> HIDE DEF s
  <2>4. Spent' \subseteq Spent
    BY <2>2, <2>3 DEF Spent
  <2> QED
    BY <1>0, <2>3, <2>4, NoMoreSpent
<1>4. ASSUME NEW h \in registering, CreateNode(h) PROVE UsesCounted'
  <2>1. h \in RegType /\ h.token \in Tokens /\ h.step = "claimed"
    BY <1>4 DEF CreateNode, TokenInv, TypeInv, RegType
  <2> DEFINE s == [h EXCEPT !.step = "created"]
  <2>2. s.step # "claimed"
    BY <2>1 DEF RegType
  <2>3. registering' = (registering \ {h}) \cup {s} /\ usedCount' = usedCount
    BY <1>4 DEF CreateNode
  <2>4. \A n \in Tokens : n # h.token => nodeToken'[n] = nodeToken[n]
    BY <1>4 DEF CreateNode, TokenInv, TypeInv
  <2> HIDE DEF s
  <2>5. Spent' \subseteq Spent
    BY <2>1, <2>2, <2>3, <2>4 DEF Spent
  <2> QED
    BY <1>0, <2>3, <2>5, NoMoreSpent
<1>5. ASSUME NEW h \in registering, saveEncryptedToken(h) PROVE UsesCounted'
  <2>1. h \in RegType /\ h.token \in Tokens /\ h.step = "created" /\ nodeToken[h.token] = h.token
    BY <1>5 DEF saveEncryptedToken, TokenInv, TypeInv, RegType, RegistrationsHold, Registers
  <2> DEFINE s == [h EXCEPT !.step = "saved"]
  <2>2. s.step # "claimed"
    BY <2>1 DEF RegType
  <2>3. registering' = (registering \ {h}) \cup {s} /\ usedCount' = usedCount /\ nodeToken' = nodeToken
    BY <1>5, <2>1 DEF saveEncryptedToken, SetNodeToken, TokenInv, TypeInv
  <2> HIDE DEF s
  <2>4. Spent' \subseteq Spent
    BY <2>2, <2>3 DEF Spent
  <2> QED
    BY <1>0, <2>3, <2>4, NoMoreSpent
<1>6. ASSUME NEW h \in registering, Registered(h) \/ RegistrationEnds(h) PROVE UsesCounted'
  <2>1. registering' \subseteq registering /\ usedCount' = usedCount /\ nodeToken' = nodeToken
    BY <1>6 DEF Registered, RegistrationEnds, panelRows
  <2>2. Spent' \subseteq Spent
    BY <2>1 DEF Spent
  <2> QED
    BY <1>0, <2>1, <2>2, NoMoreSpent
<1>7. ASSUME NEW r \in rotating, SaveRotated(r) PROVE UsesCounted'
  <2>1. r.node \in Tokens /\ nodeToken[r.node] # 0
    BY DEF TokenInv, TypeInv, RotType, RotationsHold, Rotates
  <2>2. \A n \in Tokens : n # r.node => nodeToken'[n] = nodeToken[n]
    BY <1>7 DEF SaveRotated, SetNodeToken, TokenInv, TypeInv
  <2>3. registering' = registering /\ usedCount' = usedCount
    BY <1>7 DEF SaveRotated
  <2>4. Spent' \subseteq Spent
    BY <2>1, <2>2, <2>3 DEF Spent
  <2> QED
    BY <1>0, <2>3, <2>4, NoMoreSpent
<1>8. ASSUME \/ \E a \in Agents : AgentRestarts(a)
             \/ \E n \in Tokens : RotateToken(n) \/ DeleteNode(n)
             \/ \E r \in rotating : auth(r) \/ rotate(r) \/ RotationRefused(r) \/ GivesUp(r) \/ OutcomeLost(r)
             \/ UNCHANGED tokenVars
      PROVE  UsesCounted'
  <2>1. registering' = registering /\ usedCount' = usedCount /\ nodeToken' = nodeToken
    BY <1>8 DEF AgentRestarts, RotateToken, DeleteNode, auth, rotate, RotationRefused, GivesUp, OutcomeLost,
                tokenVars, panelRows
  <2>2. Spent' \subseteq Spent
    BY <2>1 DEF Spent
  <2> QED
    BY <1>0, <2>1, <2>2, NoMoreSpent
<1> QED
  BY <1>1, <1>2, <1>3, <1>4, <1>5, <1>6, <1>7, <1>8 DEF TokenNext

\* However many agents register at once and whatever fails, a registration
\* token makes no more nodes than it may (ClaimRegistrationToken,
\* ReleaseRegistrationToken).
THEOREM NotOverused == TokenSpec => []NeverOverused
<1>1. TokenInit => UsesCounted
  <2>1. TokenInit => Spent = {}
    BY DEF TokenInit, Spent
  <2> QED
    BY SMTT(20), <2>1, FS_EmptySet DEF TokenInit, UsesCounted
<1>2. SomeInv /\ UsesCounted => NeverOverused
  <2> SUFFICES ASSUME SomeInv, UsesCounted PROVE NeverOverused
    OBVIOUS
  <2> DEFINE N == {n \in Tokens : nodeToken[n] # 0}
  <2>1. N \subseteq Spent
    BY DEF Spent
  <2>2. Cardinality(N) <= Cardinality(Spent) /\ Cardinality(N) \in Nat
    BY <2>1, SpentIsFinite, FS_Subset, FS_CardinalityType
  <2>3. usedCount \in 0..MaxUses
    BY DEF SomeInv, TokenInv, TypeInv
  <2> QED
    BY <2>2, <2>3, SpentIsFinite, TokenAssumption DEF UsesCounted, NeverOverused
<1> QED
  BY TokenInitial, TokenStep, UsesStep, <1>1, <1>2, PTL DEF TokenSpec

==============================================================================
