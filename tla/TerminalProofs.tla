--------------------------- MODULE TerminalProofs ---------------------------
(* Proofs about NodeTerminal, for any number of nodes, host keys, dialogs   *)
(* and sockets.                                                             *)
EXTENDS NodeTerminal, TLAPS

\* A dialog that is shown has been opened, for a node; a socket that is open
\* belongs to a dialog and a node.
SocketsBelong ==
  /\ termVisible => termOpened \in TermDialogs /\ termCur \in Nodes
  /\ \A s \in Sockets : Open(s) => /\ termSock[s].form \in TermDialogs
                                   /\ termSock[s].node \in Nodes

TermTypeInv == TermTypeOK /\ SocketsBelong

LEMMA TermTypeInit == TermInit => TermTypeInv
<1> SUFFICES ASSUME TermInit PROVE TermTypeInv
  OBVIOUS
<1> USE TermAssumption DEF TermInit
<1>1. TermTypeOK
  <2>1. Socket("unused") \in [st : SockStates, form : 0..MaxDialogs,
                             node : Nodes \cup {None}, fp : HostKeys \cup {None}]
    BY DEF Socket, SockStates
  <2>2. /\ termForm \in [TermDialogs -> HostKeys \cup {None}]
        /\ termSock \in [Sockets -> [st : SockStates, form : 0..MaxDialogs,
                                     node : Nodes \cup {None}, fp : HostKeys \cup {None}]]
    BY <2>1
  <2>3. /\ termVisible \in BOOLEAN /\ termConnecting \in BOOLEAN
        /\ term \in BOOLEAN /\ termMounted \in BOOLEAN
        /\ termDoubled \in BOOLEAN /\ termAbandoned \in BOOLEAN /\ termMoved \in BOOLEAN
    OBVIOUS
  <2>4. /\ termState \in {"form", "hostkey", "term"} /\ termHostKey \in HostKeys \cup {None}
        /\ termOpened \in 0..MaxDialogs /\ termCur \in Nodes \cup {None}
        /\ termWs \in 0..MaxSockets /\ termHost \in [Nodes -> HostKeys]
        /\ termConfirmed \in SUBSET (TermDialogs \X (HostKeys \cup {None}))
    OBVIOUS
  <2>5. QED
    BY <2>2, <2>3, <2>4 DEF TermTypeOK
<1>2. SocketsBelong
  BY DEF SocketsBelong, Open, Socket, Talking
<1>3. QED
  BY <1>1, <1>2 DEF TermTypeInv

SockType == [st : SockStates, form : 0..MaxDialogs,
             node : Nodes \cup {None}, fp : HostKeys \cup {None}]

LEMMA NewSocketTypes ==
  ASSUME TermTypeInv, NEW s \in Sockets, NewSocket(s), termVisible
  PROVE  /\ termSock' \in [Sockets -> SockType]
         /\ termWs' \in 0..MaxSockets
         /\ termConnecting' \in BOOLEAN /\ termDoubled' \in BOOLEAN
         /\ termAbandoned' \in BOOLEAN /\ termMoved' \in BOOLEAN
         /\ termCur' \in Nodes
         /\ \A r \in Sockets : termSock'[r].st \in Talking \cup {"ended"} =>
              /\ termSock'[r].form \in TermDialogs
              /\ termSock'[r].node \in Nodes
<1> USE TermAssumption DEF TermTypeInv, TermTypeOK, SockType
<1>1. /\ termSock' = [termSock EXCEPT ![s] =
                       [termSock[s] EXCEPT !.st = "opening", !.form = termOpened,
                                           !.node = termCur]]
      /\ termOpened \in TermDialogs /\ termCur \in Nodes
  BY DEF NewSocket, SocketsBelong
<1>2. termSock[s] \in SockType /\ "opening" \in SockStates
  BY DEF SockStates, Talking
<1>3. [termSock[s] EXCEPT !.st = "opening", !.form = termOpened, !.node = termCur] \in SockType
  BY <1>1, <1>2 DEF TermDialogs
<1>4. termSock' \in [Sockets -> SockType]
  BY <1>1, <1>3
<1>5. \A r \in Sockets : termSock'[r].st \in Talking \cup {"ended"} =>
              /\ termSock'[r].form \in TermDialogs
              /\ termSock'[r].node \in Nodes
  <2> TAKE r \in Sockets
  <2>1. CASE r = s
    BY <2>1, <1>1, <1>2
  <2>2. CASE r # s
    BY <2>2, <1>1 DEF SocketsBelong, Open
  <2>3. QED
    BY <2>1, <2>2
<1>6. termWs' \in 0..MaxSockets
  BY DEF NewSocket, Sockets
<1>7. /\ termConnecting' \in BOOLEAN /\ termDoubled' \in BOOLEAN
      /\ termAbandoned' \in BOOLEAN /\ termMoved' \in BOOLEAN
  BY DEF NewSocket
<1>8. termCur' \in Nodes
  BY <1>1 DEF NewSocket
<1>9. QED
  BY <1>4, <1>5, <1>6, <1>7, <1>8

\* What an action that only moves a socket on, or closes it, does to its record.
LEMMA SocketStep ==
  ASSUME TermTypeInv, NEW s \in Sockets, NEW x \in SockType,
         termSock' = [termSock EXCEPT ![s] = x],
         x.st \in Talking \cup {"ended"} => x.form \in TermDialogs /\ x.node \in Nodes
  PROVE  /\ termSock' \in [Sockets -> SockType]
         /\ \A r \in Sockets : termSock'[r].st \in Talking \cup {"ended"} =>
              /\ termSock'[r].form \in TermDialogs
              /\ termSock'[r].node \in Nodes
<1> USE DEF TermTypeInv, TermTypeOK, SockType
<1>1. termSock' \in [Sockets -> SockType]
  OBVIOUS
<1>2. ASSUME NEW r \in Sockets, termSock'[r].st \in Talking \cup {"ended"}
      PROVE  termSock'[r].form \in TermDialogs /\ termSock'[r].node \in Nodes
  <2>1. CASE r = s
    BY <2>1, <1>2
  <2>2. CASE r # s
    BY <2>2, <1>2 DEF SocketsBelong, Open
  <2>3. QED
    BY <2>1, <2>2
<1>3. QED
  BY <1>1, <1>2

LEMMA ClosedTypes ==
  ASSUME TermTypeInv, termSock' = ClosedCurrent
  PROVE  /\ termSock' \in [Sockets -> SockType]
         /\ \A r \in Sockets : termSock'[r].st \in Talking \cup {"ended"} =>
              /\ termSock'[r].form \in TermDialogs
              /\ termSock'[r].node \in Nodes
<1> USE DEF TermTypeInv, TermTypeOK, SockType
<1>1. CASE termWs = 0
  BY <1>1 DEF ClosedCurrent, SocketsBelong, Open
<1>2. CASE termWs # 0
  <2>1. termWs \in Sockets
    BY <1>2, TermAssumption DEF Sockets
  <2>2. Socket("closed") \in SockType /\ Socket("closed").st \notin Talking \cup {"ended"}
    BY TermAssumption DEF Socket, SockStates, Talking
  <2>3. termSock' = [termSock EXCEPT ![termWs] = Socket("closed")]
    BY <1>2 DEF ClosedCurrent
  <2>4. QED
    BY <2>1, <2>2, <2>3, SocketStep
<1>3. QED
  BY <1>1, <1>2

\* What the record of every socket must be like.
SocksOK(sock) ==
  /\ sock \in [Sockets -> SockType]
  /\ \A r \in Sockets : sock[r].st \in Talking \cup {"ended"} =>
       sock[r].form \in TermDialogs /\ sock[r].node \in Nodes

LEMMA MovedOn ==
  ASSUME TermTypeInv, NEW s \in Sockets, Open(s), NEW st \in SockStates,
         termSock' = [termSock EXCEPT ![s].st = st]
  PROVE  SocksOK(termSock')
<1>1. termSock[s] \in SockType
  BY DEF TermTypeInv, TermTypeOK, SockType
<1>2. termSock[s].form \in TermDialogs /\ termSock[s].node \in Nodes
  BY DEF TermTypeInv, SocketsBelong
<1> DEFINE x == [termSock[s] EXCEPT !.st = st]
<1>3. x \in SockType /\ x.form \in TermDialogs /\ x.node \in Nodes
  BY <1>1, <1>2 DEF SockType
<1>4. termSock' = [termSock EXCEPT ![s] = x]
  OBVIOUS
<1> HIDE DEF x
<1>5. QED
  BY <1>3, <1>4, SocketStep DEF SocksOK

LEMMA TermTypeStep == TermTypeInv /\ [TermNext]_termVars => TermTypeInv'
<1> SUFFICES ASSUME TermTypeInv, [TermNext]_termVars
             PROVE  TermTypeInv'
  OBVIOUS
<1> DEFINE Others   == /\ termState' \in {"form", "hostkey", "term"} /\ termHostKey' \in HostKeys \cup {None}
                      /\ termOpened' \in 0..MaxDialogs /\ termWs' \in 0..MaxSockets
                      /\ termForm' \in [TermDialogs -> HostKeys \cup {None}]
                      /\ termHost' \in [Nodes -> HostKeys] /\ termCur' \in Nodes \cup {None}
                      /\ termConfirmed' \in SUBSET (TermDialogs \X (HostKeys \cup {None}))
           Booleans == /\ termVisible' \in BOOLEAN /\ termConnecting' \in BOOLEAN
                       /\ term' \in BOOLEAN /\ termMounted' \in BOOLEAN
                       /\ termDoubled' \in BOOLEAN /\ termAbandoned' \in BOOLEAN /\ termMoved' \in BOOLEAN
           DialogOfANode == termVisible' => termOpened' \in TermDialogs /\ termCur' \in Nodes
<1> USE TermAssumption
<1>1. ASSUME NEW n \in Nodes, openTerminal(n) PROVE TermTypeInv'
  <2>1. SocksOK(termSock')
    BY <1>1 DEF openTerminal, termHist, TermTypeInv, TermTypeOK, SocketsBelong, SocksOK, SockType, Open
  <2>2. Others
    BY <1>1 DEF openTerminal, termHist, TermTypeInv, TermTypeOK, SocketsBelong, TermDialogs
  <2>3. Booleans
    BY <1>1 DEF openTerminal, termHist, TermTypeInv, TermTypeOK
  <2>4. DialogOfANode
    BY <1>1 DEF openTerminal, termHist, TermTypeInv, TermTypeOK, SocketsBelong, TermDialogs
  <2>5. QED
    BY <2>1, <2>2, <2>3, <2>4 DEF TermTypeInv, TermTypeOK, SocketsBelong, Open, SocksOK, SockType
<1>2. ASSUME NEW n \in Nodes, DetailComes(n) PROVE TermTypeInv'
  <2>1. SocksOK(termSock')
    BY <1>2 DEF DetailComes, termHist, TermTypeInv, TermTypeOK, SocketsBelong, SocksOK, SockType, Open
  <2>2. Others
    BY <1>2 DEF DetailComes, termHist, TermTypeInv, TermTypeOK, SocketsBelong
  <2>3. Booleans
    BY <1>2 DEF DetailComes, termHist, TermTypeInv, TermTypeOK
  <2>4. DialogOfANode
    BY <1>2 DEF DetailComes, termHist, TermTypeInv, TermTypeOK, SocketsBelong
  <2>5. QED
    BY <2>1, <2>2, <2>3, <2>4 DEF TermTypeInv, TermTypeOK, SocketsBelong, Open, SocksOK, SockType
<1>3. ASSUME NEW s \in Sockets, connectTerminal(s) PROVE TermTypeInv'
  <2>0. termVisible /\ NewSocket(s)
    BY <1>3 DEF connectTerminal
  <2>1. /\ SocksOK(termSock') /\ termWs' \in 0..MaxSockets
        /\ termConnecting' \in BOOLEAN /\ termDoubled' \in BOOLEAN
        /\ termAbandoned' \in BOOLEAN /\ termMoved' \in BOOLEAN
        /\ termCur' \in Nodes
    BY <2>0, NewSocketTypes DEF SocksOK
  <2>2. Others
    BY <1>3, <2>1 DEF connectTerminal, termHist, TermTypeInv, TermTypeOK, SocketsBelong
  <2>3. Booleans
    BY <1>3, <2>1 DEF connectTerminal, termHist, TermTypeInv, TermTypeOK
  <2>4. DialogOfANode
    BY <1>3, <2>1 DEF connectTerminal, termHist, TermTypeInv, TermTypeOK, SocketsBelong
  <2>5. QED
    BY <2>1, <2>2, <2>3, <2>4 DEF TermTypeInv, TermTypeOK, SocketsBelong, Open, SocksOK, SockType
<1>4. ASSUME NEW s \in Sockets, confirmHostKey(s) PROVE TermTypeInv'
  <2>0. termVisible /\ NewSocket(s)
    BY <1>4 DEF confirmHostKey
  <2>1. /\ SocksOK(termSock') /\ termWs' \in 0..MaxSockets
        /\ termConnecting' \in BOOLEAN /\ termDoubled' \in BOOLEAN
        /\ termAbandoned' \in BOOLEAN /\ termMoved' \in BOOLEAN
        /\ termCur' \in Nodes
    BY <2>0, NewSocketTypes DEF SocksOK
  <2>2. Others
    BY <1>4, <2>1 DEF confirmHostKey, termHist, TermTypeInv, TermTypeOK, SocketsBelong
  <2>3. Booleans
    BY <1>4, <2>1 DEF confirmHostKey, termHist, TermTypeInv, TermTypeOK
  <2>4. DialogOfANode
    BY <1>4, <2>1 DEF confirmHostKey, termHist, TermTypeInv, TermTypeOK, SocketsBelong
  <2>5. QED
    BY <2>1, <2>2, <2>3, <2>4 DEF TermTypeInv, TermTypeOK, SocketsBelong, Open, SocksOK, SockType
<1>5. ASSUME NEW s \in Sockets, onopen(s) PROVE TermTypeInv'
  <2>1. SocksOK(termSock')
    <3> DEFINE x == [termSock[s] EXCEPT !.st = "dialing", !.fp = termForm[termSock[s].form]]
    <3>1. termSock[s] \in SockType /\ "dialing" \in SockStates
      BY DEF TermTypeInv, TermTypeOK, SockType, SockStates, Talking
    <3>2. termSock[s].form \in TermDialogs /\ termSock[s].node \in Nodes
      BY <1>5 DEF onopen, Open, Talking, TermTypeInv, SocketsBelong
    <3>3. termForm[termSock[s].form] \in HostKeys \cup {None}
      BY <3>2 DEF TermTypeInv, TermTypeOK
    <3>4. x \in SockType /\ x.form \in TermDialogs /\ x.node \in Nodes
      BY <3>1, <3>2, <3>3 DEF SockType
    <3>5. termSock' = [termSock EXCEPT ![s] = x]
      BY <1>5 DEF onopen
    <3> HIDE DEF x
    <3>6. QED
      BY <3>4, <3>5, SocketStep DEF SocksOK
  <2>2. Others
    BY <1>5 DEF onopen, termHist, TermTypeInv, TermTypeOK, SocketsBelong
  <2>3. Booleans
    BY <1>5 DEF onopen, termHist, TermTypeInv, TermTypeOK
  <2>4. DialogOfANode
    BY <1>5 DEF onopen, termHist, TermTypeInv, TermTypeOK, SocketsBelong
  <2>5. QED
    BY <2>1, <2>2, <2>3, <2>4 DEF TermTypeInv, TermTypeOK, SocketsBelong, Open, SocksOK, SockType
<1>6. ASSUME NEW s \in Sockets, HostKeyFrame(s) PROVE TermTypeInv'
  <2>0. HostOf(s) \in HostKeys
    BY <1>6 DEF HostKeyFrame, HostOf, Open, Talking, TermTypeInv, TermTypeOK, SocketsBelong
  <2>1. SocksOK(termSock')
    <3>1. Open(s) /\ "asked" \in SockStates /\ termSock' = [termSock EXCEPT ![s].st = "asked"]
      BY <1>6 DEF HostKeyFrame, Open, Talking, SockStates
    <3>2. QED
      BY <3>1, MovedOn
  <2>2. Others
    BY <1>6, <2>0 DEF HostKeyFrame, termHist, TermTypeInv, TermTypeOK, SocketsBelong
  <2>3. Booleans
    BY <1>6 DEF HostKeyFrame, termHist, TermTypeInv, TermTypeOK
  <2>4. DialogOfANode
    BY <1>6 DEF HostKeyFrame, termHist, TermTypeInv, TermTypeOK, SocketsBelong
  <2>5. QED
    BY <2>1, <2>2, <2>3, <2>4 DEF TermTypeInv, TermTypeOK, SocketsBelong, Open, SocksOK, SockType
<1>7. ASSUME NEW s \in Sockets, StartedFrame(s) PROVE TermTypeInv'
  <2>1. SocksOK(termSock')
    <3>1. Open(s) /\ "shell" \in SockStates /\ termSock' = [termSock EXCEPT ![s].st = "shell"]
      BY <1>7 DEF StartedFrame, Open, Talking, SockStates
    <3>2. QED
      BY <3>1, MovedOn
  <2>2. Others
    BY <1>7 DEF StartedFrame, termHist, TermTypeInv, TermTypeOK, SocketsBelong
  <2>3. Booleans
    BY <1>7 DEF StartedFrame, termHist, TermTypeInv, TermTypeOK
  <2>4. DialogOfANode
    BY <1>7 DEF StartedFrame, termHist, TermTypeInv, TermTypeOK, SocketsBelong
  <2>5. QED
    BY <2>1, <2>2, <2>3, <2>4 DEF TermTypeInv, TermTypeOK, SocketsBelong, Open, SocksOK, SockType
<1>8. ASSUME NEW s \in Sockets, ErrorFrame(s) PROVE TermTypeInv'
  <2>1. SocksOK(termSock')
    <3>1. Open(s) /\ "ended" \in SockStates /\ termSock' = [termSock EXCEPT ![s].st = "ended"]
      BY <1>8 DEF ErrorFrame, Open, Talking, SockStates
    <3>2. QED
      BY <3>1, MovedOn
  <2>2. Others
    BY <1>8 DEF ErrorFrame, termHist, TermTypeInv, TermTypeOK, SocketsBelong
  <2>3. Booleans
    BY <1>8 DEF ErrorFrame, termHist, TermTypeInv, TermTypeOK
  <2>4. DialogOfANode
    BY <1>8 DEF ErrorFrame, termHist, TermTypeInv, TermTypeOK, SocketsBelong
  <2>5. QED
    BY <2>1, <2>2, <2>3, <2>4 DEF TermTypeInv, TermTypeOK, SocketsBelong, Open, SocksOK, SockType
<1>9. ASSUME NEW s \in Sockets, Ends(s) PROVE TermTypeInv'
  <2>1. SocksOK(termSock')
    <3>1. Open(s) /\ "ended" \in SockStates /\ termSock' = [termSock EXCEPT ![s].st = "ended"]
      BY <1>9 DEF Ends, Open, Talking, SockStates
    <3>2. QED
      BY <3>1, MovedOn
  <2>2. Others
    BY <1>9 DEF Ends, termHist, TermTypeInv, TermTypeOK, SocketsBelong
  <2>3. Booleans
    BY <1>9 DEF Ends, termHist, TermTypeInv, TermTypeOK
  <2>4. DialogOfANode
    BY <1>9 DEF Ends, termHist, TermTypeInv, TermTypeOK, SocketsBelong
  <2>5. QED
    BY <2>1, <2>2, <2>3, <2>4 DEF TermTypeInv, TermTypeOK, SocketsBelong, Open, SocksOK, SockType
<1>10. ASSUME NEW s \in Sockets, onclose(s) PROVE TermTypeInv'
  <2>1. SocksOK(termSock')
    <3>1. Socket("closed") \in SockType /\ Socket("closed").st \notin Talking \cup {"ended"}
      BY DEF Socket, SockType, SockStates, Talking
    <3>2. QED
      BY <1>10, <3>1, SocketStep DEF onclose, SocksOK
  <2>2. Others
    BY <1>10 DEF onclose, termHist, TermTypeInv, TermTypeOK, SocketsBelong
  <2>3. Booleans
    BY <1>10 DEF onclose, termHist, TermTypeInv, TermTypeOK
  <2>4. DialogOfANode
    BY <1>10 DEF onclose, termHist, TermTypeInv, TermTypeOK, SocketsBelong
  <2>5. QED
    BY <2>1, <2>2, <2>3, <2>4 DEF TermTypeInv, TermTypeOK, SocketsBelong, Open, SocksOK, SockType
<1>11. ASSUME cancelHostKey PROVE TermTypeInv'
  <2>1. SocksOK(termSock')
    BY <1>11, ClosedTypes DEF cancelHostKey, teardownTerm, closeTermWs, SocksOK
  <2>2. Others
    BY <1>11 DEF cancelHostKey, teardownTerm, closeTermWs, termHist, TermTypeInv, TermTypeOK, SocketsBelong
  <2>3. Booleans
    BY <1>11 DEF cancelHostKey, teardownTerm, closeTermWs, termHist, TermTypeInv, TermTypeOK
  <2>4. DialogOfANode
    BY <1>11 DEF cancelHostKey, teardownTerm, closeTermWs, termHist, TermTypeInv, TermTypeOK, SocketsBelong
  <2>5. QED
    BY <2>1, <2>2, <2>3, <2>4 DEF TermTypeInv, TermTypeOK, SocketsBelong, Open, SocksOK, SockType
<1>12. ASSUME clearFingerprint PROVE TermTypeInv'
  <2>1. SocksOK(termSock')
    BY <1>12 DEF clearFingerprint, termHist, TermTypeInv, TermTypeOK, SocketsBelong, SocksOK, SockType, Open
  <2>2. Others
    BY <1>12 DEF clearFingerprint, termHist, TermTypeInv, TermTypeOK, SocketsBelong
  <2>3. Booleans
    BY <1>12 DEF clearFingerprint, termHist, TermTypeInv, TermTypeOK
  <2>4. DialogOfANode
    BY <1>12 DEF clearFingerprint, termHist, TermTypeInv, TermTypeOK, SocketsBelong
  <2>5. QED
    BY <2>1, <2>2, <2>3, <2>4 DEF TermTypeInv, TermTypeOK, SocketsBelong, Open, SocksOK, SockType
<1>13. ASSUME closeTerminalConn PROVE TermTypeInv'
  <2>1. SocksOK(termSock')
    BY <1>13, ClosedTypes DEF closeTerminalConn, teardownTerm, closeTermWs, SocksOK
  <2>2. Others
    BY <1>13 DEF closeTerminalConn, teardownTerm, closeTermWs, termHist, TermTypeInv, TermTypeOK, SocketsBelong
  <2>3. Booleans
    BY <1>13 DEF closeTerminalConn, teardownTerm, closeTermWs, termHist, TermTypeInv, TermTypeOK
  <2>4. DialogOfANode
    BY <1>13 DEF closeTerminalConn, teardownTerm, closeTermWs, termHist, TermTypeInv, TermTypeOK, SocketsBelong
  <2>5. QED
    BY <2>1, <2>2, <2>3, <2>4 DEF TermTypeInv, TermTypeOK, SocketsBelong, Open, SocksOK, SockType
<1>14. ASSUME closeTerminal PROVE TermTypeInv'
  <2>1. SocksOK(termSock')
    BY <1>14, ClosedTypes DEF closeTerminal, teardownTerm, closeTermWs, SocksOK
  <2>2. Others
    BY <1>14 DEF closeTerminal, teardownTerm, closeTermWs, termHist, TermTypeInv, TermTypeOK, SocketsBelong
  <2>3. Booleans
    BY <1>14 DEF closeTerminal, teardownTerm, closeTermWs, termHist, TermTypeInv, TermTypeOK
  <2>4. DialogOfANode
    BY <1>14 DEF closeTerminal, teardownTerm, closeTermWs, termHist, TermTypeInv, TermTypeOK, SocketsBelong
  <2>5. QED
    BY <2>1, <2>2, <2>3, <2>4 DEF TermTypeInv, TermTypeOK, SocketsBelong, Open, SocksOK, SockType
<1>15. ASSUME onBeforeUnmount PROVE TermTypeInv'
  <2>1. SocksOK(termSock')
    BY <1>15, ClosedTypes DEF onBeforeUnmount, teardownTerm, closeTermWs, SocksOK
  <2>2. Others
    BY <1>15 DEF onBeforeUnmount, teardownTerm, closeTermWs, termHist, TermTypeInv, TermTypeOK, SocketsBelong
  <2>3. Booleans
    BY <1>15 DEF onBeforeUnmount, teardownTerm, closeTermWs, termHist, TermTypeInv, TermTypeOK
  <2>4. DialogOfANode
    BY <1>15 DEF onBeforeUnmount, teardownTerm, closeTermWs, termHist, TermTypeInv, TermTypeOK, SocketsBelong
  <2>5. QED
    BY <2>1, <2>2, <2>3, <2>4 DEF TermTypeInv, TermTypeOK, SocketsBelong, Open, SocksOK, SockType
<1>16. ASSUME NEW n \in Nodes, NEW k \in HostKeys, NewHostKey(n, k) PROVE TermTypeInv'
  <2>1. SocksOK(termSock')
    BY <1>16 DEF NewHostKey, termHist, TermTypeInv, TermTypeOK, SocketsBelong, SocksOK, SockType, Open
  <2>2. Others
    BY <1>16 DEF NewHostKey, termHist, TermTypeInv, TermTypeOK, SocketsBelong
  <2>3. Booleans
    BY <1>16 DEF NewHostKey, termHist, TermTypeInv, TermTypeOK
  <2>4. DialogOfANode
    BY <1>16 DEF NewHostKey, termHist, TermTypeInv, TermTypeOK, SocketsBelong
  <2>5. QED
    BY <2>1, <2>2, <2>3, <2>4 DEF TermTypeInv, TermTypeOK, SocketsBelong, Open, SocksOK, SockType
<1>17. ASSUME UNCHANGED termVars PROVE TermTypeInv'
  <2>1. SocksOK(termSock')
    BY <1>17 DEF termVars, termHist, TermTypeInv, TermTypeOK, SocketsBelong, SocksOK, SockType, Open
  <2>2. Others
    BY <1>17 DEF termVars, termHist, TermTypeInv, TermTypeOK, SocketsBelong
  <2>3. Booleans
    BY <1>17 DEF termVars, termHist, TermTypeInv, TermTypeOK
  <2>4. DialogOfANode
    BY <1>17 DEF termVars, termHist, TermTypeInv, TermTypeOK, SocketsBelong
  <2>5. QED
    BY <2>1, <2>2, <2>3, <2>4 DEF TermTypeInv, TermTypeOK, SocketsBelong, Open, SocksOK, SockType
<1>18. QED
  BY <1>1, <1>2, <1>3, <1>4, <1>5, <1>6, <1>7, <1>8, <1>9, <1>10, <1>11, <1>12, <1>13, <1>14, <1>15, <1>16, <1>17 DEF TermNext

\* Every variable keeps its type.
THEOREM TerminalTyped == TermSpec => []TermTypeOK
<1>1. TermTypeInv => TermTypeOK
  BY DEF TermTypeInv
<1>2. QED
  BY TermTypeInit, TermTypeStep, <1>1, PTL DEF TermSpec

-----------------------------------------------------------------------------
(* A shell has been vouched for *)

\* Every fingerprint pinned in a form, or sent by a socket, was confirmed in
\* that form's dialog; a shell was opened with one.
Pinned ==
  /\ \A d \in TermDialogs : termForm[d] # None => <<d, termForm[d]>> \in termConfirmed
  /\ \A s \in Sockets :
       /\ termSock[s].st \in {"dialing", "asked", "shell"} /\ termSock[s].fp # None =>
            <<termSock[s].form, termSock[s].fp>> \in termConfirmed
       /\ termSock[s].st = "shell" => termSock[s].fp # None

\* The first half alone.
FormsPinned ==
  \A d \in TermDialogs : termForm[d] # None => <<d, termForm[d]>> \in termConfirmed

\* What the second half asks of the record of a socket.
SentPin(x, conf) ==
  /\ x.st \in {"dialing", "asked", "shell"} /\ x.fp # None => <<x.form, x.fp>> \in conf
  /\ x.st = "shell" => x.fp # None

LEMMA PinnedParts ==
  Pinned <=> FormsPinned /\ \A s \in Sockets : SentPin(termSock[s], termConfirmed)
BY DEF Pinned, FormsPinned, SentPin

\* A step that changes the record of one socket, and no form, keeps Pinned if
\* the new record is as it must be.
LEMMA PinnedSock ==
  ASSUME TermTypeInv, Pinned, NEW s \in Sockets, NEW x,
         termSock' = [termSock EXCEPT ![s] = x],
         UNCHANGED <<termForm, termConfirmed>>, SentPin(x, termConfirmed)
  PROVE  Pinned'
<1>1. FormsPinned'
  BY DEF Pinned, FormsPinned
<1>2. ASSUME NEW r \in Sockets PROVE SentPin(termSock'[r], termConfirmed')
  <2>1. CASE r = s
    BY <2>1 DEF TermTypeInv, TermTypeOK
  <2>2. CASE r # s
    BY <2>2, PinnedParts DEF TermTypeInv, TermTypeOK
  <2>3. QED
    BY <2>1, <2>2
<1>3. QED
  BY <1>1, <1>2 DEF Pinned, FormsPinned, SentPin

LEMMA PinnedClosed ==
  ASSUME TermTypeInv, Pinned, closeTermWs, UNCHANGED <<termForm, termConfirmed>>
  PROVE  Pinned'
<1>1. CASE termWs = 0
  BY <1>1 DEF closeTermWs, ClosedCurrent, Pinned
<1>2. CASE termWs # 0
  <2>1. termWs \in Sockets
    BY <1>2, TermAssumption DEF Sockets, TermTypeInv, TermTypeOK
  <2>2. SentPin(Socket("closed"), termConfirmed)
    BY DEF SentPin, Socket
  <2>3. termSock' = [termSock EXCEPT ![termWs] = Socket("closed")]
    BY <1>2 DEF closeTermWs, ClosedCurrent
  <2>4. QED
    BY <2>1, <2>2, <2>3, PinnedSock
<1>3. QED
  BY <1>1, <1>2

LEMMA PinnedInit == TermInit => Pinned
<1> SUFFICES ASSUME TermInit PROVE Pinned
  OBVIOUS
<1>1. QED
  BY DEF TermInit, Pinned, Socket

LEMMA PinnedStep == TermTypeInv /\ Pinned /\ [TermNext]_termVars => Pinned'
<1> SUFFICES ASSUME TermTypeInv, Pinned, [TermNext]_termVars
             PROVE  Pinned'
  OBVIOUS
<1> USE TermAssumption
<1>1. ASSUME NEW n \in Nodes, openTerminal(n) PROVE Pinned'
  <2>1. /\ UNCHANGED <<termSock, termConfirmed>>
        /\ termForm' = [termForm EXCEPT ![termOpened + 1] = None]
    BY <1>1 DEF openTerminal
  <2>2. FormsPinned'
    BY <2>1 DEF Pinned, FormsPinned, TermTypeInv, TermTypeOK
  <2>3. QED
    BY <2>1, <2>2 DEF Pinned, FormsPinned
<1>2. ASSUME NEW s \in Sockets, connectTerminal(s) PROVE Pinned'
  <2> DEFINE x == [termSock[s] EXCEPT !.st = "opening", !.form = termOpened, !.node = termCur]
  <2>1. /\ termSock' = [termSock EXCEPT ![s] = x]
        /\ UNCHANGED <<termForm, termConfirmed>>
    BY <1>2 DEF connectTerminal, NewSocket
  <2>2. x.st = "opening"
    BY DEF TermTypeInv, TermTypeOK
  <2> HIDE DEF x
  <2>3. SentPin(x, termConfirmed)
    BY <2>2 DEF SentPin
  <2>4. QED
    BY <2>1, <2>3, PinnedSock
<1>3. ASSUME NEW s \in Sockets, confirmHostKey(s) PROVE Pinned'
  <2> DEFINE x == [termSock[s] EXCEPT !.st = "opening", !.form = termOpened, !.node = termCur]
  <2>1. /\ termSock' = [termSock EXCEPT ![s] = x]
        /\ termForm' = [termForm EXCEPT ![termOpened] = termHostKey]
        /\ termConfirmed' = termConfirmed \cup {<<termOpened, termHostKey>>}
    BY <1>3 DEF confirmHostKey, NewSocket
  <2>2. x.st = "opening"
    BY DEF TermTypeInv, TermTypeOK
  <2> HIDE DEF x
  <2>3. FormsPinned'
    BY <2>1 DEF Pinned, FormsPinned, TermTypeInv, TermTypeOK
  <2>4. ASSUME NEW r \in Sockets PROVE SentPin(termSock'[r], termConfirmed')
    <3>1. CASE r = s
      BY <3>1, <2>1, <2>2 DEF SentPin, TermTypeInv, TermTypeOK
    <3>2. CASE r # s
      <4>1. termSock'[r] = termSock[r]
        BY <3>2, <2>1 DEF TermTypeInv, TermTypeOK
      <4>2. SentPin(termSock[r], termConfirmed)
        BY PinnedParts
      <4>3. QED
        BY <4>1, <4>2, <2>1 DEF SentPin
    <3>3. QED
      BY <3>1, <3>2
  <2>5. QED
    BY <2>3, <2>4 DEF Pinned, FormsPinned, SentPin
<1>4. ASSUME clearFingerprint PROVE Pinned'
  <2>1. /\ UNCHANGED <<termSock, termConfirmed>>
        /\ termForm' = [termForm EXCEPT ![termOpened] = None]
    BY <1>4 DEF clearFingerprint, termHist
  <2>2. FormsPinned'
    BY <2>1 DEF Pinned, FormsPinned, TermTypeInv, TermTypeOK
  <2>3. QED
    BY <2>1, <2>2 DEF Pinned, FormsPinned
<1>5. ASSUME NEW s \in Sockets, onopen(s) PROVE Pinned'
  <2> DEFINE x == [termSock[s] EXCEPT !.st = "dialing", !.fp = termForm[termSock[s].form]]
  <2>1. /\ termSock' = [termSock EXCEPT ![s] = x]
        /\ UNCHANGED <<termForm, termConfirmed>>
    BY <1>5 DEF onopen, termHist
  <2>2. termSock[s].form \in TermDialogs
    BY <1>5 DEF onopen, Open, Talking, TermTypeInv, SocketsBelong
  <2>3. x.st = "dialing" /\ x.form = termSock[s].form /\ x.fp = termForm[x.form]
    BY DEF TermTypeInv, TermTypeOK
  <2> HIDE DEF x
  <2>4. SentPin(x, termConfirmed)
    BY <2>2, <2>3 DEF SentPin, Pinned
  <2>5. QED
    BY <2>1, <2>4, PinnedSock
<1>6. ASSUME NEW s \in Sockets, HostKeyFrame(s) PROVE Pinned'
  <2> DEFINE x == [termSock[s] EXCEPT !.st = "asked"]
  <2>1. /\ termSock' = [termSock EXCEPT ![s] = x]
        /\ UNCHANGED <<termForm, termConfirmed>>
        /\ termSock[s].fp = None
    BY <1>6 DEF HostKeyFrame, termHist
  <2>2. x.st = "asked" /\ x.fp = None
    BY <2>1 DEF TermTypeInv, TermTypeOK
  <2> HIDE DEF x
  <2>3. SentPin(x, termConfirmed)
    BY <2>2 DEF SentPin
  <2>4. QED
    BY <2>1, <2>3, PinnedSock
<1>7. ASSUME NEW s \in Sockets, StartedFrame(s) PROVE Pinned'
  <2> DEFINE x == [termSock[s] EXCEPT !.st = "shell"]
  <2>1. /\ termSock' = [termSock EXCEPT ![s] = x]
        /\ UNCHANGED <<termForm, termConfirmed>>
        /\ termSock[s].st = "dialing" /\ termSock[s].fp = HostOf(s)
    BY <1>7 DEF StartedFrame, termHist
  <2>2. termSock[s].fp # None
    BY <2>1 DEF HostOf, Open, Talking, TermTypeInv, TermTypeOK, SocketsBelong
  <2>3. <<termSock[s].form, termSock[s].fp>> \in termConfirmed
    BY <2>1, <2>2 DEF Pinned
  <2>4. x.fp = termSock[s].fp /\ x.form = termSock[s].form
    BY DEF TermTypeInv, TermTypeOK
  <2> HIDE DEF x
  <2>5. SentPin(x, termConfirmed)
    BY <2>2, <2>3, <2>4 DEF SentPin
  <2>6. QED
    BY <2>1, <2>5, PinnedSock
<1>8. ASSUME NEW s \in Sockets, ErrorFrame(s) \/ Ends(s) PROVE Pinned'
  <2> DEFINE x == [termSock[s] EXCEPT !.st = "ended"]
  <2>1. /\ termSock' = [termSock EXCEPT ![s] = x]
        /\ UNCHANGED <<termForm, termConfirmed>>
    BY <1>8 DEF ErrorFrame, Ends, termHist
  <2>2. x.st = "ended"
    BY DEF TermTypeInv, TermTypeOK
  <2> HIDE DEF x
  <2>3. SentPin(x, termConfirmed)
    BY <2>2 DEF SentPin
  <2>4. QED
    BY <2>1, <2>3, PinnedSock
<1>9. ASSUME NEW s \in Sockets, onclose(s) PROVE Pinned'
  <2>1. /\ termSock' = [termSock EXCEPT ![s] = Socket("closed")]
        /\ UNCHANGED <<termForm, termConfirmed>>
    BY <1>9 DEF onclose, termHist
  <2>2. SentPin(Socket("closed"), termConfirmed)
    BY DEF SentPin, Socket
  <2>3. QED
    BY <2>1, <2>2, PinnedSock
<1>10. ASSUME cancelHostKey \/ closeTerminalConn \/ closeTerminal \/ onBeforeUnmount
       PROVE  Pinned'
  <2>1. closeTermWs /\ UNCHANGED <<termForm, termConfirmed>>
    BY <1>10 DEF cancelHostKey, closeTerminalConn, closeTerminal, onBeforeUnmount,
                 teardownTerm, termHist
  <2>2. QED
    BY <2>1, PinnedClosed
<1>11. ASSUME \/ \E n \in Nodes : DetailComes(n)
              \/ \E n \in Nodes, k \in HostKeys : NewHostKey(n, k)
              \/ UNCHANGED termVars
       PROVE  Pinned'
  <2>1. UNCHANGED <<termForm, termSock, termConfirmed>>
    BY <1>11 DEF DetailComes, NewHostKey, termVars, termHist
  <2>2. QED
    BY <2>1 DEF Pinned
<1>12. QED
  BY <1>1, <1>2, <1>3, <1>4, <1>5, <1>6, <1>7, <1>8, <1>9, <1>10, <1>11 DEF TermNext

\* A shell is opened only with a fingerprint the user has confirmed in the
\* dialog that asked for this shell (confirmHostKey, and the pin policy of the
\* server's end of the socket).
THEOREM ShellsAreVouchedFor == TermSpec => []ShellVouched
<1>1. TermTypeInv /\ Pinned => ShellVouched
  BY DEF Pinned, ShellVouched
<1>2. QED
  BY TermTypeInit, TermTypeStep, PinnedInit, PinnedStep, <1>1, PTL DEF TermSpec

-----------------------------------------------------------------------------
(* How the current socket, the other sockets and the dialog go together *)

\* The records that closeTermWs, the handlers of a socket and a new connection
\* leave: which sockets are open, and whose they are.
LEMMA ClosedOpen ==
  ASSUME TermTypeInv, closeTermWs
  PROVE  /\ termWs' = 0
         /\ \A s \in Sockets : Open(s)' => Open(s) /\ s # termWs
<1>1. CASE termWs = 0
  BY <1>1 DEF closeTermWs, ClosedCurrent, Open, Sockets
<1>2. CASE termWs # 0
  <2>1. termWs \in Sockets
    BY <1>2, TermAssumption DEF Sockets, TermTypeInv, TermTypeOK
  <2>2. termSock' = [termSock EXCEPT ![termWs] = Socket("closed")] /\ termWs' = 0
    BY <1>2 DEF closeTermWs, ClosedCurrent
  <2>3. Socket("closed").st = "closed"
    BY DEF Socket
  <2>4. ASSUME NEW s \in Sockets, Open(s)' PROVE Open(s) /\ s # termWs
    <3>1. CASE s = termWs
      BY <3>1, <2>1, <2>2, <2>3, <2>4 DEF Open, Talking, TermTypeInv, TermTypeOK
    <3>2. CASE s # termWs
      BY <3>2, <2>1, <2>2, <2>4 DEF Open, TermTypeInv, TermTypeOK
    <3>3. QED
      BY <3>1, <3>2
  <2>5. QED
    BY <2>2, <2>4
<1>3. QED
  BY <1>1, <1>2

LEMMA MovedOpen ==
  ASSUME TermTypeInv, NEW s \in Sockets,
         onopen(s) \/ HostKeyFrame(s) \/ StartedFrame(s) \/ ErrorFrame(s) \/ Ends(s)
  PROVE  /\ Open(s) /\ termWs' = termWs
         /\ \A r \in Sockets : /\ Open(r)' <=> Open(r)
                               /\ termSock'[r].form = termSock[r].form
                               /\ termSock'[r].node = termSock[r].node
<1>1. Open(s) /\ termWs' = termWs
  BY DEF onopen, HostKeyFrame, StartedFrame, ErrorFrame, Ends, Open, Talking
<1>2. PICK st, fp :
        /\ st \in Talking \cup {"ended"}
        /\ termSock' = [termSock EXCEPT ![s] = [termSock[s] EXCEPT !.st = st, !.fp = fp]]
  <2>1. CASE onopen(s)
    BY <2>1 DEF onopen, Talking
  <2>2. ASSUME NEW st \in {"asked", "shell", "ended"}, termSock' = [termSock EXCEPT ![s].st = st]
        PROVE  termSock' = [termSock EXCEPT ![s] =
                              [termSock[s] EXCEPT !.st = st, !.fp = termSock[s].fp]]
    <3>1. [termSock[s] EXCEPT !.st = st] = [termSock[s] EXCEPT !.st = st, !.fp = termSock[s].fp]
      BY DEF TermTypeInv, TermTypeOK
    <3>2. QED
      BY <2>2, <3>1
  <2>3. CASE ~onopen(s)
    BY <2>2, <2>3 DEF HostKeyFrame, StartedFrame, ErrorFrame, Ends, Talking
  <2>4. QED
    BY <2>1, <2>3
<1>3. ASSUME NEW r \in Sockets
      PROVE  /\ Open(r)' <=> Open(r)
             /\ termSock'[r].form = termSock[r].form
             /\ termSock'[r].node = termSock[r].node
  <2>1. CASE r = s
    BY <2>1, <1>1, <1>2 DEF Open, TermTypeInv, TermTypeOK
  <2>2. CASE r # s
    BY <2>2, <1>2 DEF Open, TermTypeInv, TermTypeOK
  <2>3. QED
    BY <2>1, <2>2
<1>4. QED
  BY <1>1, <1>3

LEMMA ClosedByServer ==
  ASSUME TermTypeInv, NEW s \in Sockets, onclose(s)
  PROVE  /\ Open(s) /\ termWs' = 0
         /\ \A r \in Sockets : Open(r)' => Open(r) /\ r # s
<1>1. /\ Open(s) /\ termWs' = 0
      /\ termSock' = [termSock EXCEPT ![s] = Socket("closed")]
  BY DEF onclose, Open
<1>2. Socket("closed").st = "closed"
  BY DEF Socket
<1>3. ASSUME NEW r \in Sockets, Open(r)' PROVE Open(r) /\ r # s
  <2>1. CASE r = s
    BY <2>1, <1>1, <1>2, <1>3 DEF Open, Talking, TermTypeInv, TermTypeOK
  <2>2. CASE r # s
    BY <2>2, <1>1, <1>3 DEF Open, TermTypeInv, TermTypeOK
  <2>3. QED
    BY <2>1, <2>2
<1>4. QED
  BY <1>1, <1>3

LEMMA NewOpen ==
  ASSUME TermTypeInv, NEW s \in Sockets, NewSocket(s)
  PROVE  /\ termWs' = s /\ Open(s)'
         /\ termSock'[s].form = termOpened /\ termSock'[s].node = termCur
         /\ termDoubled' = (termDoubled \/ \E r \in Sockets : Open(r))
         /\ \A r \in Sockets : r # s => (Open(r)' <=> Open(r))
<1>1. /\ termWs' = s
      /\ termDoubled' = (termDoubled \/ \E r \in Sockets : Open(r))
      /\ termSock' = [termSock EXCEPT ![s] =
                       [termSock[s] EXCEPT !.st = "opening", !.form = termOpened,
                                           !.node = termCur]]
  BY DEF NewSocket
<1>2. /\ termSock'[s].st = "opening" /\ termSock'[s].form = termOpened
      /\ termSock'[s].node = termCur
  BY <1>1 DEF TermTypeInv, TermTypeOK
<1>3. \A r \in Sockets : r # s => termSock'[r] = termSock[r]
  BY <1>1 DEF TermTypeInv, TermTypeOK
<1>4. QED
  BY <1>1, <1>2, <1>3 DEF Open, Talking

LEMMA OneSocketStep ==
  TermTypeInv /\ OneSocketUnlessDoubled /\ [TermNext]_termVars => OneSocketUnlessDoubled'
<1> SUFFICES ASSUME TermTypeInv, OneSocketUnlessDoubled, [TermNext]_termVars
             PROVE  OneSocketUnlessDoubled'
  OBVIOUS
<1>1. ASSUME NEW s \in Sockets, NewSocket(s) PROVE OneSocketUnlessDoubled'
  BY <1>1, NewOpen DEF OneSocketUnlessDoubled
<1>2. ASSUME closeTermWs, UNCHANGED termDoubled PROVE OneSocketUnlessDoubled'
  BY <1>2, ClosedOpen DEF OneSocketUnlessDoubled
<1>3. ASSUME NEW s \in Sockets,
             onopen(s) \/ HostKeyFrame(s) \/ StartedFrame(s) \/ ErrorFrame(s) \/ Ends(s)
      PROVE  OneSocketUnlessDoubled'
  <2>1. UNCHANGED termDoubled
    BY <1>3 DEF onopen, HostKeyFrame, StartedFrame, ErrorFrame, Ends, termHist
  <2>2. QED
    BY <1>3, <2>1, MovedOpen DEF OneSocketUnlessDoubled
<1>4. ASSUME NEW s \in Sockets, onclose(s) PROVE OneSocketUnlessDoubled'
  <2>1. UNCHANGED termDoubled
    BY <1>4 DEF onclose, termHist
  <2>2. QED
    BY <1>4, <2>1, ClosedByServer DEF OneSocketUnlessDoubled
<1>5. ASSUME UNCHANGED <<termSock, termWs, termDoubled>> PROVE OneSocketUnlessDoubled'
  BY <1>5 DEF OneSocketUnlessDoubled, Open
<1>6. CASE \E s \in Sockets : connectTerminal(s) \/ confirmHostKey(s)
  BY <1>6, <1>1 DEF connectTerminal, confirmHostKey
<1>7. CASE cancelHostKey \/ closeTerminalConn \/ closeTerminal \/ onBeforeUnmount
  <2>1. closeTermWs /\ UNCHANGED termDoubled
    BY <1>7 DEF cancelHostKey, closeTerminalConn, closeTerminal, onBeforeUnmount,
                teardownTerm, termHist
  <2>2. QED
    BY <2>1, <1>2
<1>8. CASE \/ \E n \in Nodes : openTerminal(n) \/ DetailComes(n)
           \/ clearFingerprint \/ UNCHANGED termVars
           \/ \E n \in Nodes, k \in HostKeys : NewHostKey(n, k)
  <2>1. UNCHANGED <<termSock, termWs, termDoubled>>
    BY <1>8 DEF openTerminal, DetailComes, clearFingerprint, NewHostKey, termVars, termHist
  <2>2. QED
    BY <2>1, <1>5
<1>9. QED
  BY <1>3, <1>4, <1>6, <1>7, <1>8 DEF TermNext

\* A socket is open beside the current one only if some connect has found one
\* open (connectTerminal and confirmHostKey do not close the one before).
THEOREM OneSocket == TermSpec => []OneSocketUnlessDoubled
<1>1. TermInit => OneSocketUnlessDoubled
  <2> SUFFICES ASSUME TermInit PROVE OneSocketUnlessDoubled
    OBVIOUS
  <2>1. QED
    BY DEF TermInit, OneSocketUnlessDoubled, Open, Socket, Talking
<1>2. QED
  BY TermTypeInit, TermTypeStep, <1>1, OneSocketStep, PTL DEF TermSpec

LEMMA TitleStep ==
  TermTypeInv /\ KeysGoToTheTitle /\ [TermNext]_termVars => KeysGoToTheTitle'
<1> SUFFICES ASSUME TermTypeInv, KeysGoToTheTitle, [TermNext]_termVars
             PROVE  KeysGoToTheTitle'
  OBVIOUS
<1>1. ASSUME NEW n \in Nodes, openTerminal(n) PROVE KeysGoToTheTitle'
  BY <1>1 DEF openTerminal, KeysGoToTheTitle
<1>2. ASSUME NEW n \in Nodes, DetailComes(n) PROVE KeysGoToTheTitle'
  BY <1>2 DEF DetailComes, KeysGoToTheTitle
<1>3. ASSUME NEW s \in Sockets, connectTerminal(s) \/ confirmHostKey(s)
      PROVE  KeysGoToTheTitle'
  <2>1. /\ NewSocket(s) /\ termVisible
        /\ UNCHANGED <<termVisible, termOpened, termCur, term>>
    BY <1>3 DEF connectTerminal, confirmHostKey, NewSocket
  <2>2. QED
    BY <2>1, NewOpen DEF KeysGoToTheTitle
<1>4. ASSUME NEW s \in Sockets,
             onopen(s) \/ HostKeyFrame(s) \/ StartedFrame(s) \/ ErrorFrame(s) \/ Ends(s)
      PROVE  KeysGoToTheTitle'
  <2>0. term' = term \/ term' = (term \/ termVisible)
    BY <1>4 DEF onopen, HostKeyFrame, StartedFrame, ErrorFrame, Ends
  <2>1. /\ UNCHANGED <<termVisible, termOpened, termCur, termMoved>>
        /\ term' => term \/ termVisible
    <3>1. UNCHANGED <<termVisible, termOpened, termCur, termMoved>>
      BY <1>4 DEF onopen, HostKeyFrame, StartedFrame, ErrorFrame, Ends, termHist
    <3>2. term' => term \/ termVisible
      BY <2>0
    <3>3. QED
      BY <3>1, <3>2
  <2>2. termWs' = termWs
    BY <1>4, MovedOpen
  <2>3. CASE termWs = 0
    BY <2>1, <2>2, <2>3 DEF KeysGoToTheTitle
  <2>4. CASE termWs # 0
    <3>1. termWs \in Sockets
      BY <2>4, TermAssumption DEF Sockets, TermTypeInv, TermTypeOK
    <3>2. /\ termSock'[termWs].form = termSock[termWs].form
          /\ termSock'[termWs].node = termSock[termWs].node
      BY <1>4, <3>1, MovedOpen
    <3>3. QED
      BY <2>1, <2>2, <3>2 DEF KeysGoToTheTitle
  <2>5. QED
    BY <2>3, <2>4
<1>5. ASSUME NEW s \in Sockets, onclose(s) PROVE KeysGoToTheTitle'
  BY <1>5 DEF onclose, KeysGoToTheTitle
<1>6. CASE cancelHostKey
  BY <1>6 DEF cancelHostKey, closeTermWs, KeysGoToTheTitle
<1>7. CASE closeTerminalConn \/ closeTerminal \/ onBeforeUnmount
  BY <1>7 DEF closeTerminalConn, closeTerminal, onBeforeUnmount, teardownTerm, closeTermWs,
              KeysGoToTheTitle
<1>8. CASE \/ clearFingerprint \/ UNCHANGED termVars
           \/ \E n \in Nodes, k \in HostKeys : NewHostKey(n, k)
  BY <1>8 DEF clearFingerprint, NewHostKey, termVars, termHist, KeysGoToTheTitle
<1>9. QED
  BY <1>1, <1>2, <1>3, <1>4, <1>5, <1>6, <1>7, <1>8 DEF TermNext

\* The keys typed go to a socket of the dialog on the screen, and of the node
\* in its title unless a late answer has changed that; without a dialog there
\* is no current socket (closeTerminal, onBeforeUnmount).
THEOREM KeysFollowTheTitle == TermSpec => []KeysGoToTheTitle
<1>1. TermInit => KeysGoToTheTitle
  BY DEF TermInit, KeysGoToTheTitle
<1>2. QED
  BY TermTypeInit, TermTypeStep, <1>1, TitleStep, PTL DEF TermSpec

\* The spinner turns on the form page only.
Spinning == (termConnecting => termState = "form") /\ SpinnerCanEnd

LEMMA SpinningStep ==
  TermTypeInv /\ Spinning /\ [TermNext]_termVars => Spinning'
<1> SUFFICES ASSUME TermTypeInv, Spinning, [TermNext]_termVars
             PROVE  Spinning'
  OBVIOUS
<1> USE DEF Spinning, SpinnerCanEnd
<1>1. ASSUME NEW s \in Sockets, connectTerminal(s) \/ confirmHostKey(s) PROVE Spinning'
  <2>1. NewSocket(s) /\ termState' = "form"
    BY <1>1 DEF connectTerminal, confirmHostKey
  <2>2. QED
    BY <2>1, NewOpen
<1>2. ASSUME NEW s \in Sockets, onopen(s) \/ Ends(s) PROVE Spinning'
  <2>1. UNCHANGED <<termConnecting, termState, termMounted, termAbandoned>>
    BY <1>2 DEF onopen, Ends, termHist
  <2>2. QED
    BY <1>2, <2>1, MovedOpen
<1>3. ASSUME NEW s \in Sockets,
             HostKeyFrame(s) \/ StartedFrame(s) \/ ErrorFrame(s) \/ onclose(s)
      PROVE  Spinning'
  BY <1>3 DEF HostKeyFrame, StartedFrame, ErrorFrame, onclose
<1>4. CASE cancelHostKey \/ closeTerminalConn
  BY <1>4 DEF cancelHostKey, closeTerminalConn
<1>5. CASE closeTerminal
  BY <1>5 DEF closeTerminal
<1>6. CASE onBeforeUnmount
  BY <1>6 DEF onBeforeUnmount
<1>7. CASE \E n \in Nodes : openTerminal(n)
  BY <1>7 DEF openTerminal, Open
<1>8. CASE \/ \E n \in Nodes : DetailComes(n)
           \/ clearFingerprint \/ UNCHANGED termVars
           \/ \E n \in Nodes, k \in HostKeys : NewHostKey(n, k)
  <2>1. UNCHANGED <<termConnecting, termState, termMounted, termAbandoned, termSock>>
    BY <1>8 DEF DetailComes, clearFingerprint, NewHostKey, termVars, termHist
  <2>2. QED
    BY <2>1 DEF Open
<1>9. QED
  BY <1>1, <1>2, <1>3, <1>4, <1>5, <1>6, <1>7, <1>8 DEF TermNext

\* The spinner that disables the connect button is up only while a socket is open
\* that can take it down, or when the dialog was closed while connecting and none
\* connected since, which leaves it up with nothing to take it down
\* (NodesView.vue:1412-1443).
THEOREM TerminalSpinnerCanEnd == TermSpec => []SpinnerCanEnd
<1>1. TermInit => Spinning
  BY DEF TermInit, Spinning, SpinnerCanEnd
<1>2. Spinning => SpinnerCanEnd
  BY DEF Spinning
<1>3. QED
  BY TermTypeInit, TermTypeStep, <1>1, <1>2, SpinningStep, PTL DEF TermSpec
=============================================================================
