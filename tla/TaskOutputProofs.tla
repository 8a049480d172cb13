--------------------------- MODULE TaskOutputProofs ---------------------------
(* Proofs about TaskOutput, for every cap and every bound. *)
EXTENDS TaskOutput, SequenceTheorems, TLAPS

\* The end of a sequence is a sequence of that length.
LEMMA EndingType ==
  ASSUME NEW s \in Seq(Nat), NEW n \in Nat, n <= Len(s)
  PROVE  Ending(s, n) \in Seq(Nat) /\ Len(Ending(s, n)) = n
<1>1. Len(s) \in Nat /\ Len(s) - n + 1 \in 1..(Len(s) + 1)
  OBVIOUS
<1>2. \A i \in (Len(s) - n + 1)..Len(s) : s[i] \in Nat
  BY <1>1
<1> QED
  BY <1>1, <1>2, SubSeqProperties DEF Ending

\* A buffer stays within one line of the cap, which the mark may take.
LEMMA BufferedType ==
  ASSUME NEW s \in Seq(Nat)
  PROVE  Buffered(s) \in Seq(Nat) /\ Len(Buffered(s)) <= Cap + 1
<1>1. CASE Len(s) > Cap
  <2>1. Ending(s, Cap) \in Seq(Nat) /\ Len(Ending(s, Cap)) = Cap
    BY <1>1, EndingType, OutputAssumption
  <2> QED
    BY <1>1, <2>1, OutputAssumption DEF Buffered, Mark
<1>2. CASE ~(Len(s) > Cap)
  BY <1>2, OutputAssumption DEF Buffered
<1> QED
  BY <1>1, <1>2

\* What is shortened to fewer lines than the cap, or to the cap, fits it.
LEMMA ShortenedType ==
  ASSUME NEW s \in Seq(Nat), NEW n \in {Cap - 1, Cap}
  PROVE  Shortened(s, n) \in Seq(Nat) /\ Len(Shortened(s, n)) <= Cap
<1>1. CASE Len(s) > n
  <2>1. Ending(s, Cap - 1) \in Seq(Nat) /\ Len(Ending(s, Cap - 1)) = Cap - 1
    BY <1>1, EndingType, OutputAssumption
  <2> QED
    BY <1>1, <2>1, OutputAssumption DEF Shortened, Mark
<1>2. CASE ~(Len(s) > n)
  BY <1>2, OutputAssumption DEF Shortened
<1> QED
  BY <1>1, <1>2

LEMMA MergedType ==
  ASSUME NEW s \in Seq(Nat), NEW c \in Seq(Nat)
  PROVE  Merged(s, c) \in Seq(Nat) /\ Len(Merged(s, c)) <= Cap
<1>1. Shortened(c, Cap - 1) \in Seq(Nat)
  BY ShortenedType
<1>2. s \o Shortened(c, Cap - 1) \in Seq(Nat)
  BY <1>1
<1> QED
  BY <1>2, ShortenedType DEF Merged

-----------------------------------------------------------------------------

LEMMA TypeInit == Init => TypeOK
<1> SUFFICES ASSUME Init PROVE TypeOK
  OBVIOUS
<1>1. <<>> \in Seq(Nat) /\ Len(<<>>) = 0
  OBVIOUS
<1>2. chunk \in [Flushers -> Seq(Nat)] /\ seen \in [Flushers -> Seq(Nat)]
  BY <1>1 DEF Init
<1>3. /\ execs \in 0..MaxExecs /\ lines \in 0..MaxLines /\ faults \in 0..MaxFaults
      /\ written \in Nat /\ Len(buf) <= Cap + 1 /\ Len(out) <= Cap
  BY <1>1, OutputAssumption DEF Init
<1>4. buf \in Seq(Nat) /\ out \in Seq(Nat)
  BY <1>1 DEF Init
<1>5. step \in [Flushers -> {"none", "read", "store"}]
  BY DEF Init
<1> QED
  BY <1>2, <1>3, <1>4, <1>5 DEF Init, TypeOK

LEMMA TypeStep == TypeOK /\ [Next]_vars => TypeOK'
<1> SUFFICES ASSUME TypeOK, [Next]_vars PROVE TypeOK'
  OBVIOUS
<1> USE OutputAssumption
<1>1. CASE Begin
  <2>1. <<Line>> \in Seq(Nat) /\ Line \in Nat
    BY DEF TypeOK, Line
  <2>2. buf' \in Seq(Nat) /\ Len(buf') <= Cap + 1
    BY <1>1, <2>1, BufferedType DEF Begin
  <2>3. execs' \in 0..MaxExecs /\ written' \in Nat
    BY <1>1, <2>1 DEF Begin, TypeOK
  <2> QED
    BY <1>1, <2>2, <2>3 DEF Begin, TypeOK, flushVars
<1>2. ASSUME WriteLine \/ Conclude PROVE TypeOK'
  <2>1. Append(buf, Line) \in Seq(Nat) /\ Line \in Nat
    BY DEF TypeOK, Line
  <2>2. buf' \in Seq(Nat) /\ Len(buf') <= Cap + 1
    BY <1>2, <2>1, BufferedType DEF WriteLine, Conclude, Write
  <2>3. lines' \in 0..MaxLines /\ written' \in Nat
    BY <1>2, <2>1 DEF WriteLine, Conclude, Write, TypeOK
  <2> QED
    BY <1>2, <2>2, <2>3 DEF WriteLine, Conclude, TypeOK, flushVars
<1>3. CASE NothingToFlush \/ Close \/ Join \/ LoopStops
  BY <1>3 DEF NothingToFlush, Close, Join, LoopStops, Returned, TypeOK, rowVars, writerVars, flushVars
<1>4. ASSUME NEW p \in Flushers, Take(p) PROVE TypeOK'
  BY <1>4 DEF Take, TypeOK, rowVars
<1>5. ASSUME NEW p \in Flushers, Fetch(p) PROVE TypeOK'
  <2>1. seen' \in [Flushers -> Seq(Nat)]
    BY <1>5 DEF Fetch, TypeOK
  <2>2. faults' \in 0..MaxFaults
    BY <1>5 DEF Fetch, Fails, TypeOK
  <2> QED
    BY <1>5, <2>1, <2>2 DEF Fetch, TypeOK, rowVars, writerVars
<1>6. ASSUME NEW p \in Flushers, Save(p) PROVE TypeOK'
  <2>1. out' \in Seq(Nat) /\ Len(out') <= Cap /\ faults' \in 0..MaxFaults
    BY <1>6, MergedType DEF Save, Fails, TypeOK
  <2>2. task' \in {"idle", "start", "running", "end", "closing", "joining", "final"}
    BY <1>6 DEF Save, Returned, TypeOK
  <2> QED
    BY <1>6, <2>1, <2>2 DEF Save, TypeOK, rowVars, writerVars
<1>7. CASE UNCHANGED vars
  BY <1>7 DEF vars, TypeOK, rowVars, writerVars, flushVars
<1> QED
  BY <1>1, <1>2, <1>3, <1>4, <1>5, <1>6, <1>7
  DEF Next, TaskStep, LoopStep, TaskTake, Tick, Flushers

\* Type correctness: in particular neither the buffer nor the column outgrows
\* its cap, by more than the mark and by nothing.
THEOREM TypeCorrect == Spec => []TypeOK
<1> QED
  BY TypeInit, TypeStep, PTL DEF Spec

-----------------------------------------------------------------------------
(* A goroutine only flushes where it is in a flush, and the loop of a writer
   that is being closed for the last time has ended. *)

StoppedInv ==
  /\ step["task"] # "none" => task \in {"start", "end", "final"}
  /\ loop = "off" => step["loop"] = "none"
  /\ task \in {"idle", "final"} => loop = "off"

LEMMA StoppedInit == Init => StoppedInv
BY DEF Init, StoppedInv, Flushers

LEMMA StoppedStep == TypeOK /\ StoppedInv /\ [Next]_vars => StoppedInv'
<1> SUFFICES ASSUME TypeOK, StoppedInv, [Next]_vars PROVE StoppedInv'
  OBVIOUS
<1> USE DEF StoppedInv, TypeOK, Flushers
<1>1. CASE Begin
  BY <1>1 DEF Begin, flushVars
<1>2. CASE WriteLine \/ Conclude
  BY <1>2 DEF WriteLine, Conclude, flushVars
<1>3. CASE NothingToFlush
  BY <1>3 DEF NothingToFlush, Returned, writerVars, flushVars
<1>4. CASE Close \/ Join
  BY <1>4 DEF Close, Join, writerVars, flushVars
<1>5. CASE TaskTake
  BY <1>5 DEF TaskTake, Take
<1>6. CASE Tick
  BY <1>6 DEF Tick, Take
<1>7. ASSUME NEW p \in Flushers, Fetch(p) PROVE StoppedInv'
  BY <1>7 DEF Fetch, writerVars
<1>8. ASSUME NEW p \in Flushers, Save(p) PROVE StoppedInv'
  BY <1>8 DEF Save, Returned, writerVars
<1>9. CASE LoopStops
  BY <1>9 DEF LoopStops, flushVars
<1>10. CASE UNCHANGED vars
  BY <1>10 DEF vars, writerVars, flushVars
<1> QED
  BY <1>1, <1>2, <1>3, <1>4, <1>5, <1>6, <1>7, <1>8, <1>9, <1>10
  DEF Next, TaskStep, LoopStep

\* No execution leaves behind a flush, or a loop that could start one.
THEOREM WriterStoppedHolds == Spec => []WriterStopped
<1>1. TypeOK /\ StoppedInv => WriterStopped
  BY DEF TypeOK, StoppedInv, WriterStopped, Flushers
<1> QED
  BY <1>1, TypeInit, TypeStep, StoppedInit, StoppedStep, PTL DEF Spec

-----------------------------------------------------------------------------
(* What is kept of a sequence that is cut                                   *)

\* A cut sequence is the mark, followed by the last lines of the whole one.
Cut(s, n) == <<Mark>> \o Ending(s, n)

LEMMA CutElements ==
  ASSUME NEW s \in Seq(Nat), NEW n \in Nat, n <= Len(s)
  PROVE  /\ Cut(s, n) \in Seq(Nat)
         /\ Len(Cut(s, n)) = n + 1
         /\ Cut(s, n)[1] = Mark
         /\ \A i \in 2..(n + 1) : Cut(s, n)[i] = s[Len(s) - n + i - 1]
<1> DEFINE e == Ending(s, n)
<1>1. e \in Seq(Nat) /\ Len(e) = n /\ Len(s) \in Nat
  BY EndingType
<1>2. \A i \in 1..n : e[i] = s[Len(s) - n + i]
  <2>1. Len(s) - n + 1 \in 1..(Len(s) + 1) /\ \A i \in (Len(s) - n + 1)..Len(s) : s[i] \in Nat
    BY <1>1
  <2>2. \A i \in 1..(Len(s) - (Len(s) - n + 1) + 1) : e[i] = s[(Len(s) - n + 1) + i - 1]
    BY <1>1, <2>1, SubSeqProperties DEF Ending
  <2>3. \A i \in 1..n : /\ i \in 1..(Len(s) - (Len(s) - n + 1) + 1)
                       /\ (Len(s) - n + 1) + i - 1 = Len(s) - n + i
    BY <1>1
  <2> HIDE DEF e
  <2>4. QED
    BY <2>2, <2>3
<1>3. <<Mark>> \in Seq(Nat) /\ Len(<<Mark>>) = 1 /\ <<Mark>>[1] = Mark
  BY DEF Mark
<1> HIDE DEF e
<1>4. /\ <<Mark>> \o e \in Seq(Nat) /\ Len(<<Mark>> \o e) = n + 1
      /\ (<<Mark>> \o e)[1] = Mark
      /\ \A i \in 2..(n + 1) : (<<Mark>> \o e)[i] = e[i - 1]
  BY <1>1, <1>3, ConcatProperties
<1>5. \A i \in 2..(n + 1) : e[i - 1] = s[Len(s) - n + i - 1]
  <2> SUFFICES ASSUME NEW i \in 2..(n + 1) PROVE e[i - 1] = s[Len(s) - n + i - 1]
    OBVIOUS
  <2>1. i - 1 \in 1..n /\ Len(s) - n + (i - 1) = Len(s) - n + i - 1
    BY <1>1
  <2>2. QED
    BY <1>2, <2>1
<1>6. QED
  BY <1>4, <1>5 DEF Cut, e

\* The lines of a sequence, and the sequences that have none of them twice.
Numbers(s)  == {s[i] : i \in 1..Len(s)} \ {Mark}
Distinct(s) == \A i, j \in 1..Len(s) : (i # j /\ s[i] # Mark) => s[i] # s[j]

LEMMA DistinctCut ==
  ASSUME NEW s \in Seq(Nat), NEW n \in Nat, n <= Len(s), Distinct(s)
  PROVE  Distinct(Cut(s, n)) /\ Numbers(Cut(s, n)) \subseteq Numbers(s)
<1> DEFINE c == Cut(s, n)
<1>0. Len(s) \in Nat
  OBVIOUS
<1>1. /\ Len(c) = n + 1 /\ c[1] = Mark
      /\ \A i \in 2..(n + 1) : c[i] = s[Len(s) - n + i - 1]
  BY CutElements, Zenon
<1> HIDE DEF c
<1>2. \A i \in 1..Len(c) : c[i] # Mark => i \in 2..(n + 1)
  BY <1>1
<1>3. \A i \in 2..(n + 1) : Len(s) - n + i - 1 \in 1..Len(s)
  BY <1>0, <1>1
<1>4. Numbers(c) \subseteq Numbers(s)
  <2>1. SUFFICES ASSUME NEW i \in 1..Len(c), c[i] # Mark
                 PROVE  \E j \in 1..Len(s) : s[j] = c[i]
    BY Zenon DEF Numbers
  <2>2. i \in 2..(n + 1)
    BY <1>2, <2>1
  <2>3. Len(s) - n + i - 1 \in 1..Len(s) /\ c[i] = s[Len(s) - n + i - 1]
    BY <1>1, <1>3, <2>2, Zenon
  <2>4. QED
    BY <2>3, Zenon
<1>5. ASSUME NEW i \in 1..Len(c), NEW j \in 1..Len(c), i # j, c[i] # Mark
      PROVE  c[i] # c[j]
  <2>1. CASE j = 1
    BY <1>1, <1>5, <2>1
  <2>2. CASE j # 1
    <3>1. i \in 2..(n + 1) /\ j \in 2..(n + 1)
      BY <1>1, <1>2, <1>5, <2>2
    <3>2. Len(s) - n + i - 1 # Len(s) - n + j - 1
      BY <1>0, <1>1, <1>5, <3>1
    <3>3. QED
      BY ZenonT(30), <1>1, <1>3, <1>5, <3>1, <3>2 DEF Distinct
  <2>3. QED
    BY <2>1, <2>2
<1>6. QED
  BY <1>4, <1>5 DEF Distinct, c

LEMMA DistinctConcat ==
  ASSUME NEW s \in Seq(Nat), NEW c \in Seq(Nat), Distinct(s), Distinct(c),
         Numbers(s) \cap Numbers(c) = {}
  PROVE  Distinct(s \o c) /\ Numbers(s \o c) = Numbers(s) \cup Numbers(c)
<1> DEFINE b == s \o c
<1>1. /\ b \in Seq(Nat) /\ Len(b) = Len(s) + Len(c) /\ Len(s) \in Nat /\ Len(c) \in Nat
      /\ \A i \in 1..Len(b) : b[i] = IF i <= Len(s) THEN s[i] ELSE c[i - Len(s)]
  BY ConcatProperties
<1> HIDE DEF b
<1>2. \A i \in 1..Len(b) : i <= Len(s) => i \in 1..Len(s) /\ b[i] = s[i]
  BY <1>1
<1>3. \A i \in 1..Len(b) : ~(i <= Len(s)) => i - Len(s) \in 1..Len(c) /\ b[i] = c[i - Len(s)]
  BY <1>1
<1>4. Numbers(b) = Numbers(s) \cup Numbers(c)
  <2>1. Numbers(b) \subseteq Numbers(s) \cup Numbers(c)
    BY <1>2, <1>3 DEF Numbers
  <2>2. \A i \in 1..Len(s) : i \in 1..Len(b) /\ b[i] = s[i]
    BY <1>1
  <2>3. \A i \in 1..Len(c) : i + Len(s) \in 1..Len(b) /\ b[i + Len(s)] = c[i]
    <3>1. \A i \in 1..Len(c) : /\ i + Len(s) \in 1..Len(b)
                              /\ ~(i + Len(s) <= Len(s))
                              /\ i + Len(s) - Len(s) = i
      BY <1>1
    <3>2. QED
      BY SMTT(20), <1>1, <3>1
  <2>4. Numbers(s) \subseteq Numbers(b)
    <3>1. SUFFICES ASSUME NEW i \in 1..Len(s), s[i] # Mark PROVE \E j \in 1..Len(b) : b[j] = s[i]
      BY Zenon DEF Numbers
    <3>2. QED
      BY <2>2, Zenon
  <2>5. Numbers(c) \subseteq Numbers(b)
    <3>1. SUFFICES ASSUME NEW i \in 1..Len(c), c[i] # Mark PROVE \E j \in 1..Len(b) : b[j] = c[i]
      BY Zenon DEF Numbers
    <3>2. QED
      BY <2>3, Zenon
  <2>6. QED
    BY <2>1, <2>4, <2>5
<1>5. ASSUME NEW i \in 1..Len(b), NEW j \in 1..Len(b), i # j, b[i] # Mark
      PROVE  b[i] # b[j]
  <2>1. CASE i <= Len(s) /\ j <= Len(s)
    BY <1>2, <1>5, <2>1 DEF Distinct
  <2>2. CASE ~(i <= Len(s)) /\ ~(j <= Len(s))
    <3>1. i - Len(s) # j - Len(s)
      BY <1>1, <1>5
    <3>2. QED
      BY <1>3, <1>5, <2>2, <3>1 DEF Distinct
  <2>3. CASE b[j] = Mark
    BY <1>5, <2>3
  <2>4. CASE b[j] # Mark /\ i <= Len(s) /\ ~(j <= Len(s))
    <3>1. b[i] \in Numbers(s) /\ b[j] \in Numbers(c)
      BY <1>2, <1>3, <1>5, <2>4 DEF Numbers
    <3>2. QED
      BY <3>1
  <2>5. CASE b[j] # Mark /\ ~(i <= Len(s)) /\ j <= Len(s)
    <3>1. b[i] \in Numbers(c) /\ b[j] \in Numbers(s)
      BY <1>2, <1>3, <1>5, <2>5 DEF Numbers
    <3>2. QED
      BY <3>1
  <2>6. QED
    BY <2>1, <2>2, <2>3, <2>4, <2>5
<1>6. QED
  BY <1>4, <1>5 DEF Distinct, b

LEMMA DistinctShortened ==
  ASSUME NEW s \in Seq(Nat), NEW n \in {Cap - 1, Cap}, Distinct(s)
  PROVE  Distinct(Shortened(s, n)) /\ Numbers(Shortened(s, n)) \subseteq Numbers(s)
<1>1. CASE Len(s) > n
  <2>1. Shortened(s, n) = Cut(s, Cap - 1) /\ Cap - 1 \in Nat /\ Cap - 1 <= Len(s)
    BY <1>1, OutputAssumption DEF Shortened, Cut
  <2>2. QED
    BY <2>1, DistinctCut
<1>2. CASE ~(Len(s) > n)
  BY <1>2 DEF Shortened
<1>3. QED
  BY <1>1, <1>2

LEMMA DistinctMerged ==
  ASSUME NEW s \in Seq(Nat), NEW c \in Seq(Nat), Distinct(s), Distinct(c),
         Numbers(s) \cap Numbers(c) = {}
  PROVE  Distinct(Merged(s, c)) /\ Numbers(Merged(s, c)) \subseteq Numbers(s) \cup Numbers(c)
<1> DEFINE d == Shortened(c, Cap - 1)
<1>1. d \in Seq(Nat) /\ Distinct(d) /\ Numbers(d) \subseteq Numbers(c)
  BY ShortenedType, DistinctShortened
<1> HIDE DEF d
<1>2. s \o d \in Seq(Nat) /\ Distinct(s \o d) /\ Numbers(s \o d) = Numbers(s) \cup Numbers(d)
  BY <1>1, DistinctConcat
<1>3. QED
  BY <1>1, <1>2, DistinctShortened DEF Merged, d

\* A line that is not yet in the buffer may be added to it.
LEMMA DistinctBuffered ==
  ASSUME NEW s \in Seq(Nat), NEW l \in Nat \ {Mark}, Distinct(s), l \notin Numbers(s)
  PROVE  /\ Distinct(Buffered(Append(s, l)))
         /\ Numbers(Buffered(Append(s, l))) \subseteq Numbers(s) \cup {l}
<1> DEFINE a == Append(s, l)
<1>1. a \in Seq(Nat) /\ Len(a) = Len(s) + 1 /\ Len(s) \in Nat
  BY AppendProperties
<1>2. a[Len(s) + 1] = l /\ \A i \in 1..Len(s) : a[i] = s[i]
  BY AppendProperties
<1> HIDE DEF a
<1>3. Numbers(a) = Numbers(s) \cup {l}
  <2>1. \A i \in 1..Len(a) : i \in 1..Len(s) \/ i = Len(s) + 1
    BY <1>1
  <2>2. \A i \in 1..Len(s) : i \in 1..Len(a)
    BY <1>1
  <2>3. Len(s) + 1 \in 1..Len(a)
    BY <1>1
  <2>4. QED
    BY <1>2, <2>1, <2>2, <2>3 DEF Numbers
<1>4. Distinct(a)
  <2>1. \A i \in 1..Len(a) : i \in 1..Len(s) \/ i = Len(s) + 1
    BY <1>1
  <2>2. \A i \in 1..Len(s) : a[i] # l
    BY <1>2 DEF Numbers
  <2>3. QED
    BY <1>2, <2>1, <2>2 DEF Distinct
<1>5. CASE Len(a) > Cap
  <2>1. Buffered(a) = Cut(a, Cap) /\ Cap \in Nat /\ Cap <= Len(a)
    BY <1>1, <1>5, OutputAssumption DEF Buffered, Cut
  <2>2. Distinct(Cut(a, Cap)) /\ Numbers(Cut(a, Cap)) \subseteq Numbers(a)
    BY <1>1, <1>4, <2>1, DistinctCut
  <2>3. QED
    BY <1>3, <2>1, <2>2 DEF a
<1>6. CASE ~(Len(a) > Cap)
  BY <1>3, <1>4, <1>6 DEF Buffered, a
<1>7. QED
  BY <1>5, <1>6

-----------------------------------------------------------------------------
(* No line is stored twice                                                  *)

\* A line is in one place only: the buffer, the chunk of one flush, or the
\* column. What a flush has read of the column is no newer than the column, so
\* it has no line of a chunk that is still to be stored.
DistinctInv ==
  /\ Distinct(out) /\ Distinct(buf)
  /\ \A p \in Flushers : Distinct(chunk[p]) /\ Distinct(seen[p])
  /\ Numbers(buf) \subseteq 1..written /\ Numbers(out) \subseteq 1..written
  /\ \A p \in Flushers : Numbers(chunk[p]) \subseteq 1..written /\ Numbers(seen[p]) \subseteq 1..written
  /\ Numbers(buf) \cap Numbers(out) = {}
  /\ \A p \in Flushers :
       /\ Numbers(buf) \cap Numbers(seen[p]) = {}
       /\ Numbers(buf) \cap Numbers(chunk[p]) = {}
       /\ Numbers(out) \cap Numbers(chunk[p]) = {}
  /\ \A p, q \in Flushers :
       /\ Numbers(chunk[p]) \cap Numbers(seen[q]) = {}
       /\ p # q => Numbers(chunk[p]) \cap Numbers(chunk[q]) = {}

LEMMA NothingInEmpty == Distinct(<<>>) /\ Numbers(<<>>) = {}
BY DEF Distinct, Numbers

LEMMA DistinctInit == Init => DistinctInv
BY NothingInEmpty DEF Init, DistinctInv

LEMMA DistinctStep == TypeOK /\ DistinctInv /\ [Next]_vars => DistinctInv'
<1> SUFFICES ASSUME TypeOK, DistinctInv, [Next]_vars PROVE DistinctInv'
  OBVIOUS
<1>0. /\ buf \in Seq(Nat) /\ out \in Seq(Nat) /\ written \in Nat
      /\ chunk \in [Flushers -> Seq(Nat)] /\ seen \in [Flushers -> Seq(Nat)]
      /\ step \in [Flushers -> {"none", "read", "store"}]
  BY DEF TypeOK
\* A new line, added to what is in the buffer or, by a new writer, to nothing.
<1>1. ASSUME NEW s \in Seq(Nat), Distinct(s), Numbers(s) \subseteq Numbers(buf),
             buf' = Buffered(Append(s, Line)), written' = Line, UNCHANGED <<flushVars, out>>
      PROVE  DistinctInv'
  <2>1. Line \in Nat \ {Mark} /\ Line \notin 1..written /\ 1..written \subseteq 1..Line /\ Line \in 1..Line
    BY <1>0 DEF Line, Mark
  <2>2. Line \notin Numbers(s)
    BY <1>1, <2>1 DEF DistinctInv
  <2>3. Distinct(buf') /\ Numbers(buf') \subseteq Numbers(buf) \cup {Line}
    BY <1>1, <2>1, <2>2, DistinctBuffered
  <2>4. /\ Line \notin Numbers(out)
        /\ \A p \in Flushers : Line \notin Numbers(chunk[p]) /\ Line \notin Numbers(seen[p])
    BY <2>1 DEF DistinctInv
  <2> HIDE DEF Line
  <2>5. QED
    BY ZenonT(30), <1>1, <2>1, <2>3, <2>4 DEF DistinctInv, flushVars
<1>2. CASE Begin
  <2>1. <<Line>> = Append(<<>>, Line) /\ <<>> \in Seq(Nat)
    BY DEF Line
  <2>2. buf' = Buffered(Append(<<>>, Line)) /\ written' = Line /\ UNCHANGED <<flushVars, out>>
    BY <1>2, <2>1 DEF Begin
  <2>3. QED
    BY <1>1, <2>1, <2>2, NothingInEmpty
<1>3. CASE WriteLine \/ Conclude
  <2>1. /\ buf' = Buffered(Append(buf, Line)) /\ written' = Line
        /\ UNCHANGED <<flushVars, out>> /\ Distinct(buf)
    BY <1>3 DEF WriteLine, Conclude, Write, DistinctInv
  <2>2. QED
    BY <1>0, <1>1, <2>1
<1>4. CASE UNCHANGED <<buf, written, out, flushVars>>
  BY <1>4 DEF DistinctInv, flushVars
<1>5. CASE NothingToFlush \/ Close \/ Join \/ LoopStops \/ UNCHANGED vars
  BY <1>4, <1>5 DEF NothingToFlush, Close, Join, LoopStops, vars, rowVars, writerVars
<1>6. ASSUME NEW p \in Flushers, Take(p) PROVE DistinctInv'
  <2>1. /\ buf' = <<>> /\ chunk' = [chunk EXCEPT ![p] = buf]
        /\ UNCHANGED <<written, seen, out>>
    BY <1>6 DEF Take, rowVars
  <2>2. Numbers(buf') = {} /\ Distinct(buf')
    BY <2>1, NothingInEmpty
  <2>3. chunk'[p] = buf /\ \A q \in Flushers : q # p => chunk'[q] = chunk[q]
    BY <1>0, <2>1
  <2>4. QED
    BY ZenonT(30), <2>1, <2>2, <2>3 DEF DistinctInv
<1>7. ASSUME NEW p \in Flushers, Fetch(p) PROVE DistinctInv'
  <2>1. UNCHANGED <<written, buf, chunk, out>>
    BY <1>7 DEF Fetch, rowVars, writerVars
  <2>2. seen'[p] \in {seen[p], out} /\ \A q \in Flushers : q # p => seen'[q] = seen[q]
    BY <1>0, <1>7 DEF Fetch
  <2>3. QED
    BY <2>1, <2>2 DEF DistinctInv
<1>8. ASSUME NEW p \in Flushers, Save(p) PROVE DistinctInv'
  <2>1. /\ chunk' = [chunk EXCEPT ![p] = <<>>] /\ seen' = [seen EXCEPT ![p] = <<>>]
        /\ UNCHANGED <<written, buf>>
        /\ out' \in {out, Merged(seen[p], chunk[p])}
    BY <1>8 DEF Save, rowVars, writerVars
  <2>2. /\ chunk'[p] = <<>> /\ seen'[p] = <<>>
        /\ \A q \in Flushers : q # p => chunk'[q] = chunk[q] /\ seen'[q] = seen[q]
    BY <1>0, <2>1
  <2>3. /\ Distinct(Merged(seen[p], chunk[p]))
        /\ Numbers(Merged(seen[p], chunk[p])) \subseteq Numbers(seen[p]) \cup Numbers(chunk[p])
    BY <1>0, DistinctMerged DEF DistinctInv
  <2>4. /\ Distinct(out')
        /\ \A n \in Numbers(out') : n \in Numbers(out) \/ n \in Numbers(seen[p]) \/ n \in Numbers(chunk[p])
    BY <2>1, <2>3 DEF DistinctInv
  <2>5. /\ Distinct(buf') /\ Numbers(buf') \subseteq 1..written' /\ Numbers(out') \subseteq 1..written'
        /\ Numbers(buf') \cap Numbers(out') = {}
    BY <2>1, <2>4 DEF DistinctInv
  <2>6. \A q \in Flushers :
          /\ Distinct(chunk'[q]) /\ Distinct(seen'[q])
          /\ Numbers(chunk'[q]) \subseteq 1..written' /\ Numbers(seen'[q]) \subseteq 1..written'
          /\ Numbers(buf') \cap Numbers(seen'[q]) = {} /\ Numbers(buf') \cap Numbers(chunk'[q]) = {}
    BY <2>1, <2>2, NothingInEmpty DEF DistinctInv
  <2>7. \A q \in Flushers : Numbers(out') \cap Numbers(chunk'[q]) = {}
    <3>1. \A q \in Flushers : q # p => Numbers(out') \cap Numbers(chunk[q]) = {}
      BY <2>4 DEF DistinctInv
    <3>2. QED
      BY <2>2, <3>1, NothingInEmpty
  <2>8. \A q, r \in Flushers : /\ Numbers(chunk'[q]) \cap Numbers(seen'[r]) = {}
                               /\ q # r => Numbers(chunk'[q]) \cap Numbers(chunk'[r]) = {}
    BY <2>2, NothingInEmpty DEF DistinctInv
  <2>9. QED
    BY <2>4, <2>5, <2>6, <2>7, <2>8 DEF DistinctInv
<1>9. QED
  BY <1>2, <1>3, <1>5, <1>6, <1>7, <1>8 DEF Next, TaskStep, LoopStep, TaskTake, Tick, Flushers

\* However the flushes of the task and of its loop overlap, and whichever of
\* their statements fail, no line of the task is stored twice.
THEOREM NoneTwiceHolds == Spec => []NoneTwice
<1>1. TypeOK /\ DistinctInv => NoneTwice
  <2> SUFFICES ASSUME TypeOK, Distinct(out) PROVE NoneTwice
    BY DEF DistinctInv
  <2>1. DOMAIN out = 1..Len(out)
    BY DEF TypeOK
  <2>2. QED
    BY <2>1 DEF NoneTwice, Distinct
<1>2. QED
  BY <1>1, TypeInit, TypeStep, DistinctInit, DistinctStep, PTL DEF Spec

-----------------------------------------------------------------------------
(* Nothing is lost while flushes do not overlap and no statement fails      *)

Marked(s) == Len(s) > 0 /\ s[1] = Mark
Full(s)   == Marked(s) => Len(s) > Cap

\* What is left of the lines after from, up to and including to: all of them, or
\* the mark and the last ones.
Remains(s, from, to) ==
  /\ \A i \in 1..Len(s) : s[i] = to - Len(s) + i \/ (i = 1 /\ s[1] = Mark)
  /\ Marked(s) => Len(s) - 1 <= to - from
  /\ ~Marked(s) => Len(s) = to - from

LEMMA RemainsCut ==
  ASSUME NEW s \in Seq(Nat), NEW n \in Nat, n <= Len(s), Marked(s) => n < Len(s),
         NEW from \in Nat, NEW to \in Nat, Remains(s, from, to)
  PROVE  Remains(Cut(s, n), from, to)
<1> DEFINE c == Cut(s, n)
<1>0. Len(s) \in Nat
  OBVIOUS
<1>1. /\ Len(c) = n + 1 /\ c[1] = Mark
      /\ \A i \in 2..(n + 1) : c[i] = s[Len(s) - n + i - 1]
  BY CutElements, Zenon
<1> HIDE DEF c
<1>2. Marked(c) /\ Len(c) - 1 <= to - from
  BY <1>0, <1>1 DEF Marked, Remains
<1>3. ASSUME NEW i \in 2..(n + 1) PROVE c[i] = to - Len(c) + i
  <2> DEFINE j == Len(s) - n + i - 1
  <2>1. j \in 1..Len(s) /\ (Marked(s) => j # 1)
    BY <1>0, <1>3
  <2>2. j = 1 => s[1] # Mark
    BY <2>1 DEF Marked
  <2>3. s[j] = to - Len(s) + j
    BY <2>1, <2>2 DEF Remains
  <2>4. to - Len(s) + j = to - (n + 1) + i
    BY <1>0, <1>3
  <2>5. QED
    BY <1>1, <1>3, <2>3, <2>4
<1>4. \A i \in 1..Len(c) : i = 1 \/ i \in 2..(n + 1)
  BY <1>1
<1>5. \A i \in 1..Len(c) : c[i] = to - Len(c) + i \/ (i = 1 /\ c[1] = Mark)
  BY <1>1, <1>3, <1>4
<1>6. QED
  BY <1>2, <1>5 DEF Remains, c

LEMMA RemainsConcat ==
  ASSUME NEW s \in Seq(Nat), NEW c \in Seq(Nat), NEW x \in Nat, NEW a \in Nat, NEW b \in Nat,
         a <= b, Remains(s, x, a), Remains(c, a, b), ~Marked(c)
  PROVE  Remains(s \o c, x, b)
<1> DEFINE t == s \o c
<1>1. Len(t) = Len(s) + Len(c) /\ Len(s) \in Nat /\ Len(c) \in Nat
  BY ConcatProperties
<1>2. /\ \A i \in 1..Len(s) : i \in 1..Len(t) /\ t[i] = s[i]
      /\ \A i \in 1..Len(t) : ~(i <= Len(s)) => i - Len(s) \in 1..Len(c) /\ t[i] = c[i - Len(s)]
  BY <1>1, ConcatProperties
<1> HIDE DEF t
<1>3. Len(c) = b - a /\ \A i \in 1..Len(c) : c[i] = b - Len(c) + i
  BY DEF Remains, Marked
<1>4. Marked(t) <=> Marked(s)
  <2>1. CASE Len(s) > 0
    BY <1>1, <1>2, <2>1 DEF Marked
  <2>2. CASE Len(s) = 0 /\ Len(c) > 0
    <3>1. t[1] = c[1]
      BY <1>1, <1>2, <2>2
    <3>2. QED
      BY <1>1, <2>2, <3>1 DEF Marked
  <2>3. CASE Len(s) = 0 /\ Len(c) = 0
    BY <1>1, <2>3 DEF Marked
  <2>4. QED
    BY <1>1, <2>1, <2>2, <2>3
<1>5. ASSUME NEW i \in 1..Len(t) PROVE t[i] = b - Len(t) + i \/ (i = 1 /\ t[1] = Mark)
  <2>1. CASE i <= Len(s)
    <3>1. i \in 1..Len(s) /\ t[i] = s[i]
      BY <1>1, <1>2, <1>5, <2>1
    <3>2. s[i] = a - Len(s) + i \/ (i = 1 /\ s[1] = Mark)
      BY <3>1 DEF Remains
    <3>3. a - Len(s) + i = b - Len(t) + i
      BY <1>1, <1>3, <1>5
    <3>4. QED
      BY <3>1, <3>2, <3>3
  <2>2. CASE ~(i <= Len(s))
    <3>1. i - Len(s) \in 1..Len(c) /\ t[i] = c[i - Len(s)]
      BY <1>2, <1>5, <2>2
    <3>2. t[i] = b - Len(c) + (i - Len(s))
      BY <1>3, <3>1
    <3>3. QED
      BY <1>1, <1>5, <3>2
  <2>3. QED
    BY <2>1, <2>2
<1>6. /\ Marked(t) => Len(t) - 1 <= b - x
      /\ ~Marked(t) => Len(t) = b - x
  <2>1. /\ Marked(s) => Len(s) - 1 <= a - x
        /\ ~Marked(s) => Len(s) = a - x
    BY DEF Remains
  <2>2. Len(t) = Len(s) + (b - a)
    BY <1>1, <1>3
  <2>3. \A m, n \in Nat :
          n = m + (b - a) => /\ m - 1 <= a - x => n - 1 <= b - x
                             /\ m = a - x => n = b - x
    OBVIOUS
  <2>4. Len(t) \in Nat
    BY <1>1
  <2>5. QED
    BY <1>1, <1>4, <2>1, <2>2, <2>3, <2>4
<1>7. Remains(t, x, b)
  BY <1>5, <1>6 DEF Remains
<1>8. QED
  BY <1>7 DEF t

\* What a flush stores continues the column: a chunk that was cut itself is long
\* enough to push all that was there before it out of the column.
LEMMA RemainsMerged ==
  ASSUME NEW s \in Seq(Nat), NEW c \in Seq(Nat), NEW x \in Nat, NEW a \in Nat, NEW b \in Nat,
         x <= a, a <= b, Remains(s, x, a), Remains(c, a, b), Full(c)
  PROVE  Remains(Merged(s, c), x, b)
<1>0. Cap - 1 \in Nat /\ Cap \in Nat /\ Len(s) \in Nat /\ Len(c) \in Nat
  BY OutputAssumption
<1>1. CASE Len(c) > Cap - 1
  <2> DEFINE d == Cut(c, Cap - 1)
             t == s \o d
             r == Shortened(t, Cap)
  <2>1. Cap - 1 <= Len(c) /\ (Marked(c) => Cap - 1 < Len(c))
    BY <1>0, <1>1
  <2>2. d \in Seq(Nat) /\ Len(d) = Cap /\ d[1] = Mark
    <3>1. d \in Seq(Nat) /\ Len(d) = Cap - 1 + 1 /\ d[1] = Mark
      BY <1>0, <2>1, CutElements, Zenon
    <3>2. Cap - 1 + 1 = Cap
      BY <1>0
    <3>3. QED
      BY <3>1, <3>2, Zenon
  <2>3. Remains(d, a, b)
    BY <1>0, <2>1, RemainsCut
  <2> HIDE DEF d
  <2>4. Merged(s, c) = r
    BY <1>1 DEF Merged, Shortened, Cut, d
  <2>5. /\ t \in Seq(Nat) /\ Len(t) = Len(s) + Cap
        /\ \A i \in 1..(Len(s) + Cap) : t[i] = IF i <= Len(s) THEN s[i] ELSE d[i - Len(s)]
    BY <2>2, ConcatProperties
  <2>6. \A i \in 1..Cap : /\ Len(s) + i \in 1..(Len(s) + Cap) /\ ~(Len(s) + i <= Len(s))
                          /\ Len(s) + i - Len(s) = i
    BY <1>0
  <2>7. \A i \in 1..Cap : t[Len(s) + i] = d[i]
    BY SMTT(20), <2>5, <2>6
  <2> HIDE DEF t
  <2>8. Len(r) = Cap /\ r[1] = Mark /\ \A i \in 2..Cap : r[i] = d[i]
    <3>1. CASE Len(s) = 0
      <4>1. r = t
        BY <1>0, <2>5, <3>1 DEF Shortened
      <4>2. \A i \in 1..Cap : t[i] = d[i]
        BY <2>7, <3>1
      <4>3. 1 \in 1..Cap /\ 2..Cap \subseteq 1..Cap
        BY <1>0
      <4>4. QED
        BY <1>0, <2>2, <2>5, <3>1, <4>1, <4>2, <4>3
    <3>2. CASE Len(s) # 0
      <4>1. Len(t) > Cap /\ Cap - 1 <= Len(t)
        BY <1>0, <2>5, <3>2
      <4>2. r = Cut(t, Cap - 1)
        BY <4>1 DEF Shortened, Cut
      <4>3. /\ Len(Cut(t, Cap - 1)) = (Cap - 1) + 1 /\ Cut(t, Cap - 1)[1] = Mark
            /\ \A i \in 2..((Cap - 1) + 1) :
                 Cut(t, Cap - 1)[i] = t[Len(t) - (Cap - 1) + i - 1]
        BY <1>0, <2>5, <4>1, CutElements, Zenon
      <4>4. /\ Len(r) = (Cap - 1) + 1 /\ r[1] = Mark
            /\ \A i \in 2..((Cap - 1) + 1) : r[i] = t[Len(t) - (Cap - 1) + i - 1]
        BY <4>2, <4>3
      <4>5. (Cap - 1) + 1 = Cap
            /\ \A i \in 2..Cap : i \in 1..Cap /\ Len(t) - (Cap - 1) + i - 1 = Len(s) + i
        BY <1>0, <2>5
      <4> HIDE DEF r
      <4>6. QED
        BY <2>7, <4>4, <4>5
    <3>3. QED
      BY <3>1, <3>2
  <2> HIDE DEF r
  <2>9. Marked(d) /\ Cap - 1 <= b - a /\ \A i \in 2..Cap : d[i] = b - Cap + i
    BY <1>0, <2>2, <2>3 DEF Remains, Marked
  <2>10. Marked(r) /\ Len(r) - 1 <= b - x
    BY <1>0, <2>8, <2>9 DEF Marked
  <2>11. \A i \in 1..Len(r) : r[i] = b - Len(r) + i \/ (i = 1 /\ r[1] = Mark)
    <3>1. \A i \in 1..Len(r) : i = 1 \/ i \in 2..Cap
      BY <1>0, <2>8
    <3>2. QED
      BY <2>8, <2>9, <3>1
  <2>12. QED
    BY <2>4, <2>10, <2>11 DEF Remains
<1>2. CASE ~(Len(c) > Cap - 1)
  <2> DEFINE t == s \o c
  <2>1. ~Marked(c)
    BY <1>0, <1>2 DEF Full
  <2>2. t \in Seq(Nat) /\ Remains(t, x, b)
    BY <2>1, RemainsConcat
  <2>3. Merged(s, c) = Shortened(t, Cap)
    BY <1>2 DEF Merged, Shortened
  <2> HIDE DEF t
  <2>4. CASE Len(t) > Cap
    <3>1. Shortened(t, Cap) = Cut(t, Cap - 1) /\ Cap - 1 < Len(t) /\ Cap - 1 <= Len(t)
      BY <1>0, <2>2, <2>4 DEF Shortened, Cut
    <3>2. Remains(Cut(t, Cap - 1), x, b)
      BY <1>0, <2>2, <3>1, RemainsCut, Zenon
    <3>3. QED
      BY <2>3, <3>1, <3>2
  <2>5. CASE ~(Len(t) > Cap)
    BY <2>2, <2>3, <2>5 DEF Shortened
  <2>6. QED
    BY <2>4, <2>5
<1>3. QED
  BY <1>1, <1>2

LEMMA AppendMarked ==
  ASSUME NEW s \in Seq(Nat), NEW l \in Nat \ {Mark}
  PROVE  Marked(Append(s, l)) <=> Marked(s)
<1> DEFINE t == Append(s, l)
<1>1. /\ Len(t) = Len(s) + 1 /\ t[Len(s) + 1] = l /\ Len(s) \in Nat
      /\ \A i \in 1..Len(s) : t[i] = s[i]
  BY AppendProperties
<1> HIDE DEF t
<1>2. CASE Len(s) > 0
  BY <1>1, <1>2 DEF Marked, t
<1>3. CASE Len(s) = 0
  BY <1>1, <1>3 DEF Marked, t
<1>4. QED
  BY <1>1, <1>2, <1>3

LEMMA FullBuffered ==
  ASSUME NEW s \in Seq(Nat), NEW l \in Nat \ {Mark}, Full(s)
  PROVE  Full(Buffered(Append(s, l)))
<1> DEFINE t == Append(s, l)
<1>0. Cap \in Nat /\ Len(s) \in Nat
  BY OutputAssumption
<1>1. /\ t \in Seq(Nat) /\ Len(t) = Len(s) + 1 /\ t[Len(s) + 1] = l
      /\ \A i \in 1..Len(s) : t[i] = s[i]
  BY AppendProperties
<1> HIDE DEF t
<1>2. CASE Len(t) > Cap
  <2>1. Buffered(t) = Cut(t, Cap) /\ Cap <= Len(t)
    BY <1>0, <1>1, <1>2 DEF Buffered, Cut
  <2>2. Len(Cut(t, Cap)) = Cap + 1
    BY <1>0, <1>1, <2>1, CutElements, Zenon
  <2>3. Len(Buffered(t)) > Cap
    BY <1>0, <2>1, <2>2
  <2>4. Full(Buffered(t))
    BY <2>3 DEF Full
  <2>5. QED
    BY <2>4 DEF t
<1>3. CASE ~(Len(t) > Cap)
  <2>1. Buffered(t) = t
    BY <1>3 DEF Buffered
  <2>2. ~(Len(s) > Cap)
    BY <1>0, <1>1, <1>3
  <2>3. ~Marked(s)
    BY <2>2 DEF Full
  <2>4. ~Marked(t)
    BY <2>3, AppendMarked DEF t
  <2>5. Full(Buffered(t))
    BY <2>1, <2>4 DEF Full
  <2>6. QED
    BY <2>5 DEF t
<1>4. QED
  BY <1>2, <1>3

LEMMA RemainsBuffered ==
  ASSUME NEW s \in Seq(Nat), NEW b \in Nat, NEW w \in Nat, Remains(s, b, w)
  PROVE  Remains(Buffered(Append(s, w + 1)), b, w + 1)
<1> DEFINE t == Append(s, w + 1)
<1>0. Cap \in Nat /\ Cap > 0 /\ Len(s) \in Nat
  BY OutputAssumption
<1>1. /\ t \in Seq(Nat) /\ Len(t) = Len(s) + 1 /\ t[Len(s) + 1] = w + 1
      /\ \A i \in 1..Len(s) : t[i] = s[i]
  BY AppendProperties
<1> HIDE DEF t
<1>2. Marked(t) <=> Marked(s)
  <2>1. w + 1 \in Nat \ {Mark}
    BY DEF Mark
  <2>2. QED
    BY <2>1, AppendMarked DEF t
<1>3. Remains(t, b, w + 1)
  <2>1. ASSUME NEW i \in 1..Len(t) PROVE t[i] = (w + 1) - Len(t) + i \/ (i = 1 /\ t[1] = Mark)
    <3>1. CASE i \in 1..Len(s)
      <4>1. s[i] = w - Len(s) + i \/ (i = 1 /\ s[1] = Mark)
        BY <3>1 DEF Remains
      <4>2. (w + 1) - Len(t) + i = w - Len(s) + i
        BY <1>0, <1>1, <3>1
      <4>3. QED
        BY <1>1, <3>1, <4>1, <4>2
    <3>2. CASE i = Len(s) + 1
      BY <1>0, <1>1, <3>2
    <3>3. QED
      BY <1>0, <1>1, <2>1, <3>1, <3>2
  <2>2. /\ Marked(t) => Len(t) - 1 <= (w + 1) - b
        /\ ~Marked(t) => Len(t) = (w + 1) - b
    BY <1>0, <1>1, <1>2 DEF Remains
  <2>3. QED
    BY <2>1, <2>2 DEF Remains
<1>4. ASSUME Len(t) > Cap PROVE Remains(Buffered(t), b, w + 1)
  <2>1. Buffered(t) = Cut(t, Cap) /\ Cap <= Len(t) /\ Cap < Len(t)
    BY <1>0, <1>1, <1>4 DEF Buffered, Cut
  <2>2. Remains(Cut(t, Cap), b, w + 1)
    <3>1. w + 1 \in Nat
      OBVIOUS
    <3>2. QED
      BY <1>0, <1>1, <1>3, <2>1, <3>1, RemainsCut, Zenon
  <2>3. QED
    BY <2>1, <2>2
<1>5. ASSUME ~(Len(t) > Cap) PROVE Remains(Buffered(t), b, w + 1)
  BY <1>3, <1>5 DEF Buffered
<1>6. Remains(Buffered(t), b, w + 1)
  BY <1>4, <1>5
<1>7. QED
  BY <1>6 DEF t

\* Where a writer has ended, or its last flush has taken the buffer, the buffer
\* is empty; unless two flushes have overlapped, at most one is under way.
BufferInv ==
  /\ task = "idle" \/ (task = "final" /\ step["task"] # "none") => buf = <<>>
  /\ ~overlap => \A p, q \in Flushers : (step[p] # "none" /\ step[q] # "none") => p = q

LEMMA BufferInit == Init => BufferInv
BY DEF Init, BufferInv

LEMMA BufferStep == TypeOK /\ StoppedInv /\ BufferInv /\ [Next]_vars => BufferInv'
<1> SUFFICES ASSUME TypeOK, StoppedInv, BufferInv, [Next]_vars PROVE BufferInv'
  OBVIOUS
<1> USE DEF BufferInv, StoppedInv, TypeOK, Flushers
<1>1. CASE Begin
  BY <1>1 DEF Begin, flushVars
<1>2. CASE WriteLine \/ Conclude
  BY <1>2 DEF WriteLine, Conclude, flushVars
<1>3. CASE NothingToFlush
  BY <1>3 DEF NothingToFlush, Returned, writerVars, flushVars
<1>4. CASE Close \/ Join
  BY <1>4 DEF Close, Join, writerVars, flushVars
<1>5. CASE TaskTake
  BY <1>5 DEF TaskTake, Take
<1>6. CASE Tick
  BY <1>6 DEF Tick, Take
<1>7. ASSUME NEW p \in Flushers, Fetch(p) PROVE BufferInv'
  BY <1>7 DEF Fetch, writerVars
<1>8. ASSUME NEW p \in Flushers, Save(p) PROVE BufferInv'
  BY <1>8 DEF Save, Returned, writerVars
<1>9. CASE LoopStops
  BY <1>9 DEF LoopStops, flushVars
<1>10. CASE UNCHANGED vars
  BY <1>10 DEF vars, writerVars, flushVars
<1>11. QED
  BY <1>1, <1>2, <1>3, <1>4, <1>5, <1>6, <1>7, <1>8, <1>9, <1>10
  DEF Next, TaskStep, LoopStep

\* The column, the chunk of the flush that is under way and the buffer follow on
\* one another, up to the last line written: the column has the lines up to a, the
\* chunk those up to b. Nothing has changed the column since that flush read it.
Flow(a, b) ==
  /\ a <= b /\ b <= written
  /\ Remains(out, 0, a) /\ Remains(buf, b, written)
  /\ (\A p \in Flushers : step[p] = "none") => a = b
  /\ \A p \in Flushers : /\ step[p] # "none" => Remains(chunk[p], a, b)
                         /\ step[p] = "store" => seen[p] = out

FlowInv ==
  /\ Full(buf) /\ \A p \in Flushers : step[p] # "none" => Full(chunk[p])
  /\ (~overlap /\ faults = 0) => \E a, b \in Nat : Flow(a, b)

LEMMA RemainsNothing ==
  ASSUME NEW n \in Nat
  PROVE  Remains(<<>>, n, n) /\ Full(<<>>)
BY DEF Remains, Full, Marked

LEMMA FlowInit == Init => FlowInv
<1> SUFFICES ASSUME Init PROVE FlowInv
  OBVIOUS
<1>1. Remains(<<>>, 0, 0) /\ Full(<<>>)
  BY RemainsNothing
<1>2. Flow(0, 0)
  BY <1>1 DEF Init, Flow
<1>3. QED
  BY <1>1, <1>2 DEF Init, FlowInv

LEMMA FlowStep ==
  TypeOK /\ StoppedInv /\ BufferInv /\ FlowInv /\ [Next]_vars => FlowInv'
<1> SUFFICES ASSUME TypeOK, StoppedInv, BufferInv, FlowInv, [Next]_vars PROVE FlowInv'
  OBVIOUS
<1>0. /\ buf \in Seq(Nat) /\ out \in Seq(Nat) /\ written \in Nat /\ faults \in Nat
      /\ chunk \in [Flushers -> Seq(Nat)] /\ seen \in [Flushers -> Seq(Nat)]
      /\ step \in [Flushers -> {"none", "read", "store"}] /\ overlap \in BOOLEAN
  BY OutputAssumption DEF TypeOK
<1>1. ASSUME buf' = Buffered(Append(buf, Line)), written' = Line,
             UNCHANGED <<flushVars, out, overlap, faults>>
      PROVE  FlowInv'
  <2>1. Line = written + 1 /\ Line \in Nat \ {Mark}
    BY <1>0 DEF Line, Mark
  <2>2. Full(buf) /\ Full(buf')
    BY <1>0, <1>1, <2>1, FullBuffered DEF FlowInv
  <2>3. ASSUME ~overlap, faults = 0
        PROVE  \E a, b \in Nat : Flow(a, b)'
    <3>1. PICK a \in Nat, b \in Nat : Flow(a, b)
      BY <2>3 DEF FlowInv
    <3>2. Remains(buf', b, written')
      BY <1>0, <1>1, <2>1, <2>2, <3>1, RemainsBuffered DEF Flow
    <3>3. b <= written'
      BY <1>0, <1>1, <2>1, <3>1 DEF Flow
    <3>4. Flow(a, b)'
      BY <1>1, <3>1, <3>2, <3>3 DEF Flow, flushVars
    <3>5. QED
      BY <3>4
  <2>4. QED
    BY <1>1, <2>2, <2>3 DEF FlowInv, flushVars
<1>2. CASE Begin
  <2>1. buf = <<>> /\ <<Line>> = Append(<<>>, Line)
    BY <1>2 DEF Begin, BufferInv, Line
  <2>2. buf' = Buffered(Append(buf, Line)) /\ written' = Line
    BY <1>2, <2>1 DEF Begin
  <2>3. QED
    BY <1>1, <1>2, <2>2 DEF Begin
<1>3. CASE WriteLine \/ Conclude
  BY <1>1, <1>3 DEF WriteLine, Conclude, Write
<1>4. CASE NothingToFlush \/ Close \/ Join \/ LoopStops \/ UNCHANGED vars
  <2>1. UNCHANGED <<buf, written, out, flushVars, overlap, faults>>
    BY <1>4 DEF NothingToFlush, Close, Join, LoopStops, vars, rowVars, writerVars
  <2>2. QED
    BY <2>1 DEF FlowInv, Flow, flushVars
<1>5. ASSUME NEW p \in Flushers, Take(p) PROVE FlowInv'
  <2>1. /\ step[p] = "none" /\ step' = [step EXCEPT ![p] = "read"]
        /\ buf' = <<>> /\ chunk' = [chunk EXCEPT ![p] = buf]
        /\ UNCHANGED <<written, seen, out, faults>>
        /\ overlap' = (overlap \/ \E q \in Flushers : step[q] # "none")
    BY <1>5 DEF Take, rowVars
  <2>2. /\ chunk'[p] = buf /\ step'[p] = "read"
        /\ \A q \in Flushers : q # p => chunk'[q] = chunk[q] /\ step'[q] = step[q]
    BY <1>0, <2>1
  <2>3. Full(buf') /\ \A q \in Flushers : step'[q] # "none" => Full(chunk'[q])
    BY <2>1, <2>2, RemainsNothing DEF FlowInv
  <2>4. ASSUME ~overlap', faults' = 0
        PROVE  \E a, b \in Nat : Flow(a, b)'
    <3>1. ~overlap /\ faults = 0 /\ \A q \in Flushers : step[q] = "none"
      BY <2>1, <2>4
    <3>2. PICK a \in Nat, b \in Nat : Flow(a, b)
      BY <3>1 DEF FlowInv
    <3>3. a = b /\ Remains(buf, a, written) /\ a <= written /\ Remains(out, 0, a)
      BY <3>1, <3>2 DEF Flow
    <3>4. Remains(buf', written', written') /\ written' = written
      BY <1>0, <2>1, RemainsNothing
    <3>5. /\ \A q \in Flushers : q # p => step'[q] = "none"
          /\ ~(\A q \in Flushers : step'[q] = "none")
      BY <2>2, <3>1
    <3>6. Flow(a, written)'
      BY <1>0, <2>1, <2>2, <3>3, <3>4, <3>5 DEF Flow
    <3>7. QED
      BY <1>0, <3>4, <3>6
  <2>5. QED
    BY <2>3, <2>4 DEF FlowInv
<1>6. ASSUME NEW p \in Flushers, Fetch(p) PROVE FlowInv'
  <2>1. /\ step[p] = "read" /\ step' = [step EXCEPT ![p] = "store"]
        /\ UNCHANGED <<written, buf, chunk, out, overlap>>
        /\ (seen' = [seen EXCEPT ![p] = out] /\ faults' = faults) \/ faults' = faults + 1
    BY <1>6 DEF Fetch, Fails, rowVars, writerVars
  <2>2. step'[p] = "store" /\ \A q \in Flushers : q # p => step'[q] = step[q]
    BY <1>0, <2>1
  <2>3. Full(buf') /\ \A q \in Flushers : step'[q] # "none" => Full(chunk'[q])
    BY <2>1, <2>2 DEF FlowInv
  <2>4. ASSUME ~overlap', faults' = 0
        PROVE  \E a, b \in Nat : Flow(a, b)'
    <3>1. ~overlap /\ faults = 0 /\ seen'[p] = out
      BY <1>0, <2>1, <2>4
    <3>2. PICK a \in Nat, b \in Nat : Flow(a, b)
      BY <3>1 DEF FlowInv
    <3>3. \A q \in Flushers : q # p => step'[q] = "none"
      BY <2>1, <2>2, <3>1 DEF BufferInv
    <3>4. Flow(a, b)'
      BY <2>1, <2>2, <3>1, <3>2, <3>3 DEF Flow
    <3>5. QED
      BY <3>4
  <2>5. QED
    BY <2>3, <2>4 DEF FlowInv
<1>7. ASSUME NEW p \in Flushers, Save(p) PROVE FlowInv'
  <2>1. /\ step[p] = "store" /\ step' = [step EXCEPT ![p] = "none"]
        /\ chunk' = [chunk EXCEPT ![p] = <<>>]
        /\ UNCHANGED <<written, buf, overlap>>
        /\ (out' = Merged(seen[p], chunk[p]) /\ faults' = faults) \/ faults' = faults + 1
    BY <1>7 DEF Save, Fails, rowVars, writerVars
  <2>2. step'[p] = "none" /\ \A q \in Flushers : q # p => step'[q] = step[q] /\ chunk'[q] = chunk[q]
    BY <1>0, <2>1
  <2>3. Full(buf') /\ \A q \in Flushers : step'[q] # "none" => Full(chunk'[q])
    BY <2>1, <2>2 DEF FlowInv
  <2>4. ASSUME ~overlap', faults' = 0
        PROVE  \E a, b \in Nat : Flow(a, b)'
    <3>1. ~overlap /\ faults = 0 /\ out' = Merged(seen[p], chunk[p])
      BY <1>0, <2>1, <2>4
    <3>2. PICK a \in Nat, b \in Nat : Flow(a, b)
      BY <3>1 DEF FlowInv
    <3>3. \A q \in Flushers : step'[q] = "none"
      BY <1>0, <2>1, <2>2, <3>1 DEF BufferInv
    <3>4. seen[p] = out /\ Remains(chunk[p], a, b) /\ Full(chunk[p]) /\ a <= b
      BY <2>1, <3>2 DEF Flow, FlowInv
    <3>5. Remains(out', 0, b)
      BY <1>0, <3>1, <3>2, <3>4, RemainsMerged DEF Flow
    <3>6. Flow(b, b)'
      BY <2>1, <3>2, <3>3, <3>5 DEF Flow
    <3>7. QED
      BY <3>6
  <2>5. QED
    BY <2>3, <2>4 DEF FlowInv
<1>8. QED
  BY <1>2, <1>3, <1>4, <1>5, <1>6, <1>7 DEF Next, TaskStep, LoopStep, TaskTake, Tick, Flushers

\* Whatever the cap and the pace of the flush loop, only a failing statement or
\* two flushes that overlap cost the column a line: otherwise what a finished
\* execution leaves is the whole output, or its end after the mark.
THEOREM CompleteHolds == Spec => []CompleteUnlessOverlapping
<1>1. TypeOK /\ StoppedInv /\ BufferInv /\ FlowInv => CompleteUnlessOverlapping
  <2> SUFFICES ASSUME TypeOK, StoppedInv, BufferInv, FlowInv, task = "idle", ~overlap, faults = 0
               PROVE  /\ \A i \in DOMAIN out :
                           IF out[i] = Mark THEN i = 1 ELSE out[i] = written - Len(out) + i
                      /\ Len(out) = written \/ (out # <<>> /\ out[1] = Mark)
    BY DEF CompleteUnlessOverlapping
  <2>1. PICK a \in Nat, b \in Nat : Flow(a, b)
    BY DEF FlowInv
  <2>2. /\ buf = <<>> /\ \A p \in Flushers : step[p] = "none"
        /\ DOMAIN out = 1..Len(out)
    BY DEF BufferInv, StoppedInv, Flushers, TypeOK
  <2>10. written \in Nat /\ Len(out) \in Nat
    BY DEF TypeOK
  <2>3. b = written
    <3>1. Len(buf) = 0 /\ ~Marked(buf)
      BY <2>2 DEF Marked
    <3>2. 0 = written - b
      BY <2>1, <3>1 DEF Flow, Remains
    <3>3. QED
      BY <2>10, <3>2
  <2>4. Remains(out, 0, written)
    BY <2>1, <2>2, <2>3 DEF Flow
  <2>5. Len(out) - 1 <= written /\ (~Marked(out) => Len(out) = written)
    <3>1. /\ Marked(out) => Len(out) - 1 <= written - 0
          /\ ~Marked(out) => Len(out) = written - 0
      BY <2>4 DEF Remains
    <3>2. QED
      BY <2>10, <3>1
  <2>6. ASSUME NEW i \in 1..Len(out)
        PROVE  IF out[i] = Mark THEN i = 1 ELSE out[i] = written - Len(out) + i
    <3>1. out[i] = written - Len(out) + i \/ (i = 1 /\ out[1] = Mark)
      BY <2>4 DEF Remains
    <3>2. i # 1 => written - Len(out) + i # 0
      BY <2>5, <2>6, <2>10
    <3>3. QED
      BY <3>1, <3>2 DEF Mark
  <2>7. Len(out) = written \/ (out # <<>> /\ out[1] = Mark)
    <3>1. CASE Marked(out)
      BY <3>1 DEF Marked
    <3>2. CASE ~Marked(out)
      BY <2>5, <3>2
    <3>3. QED
      BY <3>1, <3>2
  <2>8. QED
    BY <2>2, <2>6, <2>7
<1>2. QED
  BY <1>1, TypeInit, TypeStep, StoppedInit, StoppedStep, BufferInit, BufferStep,
     FlowInit, FlowStep, PTL DEF Spec
=============================================================================
