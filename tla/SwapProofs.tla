----------------------------- MODULE SwapProofs -----------------------------
(***************************************************************************)
(* Theorems about BinarySwap, for every number of requests, files, failing *)
(* operations and ends of the process.                                     *)
(***************************************************************************)
EXTENDS BinarySwap, TLAPS

Whole(n) == dir[n] \in whole

\* No file has two names, and files yet to be written have none.
FilesApart ==
  /\ \A n \in Names : dir[n] <= files
  /\ \A n, m \in Names : dir[n] = dir[m] /\ dir[n] # Nothing => n = m

Alone == \A r, s \in Busy : r = s

\* What a request knows of the files at its step. An agent that renames twice has
\* failed before, and has failed twice when it rolls back.
Knows(r) ==
  /\ pc[r] \in {"swap", "clear", "backup", "place"} => Whole("new")
  /\ pc[r] \in Vacating \cup {"mode"} => Whole("old")
  /\ pc[r] \in {"mode", "drop"} => Whole("exe")
  /\ pc[r] = "discard" => side = "panel"
  /\ pc[r] \in {"swap", "clear"} => side = "agent"
  /\ side = "agent" /\ pc[r] \in {"clear", "backup", "place"} => faults >= 1
  /\ side = "agent" /\ pc[r] = "rollback" => faults >= 2
  /\ pc[r] = "clear" => Whole("exe") \/ faults >= 4

\* Of an executable and a backup of a single update: both are whole or not there,
\* one of them is there, and the first one is, unless it is on the way.
NoFragments == {dir["exe"], dir["old"]} \subseteq whole \cup {Nothing}
AgentVacant ==
  side = "agent" /\ up /\ ~Whole("exe") => faults >= 3 \/ \E r \in Updaters : pc[r] \in Vacating
InPlace == ~overlap => Alone /\ NoFragments /\ AgentVacant /\ \A r \in Updaters : Knows(r)
EndedIdle == ~up => Busy = {}

SwapInv ==
  SwapTypeOK /\ FilesApart /\ EndedIdle /\ InPlace /\ ExeStaysWhole /\ CopyRemains /\ UpgradePossible

\* Everything is in place when the program begins.
LEMMA SwapInitial == SwapInit => SwapInv
<1> SUFFICES ASSUME SwapInit PROVE SwapInv
  OBVIOUS
<1> USE SwapAssumption DEF SwapInit, Names, Files, Nothing, Former
<1>1. SwapTypeOK
  <2>1. dir \in [Names -> Files \cup {Nothing}] /\ whole \in SUBSET Files /\ files \in Files
    OBVIOUS
  <2>2. /\ pc \in [Updaters -> Steps] /\ writes \in [Updaters -> Files \cup {Nothing}]
        /\ cut \in [Updaters -> BOOLEAN]
    BY DEF Steps
  <2>3. side \in {"panel", "agent"} /\ ends \in 0..MaxEnds /\ faults \in 0..MaxFaults
    OBVIOUS
  <2>4. {up, agentBusy, overlap, interrupted} \subseteq BOOLEAN
    OBVIOUS
  <2> QED BY <2>1, <2>2, <2>3, <2>4 DEF SwapTypeOK
<1>2. Busy = {} /\ Whole("exe")
  BY DEF Busy, Whole
<1>3. FilesApart
  BY DEF FilesApart
<1>4. InPlace
  BY <1>2 DEF InPlace, Alone, NoFragments, AgentVacant, Knows, Vacating, Whole
<1> QED
  BY <1>1, <1>2, <1>3, <1>4 DEF SwapInv, EndedIdle, ExeStaysWhole, CopyRemains, UpgradePossible, Whole

\* Every step keeps the invariant. Of each action: types, files, the flag, then
\* what its request knows while no other one is in progress.
LEMMA SwapStep == SwapInv /\ [SwapNext]_swapVars => SwapInv'
<1> SUFFICES ASSUME SwapInv, [SwapNext]_swapVars PROVE SwapInv'
  OBVIOUS
<1> USE SwapAssumption
     DEF SwapInv, KeepFiles, KeepRest, service, past, Goto, Fault, NoFault, Exists, Rename, Remove,
         SwapTypeOK, Names, Files, Nothing, Former, Steps
\* Nobody else has a request in progress, or overlap' holds.
<1>1. ASSUME NEW r \in Updaters, RequestUpdate(r) PROVE SwapInv'
  <2>1. SwapTypeOK'
    BY <1>1 DEF RequestUpdate, PanelTakes, AgentTakes, FilesApart
  <2>2. FilesApart'
    BY <1>1, <2>1 DEF RequestUpdate, PanelTakes, AgentTakes, FilesApart
  <2>3. EndedIdle' /\ UpgradePossible'
    BY <1>1 DEF RequestUpdate, PanelTakes, AgentTakes, EndedIdle, UpgradePossible, Busy
  <2>4. ASSUME ~overlap' PROVE \A s \in Updaters : s # r => pc[s] = "idle" /\ pc'[s] = "idle"
    BY <1>1, <2>4 DEF RequestUpdate, PanelTakes, AgentTakes, InPlace, Alone, Busy
  <2>5. ASSUME ~overlap' PROVE Alone' /\ NoFragments' /\ Knows(r)' /\ AgentVacant'
    BY <1>1, <2>1, <2>4, <2>5 DEF RequestUpdate, PanelTakes, AgentTakes, InPlace, Alone, Busy, NoFragments, Knows,
          Whole, AgentVacant, Vacating, FilesApart, CopyRemains
  <2>6. ASSUME ~overlap', NEW s \in Updaters PROVE Knows(s)'
    BY <2>4, <2>5, <2>6 DEF Knows, Vacating
  <2>7. ExeStaysWhole' /\ CopyRemains'
    BY <1>1, <2>1, <2>4, <2>5 DEF RequestUpdate, PanelTakes, AgentTakes, InPlace, NoFragments, Knows, Whole, Vacating, FilesApart,
          CopyRemains, ExeStaysWhole
  <2> QED BY <2>1, <2>2, <2>3, <2>5, <2>6, <2>7 DEF InPlace
\* The file truncated is not one in place, since no file has two names.
<1>2. ASSUME NEW r \in Updaters, OpenDownload(r) PROVE SwapInv'
  <2>0. Exists("new") \/ ~Exists("new")
    BY <1>2 DEF OpenDownload
  <2>1. SwapTypeOK'
    <3>1. CASE Exists("new")
      BY <1>2, <3>1 DEF OpenDownload, FilesApart
    <3>2. CASE ~Exists("new")
      <4>1. files' \in Files /\ files' = files + 1
        BY <1>2, <3>2 DEF OpenDownload
      <4>2. dir' \in [Names -> Files \cup {Nothing}] /\ writes' \in [Updaters -> Files \cup {Nothing}]
        BY <1>2, <3>2, <4>1 DEF OpenDownload
      <4>3. \A s \in Updaters : writes'[s] # Nothing <=> pc'[s] = "copy"
        BY <1>2, <3>2, <4>1 DEF OpenDownload
      <4> QED BY <1>2, <3>2, <4>1, <4>2, <4>3 DEF OpenDownload
    <3> QED BY <2>0, <3>1, <3>2
  <2>2. FilesApart'
    <3>1. CASE Exists("new")
      BY <1>2, <3>1, <2>1 DEF OpenDownload, FilesApart
    <3>2. CASE ~Exists("new")
      BY <1>2, <3>2, <2>1 DEF OpenDownload, FilesApart
    <3> QED BY <2>0, <3>1, <3>2
  <2>3. EndedIdle' /\ UpgradePossible'
    <3>1. CASE Exists("new")
      BY <1>2, <3>1 DEF OpenDownload, EndedIdle, UpgradePossible, Busy
    <3>2. CASE ~Exists("new")
      BY <1>2, <3>2 DEF OpenDownload, EndedIdle, UpgradePossible, Busy
    <3> QED BY <2>0, <3>1, <3>2
  <2>4. ASSUME ~overlap' PROVE \A s \in Updaters : s # r => pc[s] = "idle" /\ pc'[s] = "idle"
    <3>1. CASE Exists("new")
      BY <1>2, <3>1, <2>4 DEF OpenDownload, InPlace, Alone, Busy
    <3>2. CASE ~Exists("new")
      BY <1>2, <3>2, <2>4 DEF OpenDownload, InPlace, Alone, Busy
    <3> QED BY <2>0, <3>1, <3>2
  <2>5. ASSUME ~overlap' PROVE Alone' /\ NoFragments' /\ Knows(r)' /\ AgentVacant'
    <3>1. CASE Exists("new")
      BY <1>2, <3>1, <2>1, <2>4, <2>5 DEF OpenDownload, InPlace, Alone, Busy, NoFragments, Knows,
          Whole, AgentVacant, Vacating, FilesApart, CopyRemains
    <3>2. CASE ~Exists("new")
      BY <1>2, <3>2, <2>1, <2>4, <2>5 DEF OpenDownload, InPlace, Alone, Busy, NoFragments, Knows,
          Whole, AgentVacant, Vacating, FilesApart, CopyRemains
    <3> QED BY <2>0, <3>1, <3>2
  <2>6. ASSUME ~overlap', NEW s \in Updaters PROVE Knows(s)'
    BY <2>4, <2>5, <2>6 DEF Knows, Vacating
  <2>7. ExeStaysWhole' /\ CopyRemains'
    <3>1. CASE Exists("new")
      BY <1>2, <3>1, <2>1, <2>4, <2>5 DEF OpenDownload, InPlace, NoFragments, Knows, Whole, Vacating, FilesApart,
          CopyRemains, ExeStaysWhole
    <3>2. CASE ~Exists("new")
      BY <1>2, <3>2, <2>1, <2>4, <2>5 DEF OpenDownload, InPlace, NoFragments, Knows, Whole, Vacating, FilesApart,
          CopyRemains, ExeStaysWhole
    <3> QED BY <2>0, <3>1, <3>2
  <2> QED BY <2>1, <2>2, <2>3, <2>5, <2>6, <2>7 DEF InPlace
<1>3. ASSUME NEW r \in Updaters, Copied(r) PROVE SwapInv'
  <2>1. SwapTypeOK'
    BY <1>3 DEF Copied, FilesApart
  <2>2. FilesApart'
    BY <1>3, <2>1 DEF Copied, FilesApart
  <2>3. EndedIdle' /\ UpgradePossible'
    BY <1>3 DEF Copied, EndedIdle, UpgradePossible, Busy
  <2>4. ASSUME ~overlap' PROVE \A s \in Updaters : s # r => pc[s] = "idle" /\ pc'[s] = "idle"
    BY <1>3, <2>4 DEF Copied, InPlace, Alone, Busy
  <2>5. ASSUME ~overlap' PROVE Alone' /\ NoFragments' /\ Knows(r)' /\ AgentVacant'
    BY <1>3, <2>1, <2>4, <2>5 DEF Copied, InPlace, Alone, Busy, NoFragments, Knows,
          Whole, AgentVacant, Vacating, FilesApart, CopyRemains
  <2>6. ASSUME ~overlap', NEW s \in Updaters PROVE Knows(s)'
    BY <2>4, <2>5, <2>6 DEF Knows, Vacating
  <2>7. ExeStaysWhole' /\ CopyRemains'
    BY <1>3, <2>1, <2>4, <2>5 DEF Copied, InPlace, NoFragments, Knows, Whole, Vacating, FilesApart,
          CopyRemains, ExeStaysWhole
  <2> QED BY <2>1, <2>2, <2>3, <2>5, <2>6, <2>7 DEF InPlace
<1>4. ASSUME NEW r \in Updaters, DownloadFails(r) PROVE SwapInv'
  <2>1. SwapTypeOK'
    BY <1>4 DEF DownloadFails, FilesApart
  <2>2. FilesApart'
    BY <1>4, <2>1 DEF DownloadFails, FilesApart
  <2>3. EndedIdle' /\ UpgradePossible'
    BY <1>4 DEF DownloadFails, EndedIdle, UpgradePossible, Busy
  <2>4. ASSUME ~overlap' PROVE \A s \in Updaters : s # r => pc[s] = "idle" /\ pc'[s] = "idle"
    BY <1>4, <2>4 DEF DownloadFails, InPlace, Alone, Busy
  <2>5. ASSUME ~overlap' PROVE Alone' /\ NoFragments' /\ Knows(r)' /\ AgentVacant'
    BY <1>4, <2>1, <2>4, <2>5 DEF DownloadFails, InPlace, Alone, Busy, NoFragments, Knows,
          Whole, AgentVacant, Vacating, FilesApart, CopyRemains
  <2>6. ASSUME ~overlap', NEW s \in Updaters PROVE Knows(s)'
    BY <2>4, <2>5, <2>6 DEF Knows, Vacating
  <2>7. ExeStaysWhole' /\ CopyRemains'
    BY <1>4, <2>1, <2>4, <2>5 DEF DownloadFails, InPlace, NoFragments, Knows, Whole, Vacating, FilesApart,
          CopyRemains, ExeStaysWhole
  <2> QED BY <2>1, <2>2, <2>3, <2>5, <2>6, <2>7 DEF InPlace
<1>5. ASSUME NEW r \in Updaters, CheckDownload(r) PROVE SwapInv'
  <2>0. UNCHANGED <<dir, whole, side, faults, up, overlap>>
    BY <1>5 DEF CheckDownload
  <2>1. SwapTypeOK'
    BY <1>5 DEF CheckDownload, FilesApart
  <2>2. FilesApart'
    BY <1>5, <2>1 DEF CheckDownload, FilesApart
  <2>3. EndedIdle' /\ UpgradePossible'
    BY <1>5 DEF CheckDownload, EndedIdle, UpgradePossible, Busy
  <2>4. ASSUME ~overlap' PROVE \A s \in Updaters : s # r => pc[s] = "idle" /\ pc'[s] = "idle"
    BY <1>5, <2>4 DEF CheckDownload, InPlace, Alone, Busy
  <2>5. ASSUME ~overlap' PROVE Alone' /\ NoFragments' /\ Knows(r)' /\ AgentVacant'
    <3>1. Alone' /\ NoFragments'
      BY <1>5, <2>0, <2>1, <2>4, <2>5 DEF InPlace, Alone, Busy, NoFragments
    <3>2. /\ pc' = [pc EXCEPT ![r] = pc'[r]] /\ pc[r] = "check"
          /\ \/ pc'[r] = "failed"
             \/ pc'[r] = "backup" /\ side = "panel" /\ Whole("new")
             \/ pc'[r] = "swap" /\ side = "agent" /\ Whole("new")
      BY <1>5 DEF CheckDownload, Whole
    <3>3. Knows(r)'
      BY <2>0, <3>2 DEF Knows, Whole, Vacating
    <3>4. AgentVacant'
      BY <2>0, <2>4, <2>5, <3>2 DEF InPlace, AgentVacant, Whole, Vacating
    <3> QED BY <3>1, <3>3, <3>4
  <2>6. ASSUME ~overlap', NEW s \in Updaters PROVE Knows(s)'
    BY <2>4, <2>5, <2>6 DEF Knows, Vacating
  <2>7. ExeStaysWhole' /\ CopyRemains'
    BY <1>5, <2>1, <2>4, <2>5 DEF CheckDownload, InPlace, NoFragments, Knows, Whole, Vacating, FilesApart,
          CopyRemains, ExeStaysWhole
  <2> QED BY <2>1, <2>2, <2>3, <2>5, <2>6, <2>7 DEF InPlace
<1>6. ASSUME NEW r \in Updaters, SwapAtOnce(r) PROVE SwapInv'
  <2>0. (Fault /\ Goto(r, "clear") /\ UNCHANGED dir) \/ (Exists("new") /\ Rename("new", "exe") /\ Goto(r, "replaced") /\ NoFault)
    BY <1>6 DEF SwapAtOnce
  <2>1. SwapTypeOK'
    <3>1. CASE Fault /\ Goto(r, "clear") /\ UNCHANGED dir
      BY <1>6, <3>1 DEF SwapAtOnce, FilesApart
    <3>2. CASE Exists("new") /\ Rename("new", "exe") /\ Goto(r, "replaced") /\ NoFault
      BY <1>6, <3>2 DEF SwapAtOnce, FilesApart
    <3> QED BY <2>0, <3>1, <3>2
  <2>2. FilesApart'
    <3>1. CASE Fault /\ Goto(r, "clear") /\ UNCHANGED dir
      BY <1>6, <3>1, <2>1 DEF SwapAtOnce, FilesApart
    <3>2. CASE Exists("new") /\ Rename("new", "exe") /\ Goto(r, "replaced") /\ NoFault
      BY <1>6, <3>2, <2>1 DEF SwapAtOnce, FilesApart
    <3> QED BY <2>0, <3>1, <3>2
  <2>3. EndedIdle' /\ UpgradePossible'
    <3>1. CASE Fault /\ Goto(r, "clear") /\ UNCHANGED dir
      BY <1>6, <3>1 DEF SwapAtOnce, EndedIdle, UpgradePossible, Busy
    <3>2. CASE Exists("new") /\ Rename("new", "exe") /\ Goto(r, "replaced") /\ NoFault
      BY <1>6, <3>2 DEF SwapAtOnce, EndedIdle, UpgradePossible, Busy
    <3> QED BY <2>0, <3>1, <3>2
  <2>4. ASSUME ~overlap' PROVE \A s \in Updaters : s # r => pc[s] = "idle" /\ pc'[s] = "idle"
    <3>1. CASE Fault /\ Goto(r, "clear") /\ UNCHANGED dir
      BY <1>6, <3>1, <2>4 DEF SwapAtOnce, InPlace, Alone, Busy
    <3>2. CASE Exists("new") /\ Rename("new", "exe") /\ Goto(r, "replaced") /\ NoFault
      BY <1>6, <3>2, <2>4 DEF SwapAtOnce, InPlace, Alone, Busy
    <3> QED BY <2>0, <3>1, <3>2
  <2>5. ASSUME ~overlap' PROVE Alone' /\ NoFragments' /\ Knows(r)' /\ AgentVacant'
    <3>1. CASE Fault /\ Goto(r, "clear") /\ UNCHANGED dir
      <4>1. Alone' /\ NoFragments' /\ AgentVacant'
        BY <1>6, <3>1, <2>1, <2>4, <2>5 DEF SwapAtOnce, InPlace, Alone, Busy, NoFragments, AgentVacant,
            Whole, Vacating
      <4>2. Whole("exe") \/ faults >= 3
        <5>1. up /\ \A s \in Updaters : pc[s] \notin Vacating
          BY <1>6, <2>4, <2>5 DEF SwapAtOnce, EndedIdle, Busy, Vacating
        <5>2. side = "agent" => Whole("exe") \/ faults >= 3
          BY <1>6, <2>5, <5>1 DEF SwapAtOnce, InPlace, AgentVacant
        <5> QED BY <1>6, <2>5, <5>2 DEF SwapAtOnce, InPlace, Knows
      <4>3. Knows(r)'
        BY <1>6, <3>1, <2>5, <4>2 DEF SwapAtOnce, InPlace, Knows, Whole, Vacating
      <4> QED BY <4>1, <4>3
    <3>2. CASE Exists("new") /\ Rename("new", "exe") /\ Goto(r, "replaced") /\ NoFault
      BY <1>6, <3>2, <2>1, <2>4, <2>5 DEF SwapAtOnce, InPlace, Alone, Busy, NoFragments, Knows,
          Whole, AgentVacant, Vacating, FilesApart, CopyRemains
    <3> QED BY <2>0, <3>1, <3>2
  <2>6. ASSUME ~overlap', NEW s \in Updaters PROVE Knows(s)'
    BY <2>4, <2>5, <2>6 DEF Knows, Vacating
  <2>7. ExeStaysWhole' /\ CopyRemains'
    <3>1. CASE Fault /\ Goto(r, "clear") /\ UNCHANGED dir
      BY <1>6, <3>1, <2>1, <2>4, <2>5 DEF SwapAtOnce, InPlace, NoFragments, Knows, Whole, Vacating, FilesApart,
          CopyRemains, ExeStaysWhole
    <3>2. CASE Exists("new") /\ Rename("new", "exe") /\ Goto(r, "replaced") /\ NoFault
      BY <1>6, <3>2, <2>1, <2>4, <2>5 DEF SwapAtOnce, InPlace, NoFragments, Knows, Whole, Vacating, FilesApart,
          CopyRemains, ExeStaysWhole
    <3> QED BY <2>0, <3>1, <3>2
  <2> QED BY <2>1, <2>2, <2>3, <2>5, <2>6, <2>7 DEF InPlace
\* The backup is removed with a whole executable in place, or by a fourth failure.
<1>7. ASSUME NEW r \in Updaters, ClearOld(r) PROVE SwapInv'
  <2>1. SwapTypeOK'
    BY <1>7 DEF ClearOld, FilesApart
  <2>2. FilesApart'
    BY <1>7, <2>1 DEF ClearOld, FilesApart
  <2>3. EndedIdle' /\ UpgradePossible'
    BY <1>7 DEF ClearOld, EndedIdle, UpgradePossible, Busy
  <2>4. ASSUME ~overlap' PROVE \A s \in Updaters : s # r => pc[s] = "idle" /\ pc'[s] = "idle"
    BY <1>7, <2>4 DEF ClearOld, InPlace, Alone, Busy
  <2>5. ASSUME ~overlap' PROVE Alone' /\ NoFragments' /\ Knows(r)' /\ AgentVacant'
    BY <1>7, <2>1, <2>4, <2>5 DEF ClearOld, InPlace, Alone, Busy, NoFragments, Knows,
          Whole, AgentVacant, Vacating, FilesApart, CopyRemains
  <2>6. ASSUME ~overlap', NEW s \in Updaters PROVE Knows(s)'
    BY <2>4, <2>5, <2>6 DEF Knows, Vacating
  <2>7. ExeStaysWhole' /\ CopyRemains'
    BY <1>7, <2>1, <2>4, <2>5 DEF ClearOld, InPlace, NoFragments, Knows, Whole, Vacating, FilesApart,
          CopyRemains, ExeStaysWhole
  <2> QED BY <2>1, <2>2, <2>3, <2>5, <2>6, <2>7 DEF InPlace
\* A download that was checked waits, and what is in place is whole.
<1>8. ASSUME NEW r \in Updaters, Backup(r) PROVE SwapInv'
  <2>1. SwapTypeOK'
    BY <1>8 DEF Backup, FilesApart
  <2>2. FilesApart'
    BY <1>8, <2>1 DEF Backup, FilesApart
  <2>3. EndedIdle' /\ UpgradePossible'
    BY <1>8 DEF Backup, EndedIdle, UpgradePossible, Busy
  <2>4. ASSUME ~overlap' PROVE \A s \in Updaters : s # r => pc[s] = "idle" /\ pc'[s] = "idle"
    BY <1>8, <2>4 DEF Backup, InPlace, Alone, Busy
  <2>5. ASSUME ~overlap' PROVE Alone' /\ NoFragments' /\ Knows(r)' /\ AgentVacant'
    BY <1>8, <2>1, <2>4, <2>5 DEF Backup, InPlace, Alone, Busy, NoFragments, Knows,
          Whole, AgentVacant, Vacating, FilesApart, CopyRemains
  <2>6. ASSUME ~overlap', NEW s \in Updaters PROVE Knows(s)'
    BY <2>4, <2>5, <2>6 DEF Knows, Vacating
  <2>7. ExeStaysWhole' /\ CopyRemains'
    BY <1>8, <2>1, <2>4, <2>5 DEF Backup, InPlace, NoFragments, Knows, Whole, Vacating, FilesApart,
          CopyRemains, ExeStaysWhole
  <2> QED BY <2>1, <2>2, <2>3, <2>5, <2>6, <2>7 DEF InPlace
\* The backup is whole, and so is the new file.
<1>9. ASSUME NEW r \in Updaters, Place(r) PROVE SwapInv'
  <2>1. SwapTypeOK'
    BY <1>9 DEF Place, FilesApart
  <2>2. FilesApart'
    BY <1>9, <2>1 DEF Place, FilesApart
  <2>3. EndedIdle' /\ UpgradePossible'
    BY <1>9 DEF Place, EndedIdle, UpgradePossible, Busy
  <2>4. ASSUME ~overlap' PROVE \A s \in Updaters : s # r => pc[s] = "idle" /\ pc'[s] = "idle"
    BY <1>9, <2>4 DEF Place, InPlace, Alone, Busy
  <2>5. ASSUME ~overlap' PROVE Alone' /\ NoFragments' /\ Knows(r)' /\ AgentVacant'
    BY <1>9, <2>1, <2>4, <2>5 DEF Place, InPlace, Alone, Busy, NoFragments, Knows,
          Whole, AgentVacant, Vacating, FilesApart, CopyRemains
  <2>6. ASSUME ~overlap', NEW s \in Updaters PROVE Knows(s)'
    BY <2>4, <2>5, <2>6 DEF Knows, Vacating
  <2>7. ExeStaysWhole' /\ CopyRemains'
    BY <1>9, <2>1, <2>4, <2>5 DEF Place, InPlace, NoFragments, Knows, Whole, Vacating, FilesApart,
          CopyRemains, ExeStaysWhole
  <2> QED BY <2>1, <2>2, <2>3, <2>5, <2>6, <2>7 DEF InPlace
<1>10. ASSUME NEW r \in Updaters, SetMode(r) PROVE SwapInv'
  <2>1. SwapTypeOK'
    BY <1>10 DEF SetMode, FilesApart
  <2>2. FilesApart'
    BY <1>10, <2>1 DEF SetMode, FilesApart
  <2>3. EndedIdle' /\ UpgradePossible'
    BY <1>10 DEF SetMode, EndedIdle, UpgradePossible, Busy
  <2>4. ASSUME ~overlap' PROVE \A s \in Updaters : s # r => pc[s] = "idle" /\ pc'[s] = "idle"
    BY <1>10, <2>4 DEF SetMode, InPlace, Alone, Busy
  <2>5. ASSUME ~overlap' PROVE Alone' /\ NoFragments' /\ Knows(r)' /\ AgentVacant'
    BY <1>10, <2>1, <2>4, <2>5 DEF SetMode, InPlace, Alone, Busy, NoFragments, Knows,
          Whole, AgentVacant, Vacating, FilesApart, CopyRemains
  <2>6. ASSUME ~overlap', NEW s \in Updaters PROVE Knows(s)'
    BY <2>4, <2>5, <2>6 DEF Knows, Vacating
  <2>7. ExeStaysWhole' /\ CopyRemains'
    BY <1>10, <2>1, <2>4, <2>5 DEF SetMode, InPlace, NoFragments, Knows, Whole, Vacating, FilesApart,
          CopyRemains, ExeStaysWhole
  <2> QED BY <2>1, <2>2, <2>3, <2>5, <2>6, <2>7 DEF InPlace
<1>11. ASSUME NEW r \in Updaters, Discard(r) PROVE SwapInv'
  <2>1. SwapTypeOK'
    BY <1>11 DEF Discard, FilesApart
  <2>2. FilesApart'
    BY <1>11, <2>1 DEF Discard, FilesApart
  <2>3. EndedIdle' /\ UpgradePossible'
    BY <1>11 DEF Discard, EndedIdle, UpgradePossible, Busy
  <2>4. ASSUME ~overlap' PROVE \A s \in Updaters : s # r => pc[s] = "idle" /\ pc'[s] = "idle"
    BY <1>11, <2>4 DEF Discard, InPlace, Alone, Busy
  <2>5. ASSUME ~overlap' PROVE Alone' /\ NoFragments' /\ Knows(r)' /\ AgentVacant'
    BY <1>11, <2>1, <2>4, <2>5 DEF Discard, InPlace, Alone, Busy, NoFragments, Knows,
          Whole, AgentVacant, Vacating, FilesApart, CopyRemains
  <2>6. ASSUME ~overlap', NEW s \in Updaters PROVE Knows(s)'
    BY <2>4, <2>5, <2>6 DEF Knows, Vacating
  <2>7. ExeStaysWhole' /\ CopyRemains'
    BY <1>11, <2>1, <2>4, <2>5 DEF Discard, InPlace, NoFragments, Knows, Whole, Vacating, FilesApart,
          CopyRemains, ExeStaysWhole
  <2> QED BY <2>1, <2>2, <2>3, <2>5, <2>6, <2>7 DEF InPlace
<1>12. ASSUME NEW r \in Updaters, RollBack(r) PROVE SwapInv'
  <2>0. (dir' = dir /\ interrupted' = interrupted) \/ (Exists("old") /\ Rename("old", "exe") /\ UNCHANGED <<faults, interrupted>>) \/ (Fault /\ interrupted' = TRUE /\ UNCHANGED dir)
    BY <1>12 DEF RollBack
  <2>1. SwapTypeOK'
    <3>1. CASE dir' = dir /\ interrupted' = interrupted
      BY <1>12, <3>1 DEF RollBack, FilesApart
    <3>2. CASE Exists("old") /\ Rename("old", "exe") /\ UNCHANGED <<faults, interrupted>>
      BY <1>12, <3>2 DEF RollBack, FilesApart
    <3>3. CASE Fault /\ interrupted' = TRUE /\ UNCHANGED dir
      BY <1>12, <3>3 DEF RollBack, FilesApart
    <3> QED BY <2>0, <3>1, <3>2, <3>3
  <2>2. FilesApart'
    <3>1. CASE dir' = dir /\ interrupted' = interrupted
      BY <1>12, <3>1, <2>1 DEF RollBack, FilesApart
    <3>2. CASE Exists("old") /\ Rename("old", "exe") /\ UNCHANGED <<faults, interrupted>>
      BY <1>12, <3>2, <2>1 DEF RollBack, FilesApart
    <3>3. CASE Fault /\ interrupted' = TRUE /\ UNCHANGED dir
      BY <1>12, <3>3, <2>1 DEF RollBack, FilesApart
    <3> QED BY <2>0, <3>1, <3>2, <3>3
  <2>3. EndedIdle' /\ UpgradePossible'
    <3>1. CASE dir' = dir /\ interrupted' = interrupted
      BY <1>12, <3>1 DEF RollBack, EndedIdle, UpgradePossible, Busy
    <3>2. CASE Exists("old") /\ Rename("old", "exe") /\ UNCHANGED <<faults, interrupted>>
      BY <1>12, <3>2 DEF RollBack, EndedIdle, UpgradePossible, Busy
    <3>3. CASE Fault /\ interrupted' = TRUE /\ UNCHANGED dir
      BY <1>12, <3>3 DEF RollBack, EndedIdle, UpgradePossible, Busy
    <3> QED BY <2>0, <3>1, <3>2, <3>3
  <2>4. ASSUME ~overlap' PROVE \A s \in Updaters : s # r => pc[s] = "idle" /\ pc'[s] = "idle"
    <3>1. CASE dir' = dir /\ interrupted' = interrupted
      BY <1>12, <3>1, <2>4 DEF RollBack, InPlace, Alone, Busy
    <3>2. CASE Exists("old") /\ Rename("old", "exe") /\ UNCHANGED <<faults, interrupted>>
      BY <1>12, <3>2, <2>4 DEF RollBack, InPlace, Alone, Busy
    <3>3. CASE Fault /\ interrupted' = TRUE /\ UNCHANGED dir
      BY <1>12, <3>3, <2>4 DEF RollBack, InPlace, Alone, Busy
    <3> QED BY <2>0, <3>1, <3>2, <3>3
  <2>5. ASSUME ~overlap' PROVE Alone' /\ NoFragments' /\ Knows(r)' /\ AgentVacant'
    <3>1. CASE dir' = dir /\ interrupted' = interrupted
      BY <1>12, <3>1, <2>1, <2>4, <2>5 DEF RollBack, InPlace, Alone, Busy, NoFragments, Knows,
          Whole, AgentVacant, Vacating, FilesApart, CopyRemains
    <3>2. CASE Exists("old") /\ Rename("old", "exe") /\ UNCHANGED <<faults, interrupted>>
      BY <1>12, <3>2, <2>1, <2>4, <2>5 DEF RollBack, InPlace, Alone, Busy, NoFragments, Knows,
          Whole, AgentVacant, Vacating, FilesApart, CopyRemains
    <3>3. CASE Fault /\ interrupted' = TRUE /\ UNCHANGED dir
      BY <1>12, <3>3, <2>1, <2>4, <2>5 DEF RollBack, InPlace, Alone, Busy, NoFragments, Knows,
          Whole, AgentVacant, Vacating, FilesApart, CopyRemains
    <3> QED BY <2>0, <3>1, <3>2, <3>3
  <2>6. ASSUME ~overlap', NEW s \in Updaters PROVE Knows(s)'
    BY <2>4, <2>5, <2>6 DEF Knows, Vacating
  <2>7. ExeStaysWhole' /\ CopyRemains'
    <3>1. CASE dir' = dir /\ interrupted' = interrupted
      BY <1>12, <3>1, <2>1, <2>4, <2>5 DEF RollBack, InPlace, NoFragments, Knows, Whole, Vacating, FilesApart,
          CopyRemains, ExeStaysWhole
    <3>2. CASE Exists("old") /\ Rename("old", "exe") /\ UNCHANGED <<faults, interrupted>>
      BY <1>12, <3>2, <2>1, <2>4, <2>5 DEF RollBack, InPlace, NoFragments, Knows, Whole, Vacating, FilesApart,
          CopyRemains, ExeStaysWhole
    <3>3. CASE Fault /\ interrupted' = TRUE /\ UNCHANGED dir
      BY <1>12, <3>3, <2>1, <2>4, <2>5 DEF RollBack, InPlace, NoFragments, Knows, Whole, Vacating, FilesApart,
          CopyRemains, ExeStaysWhole
    <3> QED BY <2>0, <3>1, <3>2, <3>3
  <2> QED BY <2>1, <2>2, <2>3, <2>5, <2>6, <2>7 DEF InPlace
<1>13. ASSUME NEW r \in Updaters, DropOld(r) PROVE SwapInv'
  <2>1. SwapTypeOK'
    BY <1>13 DEF DropOld, FilesApart
  <2>2. FilesApart'
    BY <1>13, <2>1 DEF DropOld, FilesApart
  <2>3. EndedIdle' /\ UpgradePossible'
    BY <1>13 DEF DropOld, EndedIdle, UpgradePossible, Busy
  <2>4. ASSUME ~overlap' PROVE \A s \in Updaters : s # r => pc[s] = "idle" /\ pc'[s] = "idle"
    BY <1>13, <2>4 DEF DropOld, InPlace, Alone, Busy
  <2>5. ASSUME ~overlap' PROVE Alone' /\ NoFragments' /\ Knows(r)' /\ AgentVacant'
    BY <1>13, <2>1, <2>4, <2>5 DEF DropOld, InPlace, Alone, Busy, NoFragments, Knows,
          Whole, AgentVacant, Vacating, FilesApart, CopyRemains
  <2>6. ASSUME ~overlap', NEW s \in Updaters PROVE Knows(s)'
    BY <2>4, <2>5, <2>6 DEF Knows, Vacating
  <2>7. ExeStaysWhole' /\ CopyRemains'
    BY <1>13, <2>1, <2>4, <2>5 DEF DropOld, InPlace, NoFragments, Knows, Whole, Vacating, FilesApart,
          CopyRemains, ExeStaysWhole
  <2> QED BY <2>1, <2>2, <2>3, <2>5, <2>6, <2>7 DEF InPlace
<1>14. ASSUME NEW r \in Updaters, TidyUp(r) PROVE SwapInv'
  <2>1. SwapTypeOK'
    BY <1>14 DEF TidyUp, FilesApart
  <2>2. FilesApart'
    BY <1>14, <2>1 DEF TidyUp, FilesApart
  <2>3. EndedIdle' /\ UpgradePossible'
    BY <1>14 DEF TidyUp, EndedIdle, UpgradePossible, Busy
  <2>4. ASSUME ~overlap' PROVE \A s \in Updaters : s # r => pc[s] = "idle" /\ pc'[s] = "idle"
    BY <1>14, <2>4 DEF TidyUp, InPlace, Alone, Busy
  <2>5. ASSUME ~overlap' PROVE Alone' /\ NoFragments' /\ Knows(r)' /\ AgentVacant'
    BY <1>14, <2>1, <2>4, <2>5 DEF TidyUp, InPlace, Alone, Busy, NoFragments, Knows,
          Whole, AgentVacant, Vacating, FilesApart, CopyRemains
  <2>6. ASSUME ~overlap', NEW s \in Updaters PROVE Knows(s)'
    BY <2>4, <2>5, <2>6 DEF Knows, Vacating
  <2>7. ExeStaysWhole' /\ CopyRemains'
    BY <1>14, <2>1, <2>4, <2>5 DEF TidyUp, InPlace, NoFragments, Knows, Whole, Vacating, FilesApart,
          CopyRemains, ExeStaysWhole
  <2> QED BY <2>1, <2>2, <2>3, <2>5, <2>6, <2>7 DEF InPlace
<1>15. ASSUME NEW r \in Updaters, RestartFails(r) PROVE SwapInv'
  <2>1. SwapTypeOK'
    BY <1>15 DEF RestartFails, FilesApart
  <2>2. FilesApart'
    BY <1>15, <2>1 DEF RestartFails, FilesApart
  <2>3. EndedIdle' /\ UpgradePossible'
    BY <1>15 DEF RestartFails, EndedIdle, UpgradePossible, Busy
  <2>4. ASSUME ~overlap' PROVE \A s \in Updaters : s # r => pc[s] = "idle" /\ pc'[s] = "idle"
    BY <1>15, <2>4 DEF RestartFails, InPlace, Alone, Busy
  <2>5. ASSUME ~overlap' PROVE Alone' /\ NoFragments' /\ Knows(r)' /\ AgentVacant'
    BY <1>15, <2>1, <2>4, <2>5 DEF RestartFails, InPlace, Alone, Busy, NoFragments, Knows,
          Whole, AgentVacant, Vacating, FilesApart, CopyRemains
  <2>6. ASSUME ~overlap', NEW s \in Updaters PROVE Knows(s)'
    BY <2>4, <2>5, <2>6 DEF Knows, Vacating
  <2>7. ExeStaysWhole' /\ CopyRemains'
    BY <1>15, <2>1, <2>4, <2>5 DEF RestartFails, InPlace, NoFragments, Knows, Whole, Vacating, FilesApart,
          CopyRemains, ExeStaysWhole
  <2> QED BY <2>1, <2>2, <2>3, <2>5, <2>6, <2>7 DEF InPlace
<1>16. ASSUME NEW r \in Updaters, ApplyRefused(r) PROVE SwapInv'
  <2>1. SwapTypeOK'
    BY <1>16 DEF ApplyRefused, FilesApart
  <2>2. FilesApart'
    BY <1>16, <2>1 DEF ApplyRefused, FilesApart
  <2>3. EndedIdle' /\ UpgradePossible'
    BY <1>16 DEF ApplyRefused, EndedIdle, UpgradePossible, Busy
  <2>4. ASSUME ~overlap' PROVE \A s \in Updaters : s # r => pc[s] = "idle" /\ pc'[s] = "idle"
    BY <1>16, <2>4 DEF ApplyRefused, InPlace, Alone, Busy
  <2>5. ASSUME ~overlap' PROVE Alone' /\ NoFragments' /\ Knows(r)' /\ AgentVacant'
    BY <1>16, <2>1, <2>4, <2>5 DEF ApplyRefused, InPlace, Alone, Busy, NoFragments, Knows,
          Whole, AgentVacant, Vacating, FilesApart, CopyRemains
  <2>6. ASSUME ~overlap', NEW s \in Updaters PROVE Knows(s)'
    BY <2>4, <2>5, <2>6 DEF Knows, Vacating
  <2>7. ExeStaysWhole' /\ CopyRemains'
    BY <1>16, <2>1, <2>4, <2>5 DEF ApplyRefused, InPlace, NoFragments, Knows, Whole, Vacating, FilesApart,
          CopyRemains, ExeStaysWhole
  <2> QED BY <2>1, <2>2, <2>3, <2>5, <2>6, <2>7 DEF InPlace
\* All requests are gone with the process; one that had the name vacant is remembered.
<1>17. CASE EndProcess
  <2>1. SwapTypeOK'
    <3>1. interrupted' \in BOOLEAN
      BY <1>17 DEF EndProcess
    <3>2. /\ pc' \in [Updaters -> Steps] /\ writes' \in [Updaters -> Files \cup {Nothing}]
          /\ cut' \in [Updaters -> BOOLEAN] /\ ends' \in 0..MaxEnds
      BY <1>17 DEF EndProcess
    <3>3. up' \in BOOLEAN /\ agentBusy' \in BOOLEAN
      BY <1>17 DEF EndProcess
    <3>4. /\ dir' \in [Names -> Files \cup {Nothing}] /\ whole' \in SUBSET Files /\ files' \in Files
          /\ side' \in {"panel", "agent"} /\ faults' \in 0..MaxFaults /\ overlap' \in BOOLEAN
      BY <1>17 DEF EndProcess
    <3>5. \A r \in Updaters : writes'[r] # Nothing <=> pc'[r] = "copy"
      BY <1>17 DEF EndProcess
    <3> QED BY <3>1, <3>2, <3>3, <3>4, <3>5
  <2>2. Busy' = {} /\ FilesApart'
    BY <1>17 DEF EndProcess, FilesApart, Busy
  <2>3. InPlace'
    BY <1>17, <2>2 DEF EndProcess, InPlace, Alone, Knows, Whole, NoFragments, AgentVacant, Busy, Vacating
  <2>4. ExeStaysWhole'
    BY <1>17 DEF EndProcess, ExeStaysWhole
  <2>5. CopyRemains'
    BY <1>17 DEF EndProcess, CopyRemains
  <2> QED BY <1>17, <2>1, <2>2, <2>3, <2>4, <2>5 DEF EndProcess, EndedIdle, UpgradePossible
<1>18. CASE StartProcess
  BY <1>18 DEF StartProcess, FilesApart, EndedIdle, InPlace, Alone, Knows, Whole, NoFragments,
         AgentVacant, ExeStaysWhole, CopyRemains, UpgradePossible, Busy, Vacating
<1>19. CASE UNCHANGED swapVars
  BY <1>19 DEF swapVars, FilesApart, EndedIdle, InPlace, Alone, Knows, Whole, NoFragments,
         AgentVacant, ExeStaysWhole, CopyRemains, UpgradePossible, Busy, Vacating
<1> QED
  BY <1>1, <1>2, <1>3, <1>4, <1>5, <1>6, <1>7, <1>8, <1>9, <1>10, <1>11,
     <1>12, <1>13, <1>14, <1>15, <1>16, <1>17, <1>18, <1>19 DEF SwapNext

-----------------------------------------------------------------------------
\* A single update leaves a whole program under the executable's name, whatever
\* fails or ends the process elsewhere than on its way there, and one beside it then.
THEOREM ProgramKept == SwapSpec => []ProgramSurvives
<1>1. SwapInv => ProgramSurvives
  BY DEF SwapInv, ProgramSurvives
<1> QED BY <1>1, SwapInitial, SwapStep, PTL DEF SwapSpec

\* The agent's flag is never left up by an upgrade that is over.
THEOREM FlagFreed == SwapSpec => []UpgradePossible
<1>1. SwapInv => UpgradePossible
  BY DEF SwapInv
<1> QED BY <1>1, SwapInitial, SwapStep, PTL DEF SwapSpec

\* Every variable keeps its type.
THEOREM SwapTyped == SwapSpec => []SwapTypeOK
<1>1. SwapInv => SwapTypeOK
  BY DEF SwapInv
<1> QED BY <1>1, SwapInitial, SwapStep, PTL DEF SwapSpec
=============================================================================
