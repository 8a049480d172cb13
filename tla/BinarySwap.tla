----------------------------- MODULE BinarySwap -----------------------------
(***************************************************************************)
(* How the program replaces its own executable: the panel's online update  *)
(* (internal/update, api/update_handlers.go, the settings page) and the    *)
(* agent's upgrade (internal/agent/upgrade.go). `side' says which of the   *)
(* two this directory belongs to.                                          *)
(*                                                                         *)
(* A directory maps names to files. A file is the program the service runs *)
(* now, or a download, which is whole or not. The agent's download has a   *)
(* name of its own each time; it is "new" here, since nothing else reads   *)
(* it. Every rename, removal and chmod is one step, may fail, and the      *)
(* process may end before it: killed, out of power or restarted. What a    *)
(* file system loses of whole files at a loss of power is left out.        *)
(***************************************************************************)
EXTENDS Naturals, FiniteSets

CONSTANTS
  Updaters,        (* whoever sends a request: one page, one click at a time      *)
  MaxFiles,      (* bound: files ever written                                   *)
  MaxFaults,     (* bound: failing operations on the directory                  *)
  MaxEnds        (* bound: ends of the process                                  *)

ASSUME SwapAssumption == MaxFiles \in Nat \ {0} /\ MaxFaults \in Nat /\ MaxEnds \in Nat

VARIABLES
  side,          (* panel or agent                                              *)
  dir, whole, files,   (* names and their files; files that are complete; files so far *)
  up, ends,      (* the process runs; how often it ended                        *)
  pc,            (* place of each request                                       *)
  writes, cut,   (* the file each download writes; downloads truncated under their writer *)
  agentBusy,     (* the agent's flag                                            *)
  faults,        (* history: failing operations so far                          *)
  overlap,       (* history: two requests were in progress at once              *)
  interrupted    (* history: a rollback failed, or the process ended before it could *)

service == <<up, ends, agentBusy>>
past == <<faults, overlap, interrupted>>
swapVars == <<side, dir, whole, files, service, pc, writes, cut, past>>

Names == {"exe", "old", "new"}
Nothing == 0
Former == 1
Files == 1..MaxFiles

Steps == {"idle", "open", "copy", "check", "swap", "clear", "backup", "place",
          "mode", "discard", "rollback", "drop", "failed", "replaced", "restart"}
Busy == {r \in Updaters : pc[r] # "idle"}
\* Between these steps the executable's name may be vacant.
Vacating == {"place", "discard", "rollback"}

Goto(r, step) == pc' = [pc EXCEPT ![r] = step]
Fault == faults < MaxFaults /\ faults' = faults + 1
NoFault == UNCHANGED faults
Exists(name) == dir[name] # Nothing
Rename(from, to) == dir' = [dir EXCEPT ![to] = dir[from], ![from] = Nothing]
Remove(name) == dir' = [dir EXCEPT ![name] = Nothing]

KeepRest == UNCHANGED <<side, whole, files, writes, cut, service, overlap>>
KeepFiles == KeepRest /\ UNCHANGED interrupted

-----------------------------------------------------------------------------
SwapInit ==
  /\ side \in {"panel", "agent"}
  /\ dir = [n \in Names |-> IF n = "exe" THEN Former ELSE Nothing]
  /\ whole = {Former} /\ files = 1
  /\ up = TRUE /\ ends = 0 /\ agentBusy = FALSE
  /\ pc = [r \in Updaters |-> "idle"]
  /\ writes = [r \in Updaters |-> Nothing]
  /\ cut = [r \in Updaters |-> FALSE]
  /\ faults = 0 /\ overlap = FALSE /\ interrupted = FALSE

\* The panel takes every request. The button of the page that sent one is dead
\* until its answer comes, those of other pages are not.
PanelTakes == side = "panel" /\ UNCHANGED agentBusy

\* The agent takes one request at a time and refuses the others.
AgentTakes == side = "agent" /\ ~agentBusy /\ agentBusy' = TRUE

RequestUpdate(r) ==
  /\ up /\ pc[r] = "idle"
  /\ PanelTakes \/ AgentTakes
  /\ overlap' = (overlap \/ Busy # {})
  /\ Goto(r, "open")
  /\ UNCHANGED <<side, dir, whole, files, up, ends, writes, cut, faults, interrupted>>

\* The download is opened: truncated where it exists, whoever is writing it.
OpenDownload(r) ==
  /\ pc[r] = "open" /\ Goto(r, "copy")
  /\ \/ /\ Exists("new") /\ whole' = whole \ {dir["new"]}
        /\ writes' = [writes EXCEPT ![r] = dir["new"]]
        /\ cut' = [s \in Updaters |-> s # r /\ (cut[s] \/ writes[s] = dir["new"])]
        /\ UNCHANGED <<dir, files>>
     \/ /\ ~Exists("new") /\ files < MaxFiles /\ files' = files + 1
        /\ dir' = [dir EXCEPT !["new"] = files + 1]
        /\ writes' = [writes EXCEPT ![r] = files + 1]
        /\ cut' = [cut EXCEPT ![r] = FALSE]
        /\ UNCHANGED whole
  /\ UNCHANGED <<side, service, past>>

\* All bytes are written, which completes the file unless the beginning was
\* truncated away after some had been written.
Copied(r) ==
  /\ pc[r] = "copy" /\ Goto(r, "check")
  /\ whole' \in {whole \cup {writes[r]}} \cup IF cut[r] THEN {whole} ELSE {}
  /\ writes' = [writes EXCEPT ![r] = Nothing]
  /\ UNCHANGED <<side, dir, files, cut, service, past>>

\* No release for this machine, or no file to download into: nothing to remove.
ApplyRefused(r) ==
  /\ pc[r] = "open" /\ Goto(r, "idle")
  /\ agentBusy' = FALSE
  /\ UNCHANGED <<side, dir, whole, files, up, ends, writes, cut, past>>

\* Mutant of DownloadFails: the file stays open.
DownloadFailsOpen(r) ==
  /\ pc[r] \in {"open", "copy"} /\ Goto(r, "failed")
  /\ UNCHANGED <<side, dir, whole, files, writes, cut, service, past>>

\* No answer to the download, or it breaks off.
DownloadFails(r) ==
  /\ pc[r] \in {"open", "copy"} /\ Goto(r, "failed")
  /\ writes' = [writes EXCEPT ![r] = Nothing]
  /\ UNCHANGED <<side, dir, whole, files, cut, service, past>>

\* The panel compares the hash, which it may fail to get, the agent runs the new
\* program once.
CheckDownload(r) ==
  /\ pc[r] = "check"
  /\ \/ Goto(r, "failed")
     \/ dir["new"] \in whole /\ Goto(r, IF side = "panel" THEN "backup" ELSE "swap")
  /\ UNCHANGED <<dir, faults>> /\ KeepFiles

-----------------------------------------------------------------------------
\* The agent first tries to put the new file in place at once.
SwapAtOnce(r) ==
  /\ pc[r] = "swap"
  /\ \/ Exists("new") /\ Rename("new", "exe") /\ Goto(r, "replaced") /\ NoFault
     \/ Fault /\ Goto(r, "clear") /\ UNCHANGED dir
  /\ KeepFiles

ClearOld(r) ==
  /\ pc[r] = "clear" /\ Goto(r, "backup")
  /\ \/ Remove("old") /\ NoFault
     \/ Fault /\ UNCHANGED dir
  /\ KeepFiles

\* Mutant of Backup: the old executable is removed instead of renamed.
BackupRemoves(r) ==
  /\ pc[r] = "backup"
  /\ Remove("exe") /\ Goto(r, "place") /\ NoFault
  /\ KeepFiles

\* The old executable makes way.
Backup(r) ==
  /\ pc[r] = "backup"
  /\ \/ Exists("exe") /\ Rename("exe", "old") /\ Goto(r, "place") /\ NoFault
     \/ ~Exists("exe") /\ Goto(r, "failed") /\ UNCHANGED <<dir, faults>>
     \/ Fault /\ Goto(r, "failed") /\ UNCHANGED dir
  /\ KeepFiles

\* Mutant of Place: a failure is not rolled back.
PlaceNoRollback(r) ==
  /\ pc[r] = "place"
  /\ \/ Exists("new") /\ Rename("new", "exe") /\ Goto(r, "mode") /\ NoFault
     \/ Fault /\ Goto(r, "failed") /\ UNCHANGED dir
  /\ KeepFiles

\* The new file takes its place.
Place(r) ==
  /\ pc[r] = "place"
  /\ \/ Exists("new") /\ Rename("new", "exe") /\ Goto(r, "mode") /\ NoFault
     \/ ~Exists("new") /\ Goto(r, "rollback") /\ UNCHANGED <<dir, faults>>
     \/ Fault /\ Goto(r, "rollback") /\ UNCHANGED dir
  /\ KeepFiles

\* A chmod that fails undoes the panel's update; the agent ignores it.
SetMode(r) ==
  /\ pc[r] = "mode" /\ UNCHANGED dir
  /\ \/ Exists("exe") /\ Goto(r, "drop") /\ NoFault
     \/ /\ (~Exists("exe") /\ NoFault) \/ Fault
        /\ Goto(r, IF side = "panel" THEN "discard" ELSE "drop")
  /\ KeepFiles

Discard(r) ==
  /\ pc[r] = "discard" /\ Goto(r, "rollback")
  /\ \/ Remove("exe") /\ NoFault
     \/ Fault /\ UNCHANGED dir
  /\ KeepFiles

RollBack(r) ==
  /\ pc[r] = "rollback" /\ Goto(r, "failed")
  /\ \/ Exists("old") /\ Rename("old", "exe") /\ UNCHANGED <<faults, interrupted>>
     \/ ~Exists("old") /\ UNCHANGED <<dir, faults, interrupted>>
     \/ Fault /\ interrupted' = TRUE /\ UNCHANGED dir
  /\ KeepRest

DropOld(r) ==
  /\ pc[r] = "drop" /\ Goto(r, "replaced")
  /\ \/ Remove("old") /\ NoFault
     \/ Fault /\ UNCHANGED dir
  /\ KeepFiles

\* The deferred removal of the download, whatever is under its name by now. A
\* failure is answered, and the agent takes requests again.
TidyUp(r) ==
  /\ pc[r] \in {"failed", "replaced"}
  /\ Remove("new")
  /\ Goto(r, IF pc[r] = "failed" THEN "idle" ELSE "restart")
  /\ agentBusy' = (agentBusy /\ pc[r] = "replaced")
  /\ UNCHANGED <<side, whole, files, up, ends, writes, cut, past>>

\* Mutant of RestartFails: the flag is only taken down by the end of the process.
RestartFailsFlagged(r) ==
  /\ pc[r] = "restart" /\ Goto(r, "idle")
  /\ UNCHANGED <<side, dir, whole, files, up, ends, agentBusy, writes, cut, past>>

\* systemd refuses: the process goes on with the program it began with.
RestartFails(r) ==
  /\ pc[r] = "restart" /\ Goto(r, "idle")
  /\ agentBusy' = FALSE
  /\ UNCHANGED <<side, dir, whole, files, up, ends, writes, cut, past>>

\* The restart a request asked for, or any other end of the process.
EndProcess ==
  /\ up /\ ends < MaxEnds /\ ends' = ends + 1
  /\ up' = FALSE /\ agentBusy' = FALSE
  /\ pc' = [r \in Updaters |-> "idle"]
  /\ writes' = [r \in Updaters |-> Nothing]
  /\ cut' = [r \in Updaters |-> FALSE]
  /\ interrupted' = (interrupted \/ \E r \in Updaters : pc[r] \in Vacating)
  /\ UNCHANGED <<side, dir, whole, files, faults, overlap>>

\* systemd starts what is under the name, if that is a whole program.
StartProcess ==
  /\ ~up /\ dir["exe"] \in whole /\ up' = TRUE
  /\ UNCHANGED <<side, dir, whole, files, ends, pc, writes, cut, agentBusy, past>>

SwapNext ==
  \/ \E r \in Updaters :
       \/ RequestUpdate(r) \/ ApplyRefused(r) \/ OpenDownload(r) \/ Copied(r) \/ DownloadFails(r)
       \/ CheckDownload(r)
       \/ SwapAtOnce(r) \/ ClearOld(r) \/ Backup(r) \/ Place(r) \/ SetMode(r)
       \/ Discard(r) \/ RollBack(r) \/ DropOld(r) \/ TidyUp(r) \/ RestartFails(r)
  \/ EndProcess \/ StartProcess

SwapSpec == SwapInit /\ [][SwapNext]_swapVars

-----------------------------------------------------------------------------
\* Types; a request has a file open for writing exactly while it downloads.
SwapTypeOK ==
  /\ side \in {"panel", "agent"}
  /\ dir \in [Names -> Files \cup {Nothing}]
  /\ whole \in SUBSET Files /\ files \in Files
  /\ up \in BOOLEAN /\ ends \in 0..MaxEnds /\ agentBusy \in BOOLEAN
  /\ pc \in [Updaters -> Steps]
  /\ writes \in [Updaters -> Files \cup {Nothing}]
  /\ cut \in [Updaters -> BOOLEAN]
  /\ faults \in 0..MaxFaults /\ overlap \in BOOLEAN /\ interrupted \in BOOLEAN
  /\ \A r \in Updaters : writes[r] # Nothing <=> pc[r] = "copy"

\* A single update that fails at any operation, or is cut short at any step but
\* the vacant ones, leaves a whole program under the executable's name: the name
\* is vacant only on the way to the new file or back (update.go: any failure keeps
\* the old binary intact). A failed rollback is excused, and so are two updates
\* from two pages: they share .new and .old, and undo each other.
ExeStaysWhole ==
  ~overlap /\ ~interrupted /\ dir["exe"] \notin whole
    => \E r \in Updaters : pc[r] \in Vacating

\* Whenever the process ends, a whole program is left under the executable's
\* name or as its backup, to be put back by hand. Only an agent's fourth failing
\* rename can break it: the next attempt removes the backup that a failed
\* rollback left behind (swapExecutable removes it as a remnant).
CopyRemains == ~overlap /\ faults < 4 => {dir["exe"], dir["old"]} \cap whole # {}

\* What the replacement keeps safe.
ProgramSurvives == ExeStaysWhole /\ CopyRemains

\* The agent refuses upgrades only while one is in progress: each way out of one
\* takes the flag down (restartUnit: or else the node can never be upgraded).
UpgradePossible == agentBusy => Busy # {}

=============================================================================
