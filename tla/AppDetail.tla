----------------------------- MODULE AppDetail -----------------------------
(***************************************************************************)
(* The page of one installed application (web/src/views/AppDetailView.vue): *)
(* its state and the actions on it, its journal, its configuration files,  *)
(* and its removal.                                                        *)
(*                                                                         *)
(* The editor has one text and one chosen path, which are saved together   *)
(* but filled apart. A text is abstracted to the file it was read from or  *)
(* typed for.                                                              *)
(***************************************************************************)
EXTENDS WebBase, FiniteSets

CONSTANTS
  Files,       (* configuration files the recipe opens to editing *)
  FirstFile    (* the first of them                               *)

ASSUME DetailAssumption == FirstFile \in Files /\ None \notin Files

VARIABLES
  recipeLoaded,    (* loadAll has been answered                                 *)
  appRunning,      (* the application runs                                      *)
  shownRunning,    (* the page says so                                          *)
  autoFollow,      (* the journal's timer is set                                *)
  configPath,      (* file chosen                                               *)
  configContent,   (* file whose text is in the editor, None when it is empty   *)
  savingConfig,
  configLate,      (* history: since a file was chosen, another's answer came   *)
  detailCalls,     (* requests in flight                                        *)
  uninstallStep    (* the dialog of the removal: none, asked or task            *)

configVars == <<configPath, configContent, savingConfig, configLate>>
detailVars == <<recipeLoaded, appRunning, shownRunning, autoFollow, configVars, detailCalls,
                uninstallStep>>

FileOrNone == Files \cup {None}
DetailCall(op, path, text, sure) == [op |-> op, path |-> path, text |-> text, sure |-> sure]
DetailAsk(op) == DetailCall(op, None, None, FALSE)
ConfigLoads == {c \in detailCalls : c.op = "load"}
DetailRoom == Cardinality(detailCalls) < MaxCalls
OnPage == uninstallStep = "none"

DetailInit ==
  /\ recipeLoaded = FALSE
  /\ appRunning \in BOOLEAN /\ shownRunning = FALSE
  /\ autoFollow = FALSE
  /\ configPath = None /\ configContent = None
  /\ savingConfig = FALSE /\ configLate = FALSE
  /\ detailCalls = {DetailAsk("all")}
  /\ uninstallStep = "none"

AllLoaded(c) ==
  /\ c.op = "all"
  /\ detailCalls' = detailCalls \ {c}
  /\ \/ recipeLoaded' = TRUE /\ shownRunning' = appRunning
     \/ UNCHANGED <<recipeLoaded, shownRunning>>
  /\ UNCHANGED <<appRunning, autoFollow, configVars, uninstallStep>>

-----------------------------------------------------------------------------
(* Actions and journal *)

action(act) ==
  /\ OnPage /\ DetailRoom
  /\ detailCalls' = detailCalls \cup {DetailAsk(act)}
  /\ UNCHANGED <<recipeLoaded, appRunning, shownRunning, autoFollow, configVars, uninstallStep>>

\* Whether it has succeeded or not, the state is asked for again.
ActionAnswer(c) ==
  /\ c.op \in {"start", "stop", "restart"}
  /\ appRunning' \in {appRunning, c.op # "stop"}
  /\ detailCalls' = (detailCalls \ {c}) \cup {DetailAsk("status")}
  /\ UNCHANGED <<recipeLoaded, shownRunning, autoFollow, configVars, uninstallStep>>

refreshStatus(c) ==
  /\ c.op = "status"
  /\ detailCalls' = detailCalls \ {c}
  /\ shownRunning' \in {appRunning, shownRunning}   \* it may fail
  /\ UNCHANGED <<recipeLoaded, appRunning, autoFollow, configVars, uninstallStep>>

toggleAuto ==
  /\ OnPage
  /\ autoFollow' = ~autoFollow
  /\ UNCHANGED <<recipeLoaded, appRunning, shownRunning, configVars, detailCalls, uninstallStep>>

loadJournal ==
  /\ autoFollow \/ OnPage
  /\ DetailRoom
  /\ detailCalls' = detailCalls \cup {DetailAsk("journal")}
  /\ UNCHANGED <<recipeLoaded, appRunning, shownRunning, autoFollow, configVars, uninstallStep>>

JournalCame(c) ==
  /\ c.op = "journal"
  /\ detailCalls' = detailCalls \ {c}
  /\ UNCHANGED <<recipeLoaded, appRunning, shownRunning, autoFollow, configVars, uninstallStep>>

-----------------------------------------------------------------------------
(* Configuration files *)

\* The tab chooses the first file if none is chosen; the list chooses another,
\* whose text replaces the old one only when it comes.
ChooseFile(f) ==
  /\ OnPage /\ recipeLoaded /\ DetailRoom
  /\ IF configPath = None THEN f = FirstFile ELSE f # configPath
  /\ configPath' = f
  /\ configLate' = FALSE
  /\ detailCalls' = detailCalls \cup {DetailCall("load", f, None, FALSE)}
  /\ UNCHANGED <<recipeLoaded, appRunning, shownRunning, autoFollow, configContent, savingConfig,
                 uninstallStep>>

loadConfig ==
  /\ OnPage /\ configPath # None /\ DetailRoom
  /\ detailCalls' = detailCalls \cup {DetailCall("load", configPath, None, FALSE)}
  /\ UNCHANGED <<recipeLoaded, appRunning, shownRunning, autoFollow, configVars, uninstallStep>>

\* Mutant of ConfigCame: a failure keeps the text of the file before.
ConfigCameOrKept(c) ==
  /\ c.op = "load"
  /\ detailCalls' = detailCalls \ {c}
  /\ configContent' \in {c.path, configContent}
  /\ configLate' = (configLate \/ c.path # configPath)
  /\ UNCHANGED <<recipeLoaded, appRunning, shownRunning, autoFollow, configPath, savingConfig,
                 uninstallStep>>

\* A failure empties the editor.
ConfigCame(c) ==
  /\ c.op = "load"
  /\ detailCalls' = detailCalls \ {c}
  /\ configContent' \in {c.path, None}
  /\ configLate' = (configLate \/ c.path # configPath)
  /\ UNCHANGED <<recipeLoaded, appRunning, shownRunning, autoFollow, configPath, savingConfig,
                 uninstallStep>>

TypeConfig ==
  /\ OnPage /\ configPath # None /\ configContent = None
  /\ configContent' = configPath
  /\ UNCHANGED <<recipeLoaded, appRunning, shownRunning, autoFollow, configPath, savingConfig,
                 configLate, detailCalls, uninstallStep>>

\* Nothing keeps the user from saving while a file is being read.
saveConfig ==
  /\ OnPage /\ configPath # None /\ ~savingConfig /\ DetailRoom
  /\ savingConfig' = TRUE
  /\ detailCalls' = detailCalls \cup
       {DetailCall("save", configPath, configContent, ConfigLoads = {} /\ ~configLate)}
  /\ UNCHANGED <<recipeLoaded, appRunning, shownRunning, autoFollow, configPath, configContent,
                 configLate, uninstallStep>>

ConfigSaved(c) ==
  /\ c.op = "save"
  /\ detailCalls' = detailCalls \ {c}
  /\ savingConfig' = FALSE
  /\ UNCHANGED <<recipeLoaded, appRunning, shownRunning, autoFollow, configPath, configContent,
                 configLate, uninstallStep>>

-----------------------------------------------------------------------------
(* Removal *)

UninstallDialog(open) ==
  /\ uninstallStep = (IF open THEN "none" ELSE "asked")
  /\ uninstallStep' = (IF open THEN "asked" ELSE "none")
  /\ UNCHANGED <<recipeLoaded, appRunning, shownRunning, autoFollow, configVars, detailCalls>>

submitUninstall ==
  /\ uninstallStep = "asked" /\ DetailRoom
  /\ detailCalls' = detailCalls \cup {DetailAsk("uninstall")}
  /\ UNCHANGED <<recipeLoaded, appRunning, shownRunning, autoFollow, configVars, uninstallStep>>

\* The task's progress takes the place of the dialog, which stays for another
\* try if the task was refused.
UninstallAnswer(c) ==
  /\ c.op = "uninstall"
  /\ detailCalls' = detailCalls \ {c}
  /\ uninstallStep' \in {"task", uninstallStep}
  /\ UNCHANGED <<recipeLoaded, appRunning, shownRunning, autoFollow, configVars>>

CloseUninstallTask ==
  /\ uninstallStep = "task"
  /\ uninstallStep' = "none"
  /\ UNCHANGED <<recipeLoaded, appRunning, shownRunning, autoFollow, configVars, detailCalls>>

DetailNext ==
  \/ \E act \in {"start", "stop", "restart"} : action(act)
  \/ toggleAuto \/ loadJournal \/ loadConfig \/ TypeConfig \/ saveConfig
  \/ \E f \in Files : ChooseFile(f)
  \/ \E open \in BOOLEAN : UninstallDialog(open)
  \/ submitUninstall \/ CloseUninstallTask
  \/ \E c \in detailCalls : \/ AllLoaded(c) \/ ActionAnswer(c) \/ refreshStatus(c) \/ JournalCame(c)
                            \/ ConfigCame(c) \/ ConfigSaved(c) \/ UninstallAnswer(c)

DetailSpec == DetailInit /\ [][DetailNext]_detailVars

-----------------------------------------------------------------------------
(* Properties *)

\* Types of the variables.
DetailTypeOK ==
  /\ recipeLoaded \in BOOLEAN /\ appRunning \in BOOLEAN /\ shownRunning \in BOOLEAN
  /\ autoFollow \in BOOLEAN /\ savingConfig \in BOOLEAN /\ configLate \in BOOLEAN
  /\ configPath \in FileOrNone /\ configContent \in FileOrNone
  /\ detailCalls \subseteq
       [op : {"all", "start", "stop", "restart", "status", "journal", "load", "save", "uninstall"},
        path : FileOrNone, text : FileOrNone, sure : BOOLEAN]
  /\ uninstallStep \in {"none", "asked", "task"}

\* A configuration file is overwritten only with a text read from it or typed
\* for it, or emptied after a reading that failed, when nothing was being read
\* at the click and no late answer of another file had come since the file was
\* chosen (saveConfig sends the path and the text there are).
ConfigSavedWhereRead ==
  \A c \in detailCalls : c.op = "save" /\ c.sure => c.text \in {c.path, None}
=============================================================================
