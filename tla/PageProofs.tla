----------------------------- MODULE PageProofs -----------------------------
(* Proofs about the session, eight pages of the panel and the requests that   *)
(* change accounts, each for any number of accounts, files, scripts, nodes,  *)
(* applications, channels and requests in flight; and about MCPages, which   *)
(* puts them together.                                                       *)
EXTENDS MCPages, FiniteSetTheorems, TLAPS

-----------------------------------------------------------------------------
(* The accounts (UserAdmin) *)

\* Of requests for a new code there is one at a time, and none while a code is
\* on the screen, unless crossed.
OneCodeAtATime ==
  ~crossed => /\ \A c, d \in CodeCalls : c = d
              /\ codeDlg => CodeCalls = {}

IsUserCall(c) == c = [op |-> c.op, user |-> c.user, left |-> c.left]

CodeInv ==
  /\ \A c \in userCalls : IsUserCall(c)
  /\ crossed \in BOOLEAN /\ codeDlg \in BOOLEAN /\ OneCodeAtATime /\ NewCodeIsShown

LEMMA UserCallFields ==
  \A op, u : /\ UserCall(op, u).op = op /\ UserCall(op, u).user = u /\ ~UserCall(op, u).left
             /\ IsUserCall(UserCall(op, u))
  BY DEF UserCall, IsUserCall

LEMMA CodeStep == CodeInv /\ [UserNext]_userVars => CodeInv'
<1> SUFFICES ASSUME CodeInv, [UserNext]_userVars PROVE CodeInv'
  OBVIOUS
<1> USE DEF CodeInv, OneCodeAtATime, NewCodeIsShown, CodeCalls, userHist
<1>1. ASSUME ReloadUsers PROVE CodeInv'
  BY <1>1, UserCallFields DEF ReloadUsers, MakesCode
<1>2. ASSUME CancelUserDlg \/ UNCHANGED userVars PROVE CodeInv'
  BY <1>2 DEF CancelUserDlg, userVars
<1>3. ASSUME SubmitUser \/ ConfirmUser PROVE CodeInv'
  <2>1. ~codeDlg /\ SendUser(userDlg.kind)
    BY <1>3 DEF SubmitUser, ConfirmUser
  <2> DEFINE c == UserCall(userDlg.kind, userDlg.user)
  <2>2. /\ userCalls' = userCalls \cup {c} /\ c.op = userDlg.kind
        /\ UNCHANGED <<codeDlg, superCode, unseen>>
        /\ crossed' = (crossed \/ (userDlg.kind \in MakesCode /\ CodeCalls # {}))
        /\ IsUserCall(c)
    BY <2>1, UserCallFields DEF SendUser
  <2> HIDE DEF c
  <2>3. CASE crossed'
    BY <2>2, <2>3
  <2>4. CASE ~crossed'
    <3>1. ~crossed /\ (userDlg.kind \notin MakesCode \/ CodeCalls = {})
      BY <2>2, <2>4
    <3>2. \A x, y \in CodeCalls' : x = y
      BY <2>2, <3>1
    <3>3. QED
      BY <2>1, <2>2, <2>4, <3>1, <3>2
  <2>5. QED
    BY <2>3, <2>4
<1>4. ASSUME CloseSuperCode PROVE CodeInv'
  BY <1>4 DEF CloseSuperCode
<1>5. ASSUME NEW k \in Forms3 \cup Questions, NEW u \in Users, OpenUserDlg(k, u) PROVE CodeInv'
  BY <1>5 DEF OpenUserDlg
<1>6. ASSUME NEW c \in userCalls, UsersLoaded(c) PROVE CodeInv'
  BY <1>6 DEF UsersLoaded
<1>7. ASSUME NEW c \in userCalls, showSuperCode(c) PROVE CodeInv'
  <2>1. \A d \in MayReload(c) : d.op \notin MakesCode /\ IsUserCall(d)
    BY UserCallFields DEF MayReload, MakesCode
  <2>2. QED
    BY <1>7, <2>1 DEF showSuperCode, CodeMade
<1>8. ASSUME NEW c \in userCalls, UserDone(c) PROVE CodeInv'
  <2>1. \A d \in MayReload(c) : d.op \notin MakesCode /\ IsUserCall(d)
    BY UserCallFields DEF MayReload, MakesCode
  <2>2. QED
    BY <1>8, <2>1 DEF UserDone
<1>9. ASSUME NEW c \in userCalls, UserFails(c) PROVE CodeInv'
  <2>0. /\ userCalls' = userCalls \ {c}
        /\ UNCHANGED <<codeDlg, superCode, crossed>>
    BY <1>9 DEF UserFails
  <2>1. CASE UNCHANGED unseen
    BY <2>0, <2>1
  <2>2. CASE CodeMade(c) /\ unseen' = unseen \ {c.user}
    BY <2>0, <2>2 DEF CodeMade
  <2>3. QED
    BY <1>9, <2>1, <2>2 DEF UserFails
<1>11. ASSUME LeaveUsers PROVE CodeInv'
  <2> DEFINE kept == {[c EXCEPT !.left = TRUE] : c \in {d \in userCalls : d.op # "load"}}
  <2>0. /\ userCalls' = kept \cup {UserCall("load", None)}
        /\ UserCall("load", None).op = "load" /\ IsUserCall(UserCall("load", None))
    BY <1>11, UserCallFields DEF LeaveUsers
  <2>3. \A c \in kept : c.left /\ IsUserCall(c)
    BY DEF IsUserCall
  <2> HIDE DEF kept
  <2>1. CodeCalls' = {} /\ \A c \in userCalls' : IsUserCall(c)
    BY <2>0, <2>3 DEF MakesCode
  <2>2. QED
    BY <1>11, <2>1 DEF LeaveUsers
<1>10. QED
  BY <1>1, <1>2, <1>3, <1>4, <1>5, <1>6, <1>7, <1>8, <1>9, <1>11 DEF UserNext

\* A code that has replaced an account's old one, and whose answer has reached
\* the page, is on the screen until the user closes the dialog, in whatever way,
\* or leaves the page, unless two requests of the page for a code met
\* (showSuperCode).
THEOREM CodeShown == UserSpec => []NewCodeIsShown
<1>1. ASSUME UserInit PROVE CodeInv
  <2>1. PICK c : c = UserCall("load", None)
    OBVIOUS
  <2>2. userCalls = {c} /\ c.op = "load" /\ IsUserCall(c)
    BY <1>1, <2>1, UserCallFields DEF UserInit
  <2>3. CodeCalls = {}
    BY <2>2 DEF CodeCalls, MakesCode
  <2>4. QED
    BY <1>1, <2>2, <2>3 DEF UserInit, CodeInv, OneCodeAtATime, NewCodeIsShown
<1>2. CodeInv => NewCodeIsShown
  BY DEF CodeInv
<1>3. QED
  BY <1>1, <1>2, CodeStep, PTL DEF UserSpec

-----------------------------------------------------------------------------
(* The login form (LoginForm) *)

\* The code in the field is of the picture beside it.
FieldFits == captchaCode \in {0, captchaID}

CaptchaInv ==
  /\ \A c \in formCalls : c = FormCall(c.op, c.id, c.code)
  /\ FieldFits /\ CodeAnswersThePicture

LEMMA CaptchaStep == CaptchaInv /\ [FormNext]_formVars => CaptchaInv'
<1> SUFFICES ASSUME CaptchaInv, [FormNext]_formVars PROVE CaptchaInv'
  OBVIOUS
<1> USE DEF CaptchaInv, FieldFits, CodeAnswersThePicture, loginCaptcha, FormCall
<1>1. ASSUME TypeCaptcha PROVE CaptchaInv'
  BY <1>1 DEF TypeCaptcha
<1>2. ASSUME SubmitLogin PROVE CaptchaInv'
  BY <1>2 DEF SubmitLogin
<1>3. ASSUME RefreshCaptcha \/ SubmitReset PROVE CaptchaInv'
  BY <1>3 DEF RefreshCaptcha, SubmitReset, FormAsk
<1>4. ASSUME goReset \/ BackToLogin \/ ChooseMethod \/ CloseNewCode \/ UNCHANGED formVars
      PROVE  CaptchaInv'
  BY <1>4 DEF goReset, BackToLogin, ChooseMethod, CloseNewCode, formVars
<1>5. ASSUME NEW c \in formCalls, LoginAnswered(c) PROVE CaptchaInv'
  <2>1. CASE formCalls' = formCalls \ {c} /\ resetCaptcha
    BY <2>1 DEF resetCaptcha
  <2>2. CASE formCalls' = formCalls \ {c} /\ UNCHANGED <<captchaID, captchaCode>>
    BY <2>2
  <2>3. CASE /\ formCalls' = (formCalls \ {c}) \cup {FormCall("firstCaptcha", 0, 0)}
             /\ UNCHANGED <<captchaID, captchaCode>>
    <3> DEFINE x == FormCall("firstCaptcha", 0, 0)
    <3>1. x.op = "firstCaptcha" /\ x = FormCall(x.op, x.id, x.code)
      OBVIOUS
    <3> HIDE DEF x
    <3>2. formCalls' = (formCalls \ {c}) \cup {x}
      BY <2>3 DEF x
    <3>3. QED
      BY <2>3, <3>1, <3>2
  <2>4. QED
    BY <1>5, <2>1, <2>2, <2>3 DEF LoginAnswered
<1>6. ASSUME NEW c \in formCalls, ServeCaptcha(c) PROVE CaptchaInv'
  <2>1. c.op # "login"
    BY <1>6 DEF ServeCaptcha
  <2>2. [c EXCEPT !.id = pictures + 1] = FormCall(c.op, pictures + 1, c.code)
    <3> DEFINE op == c.op
               id == c.id
               code == c.code
    <3>1. c = FormCall(op, id, code)
      OBVIOUS
    <3> HIDE DEF op, id, code
    <3>2. [c EXCEPT !.id = pictures + 1] = FormCall(op, pictures + 1, code)
      BY <3>1
    <3>3. QED
      BY <3>2 DEF op, code
  <2>3. QED
    BY <1>6, <2>1, <2>2 DEF ServeCaptcha
<1>7. ASSUME NEW c \in formCalls, CaptchaCame(c) PROVE CaptchaInv'
  BY <1>7 DEF CaptchaCame, loadCaptcha
<1>8. ASSUME NEW c \in formCalls, ResetAnswered(c) PROVE CaptchaInv'
  BY <1>8 DEF ResetAnswered
<1>9. QED
  BY <1>1, <1>2, <1>3, <1>4, <1>5, <1>6, <1>7, <1>8 DEF FormNext

\* A login is sent with the code read from the picture whose id it sends,
\* whichever of several pictures asked for has come last (loadCaptcha).
THEOREM CodeFitsPicture == FormSpec => []CodeAnswersThePicture
<1>1. FormInit => CaptchaInv
  BY DEF FormInit, CaptchaInv, FieldFits, CodeAnswersThePicture
<1>2. CaptchaInv => CodeAnswersThePicture
  BY DEF CaptchaInv
<1>3. QED
  BY <1>1, <1>2, CaptchaStep, PTL DEF FormSpec

-----------------------------------------------------------------------------
(* The configuration files (AppDetail) *)

\* The editor holds the chosen file's text or nothing, or that file is still
\* being read, until an answer for another file comes.
EditorFits ==
  ~configLate => \/ configContent \in {configPath, None}
                 \/ \E c \in ConfigLoads : c.path = configPath

EditorInv == configLate \in BOOLEAN /\ EditorFits /\ ConfigSavedWhereRead

LEMMA EditorStep == EditorInv /\ [DetailNext]_detailVars => EditorInv'
<1> SUFFICES ASSUME EditorInv, [DetailNext]_detailVars PROVE EditorInv'
  OBVIOUS
<1> USE DEF EditorInv, EditorFits, ConfigSavedWhereRead, ConfigLoads, configVars, DetailAsk, DetailCall
<1>1. ASSUME \/ toggleAuto \/ CloseUninstallTask \/ UNCHANGED detailVars
             \/ \E open \in BOOLEAN : UninstallDialog(open)
      PROVE  EditorInv'
  BY <1>1 DEF toggleAuto, CloseUninstallTask, UninstallDialog, detailVars
<1>2. ASSUME NEW x, x.op # "save", detailCalls' = detailCalls \cup {x},
             UNCHANGED configVars
      PROVE  EditorInv'
  BY <1>2
<1>3. CASE \E act \in {"start", "stop", "restart"} : action(act)
  BY <1>2, <1>3 DEF action
<1>4. CASE loadJournal \/ submitUninstall
  BY <1>2, <1>4 DEF loadJournal, submitUninstall
<1>5. CASE loadConfig
  BY <1>2, <1>5 DEF loadConfig
<1>6. CASE TypeConfig
  BY <1>6 DEF TypeConfig
<1>7. CASE saveConfig
  <2> DEFINE b == ConfigLoads = {} /\ ~configLate
             x == DetailCall("save", configPath, configContent, b)
  <2>1. b => configContent \in {configPath, None}
    OBVIOUS
  <2>2. /\ detailCalls' = detailCalls \cup {x}
        /\ UNCHANGED <<configPath, configContent, configLate>>
    BY <1>7 DEF saveConfig
  <2> HIDE DEF b
  <2>3. x.op = "save" /\ x.path = configPath /\ x.text = configContent /\ x.sure = b
    OBVIOUS
  <2> HIDE DEF x
  <2>4. EditorFits'
    BY <2>2, <2>3
  <2>5. ConfigSavedWhereRead'
    BY <2>1, <2>2, <2>3
  <2>6. QED
    BY <2>2, <2>4, <2>5
<1>8. ASSUME NEW f \in Files, ChooseFile(f) PROVE EditorInv'
  <2> DEFINE x == DetailCall("load", f, None, FALSE)
  <2>1. /\ detailCalls' = detailCalls \cup {x}
        /\ configPath' = f /\ configLate' = FALSE
    BY <1>8 DEF ChooseFile
  <2>2. x.op = "load" /\ x.path = f
    OBVIOUS
  <2> HIDE DEF x
  <2>3. EditorFits' /\ ConfigSavedWhereRead'
    BY <2>1, <2>2
  <2>4. QED
    BY <2>1, <2>3
<1>9. ASSUME NEW c \in detailCalls, c.op # "load", NEW X, X \subseteq {DetailAsk("status")},
             detailCalls' = (detailCalls \ {c}) \cup X,
             UNCHANGED <<configPath, configContent, configLate>>
      PROVE  EditorInv'
  BY <1>9
<1>10. ASSUME NEW c \in detailCalls,
              \/ AllLoaded(c) \/ refreshStatus(c) \/ JournalCame(c) \/ ConfigSaved(c)
              \/ UninstallAnswer(c) \/ ActionAnswer(c)
       PROVE  EditorInv'
  <2>1. CASE ActionAnswer(c)
    BY <1>9, <2>1 DEF ActionAnswer
  <2>2. CASE AllLoaded(c) \/ refreshStatus(c) \/ JournalCame(c) \/ ConfigSaved(c) \/ UninstallAnswer(c)
    <3>1. detailCalls' = (detailCalls \ {c}) \cup {}
      BY <2>2 DEF AllLoaded, refreshStatus, JournalCame, ConfigSaved, UninstallAnswer
    <3>2. c.op # "load" /\ UNCHANGED <<configPath, configContent, configLate>>
      BY <2>2 DEF AllLoaded, refreshStatus, JournalCame, ConfigSaved, UninstallAnswer
    <3>3. QED
      BY <1>9, <3>1, <3>2
  <2>3. QED
    BY <1>10, <2>1, <2>2
<1>11. ASSUME NEW c \in detailCalls, ConfigCame(c) PROVE EditorInv'
  BY <1>11 DEF ConfigCame
<1>12. QED
  BY <1>1, <1>3, <1>4, <1>5, <1>6, <1>7, <1>8, <1>10, <1>11 DEF DetailNext

\* A configuration file is overwritten only with a text read from it or typed
\* for it, when nothing was being read at the click and no late answer of
\* another file had come since the file was chosen (saveConfig).
THEOREM SavedWhereRead == DetailSpec => []ConfigSavedWhereRead
<1>1. DetailInit => EditorInv
  <2> SUFFICES ASSUME DetailInit PROVE EditorInv
    OBVIOUS
  <2>1. /\ configLate = FALSE /\ configContent = None
        /\ detailCalls = {DetailAsk("all")}
    BY DEF DetailInit
  <2>2. DetailAsk("all").op = "all"
    BY DEF DetailAsk, DetailCall
  <2>3. QED
    BY <2>1, <2>2 DEF EditorInv, EditorFits, ConfigSavedWhereRead
<1>2. EditorInv => ConfigSavedWhereRead
  BY DEF EditorInv
<1>3. QED
  BY <1>1, <1>2, EditorStep, PTL DEF DetailSpec

-----------------------------------------------------------------------------
(* The scripts (Scripts) *)

DialogType == [kind : {"none", "edit", "deploy", "run"}, script : ScriptOrNone,
               text : ScriptOrNone, node : Nodes \cup {None},
               status : [script : ScriptOrNone, node : Nodes \cup {None}],
               stray : BOOLEAN]

\* The text in the editor, and the status beside the switch, are of the choice
\* in the dialog, unless another's has strayed into it.
DialogFits(d, n) ==
  /\ d.kind = "edit" /\ ~d.stray => d.text \in {None, d.script}
  /\ d.kind = "deploy" => /\ d.node = n
                          /\ ~d.stray => d.status \in {NoStatus, Chosen(d.script, n)}

ScriptsInv ==
  /\ scriptDialog \in DialogType
  /\ DialogFits(scriptDialog, deployNode)
  /\ ScriptKeepsItsText
  /\ \A c \in scriptCalls : c.script \in ScriptOrNone /\ c.node \in Nodes \cup {None}

LEMMA NoDialogFits ==
  NoDialog \in DialogType /\ \A n : DialogFits(NoDialog, n)
BY DEF NoDialog, DialogType, NoStatus, Chosen, ScriptOrNone, DialogFits

LEMMA AskFields ==
  ASSUME NEW op, NEW s, NEW n
  PROVE  /\ ScriptAsk(op, s, n).op = op /\ ScriptAsk(op, s, n).script = s
         /\ ScriptAsk(op, s, n).node = n
BY DEF ScriptAsk

\* A dialog that opens is empty, whatever it is for.
LEMMA OpenedFits ==
  ASSUME NEW k \in {"edit", "deploy", "run"}, NEW s \in ScriptOrNone, NEW n \in Nodes \cup {None},
         OpenScriptDialog(k, s, n)
  PROVE  /\ scriptDialog' \in DialogType
         /\ k # "deploy" => \A m : DialogFits(scriptDialog', m)
         /\ DialogFits(scriptDialog', n)
<1> DEFINE d == [NoDialog EXCEPT !.kind = k, !.script = s, !.node = n]
<1>1. scriptDialog' = d
  BY DEF OpenScriptDialog
<1>2. NoDialog \in DialogType /\ NoDialog.text = None /\ NoDialog.status = NoStatus
  BY NoDialogFits DEF NoDialog
<1>3. d \in DialogType
  BY <1>2 DEF DialogType
<1>4. d.kind = k /\ d.text = None /\ d.node = n /\ d.status = NoStatus
  BY <1>2 DEF DialogType
<1> HIDE DEF d
<1>5. QED
  BY <1>1, <1>3, <1>4 DEF DialogFits

LEMMA ScriptsStep == ScriptsInv /\ [ScriptNext]_scriptVars => ScriptsInv'
<1> SUFFICES ASSUME ScriptsInv, [ScriptNext]_scriptVars PROVE ScriptsInv'
  OBVIOUS
<1> DEFINE CallOK(c) == /\ c.op = "edit" /\ ~c.stray => c.text = c.script
                        /\ c.script \in ScriptOrNone /\ c.node \in Nodes \cup {None}
<1>0. ASSUME scriptCalls' \subseteq scriptCalls,
             scriptDialog' \in DialogType, DialogFits(scriptDialog', deployNode')
      PROVE  ScriptsInv'
  BY <1>0 DEF ScriptsInv, ScriptKeepsItsText
<1>1. ASSUME NEW c, scriptCalls' \subseteq scriptCalls \cup {c}, CallOK(c),
             scriptDialog' \in DialogType, DialogFits(scriptDialog', deployNode')
      PROVE  ScriptsInv'
  BY <1>1 DEF ScriptsInv, ScriptKeepsItsText
<1>2. ASSUME NEW c, scriptCalls' = scriptCalls \cup {c}, CallOK(c),
             UNCHANGED <<scriptDialog, deployNode>>
      PROVE  ScriptsInv'
  BY <1>1, <1>2 DEF ScriptsInv
<1>3. ASSUME scriptCalls' \subseteq scriptCalls, UNCHANGED deployNode,
             scriptDialog' \in {scriptDialog, NoDialog}
      PROVE  ScriptsInv'
  <2>1. scriptDialog' \in DialogType /\ DialogFits(scriptDialog', deployNode')
    BY <1>3, NoDialogFits DEF ScriptsInv
  <2>2. QED
    BY <1>0, <1>3, <2>1
<1>4. CASE UNCHANGED scriptVars \/ CancelScriptDialog \/ CloseRunTask
  BY <1>3, <1>4 DEF scriptVars, CancelScriptDialog, CloseRunTask
<1>5. CASE openCreateScript
  <2>1. OpenScriptDialog("edit", None, None) /\ scriptCalls' = scriptCalls
    BY <1>5 DEF openCreateScript
  <2>2. scriptDialog' \in DialogType /\ DialogFits(scriptDialog', deployNode')
    BY <2>1, OpenedFits DEF ScriptOrNone
  <2>3. QED
    BY <1>0, <2>1, <2>2
<1>6. ASSUME NEW s \in AllScripts, openEditScript(s) PROVE ScriptsInv'
  <2>1. /\ OpenScriptDialog("edit", s, None)
        /\ scriptCalls' = scriptCalls \cup {ScriptAsk("detail", s, None)}
    BY <1>6 DEF openEditScript
  <2>2. scriptDialog' \in DialogType /\ DialogFits(scriptDialog', deployNode')
    BY <2>1, OpenedFits DEF ScriptOrNone
  <2>3. CallOK(ScriptAsk("detail", s, None))
    BY AskFields DEF ScriptOrNone
  <2>4. QED
    BY <1>1, <2>1, <2>2, <2>3
<1>7. ASSUME NEW c \in scriptCalls, DetailCame(c) PROVE ScriptsInv'
  <2>1. scriptCalls' = scriptCalls \ {c} /\ UNCHANGED deployNode
    BY <1>7 DEF DetailCame, Answered
  <2>2. CASE scriptDialog' = scriptDialog
    BY <1>3, <2>1, <2>2
  <2>3. CASE scriptDialog.kind = "edit" /\ scriptDialog' # scriptDialog
    <3>1. scriptDialog' = [scriptDialog EXCEPT !.text = c.script,
                             !.stray = @ \/ c.script # scriptDialog.script]
      BY <1>7, <2>3 DEF DetailCame
    <3>2. scriptDialog' \in DialogType /\ scriptDialog'.kind = "edit"
          /\ scriptDialog'.text = c.script /\ scriptDialog'.script = scriptDialog.script
          /\ scriptDialog'.stray = (scriptDialog.stray \/ c.script # scriptDialog.script)
      BY <2>3, <3>1 DEF ScriptsInv, DialogType
    <3>3. DialogFits(scriptDialog', deployNode')
      BY <3>2 DEF DialogFits
    <3>4. QED
      BY <1>0, <2>1, <3>2, <3>3
  <2>4. QED
    BY <1>7, <2>2, <2>3 DEF DetailCame
<1>8. CASE TypeScript
  <2>1. /\ scriptDialog' = [scriptDialog EXCEPT !.text = scriptDialog.script]
        /\ scriptDialog.kind = "edit" /\ scriptCalls' = scriptCalls
    BY <1>8 DEF TypeScript, InReach
  <2>2. /\ scriptDialog' \in DialogType /\ scriptDialog'.kind = "edit"
        /\ scriptDialog'.text = scriptDialog'.script
    BY <2>1 DEF ScriptsInv, DialogType
  <2>3. DialogFits(scriptDialog', deployNode')
    BY <2>2 DEF DialogFits
  <2>4. QED
    BY <1>0, <2>1, <2>2, <2>3
<1>9. CASE submitScript
  <2> DEFINE c == [ScriptAsk("edit", scriptDialog.script, None) EXCEPT
                     !.text = scriptDialog.text, !.stray = scriptDialog.stray]
  <2>1. /\ scriptCalls' = scriptCalls \cup {c} /\ UNCHANGED <<scriptDialog, deployNode>>
        /\ scriptDialog.kind = "edit"
        /\ scriptDialog.script # None => scriptDialog.text # None
    BY <1>9 DEF submitScript, SubmitOnce, InReach
  <2>2. /\ c.script = scriptDialog.script /\ c.node = None
        /\ c.text = scriptDialog.text /\ c.stray = scriptDialog.stray
    BY DEF ScriptAsk
  <2> HIDE DEF c
  <2>3. CallOK(c)
    BY <2>1, <2>2 DEF ScriptsInv, DialogType, DialogFits
  <2>4. QED
    BY <1>2, <2>1, <2>3
<1>10. CASE submitDeploy
  <2> DEFINE c == ScriptAsk("deploy", scriptDialog.script, deployNode)
  <2>1. /\ scriptCalls' = scriptCalls \cup {c} /\ UNCHANGED <<scriptDialog, deployNode>>
        /\ scriptDialog.kind = "deploy"
    BY <1>10 DEF submitDeploy, SubmitOnce, InReach
  <2>2. deployNode \in Nodes \cup {None} /\ scriptDialog.script \in ScriptOrNone
    BY <2>1 DEF ScriptsInv, DialogType, DialogFits
  <2>3. CallOK(c)
    BY <2>2, AskFields
  <2>4. QED
    BY <1>2, <2>1, <2>3
<1>11. CASE submitRun
  <2> DEFINE c == ScriptAsk("run", scriptDialog.script, scriptDialog.node)
  <2>1. scriptCalls' = scriptCalls \cup {c} /\ UNCHANGED <<scriptDialog, deployNode>>
    BY <1>11 DEF submitRun, SubmitOnce
  <2>2. CallOK(c)
    BY AskFields DEF ScriptsInv, DialogType
  <2>3. QED
    BY <1>2, <2>1, <2>2
<1>12. ASSUME NEW c \in scriptCalls, ScriptSaved(c) \/ ScriptRemoved(c) \/ Sent(c)
       PROVE  ScriptsInv'
  <2>1. scriptDialog' \in {scriptDialog, NoDialog}
    BY <1>12 DEF ScriptSaved, ScriptRemoved, Sent, CloseIf
  <2>2. scriptCalls' \subseteq scriptCalls /\ UNCHANGED deployNode
    BY <1>12 DEF ScriptSaved, ScriptRemoved, Sent, Answered
  <2>3. QED
    BY <1>3, <2>1, <2>2
<1>13. ASSUME NEW s \in AllScripts, removeScript(s) PROVE ScriptsInv'
  <2>1. CallOK(ScriptAsk("delete", s, None))
    BY AskFields DEF ScriptOrNone
  <2>2. QED
    BY <1>2, <1>13, <2>1 DEF removeScript
<1>14. ASSUME NEW s \in AllScripts, NEW n \in Nodes, openDeployScript(s, n) PROVE ScriptsInv'
  <2>1. /\ OpenScriptDialog("deploy", s, n) /\ deployNode' = n
        /\ scriptCalls' \subseteq scriptCalls \cup {ScriptAsk("deployments", s, n)}
    BY <1>14 DEF openDeployScript
  <2>2. scriptDialog' \in DialogType /\ DialogFits(scriptDialog', deployNode')
    BY <2>1, OpenedFits DEF ScriptOrNone
  <2>3. CallOK(ScriptAsk("deployments", s, n))
    BY AskFields DEF ScriptOrNone
  <2>4. QED
    BY <1>1, <2>1, <2>2, <2>3
<1>15. ASSUME NEW s \in AllScripts, NEW n \in Nodes, openRunScript(s, n) PROVE ScriptsInv'
  <2>1. OpenScriptDialog("run", s, n) /\ scriptCalls' = scriptCalls
    BY <1>15 DEF openRunScript
  <2>2. scriptDialog' \in DialogType /\ DialogFits(scriptDialog', deployNode')
    BY <2>1, OpenedFits DEF ScriptOrNone
  <2>3. QED
    BY <1>0, <2>1, <2>2
<1>16. ASSUME NEW n \in Nodes, ChooseNode(n) PROVE ScriptsInv'
  <2>1. /\ scriptDialog' = [scriptDialog EXCEPT !.node = n, !.status = NoStatus]
        /\ deployNode' = n /\ scriptDialog.kind = "deploy"
        /\ scriptCalls' = scriptCalls \cup {ScriptAsk("deployments", scriptDialog.script, n)}
    BY <1>16 DEF ChooseNode, InReach
  <2>2. NoStatus \in [script : ScriptOrNone, node : Nodes \cup {None}]
    BY DEF NoStatus, Chosen, ScriptOrNone
  <2>3. /\ scriptDialog' \in DialogType /\ scriptDialog'.kind = "deploy"
        /\ scriptDialog'.node = n /\ scriptDialog'.status = NoStatus
    BY <2>1, <2>2 DEF ScriptsInv, DialogType
  <2>4. DialogFits(scriptDialog', deployNode')
    BY <2>1, <2>3 DEF DialogFits
  <2>5. CallOK(ScriptAsk("deployments", scriptDialog.script, n))
    BY AskFields DEF ScriptsInv, DialogType
  <2>6. QED
    BY <1>1, <2>1, <2>3, <2>4, <2>5
<1>17. ASSUME NEW c \in scriptCalls, DeploymentsCame(c) PROVE ScriptsInv'
  <2> DEFINE of == Chosen(c.script, c.node)
             here == Chosen(scriptDialog.script, scriptDialog.node)
  <2>1. scriptCalls' = scriptCalls \ {c} /\ UNCHANGED deployNode
    BY <1>17 DEF DeploymentsCame, Answered
  <2>2. CASE scriptDialog' = scriptDialog
    BY <1>3, <2>1, <2>2
  <2>3. CASE scriptDialog.kind = "deploy" /\ scriptDialog' # scriptDialog
    <3>1. scriptDialog' = [scriptDialog EXCEPT !.status = of, !.stray = @ \/ of # here]
      BY <1>17, <2>3 DEF DeploymentsCame
    <3>2. of \in [script : ScriptOrNone, node : Nodes \cup {None}]
      BY DEF ScriptsInv, Chosen
    <3>3. here = Chosen(scriptDialog.script, deployNode) /\ scriptDialog.node = deployNode
      BY <2>3 DEF ScriptsInv, DialogFits
    <3> HIDE DEF of, here
    <3>4. /\ scriptDialog' \in DialogType /\ scriptDialog'.kind = "deploy"
          /\ scriptDialog'.status = of /\ scriptDialog'.script = scriptDialog.script
          /\ scriptDialog'.node = scriptDialog.node
          /\ scriptDialog'.stray = (scriptDialog.stray \/ of # here)
      BY <2>3, <3>1, <3>2 DEF ScriptsInv, DialogType
    <3>5. DialogFits(scriptDialog', deployNode')
      BY <2>1, <3>3, <3>4 DEF DialogFits
    <3>6. QED
      BY <1>0, <2>1, <3>4, <3>5
  <2>4. QED
    BY <1>17, <2>2, <2>3 DEF DeploymentsCame
<1>18. QED
  BY <1>4, <1>5, <1>6, <1>7, <1>8, <1>9, <1>10, <1>11, <1>12, <1>13, <1>14, <1>15, <1>16,
     <1>17 DEF ScriptNext

\* What is saved from a script's dialog, and shown in it, is of the script and
\* node chosen there, unless the answer for another choice has come into the
\* dialog (openEditScript and the watcher of deployForm.node_id).
THEOREM ScriptsKept == ScriptSpec => []DialogsKeepTheirScript
<1>1. ScriptInit => ScriptsInv
  <2> SUFFICES ASSUME ScriptInit PROVE ScriptsInv
    OBVIOUS
  <2>1. scriptDialog = NoDialog /\ scriptCalls = {}
    BY DEF ScriptInit
  <2>2. QED
    BY <2>1, NoDialogFits DEF ScriptsInv, ScriptKeepsItsText
<1>2. ScriptsInv => DialogsKeepTheirScript
  BY DEF ScriptsInv, DialogsKeepTheirScript, StatusOfTheChoice, DialogFits
<1>3. QED
  BY <1>1, <1>2, ScriptsStep, PTL DEF ScriptSpec
-----------------------------------------------------------------------------
(* The custom applications (CustomApps) *)

SaveOps   == {"create", "save"}
SaveCalls == {c \in custCalls : c.op \in SaveOps \cup {"upload"}}

\* One save or upload is in flight at a time, across dialogs as well: opening
\* the dialog again does not free its button.
OneSave == /\ \A c, d \in SaveCalls : c = d
           /\ SaveCalls # {} => customSaving

\* A save whose dialog has not been closed under it is of the dialog shown and
\* of the application its form is for.
SaveOfTheDialog ==
  \A c \in custCalls : c.op \in SaveOps =>
    /\ c.dlg \in 1..custOpened
    /\ c.dlg \notin custLeft =>
         customDlg /\ c.dlg = custOpened /\ c.id = editingId /\ (c.op = "create" <=> editingId = 0)

\* The form of a dialog is filled in that dialog.
FormOfTheDialog ==
  /\ binaryFile \in {0, custOpened}
  /\ customDlg => custOpened \in 1..MaxCust /\ custOpened \notin custLeft
  /\ customDlg /\ editingId # 0 => custAbout[custOpened] = editingId
  /\ custLeft \subseteq 1..custOpened
  /\ \A c \in custCalls : c.op = "upload" => c.dlg \in 1..custOpened

CustInv == CustTypeOK /\ OneSave /\ SaveOfTheDialog /\ FormOfTheDialog /\ UploadFollowsSave

CustOps == {"list", "create", "save", "upload", "cardUpload", "delete"}
CustRecords == [op : CustOps, id : 0..MaxApps, file : 0..MaxCust, dlg : 0..MaxCust, binary : BOOLEAN]

LEMMA CustRecord ==
  /\ \A op \in CustOps, id \in 0..MaxApps, file \in 0..MaxCust, d \in 0..MaxCust, bin \in BOOLEAN :
       CustCall(op, id, file, d, bin) \in CustRecords
  /\ ListCustom \in CustRecords
<1>1. \A op \in CustOps, id \in 0..MaxApps, file \in 0..MaxCust, d \in 0..MaxCust, bin \in BOOLEAN :
       CustCall(op, id, file, d, bin) \in CustRecords
  BY DEF CustCall, CustRecords
<1>2. 0 \in 0..MaxApps /\ 0 \in 0..MaxCust /\ "list" \in CustOps /\ FALSE \in BOOLEAN
  BY CustAssumption DEF CustOps
<1>3. QED
  BY <1>1, <1>2, Zenon DEF ListCustom

\* The types without the set of the calls, and with it.
CustForms ==
  /\ custKind \in [Apps -> {"none", "other", "binary", "deleted"}]
  /\ customApps \subseteq Apps
  /\ customDlg \in BOOLEAN /\ isBinary \in BOOLEAN /\ customSaving \in BOOLEAN
  /\ custOpened \in 0..MaxCust /\ editingId \in 0..MaxApps /\ binaryFile \in 0..MaxCust
  /\ custAbout \in [CustDialogs -> 0..MaxApps]
  /\ custLeft \subseteq CustDialogs

LEMMA CustTypes == CustTypeOK <=> CustForms /\ custCalls \subseteq CustRecords
  BY DEF CustTypeOK, CustForms, CustRecords, CustOps

LEMMA CustInitInv == CustInit => CustInv
<1> SUFFICES ASSUME CustInit PROVE CustInv
  OBVIOUS
<1>1. CustTypeOK
  <2>1. 0 \in 0..MaxApps /\ 0 \in 0..MaxCust
    BY CustAssumption
  <2>2. CustForms /\ custCalls \subseteq CustRecords
    BY <2>1 DEF CustInit, CustForms
  <2>3. QED
    BY <2>2, CustTypes
<1>2. OneSave /\ SaveOfTheDialog /\ FormOfTheDialog /\ UploadFollowsSave
  BY DEF CustInit, OneSave, SaveCalls, SaveOfTheDialog, FormOfTheDialog, UploadFollowsSave
<1>3. QED
  BY <1>1, <1>2 DEF CustInv

\* What is in flight after a step that neither saves, uploads nor closes.
LEMMA CustCallsKept ==
  ASSUME CustInv, CustTypeOK',
         \A c \in custCalls' : c \in custCalls \/ c.op \notin SaveOps \cup {"upload"},
         UNCHANGED <<customDlg, custOpened, editingId, customSaving, custAbout, custLeft>>,
         binaryFile' \in {0, custOpened, binaryFile}
  PROVE  CustInv'
<1> USE DEF CustInv, OneSave, SaveCalls, SaveOfTheDialog, FormOfTheDialog, UploadFollowsSave, SaveOps
<1>1. OneSave'
  OBVIOUS
<1>2. SaveOfTheDialog'
  OBVIOUS
<1>3. FormOfTheDialog' /\ UploadFollowsSave'
  OBVIOUS
<1>4. QED
  BY <1>1, <1>2, <1>3

\* What is in flight once the one save or upload has been answered and nothing
\* follows it.
LEMMA CustAnswered ==
  ASSUME CustInv, CustTypeOK', NEW c \in custCalls, c.op \in SaveOps \cup {"upload"},
         \A d \in custCalls' : d \in custCalls \ {c} \/ d.op \notin SaveOps \cup {"upload"},
         UNCHANGED <<custOpened, custLeft>>, customDlg' \in {customDlg, FALSE},
         binaryFile' \in {0, binaryFile},
         customDlg' => editingId' \in {0, editingId} /\ custAbout' = custAbout
  PROVE  CustInv'
<1>1. \A d \in custCalls' : d.op \notin SaveOps \cup {"upload"}
  BY DEF CustInv, OneSave, SaveCalls
<1>2. OneSave' /\ SaveOfTheDialog' /\ UploadFollowsSave'
  BY <1>1 DEF OneSave, SaveCalls, SaveOfTheDialog, UploadFollowsSave, SaveOps
<1>3. FormOfTheDialog'
  BY <1>1 DEF CustInv, CustTypeOK, FormOfTheDialog
<1>4. QED
  BY <1>2, <1>3 DEF CustInv

\* The upload that follows a save whose answer is the one just arrived.
LEMMA CustFollowed ==
  ASSUME CustInv, CustTypeOK', NEW c \in custCalls, c.op \in SaveOps, NEW id,
         isBinary /\ binaryFile # 0,
         custCalls' = (custCalls \ {c}) \cup {CustCall("upload", id, binaryFile, c.dlg, TRUE)},
         UNCHANGED <<customDlg, custForm, customSaving, custOpened, custLeft>>,
         c.dlg \notin custLeft => id = custAbout'[c.dlg],
         \A d \in CustDialogs : custAbout'[d] # custAbout[d] => d = c.dlg /\ c.op = "create"
  PROVE  CustInv'
<1> DEFINE u == CustCall("upload", id, binaryFile, c.dlg, TRUE)
<1>1. u.op = "upload" /\ u.id = id /\ u.file = binaryFile /\ u.dlg = c.dlg
  BY DEF CustCall
<1> HIDE DEF u
<1>2. custCalls' = (custCalls \ {c}) \cup {u}
  BY DEF u
<1>3. \A d \in custCalls' : d = u \/ d.op \notin SaveOps \cup {"upload"}
  BY <1>2 DEF CustInv, OneSave, SaveCalls
<1>4. c.dlg \in 1..custOpened /\ customSaving
  BY DEF CustInv, OneSave, SaveCalls, SaveOfTheDialog
<1>5. c.dlg \notin custLeft => c.dlg = binaryFile
  BY DEF CustInv, SaveOfTheDialog, FormOfTheDialog
<1>6. OneSave' /\ SaveOfTheDialog'
  BY ZenonT(30), <1>1, <1>3, <1>4 DEF OneSave, SaveCalls, SaveOfTheDialog, SaveOps
<1>7. UploadFollowsSave'
  BY <1>1, <1>3, <1>5 DEF UploadFollowsSave
<1>8. FormOfTheDialog'
  <2>1. ASSUME customDlg, editingId # 0
        PROVE  custAbout'[custOpened] = editingId
    BY <1>4, <2>1 DEF CustInv, SaveOfTheDialog, FormOfTheDialog, CustDialogs
  <2>2. QED
    BY <1>1, <1>3, <1>4, <2>1 DEF CustInv, FormOfTheDialog, custForm
<1>9. QED
  BY <1>6, <1>7, <1>8 DEF CustInv

LEMMA CustTypeStep == CustInv /\ [CustNext]_custVars => CustTypeOK'
<1> SUFFICES ASSUME CustInv, [CustNext]_custVars PROVE CustForms' /\ custCalls' \subseteq CustRecords
  BY CustTypes DEF CustForms, CustTypeOK, CustRecords, CustOps
<1>b. /\ CustForms /\ custCalls \subseteq CustRecords /\ MaxApps \in Nat /\ MaxCust \in Nat
      /\ ListCustom \in CustRecords /\ 0 \in 0..MaxApps /\ 0 \in 0..MaxCust
  BY CustAssumption, CustTypes, CustRecord DEF CustInv
<1>c. \A c \in custCalls : c.dlg \in 0..MaxCust /\ c.id \in 0..MaxApps
  BY <1>b DEF CustRecords
<1> USE <1>b DEF CustForms, custHist, custForm, Apps, CustDialogs
<1>1. ASSUME loadCustomApps \/ ChooseType \/ onWizardFile \/ UNCHANGED custVars
      PROVE  CustForms' /\ custCalls' \subseteq CustRecords
  BY <1>1 DEF loadCustomApps, ChooseType, onWizardFile, custVars
<1>2. ASSUME NEW a \in 0..MaxApps, OpenCustom(a) PROVE CustForms' /\ custCalls' \subseteq CustRecords
  BY <1>2 DEF OpenCustom
<1>3. ASSUME CloseCustom PROVE CustForms' /\ custCalls' \subseteq CustRecords
  <2>1. \A c \in custCalls : c.op \in {"create", "save"} => c.dlg \in CustDialogs
    BY DEF CustInv, SaveOfTheDialog, SaveOps
  <2>2. custLeft' \subseteq CustDialogs
    BY <1>3, <2>1 DEF CloseCustom
  <2>3. QED
    BY <1>3, <2>2 DEF CloseCustom, resetCustomForm
<1>4. ASSUME submitCustom PROVE CustForms' /\ custCalls' \subseteq CustRecords
  <2>1. CustCall(IF editingId = 0 THEN "create" ELSE "save", editingId, 0, custOpened, isBinary) \in CustRecords
    BY CustRecord DEF CustOps
  <2>2. QED
    BY <1>4, <2>1 DEF submitCustom
<1>5. ASSUME NEW c \in custCalls, NEW id \in 0..MaxApps, AfterSave(c, id)
      PROVE  /\ custCalls' \subseteq CustRecords
             /\ customDlg' \in BOOLEAN /\ isBinary' \in BOOLEAN /\ customSaving' \in BOOLEAN
             /\ editingId' \in 0..MaxApps /\ binaryFile' \in 0..MaxCust
  <2>1. CustCall("upload", id, binaryFile, c.dlg, TRUE) \in CustRecords
    BY <1>c, CustRecord DEF CustOps
  <2>2. CASE isBinary /\ binaryFile # 0
    BY <1>5, <2>1, <2>2 DEF AfterSave
  <2>3. CASE ~(isBinary /\ binaryFile # 0)
    BY <1>5, <2>3 DEF AfterSave, resetCustomForm
  <2>4. QED
    BY <2>2, <2>3
<1>6. ASSUME NEW c \in custCalls, Created(c) PROVE CustForms' /\ custCalls' \subseteq CustRecords
  <2>1. PICK a \in Apps : /\ custKind' = [custKind EXCEPT ![a] = IF c.binary THEN "binary" ELSE "other"]
                          /\ custAbout' = [custAbout EXCEPT ![c.dlg] = a]
                          /\ AfterSave(c, a)
    BY <1>6 DEF Created
  <2>2. a \in 0..MaxApps
    OBVIOUS
  <2>3. QED
    BY <1>5, <1>6, <2>1, <2>2 DEF Created
<1>7. ASSUME NEW c \in custCalls, Saved(c) PROVE CustForms' /\ custCalls' \subseteq CustRecords
  BY <1>5, <1>7 DEF Saved
<1>8. ASSUME NEW c \in custCalls, Uploaded(c) \/ ListAnswer(c) \/ CardAnswer(c)
      PROVE  CustForms' /\ custCalls' \subseteq CustRecords
  <2>1. CASE Uploaded(c)
    BY <2>1 DEF Uploaded, resetCustomForm
  <2>2. CASE ListAnswer(c) \/ CardAnswer(c)
    BY <2>2 DEF ListAnswer, Existing, CardAnswer
  <2>3. QED
    BY <1>8, <2>1, <2>2
<1>9. ASSUME NEW c \in custCalls, CustFails(c) PROVE CustForms' /\ custCalls' \subseteq CustRecords
  BY <1>9 DEF CustFails
<1>10. ASSUME NEW a \in Apps, NEW o \in {"cardUpload", "delete"}, CardAction(o, a)
       PROVE  CustForms' /\ custCalls' \subseteq CustRecords
  <2>1. CustCall(o, a, 0, 0, o = "cardUpload") \in CustRecords
    <3>1. a \in 0..MaxApps /\ (o = "cardUpload") \in BOOLEAN /\ o \in CustOps
      BY DEF CustOps
    <3>2. QED
      BY <3>1, CustRecord
  <2>2. QED
    BY <1>10, <2>1 DEF CardAction
<1>11. QED
  <2>1. 0 \in 0..MaxApps /\ \A a \in Apps : a \in 0..MaxApps
    OBVIOUS
  <2>2. (\E a \in Apps : openEditCustom(a)) \/ openCreateCustom => \E a \in 0..MaxApps : OpenCustom(a)
    BY <2>1 DEF openCreateCustom, openEditCustom
  <2>3. (\E a \in Apps : onUploadChange(a) \/ removeCustom(a))
        => \E a \in Apps, o \in {"cardUpload", "delete"} : CardAction(o, a)
    BY DEF onUploadChange, removeCustom
  <2>4. QED
    BY <1>1, <1>2, <1>3, <1>4, <1>6, <1>7, <1>8, <1>9, <1>10, <2>2, <2>3 DEF CustNext

LEMMA CustStep == CustInv /\ [CustNext]_custVars => CustInv'
<1> SUFFICES ASSUME CustInv, [CustNext]_custVars PROVE CustInv'
  OBVIOUS
<1>a. CustTypeOK' /\ MaxApps \in Nat /\ MaxCust \in Nat /\ custOpened \in 0..MaxCust
  BY CustTypeStep, CustAssumption DEF CustInv, CustTypeOK
<1>1. ASSUME loadCustomApps \/ onWizardFile \/ ChooseType \/ UNCHANGED custVars PROVE CustInv'
  BY <1>a, <1>1, CustCallsKept
  DEF loadCustomApps, onWizardFile, ChooseType, custVars, custForm, custHist, ListCustom, CustCall, SaveOps
<1>2. ASSUME NEW a \in 0..MaxApps, OpenCustom(a) PROVE CustInv'
  <2>1. OneSave' /\ UploadFollowsSave'
    BY <1>a, <1>2 DEF OpenCustom, CustInv, OneSave, SaveCalls, UploadFollowsSave, FormOfTheDialog, CustTypeOK, CustDialogs
  <2>2. SaveOfTheDialog'
    BY <1>a, <1>2 DEF OpenCustom, CustInv, SaveOfTheDialog
  <2>3. FormOfTheDialog'
    BY <1>a, <1>2 DEF OpenCustom, CustInv, FormOfTheDialog, CustTypeOK, CustDialogs
  <2>4. QED
    BY <1>a, <2>1, <2>2, <2>3 DEF CustInv
<1>3. ASSUME CloseCustom PROVE CustInv'
  BY <1>a, <1>3
  DEF CloseCustom, resetCustomForm, CustInv, OneSave, SaveCalls, SaveOfTheDialog, FormOfTheDialog, UploadFollowsSave, SaveOps
<1>4. ASSUME submitCustom PROVE CustInv'
  <2> DEFINE s == CustCall(IF editingId = 0 THEN "create" ELSE "save", editingId, 0, custOpened, isBinary)
  <2>1. /\ s.op \in SaveOps /\ (s.op = "create" <=> editingId = 0) /\ s.id = editingId /\ s.dlg = custOpened
        /\ s.op # "upload"
    BY DEF CustCall, SaveOps
  <2> HIDE DEF s
  <2>2. /\ custCalls' = custCalls \cup {s} /\ customDlg /\ ~customSaving /\ customSaving'
        /\ UNCHANGED <<customDlg, custOpened, editingId, binaryFile, custAbout, custLeft>>
    BY <1>4 DEF submitCustom, custForm, custHist, s
  <2>3. OneSave'
    BY <2>1, <2>2 DEF CustInv, OneSave, SaveCalls
  <2>4. SaveOfTheDialog'
    BY <2>1, <2>2 DEF CustInv, SaveOfTheDialog, FormOfTheDialog
  <2>5. FormOfTheDialog' /\ UploadFollowsSave'
    BY <2>1, <2>2 DEF CustInv, FormOfTheDialog, UploadFollowsSave
  <2>6. QED
    BY <1>a, <2>3, <2>4, <2>5 DEF CustInv
<1>5. ASSUME NEW c \in custCalls, c.op \in SaveOps, NEW id, AfterSave(c, id), UNCHANGED <<custOpened, custLeft>>,
             ~(isBinary /\ binaryFile # 0)
      PROVE  CustInv'
  <2>1. /\ \A d \in custCalls' : d \in custCalls \ {c} \/ d.op \notin SaveOps \cup {"upload"}
        /\ customDlg' = FALSE /\ binaryFile' \in {0, binaryFile}
    BY <1>5 DEF AfterSave, resetCustomForm, custForm, ListCustom, CustCall, SaveOps
  <2>2. QED
    BY <1>a, <1>5, <2>1, CustAnswered
<1>6. ASSUME NEW c \in custCalls, Created(c) PROVE CustInv'
  <2>1. PICK a \in Apps : /\ custAbout' = [custAbout EXCEPT ![c.dlg] = a]
                          /\ AfterSave(c, a)
    BY <1>6 DEF Created
  <2>2. c.op = "create" /\ c.op \in SaveOps /\ UNCHANGED <<custOpened, custLeft>>
    BY <1>6 DEF Created, SaveOps
  <2>3. CASE isBinary /\ binaryFile # 0
    <3>1. c.dlg \in CustDialogs /\ custAbout \in [CustDialogs -> 0..MaxApps]
      BY SMTT(20), <1>a, <2>2 DEF CustInv, CustTypeOK, SaveOfTheDialog, CustDialogs
    <3>2. QED
      BY <1>a, <2>1, <2>2, <2>3, <3>1, CustFollowed DEF AfterSave
  <2>4. CASE ~(isBinary /\ binaryFile # 0)
    BY <1>5, <2>1, <2>2, <2>4
  <2>5. QED
    BY <2>3, <2>4
<1>7. ASSUME NEW c \in custCalls, Saved(c) PROVE CustInv'
  <2>1. /\ c.op = "save" /\ c.op \in SaveOps /\ UNCHANGED <<custOpened, custLeft, custAbout>>
        /\ AfterSave(c, editingId)
    BY <1>7 DEF Saved, SaveOps, custHist
  <2>2. CASE isBinary /\ binaryFile # 0
    <3>1. c.dlg \notin custLeft => editingId = custAbout[c.dlg]
      BY <2>1 DEF CustInv, SaveOfTheDialog, FormOfTheDialog
    <3>2. QED
      BY <1>a, <2>1, <2>2, <3>1, CustFollowed DEF AfterSave
  <2>3. CASE ~(isBinary /\ binaryFile # 0)
    BY <1>5, <2>1, <2>3
  <2>4. QED
    BY <2>2, <2>3
<1>8. ASSUME NEW c \in custCalls, Uploaded(c) \/ CustFails(c) PROVE CustInv'
  <2>1. /\ \A d \in custCalls' : d \in custCalls \ {c} \/ d.op \notin SaveOps \cup {"upload"}
        /\ c.op \in SaveOps \cup {"upload"}
        /\ UNCHANGED <<custOpened, custLeft, custAbout>>
        /\ binaryFile' \in {0, binaryFile} /\ customDlg' \in {customDlg, FALSE}
        /\ customDlg' => editingId' = editingId
    <3>1. CASE Uploaded(c)
      <4>1. ListCustom.op = "list"
        BY DEF ListCustom, CustCall
      <4>2. \A d \in custCalls' : d \in custCalls \ {c} \/ d.op \notin SaveOps \cup {"upload"}
        BY <3>1, <4>1 DEF Uploaded, SaveOps
      <4>3. customDlg' = FALSE /\ binaryFile' \in {0, binaryFile} /\ c.op = "upload"
        BY <3>1 DEF Uploaded, resetCustomForm, custForm
      <4>4. UNCHANGED <<custOpened, custLeft, custAbout>>
        BY <3>1 DEF Uploaded, custHist
      <4>5. QED
        BY <4>2, <4>3, <4>4
    <3>2. CASE CustFails(c)
      BY <3>2 DEF CustFails, custForm, SaveOps
    <3>3. QED
      BY <1>8, <3>1, <3>2
  <2>2. QED
    BY <1>a, <2>1, CustAnswered
<1>9. ASSUME NEW c \in custCalls, ListAnswer(c) \/ CardAnswer(c) PROVE CustInv'
  BY <1>a, <1>9, CustCallsKept DEF ListAnswer, CardAnswer, custForm, custHist, ListCustom, CustCall, SaveOps
<1>10. ASSUME NEW a \in Apps, NEW o \in {"cardUpload", "delete"}, CardAction(o, a) PROVE CustInv'
  BY <1>a, <1>10, CustCallsKept DEF CardAction, custForm, custHist, CustCall, SaveOps
<1>11. QED
  <2>1. 0 \in 0..MaxApps /\ \A a \in Apps : a \in 0..MaxApps
    BY <1>a DEF Apps
  <2>2. (\E a \in Apps : openEditCustom(a)) \/ openCreateCustom => \E a \in 0..MaxApps : OpenCustom(a)
    BY <2>1 DEF openCreateCustom, openEditCustom
  <2>3. (\E a \in Apps : onUploadChange(a) \/ removeCustom(a))
        => \E a \in Apps, o \in {"cardUpload", "delete"} : CardAction(o, a)
    BY DEF onUploadChange, removeCustom
  <2>4. QED
    BY <1>1, <1>2, <1>3, <1>4, <1>6, <1>7, <1>8, <1>9, <1>10, <2>2, <2>3 DEF CustNext

\* The file of an upload is the one chosen in the dialog that has saved, and
\* goes to that dialog's application, unless the dialog was closed before the
\* save was answered (submitCustom).
THEOREM UploadFollowsSaveHolds == CustSpec => []UploadFollowsSave
<1>1. CustInv => UploadFollowsSave
  BY DEF CustInv
<1>2. QED
  BY <1>1, CustInitInv, CustStep, PTL DEF CustSpec
-----------------------------------------------------------------------------
(* Installing and following a task (AppInstall) *)

\* A task that is over has been created, on a node there is, and only one that
\* is over has succeeded.
MadeTasks == \A t \in TaskIds :
  /\ tasks[t].kind # "none" => tasks[t].node \in Nodes
  /\ tasks[t].over => tasks[t].kind # "none"
  /\ tasks[t].ok => tasks[t].over

\* The dialog's chain asks about its own task, and what it has shown as over is,
\* with this outcome.
Asked    == taskId # 0 /\ ~swapped => pollStep \in {0, Timer, taskId}
TrueEnds ==
  /\ polled.over => /\ polled.task \in TaskIds /\ tasks[polled.task].over
                    /\ polled.ok = tasks[polled.task].ok
  /\ polled.ok => polled.over

\* What the user has seen succeed has succeeded, and a reading that is alone and has
\* not failed has it already or has its node still to read.
DueOver == \A t \in due : /\ t \in TaskIds /\ tasks[t].kind = "install"
                          /\ tasks[t].over /\ tasks[t].ok /\ tasks[t].node \in Nodes
Covered(c) == \A t \in due : t \in c.rows \/ tasks[t].node \in c.left
Listed == ~listMissed => \/ chains = {} /\ due \subseteq installedRows
                         \/ \E c \in chains : chains = {c} /\ Covered(c)

InstallInv == InstallTypeOK /\ MadeTasks /\ Asked /\ TrueEnds /\ DueOver /\ Listed /\ TaskIsFollowed

TaskRecords  == [kind : Kinds \cup {"none"}, node : Nodes \cup {None}, over : BOOLEAN, ok : BOOLEAN]
Polled       == [task : 0..MaxTasks, over : BOOLEAN, ok : BOOLEAN]
ChainRecords == [left : SUBSET Nodes, rows : SUBSET TaskIds]

LEMMA InstallInitInv == InstallInit => InstallInv
<1> SUFFICES ASSUME InstallInit PROVE InstallInv
  OBVIOUS
<1>0. MaxTasks \in Nat /\ 0 \in 0..MaxTasks /\ 0 \in 0..Timer
  BY InstallAssumption DEF Timer
<1>1. NoTask \in TaskRecords /\ NoTask.kind = "none" /\ NoTask.over = FALSE /\ NoTask.ok = FALSE
  BY DEF NoTask, TaskRecords
<1>2. tasks \in [TaskIds -> TaskRecords] /\ \A t \in TaskIds : tasks[t] = NoTask
  BY <1>1 DEF InstallInit
<1>3. polled \in Polled /\ polled.over = FALSE /\ polled.ok = FALSE
  BY <1>0 DEF InstallInit, Nothing, Polled
<1>4. InstallTypeOK
  BY <1>0, <1>2, <1>3 DEF InstallInit, InstallTypeOK, TaskRecords, Kinds, Polled
<1>5. MadeTasks /\ TrueEnds
  BY <1>1, <1>2, <1>3 DEF MadeTasks, TrueEnds
<1>6. Asked /\ DueOver /\ Listed /\ TaskIsFollowed
  BY DEF InstallInit, Asked, DueOver, Listed, TaskIsFollowed
<1>7. QED
  BY <1>4, <1>5, <1>6 DEF InstallInv

\* A step of the page that moves no task and leaves what is followed and what
\* is read as they are.
LEMMA InstallKept ==
  ASSUME InstallInv, InstallTypeOK', UNCHANGED <<tasks, followVars, tableVars>>
  PROVE  InstallInv'
  BY DEF followVars, tableVars, InstallInv, MadeTasks, Asked, TrueEnds, DueOver, Covered, Listed, TaskIsFollowed, Made, Installed

\* A task that ends, or is created, disturbs none that is over.
LEMMA TasksGrow ==
  ASSUME InstallInv, NEW t \in TaskIds, NEW r \in TaskRecords, tasks' = [tasks EXCEPT ![t] = r],
         ~tasks[t].over, r.kind # "none", r.node \in Nodes, r.ok => r.over, UNCHANGED tableVars,
         tasks[t].kind # "none" => r.kind = tasks[t].kind /\ r.node = tasks[t].node
  PROVE  /\ tasks' \in [TaskIds -> TaskRecords]
         /\ MadeTasks' /\ DueOver' /\ Listed'
         /\ \A u \in TaskIds : tasks[u].over => tasks'[u] = tasks[u]
<1>1. tasks \in [TaskIds -> TaskRecords]
  BY DEF InstallInv, InstallTypeOK, TaskRecords
<1>2. tasks' \in [TaskIds -> TaskRecords] /\ \A u \in TaskIds : tasks'[u] = IF u = t THEN r ELSE tasks[u]
  BY <1>1
<1>3. \A u \in TaskIds : tasks[u].over => tasks'[u] = tasks[u]
  BY <1>2
<1>4. MadeTasks'
  BY <1>2 DEF InstallInv, MadeTasks
<1>5. due' = due /\ DueOver' /\ \A u \in due : tasks'[u] = tasks[u]
  BY <1>3 DEF InstallInv, DueOver, tableVars
<1>6. Listed'
  <2>1. \A c : Covered(c) => (Covered(c))'
    BY <1>5 DEF Covered
  <2>2. QED
    BY <1>5, <2>1 DEF InstallInv, Listed, tableVars
<1>7. QED
  BY <1>2, <1>3, <1>4, <1>5, <1>6

\* A reading begun with the nodes loaded and no other in flight has everything
\* still to read.
LEMMA ReadingBegins ==
  ASSUME InstallInv, loadInstalled, DueOver', UNCHANGED tasks
  PROVE  Listed' /\ chains' \subseteq ChainRecords
<1>1. PICK n : n = [left |-> IF nodesLoaded THEN Nodes ELSE {}, rows |-> {}]
  OBVIOUS
<1>0. n \in ChainRecords /\ (nodesLoaded => n.left = Nodes)
  BY <1>1 DEF ChainRecords
<1>2. chains' = chains \cup {n} /\ listMissed' = (chains # {} \/ ~nodesLoaded)
  BY <1>1 DEF loadInstalled
<1>3. chains \subseteq ChainRecords
  BY DEF InstallInv, InstallTypeOK, ChainRecords
<1>4. ASSUME ~listMissed' PROVE chains' = {n} /\ (Covered(n))'
  BY <1>0, <1>2, <1>4 DEF Covered, DueOver
<1>5. QED
  BY <1>0, <1>2, <1>3, <1>4 DEF Listed

\* Closing the dialog leaves nothing that is followed.
LEMMA ProgressClosed ==
  ASSUME InstallInv, CloseProgress
  PROVE  /\ Asked' /\ TrueEnds' /\ TaskIsFollowed'
         /\ taskId' \in 0..MaxTasks /\ pollStep' \in 0..Timer /\ orphans' \subseteq TaskIds
         /\ polled' \in Polled
<1>1. MaxTasks \in Nat
  BY InstallAssumption
<1>2. QED
  BY <1>1 DEF InstallInv, InstallTypeOK, CloseProgress, Nothing, Asked, TrueEnds, TaskIsFollowed, Timer, Polled

LEMMA InstallStep == InstallInv /\ [InstallNext]_installVars => InstallInv'
<1> SUFFICES ASSUME InstallInv, [InstallNext]_installVars PROVE InstallInv'
  OBVIOUS
<1>a. /\ InstallTypeOK /\ MaxTasks \in Nat /\ tasks \in [TaskIds -> TaskRecords] /\ chains \subseteq ChainRecords
      /\ 0 \in 0..MaxTasks /\ 0 \in 0..Timer /\ Timer \in 0..Timer /\ Timer \notin TaskIds /\ 0 \notin TaskIds
      /\ Timer # 0 /\ \A t \in TaskIds : t \in 0..Timer /\ t \in 0..MaxTasks /\ t # 0
      /\ taskId # 0 => taskId \in TaskIds
  BY InstallAssumption DEF InstallInv, InstallTypeOK, TaskRecords, ChainRecords, Timer, TaskIds
<1>1. ASSUME LoadCatalog \/ CancelStart \/ UNCHANGED installVars PROVE InstallInv'
  <2>1. UNCHANGED <<tasks, followVars, tableVars>>
    BY <1>1 DEF LoadCatalog, CancelStart, installVars
  <2>2. InstallTypeOK'
    BY <1>a, <1>1 DEF LoadCatalog, CancelStart, installVars, followVars, tableVars, dialogVars, InstallTypeOK
  <2>3. QED
    BY <2>1, <2>2, InstallKept
<1>2. ASSUME NEW k \in Kinds, OpenStart(k) PROVE InstallInv'
  <2>1. UNCHANGED <<tasks, followVars, tableVars>>
    BY <1>2 DEF OpenStart
  <2>2. InstallTypeOK'
    BY <1>a, <1>2 DEF OpenStart, followVars, tableVars, dialogVars, InstallTypeOK
  <2>3. QED
    BY <2>1, <2>2, InstallKept
<1>3. ASSUME NEW n \in Nodes, submit(n) PROVE InstallInv'
  <2>1. UNCHANGED <<tasks, followVars, tableVars>>
    BY <1>3 DEF submit
  <2>2. startDlg \in Kinds
    BY <1>a, <1>3 DEF submit, InstallTypeOK
  <2>3. InstallTypeOK'
    BY <1>a, <1>3, <2>2 DEF submit, followVars, tableVars, dialogVars, InstallTypeOK
  <2>4. QED
    BY <2>1, <2>3, InstallKept
<1>4. ASSUME NEW s \in starts, StartRefused(s) PROVE InstallInv'
  <2>1. UNCHANGED <<tasks, followVars, tableVars>>
    BY <1>4 DEF StartRefused
  <2>2. InstallTypeOK'
    BY <1>a, <1>4 DEF StartRefused, followVars, tableVars, dialogVars, InstallTypeOK
  <2>3. QED
    BY <2>1, <2>2, InstallKept
<1>5. ASSUME NEW s \in starts, Started(s) PROVE InstallInv'
  <2>1. PICK t \in TaskIds \ Made :
          /\ tasks' = [tasks EXCEPT ![t] = [NoTask EXCEPT !.kind = s.kind, !.node = s.node]]
          /\ taskId' = t
          /\ taskKind' = s.kind
          /\ IF taskId = 0
               THEN polled' = Nothing /\ pollStep' = t /\ swapped' = FALSE
               ELSE swapped' = TRUE /\ UNCHANGED <<polled, pollStep>>
    BY <1>5 DEF Started
  <2> DEFINE r == [NoTask EXCEPT !.kind = s.kind, !.node = s.node]
  <2>2. s.kind \in Kinds /\ s.node \in Nodes /\ r \in TaskRecords /\ r.kind # "none" /\ r.node \in Nodes
      /\ r.ok = FALSE
    BY <1>a DEF InstallTypeOK, TaskRecords, Kinds, NoTask
  <2> HIDE DEF r
  <2>3. tasks' = [tasks EXCEPT ![t] = r] /\ UNCHANGED tableVars
    BY <1>5, <2>1 DEF Started, r
  <2>4. tasks[t].kind = "none" /\ ~tasks[t].over
    BY <2>1 DEF Made, InstallInv, MadeTasks
  <2>5. /\ tasks' \in [TaskIds -> TaskRecords]
        /\ MadeTasks' /\ DueOver' /\ Listed'
        /\ \A u \in TaskIds : tasks[u].over => tasks'[u] = tasks[u]
    BY <2>2, <2>3, <2>4, TasksGrow
  <2>6. polled' \in Polled /\ pollStep' \in 0..Timer /\ swapped' \in BOOLEAN
    <3>1. Nothing \in Polled
      BY <1>a DEF Nothing, Polled
    <3>2. CASE taskId = 0
      BY <1>a, <2>1, <3>1, <3>2
    <3>3. CASE taskId # 0
      BY <1>a, <2>1, <3>3 DEF InstallTypeOK, Polled
    <3>4. QED
      BY <3>2, <3>3
  <2>7. InstallTypeOK'
    BY <1>a, <1>5, <2>1, <2>2, <2>5, <2>6 DEF Started, tableVars, InstallTypeOK, TaskRecords, Polled
  <2>8. Asked' /\ TrueEnds' /\ TaskIsFollowed'
    <3>1. TrueEnds'
      <4>1. CASE taskId = 0
        BY <2>1, <4>1 DEF TrueEnds, Nothing
      <4>2. CASE taskId # 0
        BY <2>1, <2>5, <4>2 DEF InstallInv, TrueEnds
      <4>3. QED
        BY <4>1, <4>2
    <3>2. Asked' /\ TaskIsFollowed'
      BY <1>a, <2>1, <2>5 DEF InstallInv, Asked, TaskIsFollowed, Nothing
    <3>3. QED
      BY <3>1, <3>2
  <2>9. QED
    BY <2>5, <2>7, <2>8 DEF InstallInv
<1>6. ASSUME NEW t \in TaskIds, NEW ok \in BOOLEAN, TaskEnds(t, ok) PROVE InstallInv'
  <2> DEFINE r == [tasks[t] EXCEPT !.over = TRUE, !.ok = ok]
  <2>1. /\ r \in TaskRecords /\ r.kind = tasks[t].kind /\ r.node = tasks[t].node /\ r.over
        /\ tasks[t].kind # "none"
    BY <1>a, <1>6 DEF TaskEnds, Made, TaskRecords
  <2>2. tasks' = [tasks EXCEPT ![t] = r] /\ ~tasks[t].over /\ UNCHANGED <<tableVars, followVars, dialogVars>>
    BY <1>a, <1>6 DEF TaskEnds
  <2> HIDE DEF r
  <2>3. r.kind # "none" /\ r.node \in Nodes
    BY <2>1 DEF InstallInv, MadeTasks
  <2>4. /\ tasks' \in [TaskIds -> TaskRecords]
        /\ MadeTasks' /\ DueOver' /\ Listed'
        /\ \A u \in TaskIds : tasks[u].over => tasks'[u] = tasks[u]
    BY <2>1, <2>2, <2>3, TasksGrow
  <2>5. InstallTypeOK'
    BY <1>a, <1>6, <2>2, <2>4 DEF TaskEnds, followVars, tableVars, dialogVars, InstallTypeOK, TaskRecords
  <2>6. Asked' /\ TrueEnds' /\ TaskIsFollowed'
    BY <1>a, <2>2, <2>4 DEF InstallInv, Asked, TrueEnds, TaskIsFollowed, followVars
  <2>7. QED
    BY <2>4, <2>5, <2>6 DEF InstallInv
<1>7. ASSUME PollTimer \/ PollAnswer PROVE InstallInv'
  <2>1. UNCHANGED <<tasks, tableVars, dialogVars, nodesLoaded, appTab, taskId, taskKind, orphans, swapped>>
    BY <1>7 DEF PollTimer, PollAnswer
  <2>2. MadeTasks' /\ DueOver' /\ Listed'
    BY <2>1 DEF tableVars, InstallInv, MadeTasks, DueOver, Covered, Listed
  <2>3. CASE PollTimer
    <3>1. pollStep' = taskId /\ polled' = polled /\ taskId # 0
      BY <2>3 DEF PollTimer
    <3>2. InstallTypeOK'
      BY <1>a, <2>1, <3>1 DEF InstallTypeOK, tableVars, dialogVars
    <3>3. Asked' /\ TrueEnds' /\ TaskIsFollowed'
      BY <2>1, <3>1 DEF InstallInv, Asked, TrueEnds, TaskIsFollowed
    <3>4. QED
      BY <2>2, <3>2, <3>3 DEF InstallInv
  <2>4. CASE PollAnswer
    <3> DEFINE p == Status(pollStep)
    <3>1. /\ pollStep \in TaskIds /\ taskId # 0 /\ polled' \in {polled, p}
          /\ pollStep' = IF polled'.over THEN 0 ELSE Timer
      BY <2>4 DEF PollAnswer
    <3>2. p \in Polled /\ p.task = pollStep /\ p.over = tasks[pollStep].over
          /\ p.ok = tasks[pollStep].ok
      BY <1>a, <3>1 DEF TaskRecords, Polled, Status
    <3> HIDE DEF p
    <3>3. InstallTypeOK'
      BY <1>a, <2>1, <3>1, <3>2 DEF InstallTypeOK, tableVars, dialogVars, Polled
    <3>4. Asked' /\ TrueEnds'
      <4>1. Asked'
        BY <1>a, <2>1, <3>1, <3>2 DEF InstallInv, Asked
      <4>2. p.ok => p.over
        BY <3>1, <3>2 DEF InstallInv, MadeTasks
      <4>3. TrueEnds'
        BY <2>1, <3>1, <3>2, <4>2 DEF InstallInv, TrueEnds
      <4>4. QED
        BY <4>1, <4>3
    <3>5. TaskIsFollowed'
      BY <1>a, <2>1, <3>1, <3>2 DEF InstallInv, Asked, TaskIsFollowed
    <3>6. QED
      BY <2>2, <3>3, <3>4, <3>5 DEF InstallInv
  <2>5. QED
    BY <1>7, <2>3, <2>4
<1>8. ASSUME onClose PROVE InstallInv'
  <2>1. /\ CloseProgress
        /\ UNCHANGED <<tasks, tableVars, dialogVars, nodesLoaded, appTab, taskKind, swapped>>
    BY <1>8 DEF onClose
  <2>2. MadeTasks' /\ DueOver' /\ Listed'
    BY <2>1 DEF tableVars, InstallInv, MadeTasks, DueOver, Covered, Listed
  <2>3. InstallTypeOK'
    BY <1>a, <2>1, ProgressClosed DEF InstallTypeOK, tableVars, dialogVars, Polled
  <2>4. QED
    BY <2>1, <2>2, <2>3, ProgressClosed DEF InstallInv
<1>9. ASSUME onFinished PROVE InstallInv'
  <2>1. /\ CloseProgress /\ polled.over
        /\ UNCHANGED <<tasks, dialogVars, nodesLoaded, taskKind, swapped, installedRows>>
    BY <1>9 DEF onFinished
  <2>2. MadeTasks'
    BY <2>1 DEF InstallInv, MadeTasks
  <2>3. CASE taskKind = "run"
    <3>1. UNCHANGED <<appTab, chains, due, listMissed>>
      BY <1>9, <2>3 DEF onFinished
    <3>2. DueOver' /\ Listed'
      BY <2>1, <3>1 DEF InstallInv, DueOver, Covered, Listed
    <3>3. InstallTypeOK'
      BY <1>a, <2>1, <3>1, ProgressClosed DEF InstallTypeOK, dialogVars, Polled
    <3>4. QED
      BY <2>1, <2>2, <3>2, <3>3, ProgressClosed DEF InstallInv
  <2>4. CASE taskKind # "run"
    <3>1. /\ loadInstalled /\ appTab' = "installed"
          /\ due' = due \cup {t \in {polled.task} \cap Made : polled.ok /\ tasks[t].kind = "install"}
      BY <1>9, <2>4 DEF onFinished
    <3>2. DueOver'
      BY <2>1, <3>1 DEF InstallInv, TrueEnds, MadeTasks, DueOver, Made
    <3>3. Listed' /\ chains' \subseteq ChainRecords
      BY <2>1, <3>1, <3>2, ReadingBegins
    <3>4. listMissed' \in BOOLEAN
      BY <3>1, <1>a DEF loadInstalled
    <3>5. due' \subseteq TaskIds
      BY <1>a, <3>1 DEF InstallTypeOK, Made
    <3>6. InstallTypeOK'
      BY <1>a, <2>1, <3>1, <3>3, <3>4, <3>5, ProgressClosed DEF InstallTypeOK, dialogVars, ChainRecords, Polled
    <3>7. QED
      BY <2>1, <2>2, <3>2, <3>3, <3>6, ProgressClosed DEF InstallInv
  <2>5. QED
    BY <2>3, <2>4
<1>10. ASSUME NEW t \in {"catalog", "installed"}, onTabChange(t) PROVE InstallInv'
  <2>1. UNCHANGED <<nodesLoaded, dialogVars, tasks, followVars, installedRows, due>> /\ appTab' = t
    BY <1>10 DEF onTabChange
  <2>2. MadeTasks' /\ Asked' /\ TrueEnds' /\ DueOver' /\ TaskIsFollowed'
    BY <2>1 DEF InstallInv, MadeTasks, Asked, TrueEnds, DueOver, TaskIsFollowed, followVars
  <2>3. Listed' /\ chains' \subseteq ChainRecords /\ listMissed' \in BOOLEAN
    <3>1. CASE t = "installed"
      BY <1>10, <2>1, <2>2, <3>1, ReadingBegins DEF onTabChange, loadInstalled
    <3>2. CASE t # "installed"
      <4>1. UNCHANGED <<chains, listMissed>>
        BY <1>10, <3>2 DEF onTabChange
      <4>2. QED
        BY <1>a, <2>1, <4>1 DEF InstallInv, Listed, Covered, InstallTypeOK
    <3>3. QED
      BY <3>1, <3>2
  <2>4. InstallTypeOK'
    BY <1>a, <2>1, <2>3 DEF InstallTypeOK, dialogVars, followVars, ChainRecords
  <2>5. QED
    BY <2>2, <2>3, <2>4 DEF InstallInv
<1>11. ASSUME NEW c \in chains, NEW n \in Nodes, ReadNode(c, n) PROVE InstallInv'
  <2>0. PICK d : d = [left |-> c.left \ {n}, rows |-> c.rows \cup Installed(n)]
    OBVIOUS
  <2>1. /\ chains' = (chains \ {c}) \cup {d}
        /\ UNCHANGED <<nodesLoaded, appTab, dialogVars, tasks, followVars, installedRows, due, listMissed>>
    BY <1>11, <2>0 DEF ReadNode
  <2>2. d \in ChainRecords /\ d.left = c.left \ {n} /\ d.rows = c.rows \cup Installed(n)
    BY <1>a, <2>0 DEF ChainRecords, Installed, Made
  <2>3. MadeTasks' /\ Asked' /\ TrueEnds' /\ DueOver' /\ TaskIsFollowed'
    BY <2>1 DEF InstallInv, MadeTasks, Asked, TrueEnds, DueOver, TaskIsFollowed, followVars
  <2>4. ASSUME Covered(c) PROVE (Covered(d))'
    BY <2>1, <2>2, <2>4 DEF InstallInv, DueOver, Covered, Installed, Made
  <2>5. Listed'
    BY <2>1, <2>4 DEF InstallInv, Listed
  <2>6. InstallTypeOK'
    BY <1>a, <2>1, <2>2 DEF InstallTypeOK, dialogVars, followVars, ChainRecords
  <2>7. QED
    BY <2>3, <2>5, <2>6 DEF InstallInv
<1>12. ASSUME NEW c \in chains, ReadingEnds(c) PROVE InstallInv'
  <2>1. /\ chains' = chains \ {c}
        /\ UNCHANGED <<nodesLoaded, appTab, dialogVars, tasks, followVars, due>>
        /\ \/ c.left = {} /\ installedRows' = c.rows /\ UNCHANGED listMissed
           \/ listMissed' = TRUE /\ UNCHANGED installedRows
    BY <1>12 DEF ReadingEnds
  <2>2. MadeTasks' /\ Asked' /\ TrueEnds' /\ DueOver' /\ TaskIsFollowed'
    BY <2>1 DEF InstallInv, MadeTasks, Asked, TrueEnds, DueOver, TaskIsFollowed, followVars
  <2>3. Listed'
    BY <2>1 DEF InstallInv, Listed, Covered
  <2>4. InstallTypeOK'
    BY <1>a, <2>1 DEF InstallTypeOK, dialogVars, followVars, ChainRecords
  <2>5. QED
    BY <2>2, <2>3, <2>4 DEF InstallInv
<1>13. ASSUME NEW t \in TaskIds, OrphanPoll(t) PROVE InstallInv'
  <2>1. /\ orphans' = orphans \ {t}
        /\ UNCHANGED <<nodesLoaded, appTab, dialogVars, tasks, taskId, taskKind, polled, pollStep,
                       swapped, tableVars>>
    BY <1>13 DEF OrphanPoll
  <2>2. MadeTasks' /\ Asked' /\ TrueEnds' /\ DueOver' /\ Listed' /\ TaskIsFollowed'
    BY <2>1 DEF InstallInv, MadeTasks, Asked, TrueEnds, DueOver, Covered, Listed, TaskIsFollowed, tableVars
  <2>3. InstallTypeOK'
    BY <1>a, <2>1 DEF InstallTypeOK, dialogVars, tableVars
  <2>4. QED
    BY <2>2, <2>3 DEF InstallInv
<1>14. QED
  BY <1>1, <1>2, <1>3, <1>4, <1>5, <1>6, <1>7, <1>8, <1>9, <1>10, <1>11, <1>12, <1>13 DEF InstallNext

LEMMA InstallInvariant == InstallSpec => []InstallInv
  BY InstallInitInv, InstallStep, PTL DEF InstallSpec

\* The progress dialog shows its own task's end and no other's, and asks on
\* until it has, unless a second start has changed the task under it
\* (TaskProgressDialog, one instance for any task id).
THEOREM TaskIsFollowedHolds == InstallSpec => []TaskIsFollowed
<1>1. InstallInv => TaskIsFollowed
  BY DEF InstallInv
<1>2. QED
  BY <1>1, InstallInvariant, PTL

\* The table has every installation the user has seen succeed once the reading
\* that followed is over, unless a node's list failed or readings met
\* (loadInstalled goes through the nodes one by one).
THEOREM FinishedIsListedHolds == InstallSpec => []FinishedIsListed
<1>1. InstallInv => FinishedIsListed
  BY DEF InstallInv, Listed, FinishedIsListed
<1>2. QED
  BY <1>1, InstallInvariant, PTL
-----------------------------------------------------------------------------
(* The notification channels (NotifyPage) *)

\* Rows whose configurations are the ones saved last, but for hidden channels.
Fresh(r) == \A c \in Channels \ hidden : r[c].gone \/ r[c].config = accepted[c]

\* Requests and dialogs about a channel name one, and of the saves of the dialog
\* one is in flight at a time.
Addressed ==
  /\ \A c \in channelCalls : c.op \in {"edit", "delete", "toggle", "test"} => c.channel \in Channels
  /\ channelDlg.kind # "none" => channelDlg.channel \in Channels
OneEdit ==
  /\ \A c, d \in channelCalls : c.op = "edit" /\ d.op = "edit" => c = d
  /\ \A c \in channelCalls : c.op = "edit" => channelSaving

\* Where no edit met a list, a switch or a deletion, none of these is in flight
\* with an edit, and the rows are those of the last edit or asked for again.
Apart ==
  \A c, d \in channelCalls : c.op = "edit" => d.op \notin {"load", "toggle", "delete"}
Current ==
  /\ (\A c \in channelCalls : c.op # "load") => Fresh(items)
  /\ \A c \in channelCalls : c.op = "load" /\ c.served => Fresh(c.snap)
  /\ \A c \in channelCalls : c.op = "toggle" => c.channel \in hidden \/ c.config = accepted[c.channel]
  /\ Fresh(channels)

ChannelInv == ChannelTypeOK /\ Addressed /\ OneEdit /\ (~overlapped => Apart /\ Current)

RowSet == [Channels -> Rows]
ChannelRecords ==
  [op : {"load", "edit", "delete", "toggle", "test", "loadSchedule", "saveSchedule"},
   channel : Channels \cup {None}, config : 0..MaxEdits, enabled : BOOLEAN,
   served : BOOLEAN, snap : RowSet]

LEMMA ChannelRecord ==
  /\ \A v \in 0..MaxEdits, on \in BOOLEAN : /\ Row(v, on) \in Rows /\ ~Row(v, on).gone /\ Row(v, on).config = v
  /\ Gone \in Rows /\ Gone.gone /\ NoRows \in RowSet
  /\ \A op \in {"load", "edit", "delete", "toggle", "test", "loadSchedule", "saveSchedule"},
        c \in Channels \cup {None}, v \in 0..MaxEdits, on \in BOOLEAN :
       /\ ChannelCall(op, c, v, on) \in ChannelRecords
       /\ ChannelCall(op, c, v, on).op = op /\ ChannelCall(op, c, v, on).channel = c
       /\ ChannelCall(op, c, v, on).config = v /\ ~ChannelCall(op, c, v, on).served
  /\ \A op \in {"load", "edit", "delete", "toggle", "test", "loadSchedule", "saveSchedule"},
        c \in Channels \cup {None} :
       /\ ChannelAsk(op, c) \in ChannelRecords
       /\ ChannelAsk(op, c).op = op /\ ChannelAsk(op, c).channel = c /\ ~ChannelAsk(op, c).served
  /\ ListRows \in ChannelRecords /\ ListRows.op = "load" /\ ~ListRows.served
<1>0. 0 \in 0..MaxEdits
  BY ChannelAssumption
<1>1. /\ \A v \in 0..MaxEdits, on \in BOOLEAN : /\ Row(v, on) \in Rows /\ ~Row(v, on).gone /\ Row(v, on).config = v
      /\ Gone \in Rows /\ Gone.gone
  BY <1>0 DEF Row, Rows, Gone
<1>2. NoRows \in RowSet
  BY <1>1 DEF NoRows, RowSet
<1>3. \A op \in {"load", "edit", "delete", "toggle", "test", "loadSchedule", "saveSchedule"},
        c \in Channels \cup {None}, v \in 0..MaxEdits, on \in BOOLEAN :
       /\ ChannelCall(op, c, v, on) \in ChannelRecords
       /\ ChannelCall(op, c, v, on).op = op /\ ChannelCall(op, c, v, on).channel = c
       /\ ChannelCall(op, c, v, on).config = v /\ ~ChannelCall(op, c, v, on).served
  BY <1>2 DEF ChannelCall, ChannelRecords
<1>4. \A op \in {"load", "edit", "delete", "toggle", "test", "loadSchedule", "saveSchedule"},
        c \in Channels \cup {None} :
       /\ ChannelAsk(op, c) \in ChannelRecords
       /\ ChannelAsk(op, c).op = op /\ ChannelAsk(op, c).channel = c /\ ~ChannelAsk(op, c).served
  <2> SUFFICES ASSUME NEW op \in {"load", "edit", "delete", "toggle", "test", "loadSchedule", "saveSchedule"},
                      NEW c \in Channels \cup {None}
               PROVE  /\ ChannelAsk(op, c) \in ChannelRecords
                      /\ ChannelAsk(op, c).op = op /\ ChannelAsk(op, c).channel = c /\ ~ChannelAsk(op, c).served
    OBVIOUS
  <2>1. ChannelAsk(op, c) = ChannelCall(op, c, 0, FALSE) /\ FALSE \in BOOLEAN
    BY DEF ChannelAsk
  <2>2. /\ ChannelCall(op, c, 0, FALSE) \in ChannelRecords
        /\ ChannelCall(op, c, 0, FALSE).op = op /\ ChannelCall(op, c, 0, FALSE).channel = c
        /\ ~ChannelCall(op, c, 0, FALSE).served
    BY <1>0, <1>2 DEF ChannelCall, ChannelRecords
  <2>3. QED
    BY <2>1, <2>2, Zenon
<1>5. ListRows \in ChannelRecords /\ ListRows.op = "load" /\ ~ListRows.served
  BY <1>4 DEF ListRows
<1>6. QED
  BY <1>1, <1>2, <1>3, <1>4, <1>5

\* The types in two parts, of the page and of what is in flight.
ChannelForms ==
  /\ channels \in RowSet /\ items \in RowSet
  /\ itemsLoading \in BOOLEAN /\ channelSaving \in BOOLEAN /\ schedSaving \in BOOLEAN
  /\ channelDlg \in [kind : {"none", "edit", "delete"}, channel : Channels \cup {None}]
  /\ testingId \in Channels \cup {None} /\ sched \in {"blank", "loaded"}
  /\ edits \in 0..MaxEdits
  /\ accepted \in [Channels -> 0..MaxEdits] /\ hidden \subseteq Channels /\ overlapped \in BOOLEAN

LEMMA ChannelTypes == ChannelTypeOK <=> ChannelForms /\ channelCalls \subseteq ChannelRecords
  BY DEF ChannelTypeOK, ChannelForms, ChannelRecords, RowSet

LEMMA ChannelInitInv == ChannelInit => ChannelInv
<1> SUFFICES ASSUME ChannelInit PROVE ChannelInv
  OBVIOUS
<1>0. 0 \in 0..MaxEdits
  BY ChannelAssumption
<1>1. /\ ListRows \in ChannelRecords /\ ChannelAsk("loadSchedule", None) \in ChannelRecords
      /\ ListRows.op = "load" /\ ~ListRows.served /\ ChannelAsk("loadSchedule", None).op = "loadSchedule"
      /\ Row(0, FALSE) \in Rows /\ Row(0, FALSE).config = 0 /\ NoRows \in RowSet
  BY ZenonT(30), <1>0, ChannelRecord
<1>2. channels \in RowSet /\ accepted \in [Channels -> 0..MaxEdits] /\ Fresh(channels)
  BY <1>0, <1>1 DEF ChannelInit, RowSet, Fresh
<1>3. ChannelForms
  BY <1>0, <1>1, <1>2 DEF ChannelInit, ChannelForms, NoChannelDlg
<1>4. channelCalls \subseteq ChannelRecords
  BY <1>1 DEF ChannelInit
<1>5. Addressed /\ OneEdit /\ Apart /\ Current
  BY <1>1, <1>2 DEF ChannelInit, Addressed, OneEdit, Apart, Current, NoChannelDlg
<1>6. QED
  BY <1>3, <1>4, <1>5, ChannelTypes DEF ChannelInv

\* What an answer takes out of flight, a list it asks for again, and what it
\* leaves as it was.
LEMMA ChannelsKept ==
  ASSUME ChannelInv, ChannelForms', channelCalls' \subseteq ChannelRecords,
         \A c \in channelCalls' :
           c \in channelCalls \/ c.op \in {"test", "loadSchedule", "saveSchedule", "delete"} \/ c = ListRows,
         \A c \in channelCalls' : c \notin channelCalls /\ c.op \in {"delete", "test"} => c.channel \in Channels,
         overlapped' \in {overlapped, TRUE},
         ~overlapped' => \A c, d \in channelCalls' : c.op = "edit" => d.op \notin {"load", "toggle", "delete"},
         \A c \in channelCalls :
           c.op = "load" /\ c \notin channelCalls' /\ ~overlapped' => Fresh(items'),
         channelSaving' = channelSaving, UNCHANGED <<accepted, hidden>>,
         channels' = channels \/ (~overlapped => Fresh(channels')),
         items' = items \/ (~overlapped' => Fresh(items')),
         channelDlg'.kind # "none" => channelDlg'.channel \in Channels
  PROVE  ChannelInv'
<1>0. ListRows.op = "load" /\ ~ListRows.served
  BY ChannelRecord
<1>1. ChannelTypeOK'
  BY ChannelTypes DEF ChannelForms, ChannelTypeOK, ChannelRecords, RowSet, Rows
<1>2. Addressed' /\ OneEdit'
  BY <1>0 DEF ChannelInv, Addressed, OneEdit
<1>3. ASSUME ~overlapped' PROVE Apart' /\ Current'
  <2>1. ~overlapped /\ Apart /\ Current
    BY <1>3 DEF ChannelInv, ChannelForms, ChannelTypeOK
  <2>2. \A r : Fresh(r) <=> (Fresh(r))'
    BY DEF Fresh
  <2>3. Apart'
    BY <1>3 DEF Apart
  <2>4. /\ \A c \in channelCalls' : c.op = "load" /\ c.served => Fresh(c.snap)
        /\ \A c \in channelCalls' : c.op = "toggle" => c.channel \in hidden \/ c.config = accepted[c.channel]
        /\ Fresh(channels')
    BY <1>0, <1>3, <2>1, <2>2 DEF Current
  <2>5. (\A c \in channelCalls' : c.op # "load") => Fresh(items')
    BY <1>3, <2>1 DEF Current
  <2>6. QED
    BY <2>2, <2>3, <2>4, <2>5 DEF Current, Fresh
<1>4. QED
  BY <1>1, <1>2, <1>3 DEF ChannelInv

LEMMA ChannelStep == ChannelInv /\ [ChannelNext]_channelVars => ChannelInv'
<1> SUFFICES ASSUME ChannelInv, [ChannelNext]_channelVars PROVE ChannelInv'
  OBVIOUS
<1>a. /\ ChannelForms /\ channelCalls \subseteq ChannelRecords /\ MaxEdits \in Nat
      /\ ListRows \in ChannelRecords /\ ListRows.op = "load" /\ ~ListRows.served /\ Gone \in Rows /\ Gone.gone
  BY ChannelTypes, ChannelRecord, ChannelAssumption DEF ChannelInv
<1>b. NoChannelDlg \in [kind : {"none", "edit", "delete"}, channel : Channels \cup {None}] /\ NoChannelDlg.kind = "none"
  BY DEF NoChannelDlg
<1> USE DEF channelHist, DropCall
<1>1. ASSUME CancelChannelDlg \/ UNCHANGED channelVars PROVE ChannelInv'
  BY <1>a, <1>b, <1>1, ChannelsKept
  DEF CancelChannelDlg, channelVars, ChannelForms, ChannelInv, Addressed, Apart
<1>2. ASSUME NEW c \in Channels, NEW k \in {"edit", "delete"}, OpenChannelDlg(k, c) PROVE ChannelInv'
  BY <1>a, <1>2, ChannelsKept DEF OpenChannelDlg, ChannelForms, ChannelInv, Apart
<1>3. ASSUME saveSchedule PROVE ChannelInv'
  <2>1. ChannelAsk("saveSchedule", None) \in ChannelRecords /\ ChannelAsk("saveSchedule", None).op = "saveSchedule"
    BY ChannelRecord
  <2>2. QED
    BY <1>a, <1>3, <2>1, ChannelsKept DEF saveSchedule, ChannelForms, ChannelInv, Addressed, Apart
<1>4. ASSUME NEW c \in Channels, test(c) PROVE ChannelInv'
  <2>1. /\ ChannelAsk("test", c) \in ChannelRecords /\ ChannelAsk("test", c).op = "test"
        /\ ChannelAsk("test", c).channel = c
    BY ChannelRecord
  <2>2. QED
    BY <1>a, <1>4, <2>1, ChannelsKept DEF test, ChannelForms, ChannelInv, Addressed, Apart
<1>5. ASSUME remove PROVE ChannelInv'
  <2>0. channelDlg.channel \in Channels
    BY <1>5 DEF remove, ChannelInv, Addressed
  <2>1. PICK d : d = ChannelAsk("delete", channelDlg.channel)
    OBVIOUS
  <2>2. d \in ChannelRecords /\ d.op = "delete" /\ d.channel \in Channels
    BY <2>0, <2>1, ChannelRecord
  <2>3. /\ channelCalls' = channelCalls \cup {d} /\ channelDlg' = NoChannelDlg
        /\ overlapped' = (overlapped \/ \E x \in channelCalls : x.op = "edit")
        /\ UNCHANGED <<channels, items, itemsLoading, channelSaving, testingId, sched, schedSaving, edits, accepted, hidden>>
    BY <1>5, <2>1 DEF remove
  <2>4. overlapped' \in {overlapped, TRUE} /\ overlapped' \in BOOLEAN
    BY <1>a, <2>3 DEF ChannelForms
  <2>5. ChannelForms' /\ channelCalls' \subseteq ChannelRecords
    BY <1>a, <1>b, <2>2, <2>3, <2>4 DEF ChannelForms
  <2>6. ~overlapped' => \A x, y \in channelCalls' : x.op = "edit" => y.op \notin {"load", "toggle", "delete"}
    BY <1>a, <2>2, <2>3 DEF ChannelInv, Apart
  <2>7. QED
    BY <1>b, <2>2, <2>3, <2>4, <2>5, <2>6, ChannelsKept
<1>6. ASSUME NEW c \in channelCalls, Tested(c) \/ ScheduleCame(c) \/ ScheduleSaved(c) PROVE ChannelInv'
  BY ZenonT(30), <1>a, <1>6, ChannelsKept
  DEF Tested, ScheduleCame, ScheduleSaved, ChannelForms, ChannelInv, Addressed, Apart
<1>7. ASSUME NEW c \in channelCalls, RowsCame(c) PROVE ChannelInv'
  <2>1. c.snap \in RowSet
    BY <1>a DEF ChannelRecords
  <2>2. CASE c.served /\ items' = c.snap /\ UNCHANGED overlapped
    <3>1. ~overlapped => Fresh(c.snap)
      BY <1>7, <2>2 DEF RowsCame, ChannelInv, Current
    <3>2. QED
      BY <1>a, <1>7, <2>1, <2>2, <3>1, ChannelsKept DEF RowsCame, ChannelForms, ChannelInv, Addressed, Apart
  <2>3. CASE overlapped' = TRUE /\ UNCHANGED items
    BY <1>a, <1>7, <2>3, ChannelsKept DEF RowsCame, ChannelForms, ChannelInv, Addressed, Apart
  <2>4. QED
    BY <1>7, <2>2, <2>3 DEF RowsCame
<1>8. ASSUME NEW c \in channelCalls, Removed(c) PROVE ChannelInv'
  <2>1. c.channel \in Channels /\ c.op = "delete"
    BY <1>8 DEF Removed, ChannelInv, Addressed
  <2>2. CASE channels' = [channels EXCEPT ![c.channel] = Gone] /\ load2(c)
    <3>1. channels' \in RowSet /\ (Fresh(channels) => Fresh(channels'))
      BY <1>a, <2>1, <2>2 DEF ChannelForms, RowSet, Fresh
    <3>2. ~overlapped => Fresh(channels')
      BY <3>1 DEF ChannelInv, Current
    <3>3. ChannelForms' /\ channelCalls' \subseteq ChannelRecords
      BY <1>a, <1>8, <2>2, <3>1 DEF Removed, load2, ChannelForms
    <3>4. ~overlapped' => \A x, y \in channelCalls' : x.op = "edit" => y.op \notin {"load", "toggle", "delete"}
      BY <1>a, <1>8, <2>1, <2>2 DEF Removed, load2, ChannelInv, Apart
    <3>5. QED
      BY <1>a, <1>8, <2>1, <2>2, <3>2, <3>3, <3>4, ChannelsKept DEF Removed, load2, ChannelInv, Addressed
  <2>3. CASE /\ channels' \in {channels, [channels EXCEPT ![c.channel] = Gone]}
             /\ DropCall(c) /\ UNCHANGED itemsLoading
    <3>1. channels' \in RowSet /\ (Fresh(channels) => Fresh(channels'))
      BY <1>a, <2>1, <2>3 DEF ChannelForms, RowSet, Fresh
    <3>2. ~overlapped => Fresh(channels')
      BY <3>1 DEF ChannelInv, Current
    <3>3. QED
      BY <1>a, <1>8, <2>1, <2>3, <3>1, <3>2, ChannelsKept DEF Removed, ChannelForms, ChannelInv, Addressed, Apart
  <2>4. QED
    BY <1>8, <2>2, <2>3 DEF Removed
<1>9. ASSUME NEW c \in channelCalls, ServeRows(c) PROVE ChannelInv'
  <2>1. PICK d : d = [c EXCEPT !.served = TRUE, !.snap = channels]
    OBVIOUS
  <2>2. d \in ChannelRecords /\ d.op = "load" /\ d.served /\ d.snap = channels /\ d.channel = c.channel
    BY <1>a, <1>9, <2>1 DEF ServeRows, ChannelRecords, ChannelForms
  <2>3. /\ channelCalls' = (channelCalls \ {c}) \cup {d} /\ c.op = "load"
        /\ UNCHANGED <<channels, items, itemsLoading, channelDlg, channelSaving, testingId, sched,
                       schedSaving, edits, accepted, hidden, overlapped>>
    BY <1>9, <2>1 DEF ServeRows
  <2>4. ChannelTypeOK'
    <3>1. ChannelForms' /\ channelCalls' \subseteq ChannelRecords
      BY <1>a, <2>2, <2>3 DEF ChannelForms
    <3>2. QED
      BY <3>1, ChannelTypes DEF ChannelForms, ChannelTypeOK, ChannelRecords, RowSet, Rows
  <2>5. Addressed' /\ OneEdit'
    BY <2>2, <2>3 DEF ChannelInv, Addressed, OneEdit
  <2>6. ASSUME ~overlapped' PROVE Apart' /\ Current'
    BY <2>2, <2>3, <2>6 DEF ChannelInv, Apart, Current, Fresh
  <2>7. QED
    BY <2>4, <2>5, <2>6 DEF ChannelInv
<1>10. ASSUME NEW on \in BOOLEAN, save(on) PROVE ChannelInv'
  <2>0. channelDlg.channel \in Channels /\ edits + 1 \in 0..MaxEdits
    BY <1>a, <1>10 DEF save, ChannelInv, Addressed, ChannelForms
  <2>1. PICK d : d = ChannelCall("edit", channelDlg.channel, edits + 1, on)
    OBVIOUS
  <2>2. d \in ChannelRecords /\ d.op = "edit" /\ d.channel \in Channels
    BY <2>0, <2>1, ChannelRecord
  <2>3. /\ channelCalls' = channelCalls \cup {d} /\ edits' = edits + 1 /\ ~channelSaving /\ channelSaving' = TRUE
        /\ overlapped' = (overlapped \/ \E x \in channelCalls : x.op \in {"load", "toggle", "delete"})
        /\ UNCHANGED <<channels, items, itemsLoading, channelDlg, testingId, sched, schedSaving, accepted, hidden>>
    BY <1>10, <2>1 DEF save
  <2>4. ChannelTypeOK'
    <3>1. ChannelForms' /\ channelCalls' \subseteq ChannelRecords
      BY <1>a, <2>0, <2>2, <2>3 DEF ChannelForms
    <3>2. QED
      BY <3>1, ChannelTypes DEF ChannelForms, ChannelTypeOK, ChannelRecords, RowSet, Rows
  <2>5. Addressed' /\ OneEdit'
    BY <2>2, <2>3 DEF ChannelInv, Addressed, OneEdit
  <2>6. ASSUME ~overlapped' PROVE Apart' /\ Current'
    <3>1. ~overlapped /\ \A x \in channelCalls : x.op \notin {"load", "toggle", "delete"}
      BY <1>a, <2>3, <2>6 DEF ChannelForms
    <3>2. Apart'
      BY <2>2, <2>3, <3>1 DEF Apart
    <3>3. Current'
      BY <2>2, <2>3, <3>1 DEF ChannelInv, Current, Fresh
    <3>4. QED
      BY <3>2, <3>3
  <2>7. QED
    BY <2>4, <2>5, <2>6 DEF ChannelInv
<1>11. ASSUME NEW c \in channelCalls, ChannelSaved(c) PROVE ChannelInv'
  <2>0. c.op = "edit" /\ c.channel \in Channels /\ c.config \in 0..MaxEdits /\ c.enabled \in BOOLEAN
    BY <1>a, <1>11 DEF ChannelSaved, ChannelInv, Addressed, ChannelRecords
  <2>1. \A d \in channelCalls \ {c} : d.op # "edit"
    BY <2>0 DEF ChannelInv, OneEdit
  <2>2. /\ channelSaving' = FALSE
        /\ UNCHANGED <<items, testingId, sched, schedSaving, edits, overlapped>>
    BY <1>11 DEF ChannelSaved
  <2>3. CASE DropCall(c) /\ UNCHANGED <<channels, accepted, hidden, channelDlg, itemsLoading>>
    <3>1. ChannelForms' /\ channelCalls' \subseteq ChannelRecords
      BY <1>a, <2>2, <2>3 DEF ChannelForms
    <3>2. ChannelTypeOK'
      BY <3>1, ChannelTypes DEF ChannelForms, ChannelTypeOK, ChannelRecords, RowSet, Rows
    <3>3. Addressed' /\ OneEdit'
      BY <2>1, <2>3 DEF ChannelInv, Addressed, OneEdit
    <3>4. ASSUME ~overlapped' PROVE Apart' /\ Current'
      BY <2>0, <2>2, <2>3, <3>4 DEF ChannelInv, Apart, Current, Fresh
    <3>5. QED
      BY <3>2, <3>3, <3>4 DEF ChannelInv
  <2>6. CASE /\ Stores(c) /\ hidden' = hidden \cup {c.channel}
             /\ DropCall(c) /\ UNCHANGED <<accepted, channelDlg, itemsLoading>>
    <3>1. Row(c.config, c.enabled) \in Rows
      BY <2>0, ChannelRecord
    <3>2. channels' = [channels EXCEPT ![c.channel] = Row(c.config, c.enabled)] /\ channels' \in RowSet
      BY <1>a, <2>0, <2>6, <3>1 DEF Stores, ChannelForms, RowSet
    <3>3. ChannelForms' /\ channelCalls' \subseteq ChannelRecords
      BY <1>a, <2>0, <2>2, <2>6, <3>2 DEF ChannelForms
    <3>4. ChannelTypeOK'
      BY <3>3, ChannelTypes DEF ChannelForms, ChannelTypeOK, ChannelRecords, RowSet, Rows
    <3>5. Addressed' /\ OneEdit'
      BY <2>1, <2>6 DEF ChannelInv, Addressed, OneEdit
    <3>6. ASSUME ~overlapped' PROVE Apart' /\ Current'
      <4>1. \A d \in channelCalls : d.op \notin {"load", "toggle", "delete"}
        BY <2>0, <2>2, <3>6 DEF ChannelInv, Apart
      <4>2. Fresh(channels) /\ Fresh(items)
        BY <2>2, <3>6, <4>1 DEF ChannelInv, Current
      <4>3. (Fresh(channels))' /\ (Fresh(items))'
        BY <1>a, <2>0, <2>2, <2>6, <3>2, <4>2 DEF ChannelForms, RowSet, Fresh
      <4>4. Apart' /\ Current'
        BY <2>6, <4>1, <4>3 DEF Apart, Current
      <4>5. QED
        BY <4>4
    <3>7. QED
      BY <3>4, <3>5, <3>6 DEF ChannelInv
  <2>4. CASE /\ Stores(c)
             /\ hidden' = hidden \ {c.channel}
             /\ accepted' = [accepted EXCEPT ![c.channel] = c.config]
             /\ channelDlg' = (IF channelDlg.kind = "edit" THEN NoChannelDlg ELSE channelDlg)
             /\ load2(c)
    <3>1. Row(c.config, c.enabled) \in Rows /\ Row(c.config, c.enabled).config = c.config
      BY <2>0, ChannelRecord
    <3>2. channels' \in RowSet /\ accepted' \in [Channels -> 0..MaxEdits]
      BY <1>a, <2>0, <2>4, <3>1 DEF Stores, ChannelForms, RowSet
    <3>3. channelCalls' = (channelCalls \ {c}) \cup {ListRows} /\ itemsLoading' = TRUE
      BY <2>4 DEF load2
    <3>4. ChannelForms' /\ channelCalls' \subseteq ChannelRecords
      BY <1>a, <1>b, <2>2, <2>4, <3>2, <3>3 DEF ChannelForms
    <3>5. ChannelTypeOK'
      BY <3>4, ChannelTypes DEF ChannelForms, ChannelTypeOK, ChannelRecords, RowSet, Rows
    <3>6. Addressed' /\ OneEdit'
      BY <1>a, <1>b, <2>1, <2>4, <3>3 DEF ChannelInv, Addressed, OneEdit
    <3>7. ASSUME ~overlapped' PROVE Apart' /\ Current'
      <4>1. \A d \in channelCalls : d.op \notin {"load", "toggle", "delete"}
        BY <2>0, <2>2, <3>7 DEF ChannelInv, Apart
      <4>2. Fresh(channels)
        BY <2>2, <3>7 DEF ChannelInv, Current
      <4>3. (Fresh(channels))'
        BY <1>a, <2>0, <2>4, <3>1, <4>2 DEF Stores, ChannelForms, RowSet, Fresh
      <4>4. Apart'
        BY <1>a, <2>1, <3>3 DEF Apart
      <4>5. Current'
        BY <1>a, <3>3, <4>1, <4>3 DEF Current
      <4>6. QED
        BY <4>4, <4>5
    <3>8. QED
      BY <3>5, <3>6, <3>7 DEF ChannelInv
  <2>5. QED
    BY <1>11, <2>3, <2>4, <2>6 DEF ChannelSaved
<1>12. ASSUME NEW c \in Channels, toggleEnabled(c) PROVE ChannelInv'
  <2>0. PICK v \in 0..MaxEdits, on \in BOOLEAN : v = items[c].config /\ on = (~items[c].enabled) /\ ~items[c].gone
    BY <1>a, <1>12 DEF toggleEnabled, RowInReach, ChannelForms, RowSet, Rows
  <2>1. PICK d : d = ChannelCall("toggle", c, v, on)
    OBVIOUS
  <2>2. d \in ChannelRecords /\ d.op = "toggle" /\ d.channel = c /\ d.config = items[c].config
    <3>1. NoRows \in RowSet
      BY ChannelRecord
    <3>2. QED
      BY <2>0, <2>1, <3>1 DEF ChannelCall, ChannelRecords
  <2>3. /\ channelCalls' = channelCalls \cup {d}
        /\ overlapped' = (overlapped \/ \E x \in channelCalls : x.op \in {"load", "edit"})
        /\ UNCHANGED <<channels, items, itemsLoading, channelDlg, channelSaving, testingId, sched,
                       schedSaving, edits, accepted, hidden>>
    BY <1>12, <2>0, <2>1 DEF toggleEnabled
  <2>4. ChannelTypeOK'
    <3>1. ChannelForms' /\ channelCalls' \subseteq ChannelRecords
      BY <1>a, <2>2, <2>3 DEF ChannelForms
    <3>2. QED
      BY <3>1, ChannelTypes DEF ChannelForms, ChannelTypeOK, ChannelRecords, RowSet, Rows
  <2>5. Addressed' /\ OneEdit'
    BY <2>2, <2>3 DEF ChannelInv, Addressed, OneEdit
  <2>6. ASSUME ~overlapped' PROVE Apart' /\ Current'
    <3>1. ~overlapped /\ \A x \in channelCalls : x.op \notin {"load", "edit"}
      BY <1>a, <2>3, <2>6 DEF ChannelForms
    <3>2. Apart'
      BY <2>2, <2>3, <3>1 DEF Apart
    <3>3. Fresh(items)
      BY <3>1 DEF ChannelInv, Current
    <3>4. d.channel \in hidden \/ d.config = accepted[d.channel]
      BY <2>0, <2>2, <3>3 DEF Fresh
    <3>5. Current'
      BY <2>2, <2>3, <3>1, <3>4 DEF ChannelInv, Current, Fresh
    <3>6. QED
      BY <3>2, <3>5
  <2>7. QED
    BY <2>4, <2>5, <2>6 DEF ChannelInv
<1>13. ASSUME NEW c \in channelCalls, Toggled(c) PROVE ChannelInv'
  <2>0. c.op = "toggle" /\ c.channel \in Channels /\ c.config \in 0..MaxEdits /\ c.enabled \in BOOLEAN
    BY <1>a, <1>13 DEF Toggled, ChannelInv, Addressed, ChannelRecords
  <2>1. channels' \in RowSet /\ (~overlapped => Fresh(channels'))
    <3>1. Row(c.config, c.enabled) \in Rows /\ Row(c.config, c.enabled).config = c.config
      BY <2>0, ChannelRecord
    <3>2. ~overlapped => Fresh(channels) /\ (c.channel \in hidden \/ c.config = accepted[c.channel])
      BY <2>0 DEF ChannelInv, Current
    <3>3. channels' = channels \/ channels' = [channels EXCEPT ![c.channel] = Row(c.config, c.enabled)]
      BY <1>13 DEF Toggled, Stores
    <3>4. QED
      BY <1>a, <2>0, <3>1, <3>2, <3>3 DEF ChannelForms, RowSet, Fresh
  <2>2. /\ items' \in RowSet
        /\ \A x \in Channels : items'[x].gone = items[x].gone /\ items'[x].config = items[x].config
    <3>1. items' = items \/ items' = [items EXCEPT ![c.channel].enabled = c.enabled]
      BY <1>13 DEF Toggled
    <3>2. items \in RowSet /\ items[c.channel] \in Rows
      BY <1>a, <2>0 DEF ChannelForms, RowSet
    <3>3. PICK r : r = [items[c.channel] EXCEPT !.enabled = c.enabled]
      OBVIOUS
    <3>4. r \in Rows /\ r.gone = items[c.channel].gone /\ r.config = items[c.channel].config
      BY <2>0, <3>2, <3>3 DEF Rows
    <3>5. items' = items \/ items' = [items EXCEPT ![c.channel] = r]
      BY <3>1, <3>3
    <3>6. QED
      BY <2>0, <3>2, <3>4, <3>5 DEF RowSet
  <2>3. /\ channelCalls' = channelCalls \ {c}
        /\ UNCHANGED <<itemsLoading, channelDlg, channelSaving, testingId, sched, schedSaving, edits,
                       accepted, hidden, overlapped>>
    BY <1>13 DEF Toggled
  <2>4. ChannelTypeOK'
    <3>1. ChannelForms' /\ channelCalls' \subseteq ChannelRecords
      BY <1>a, <2>1, <2>2, <2>3 DEF ChannelForms
    <3>2. QED
      BY <3>1, ChannelTypes DEF ChannelForms, ChannelTypeOK, ChannelRecords, RowSet, Rows
  <2>5. Addressed' /\ OneEdit'
    BY <2>3 DEF ChannelInv, Addressed, OneEdit
  <2>6. ASSUME ~overlapped' PROVE Apart' /\ Current'
    <3>1. Fresh(items) => (Fresh(items))'
      BY <2>2, <2>3 DEF Fresh
    <3>2. QED
      BY <2>0, <2>1, <2>3, <2>6, <3>1 DEF ChannelInv, Apart, Current, Fresh
  <2>7. QED
    BY <2>4, <2>5, <2>6 DEF ChannelInv
<1>14. QED
  BY <1>1, <1>2, <1>3, <1>4, <1>5, <1>6, <1>7, <1>8, <1>9, <1>10, <1>11, <1>12, <1>13 DEF ChannelNext

\* Switching a channel on or off sends the whole row, and yet does not undo the
\* channel's last edit: the switch is sent from rows that have it, and no edit
\* is saved until it is answered, where no such requests met (toggleEnabled).
THEOREM SwitchKeepsTheEditHolds == ChannelSpec => []SwitchKeepsTheEdit
<1>1. ChannelInv => SwitchKeepsTheEdit
  BY DEF ChannelInv, Current, Fresh, SwitchKeepsTheEdit
<1>2. QED
  BY <1>1, ChannelInitInv, ChannelStep, PTL DEF ChannelSpec
-----------------------------------------------------------------------------
(* The session of the browser (WebSession) *)

ChainOps == {"status", "me"}
FormOps  == {"login", "setup"}
PageOps  == {"page", "revoke", "revoked", "logout", "loggedOut"}

\* Sessions are numbered as they begin, and a call has that of the last one begun
\* when it was sent, or none.
Numbered ==
  /\ live \subseteq 1..began /\ cookie \in {0, began}
  /\ \A c \in webCalls : c.after \in 0..began /\ c.sid \in {0, c.after}

\* A document that does not know the panel to be set up has no user; one that
\* was told it is not set up shows the setup, and whatever leads there was so
\* when the document was loaded.
KnowsSetUp ==
  /\ initialized = "yes" \/ initFor \in {"login", "setup"} => setUp
  /\ initialized # "yes" =>
       /\ user = None /\ route \notin Protected
       /\ initFor # "boot" => going \notin Protected
       /\ \A c \in webCalls : c.op \notin PageOps \cup {"me"}
  /\ initialized = "no" /\ initFor # "boot" => route \in {"none", "setup"} /\ going \in {"none", "setup"}
  /\ "setup" \in {route, going} \/ initialized = "no" \/ ~setUp => setupFits

\* The first navigation waits for initSession, with nothing else in flight.
Booting ==
  initFor = "boot" =>
    /\ route = "none" /\ going # "none" /\ user = None /\ ~expired /\ ~sending /\ ~setupCodeDlg
    /\ \A c \in webCalls : c.op \in ChainOps

\* One form or initSession is in flight at a time, on the page it began on and
\* without a user.
OneChain ==
  /\ \A c, d \in webCalls : {c.op, d.op} \subseteq ChainOps \cup FormOps => c = d
  /\ \A c \in webCalls : c.op \in ChainOps => c.sid = cookie /\ c.after = began
  /\ initFor # "none" <=> \E c \in webCalls : c.op \in ChainOps
  /\ \A c \in webCalls : c.op \in FormOps => route = c.op
  /\ initFor \in {"login", "setup"} => route = initFor
  /\ (initFor # "boot" /\ \E c \in webCalls : c.op \in ChainOps \cup FormOps) => sending
  /\ sending => /\ user = None
                /\ \/ route = "login" /\ going \in {"none", "login"}
                   \/ route = "setup" /\ going = "none" /\ ~setupCodeDlg

\* Calls of protected pages are in flight, and the alert is shown, on these and
\* on the login page only; on the login page, with a new session, such a call
\* is of an older one.
OldCalls ==
  /\ (route \in Protected \/ expired \/ \E c \in webCalls : c.op \in PageOps) =>
       initialized = "yes" /\ route \in Protected \cup {"login"} /\ going # "setup"
  /\ (route = "login" /\ (user # None \/ initFor = "login")) =>
       \A c \in webCalls : c.op \in PageOps => Outlived(c)

\* The page that is coming fits the user, and so does the one shown.
Coming ==
  /\ initFor # "boot" => /\ going \in Protected => user # None
                         /\ going = "nodes" => user = "full"
                         /\ going = "login" => user = None
  /\ route \in Protected /\ user = None => going = "login"
  /\ route = "nodes" => user \in {None, "full"}
  /\ route = "login" => going # "setup" /\ (user # None => going \in Protected)
  /\ route = "setup" => going = "none" \/ (user # None /\ going \in Protected)

\* The session begun last, which is the user's, lives, was denied, or its logout
\* is not answered yet; so was that of the alert. It was denied where a call of
\* it went without a cookie, or where its revocation will take the cookie.
LoggingOut == \E c \in webCalls : c.op = "loggedOut" /\ c.sid = began
Ended ==
  /\ user # None => began \in live \/ denied \/ LoggingOut
  /\ expired /\ initFor # "login" => denied \/ LoggingOut
  /\ user # None /\ (cookie = 0 \/ \E c \in webCalls : c.sid = 0 /\ c.after = began) => denied
  /\ \A c \in webCalls : c.op = "revoked" /\ c.sid \in c.ends /\ c.after = began => denied

SessionInv ==
  /\ SessionTypeOK /\ Numbered /\ KnowsSetUp /\ Booting
  /\ ~overlap => OneChain /\ OldCalls /\ Coming /\ Ended

WebRecords ==
  [op : {"status", "me", "login", "setup", "page", "revoke", "revoked", "logout", "loggedOut"},
   sid : 0..MaxLogins, after : 0..MaxLogins, ends : SUBSET Sids]
SessionForms ==
  /\ setUp \in BOOLEAN /\ setupFits \in BOOLEAN /\ overlap \in BOOLEAN
  /\ began \in 0..MaxLogins /\ live \subseteq Sids /\ denied \in BOOLEAN
  /\ cookie \in 0..MaxLogins
  /\ initialized \in {"unknown", "yes", "no"} /\ user \in Roles \cup {None} /\ expired \in BOOLEAN
  /\ initFor \in {"none", "boot", "login", "setup"}
  /\ route \in Routes \cup {"none"} /\ going \in Routes \cup {"none"}
  /\ sending \in BOOLEAN /\ setupCodeDlg \in BOOLEAN

LEMMA SessionTypes == SessionTypeOK <=> SessionForms /\ webCalls \subseteq WebRecords
  BY DEF SessionTypeOK, SessionForms, WebRecords

\* A call has the browser's cookie of the moment.
LEMMA WebRecord ==
  ASSUME cookie \in 0..MaxLogins, began \in 0..MaxLogins, NEW op \in ChainOps \cup FormOps \cup PageOps, NEW e \in SUBSET Sids
  PROVE  /\ WebCall(op, e) \in WebRecords /\ WebCall(op, e).op = op /\ WebCall(op, e).sid = cookie
         /\ WebCall(op, e).after = began
         /\ Simple(op) \in WebRecords /\ Simple(op).op = op /\ Simple(op).sid = cookie
         /\ Simple(op).after = began
  BY DEF WebCall, Simple, WebRecords, ChainOps, FormOps, PageOps

\* Where the guard of the router leads: to the setup only of a panel that is not
\* set up, or whose status could not be read; without a user to the login page;
\* and with one to a page with that user's permission.
LEMMA Guarded ==
  ASSUME NEW to \in Routes, NEW ini \in {"unknown", "yes", "no"}, NEW usr \in Roles \cup {None}
  PROVE  /\ Guard(to, ini, usr) \in Routes
         /\ Guard(to, ini, usr) = "setup" => ini = "no" \/ (ini = "unknown" /\ to = "setup")
         /\ ini = "no" => Guard(to, ini, usr) = "setup"
         /\ usr = None => Guard(to, ini, usr) \in {"login", "setup"}
         /\ usr # None => Guard(to, ini, usr) \in Protected \cup {"setup"}
         /\ Guard(to, ini, usr) = "nodes" => usr = "full"
  BY SessionAssumption DEF Guard, Routes, Protected, Roles

LEMMA SessionInitInv == SessionInit => SessionInv
<1> SUFFICES ASSUME SessionInit PROVE SessionInv
  OBVIOUS
<1>1. MaxLogins \in Nat /\ 0 \in 0..MaxLogins
  BY SessionAssumption
<1>2. live \in {{}, {1} \cap Sids} /\ began = Cardinality(live) /\ cookie = began
  BY DEF SessionInit
<1>3. began \in 0..MaxLogins /\ live \subseteq 1..began /\ live \subseteq Sids
  <2>1. CASE live = {}
    BY <1>1, <1>2, <2>1, FS_EmptySet
  <2>2. CASE live # {}
    <3>1. live = {1} /\ 1 \in Sids
      BY <1>2, <2>2
    <3>2. Cardinality(live) = 1
      BY <3>1, FS_Singleton
    <3>3. QED
      BY <1>1, <1>2, <3>1, <3>2 DEF Sids
  <2>3. QED
    BY <2>1, <2>2
<1>4. /\ Simple("status") \in WebRecords /\ Simple("status").op = "status" /\ Simple("status").sid = cookie
      /\ Simple("status").after = began
      /\ webCalls = {Simple("status")}
  BY <1>2, <1>3, WebRecord DEF SessionInit, ChainOps
<1>5. SessionTypeOK
  <2>1. SessionForms
    BY <1>2, <1>3 DEF SessionInit, SessionForms, Routes, Protected
  <2>2. QED
    BY <1>4, <2>1, SessionTypes
<1>6. Numbered
  BY <1>2, <1>3, <1>4 DEF Numbered
<1>7. KnowsSetUp /\ Booting
  BY <1>4 DEF SessionInit, KnowsSetUp, Booting, PageOps, ChainOps, Protected, Routes
<1>8. OneChain /\ OldCalls /\ Coming /\ Ended
  BY <1>4 DEF SessionInit, OneChain, OldCalls, Coming, Ended, PageOps, ChainOps, FormOps, Protected
<1>9. QED
  BY <1>5, <1>6, <1>7, <1>8 DEF SessionInv

LEMMA SessionStep == SessionInv /\ [SessionNext]_sessionVars => SessionInv'
<1> SUFFICES ASSUME SessionInv, [SessionNext]_sessionVars PROVE SessionInv'
  OBVIOUS
<1>a. /\ SessionForms /\ webCalls \subseteq WebRecords /\ Numbered /\ KnowsSetUp /\ Booting
      /\ ~overlap => OneChain /\ OldCalls /\ Coming /\ Ended
      /\ MaxLogins \in Nat /\ began \in 0..MaxLogins /\ cookie \in 0..MaxLogins /\ overlap \in BOOLEAN
      /\ None \notin Roles
  BY SessionTypes, SessionAssumption DEF SessionInv, SessionForms, Roles
<1>b. \A c \in webCalls : c.op \in ChainOps \cup FormOps \cup PageOps /\ c.sid \in 0..MaxLogins /\ c.ends \subseteq Sids
  BY <1>a DEF WebRecords, ChainOps, FormOps, PageOps
<1>c. ASSUME SessionForms', webCalls' \subseteq WebRecords, Numbered', KnowsSetUp', Booting',
             ~overlap' => OneChain' /\ OldCalls' /\ Coming' /\ Ended'
      PROVE  SessionInv'
  <2>1. SessionTypeOK'
    BY <1>c DEF SessionTypeOK, SessionForms, WebRecords
  <2>2. QED
    BY <1>c, <2>1 DEF SessionInv
<1> USE DEF server, shown, sess, TakeCall, LoggingOut, Outlived
<1>1. CASE UNCHANGED sessionVars
  BY <1>1, <1>a
  DEF sessionVars, SessionInv, SessionTypeOK, Numbered, KnowsSetUp, Booting, OneChain, OldCalls, Coming, Ended
<1>2. ASSUME NEW to \in Routes, LoadDocument(to) PROVE SessionInv'
  <2>1. PICK d : d = Simple("status")
    OBVIOUS
  <2>2. d \in WebRecords /\ d.op = "status" /\ d.sid = cookie /\ d.after = began
    BY <1>a, <2>1, WebRecord DEF ChainOps
  <2>3. /\ webCalls' = {d} /\ setupFits' = (to = "setup" \/ ~setUp)
        /\ initialized' = "unknown" /\ user' = None /\ expired' = FALSE /\ initFor' = "boot"
        /\ route' = "none" /\ going' = to /\ sending' = FALSE /\ setupCodeDlg' = FALSE /\ overlap' = FALSE
        /\ UNCHANGED <<setUp, began, live, denied, cookie>>
    BY <1>2, <2>1 DEF LoadDocument
  <2>4. SessionForms' /\ webCalls' \subseteq WebRecords
    BY <1>a, <2>2, <2>3 DEF SessionForms
  <2>5. Numbered' /\ KnowsSetUp' /\ Booting'
    <3>1. began \in 0..began
      BY <1>a
    <3>2. Numbered'
      BY <1>a, <2>2, <2>3, <3>1 DEF Numbered
    <3>3. KnowsSetUp' /\ Booting'
      BY <1>a, <2>2, <2>3 DEF KnowsSetUp, Booting, ChainOps, PageOps, Protected, Routes
    <3>4. QED
      BY <3>2, <3>3
  <2>6. OneChain' /\ OldCalls' /\ Coming' /\ Ended'
    BY <1>a, <2>2, <2>3 DEF OneChain, OldCalls, Coming, Ended, ChainOps, PageOps, FormOps, Protected
  <2>7. QED
    BY <1>c, <2>4, <2>5, <2>6
<1>3. ASSUME NEW to \in Routes, Push(to) PROVE SessionInv'
  <2>1. /\ route \in Protected /\ going' = Guard(to, initialized, user)
        /\ UNCHANGED <<setUp, began, live, denied, cookie, route, setupFits, initialized, user, expired, initFor,
                       overlap, sending, setupCodeDlg, webCalls>>
    BY <1>3 DEF Push
  <2>2. initialized = "yes"
    BY <1>a, <2>1 DEF KnowsSetUp, SessionForms
  <2>3. /\ going' \in Routes /\ going' # "setup" /\ (user = None => going' = "login")
        /\ (user # None => going' \in Protected) /\ (going' = "nodes" => user = "full")
    BY <1>a, <2>1, <2>2, Guarded DEF SessionForms
  <2>4. SessionForms' /\ webCalls' \subseteq WebRecords
    BY <1>a, <2>1, <2>3 DEF SessionForms
  <2>5. Numbered' /\ KnowsSetUp' /\ Booting'
    BY <1>a, <2>1, <2>2, <2>3 DEF Numbered, KnowsSetUp, Booting, Protected
  <2>6. ASSUME ~overlap' PROVE OneChain' /\ OldCalls' /\ Coming' /\ Ended'
    <3>1. OneChain'
      BY <1>a, <2>1, <2>6 DEF OneChain, Protected
    <3>2. OldCalls' /\ Coming' /\ Ended'
      BY <1>a, <2>1, <2>2, <2>3, <2>6 DEF OldCalls, Coming, Ended, Protected
    <3>3. QED
      BY <3>1, <3>2
  <2>7. QED
    BY <1>c, <2>4, <2>5, <2>6
<1>4. ASSUME Arrive PROVE SessionInv'
  <2>1. /\ going # "none" /\ initFor # "boot" /\ route' = going /\ going' = "none"
        /\ sending' = (sending /\ going = route) /\ setupCodeDlg' = (setupCodeDlg /\ going = route)
        /\ UNCHANGED <<setUp, began, live, denied, cookie, setupFits, initialized, user, expired, initFor, overlap, webCalls>>
    BY <1>4 DEF Arrive
  <2>2. going \in {"dashboard", "nodes", "login", "setup"}
    BY <1>a, <2>1 DEF SessionForms, Routes, Protected
  <2>4. SessionForms' /\ webCalls' \subseteq WebRecords
    BY <1>a, <2>1, <2>2 DEF SessionForms, Routes, Protected
  <2>5. Numbered' /\ KnowsSetUp' /\ Booting'
    BY <1>a, <2>1, <2>2 DEF Numbered, KnowsSetUp, Booting, Protected
  <2>6. ASSUME ~overlap' PROVE OneChain' /\ OldCalls' /\ Coming' /\ Ended'
    <3>1. OneChain'
      BY <1>a, <2>1, <2>2, <2>6 DEF OneChain, Protected
    <3>2. OldCalls'
      BY <1>a, <2>1, <2>2, <2>6 DEF OldCalls, OneChain, Coming, KnowsSetUp, Protected
    <3>3. Coming' /\ Ended'
      BY <1>a, <2>1, <2>2, <2>6 DEF Coming, Ended, Protected
    <3>4. QED
      BY <3>1, <3>2, <3>3
  <2>7. QED
    BY <1>c, <2>4, <2>5, <2>6
<1>5. ASSUME NEW c \in webCalls, c.op \in ChainOps, webCalls' = webCalls \ {c}, AfterInit(initialized', user'),
             UNCHANGED <<setUp, began, live, cookie, overlap, route, setupFits>>,
             denied' = denied \/ (denied' = FALSE /\ user' # None),
             initialized' = initialized \/ (initialized' = "no" /\ ~setUp),
             user' \in Roles \cup {None}, user' # None => initialized' = "yes" /\ c.sid \in live
      PROVE  SessionInv'
  <2>1. /\ initFor' = "none" /\ initFor \in {"boot", "login", "setup"}
        /\ \/ /\ initFor = "boot" /\ going' = Guard(going, initialized', user')
              /\ UNCHANGED <<expired, sending, setupCodeDlg>>
           \/ /\ initFor = "login" /\ expired' = FALSE /\ sending' = FALSE /\ UNCHANGED setupCodeDlg
              /\ \E to \in Protected : going' = Guard(to, initialized', user')
           \/ /\ initFor = "setup" /\ sending' = FALSE /\ UNCHANGED <<expired, going>>
              /\ setupCodeDlg' = (setupCodeDlg \/ user' # None)
    BY <1>5 DEF AfterInit
  <2>2. /\ initialized' \in {"unknown", "yes", "no"}
        /\ initialized' = "yes" => initialized = "yes"
        /\ initialized' # "yes" => initialized # "yes" /\ user' = None
        /\ initFor # "boot" => initialized' = initialized
    BY <1>5, <1>a, <2>1 DEF KnowsSetUp, SessionForms
  <2>3. initFor = "boot" => going \in Routes
    BY <1>a DEF Booting, SessionForms
  <2>4. /\ initFor # "setup" =>
             /\ going' \in Routes
             /\ going' = "setup" => initialized' = "no" \/ (initFor = "boot" /\ going = "setup")
             /\ initialized' = "no" => going' = "setup"
             /\ user' = None => going' \in {"login", "setup"}
             /\ user' # None => going' \in Protected \cup {"setup"}
             /\ going' = "nodes" => user' = "full"
        /\ initFor = "setup" => going' = going
    <3>1. CASE initFor = "boot"
      BY <1>5, <2>1, <2>2, <2>3, <3>1, Guarded
    <3>2. CASE initFor = "login"
      <4>1. PICK to \in Protected : going' = Guard(to, initialized', user')
        BY <2>1, <3>2
      <4>2. to \in Routes /\ to # "setup"
        BY DEF Routes, Protected
      <4>3. QED
        BY <1>5, <2>2, <3>2, <4>1, <4>2, Guarded
    <3>3. CASE initFor = "setup"
      BY <2>1, <3>3
    <3>4. QED
      BY <2>1, <3>1, <3>2, <3>3
  <2>5. SessionForms' /\ webCalls' \subseteq WebRecords
    BY <1>5, <1>a, <2>1, <2>2, <2>4 DEF SessionForms, Booting
  <2>6. Numbered' /\ Booting'
    BY <1>5, <1>a, <2>1 DEF Numbered, Booting
  <2>7. KnowsSetUp'
    BY <1>5, <1>a, <2>1, <2>2, <2>4 DEF KnowsSetUp, Booting, Protected
  <2>8. ASSUME ~overlap' PROVE OneChain' /\ OldCalls' /\ Coming' /\ Ended'
    <3>1. OneChain /\ OldCalls /\ Coming /\ Ended
      BY <1>5, <1>a, <2>8
    <3>2. ~sending' /\ \A d \in webCalls' : d.op \notin ChainOps \cup FormOps
      BY <1>5, <1>a, <2>1, <3>1 DEF OneChain, Booting
    <3>3. OneChain'
      BY <1>5, <2>1, <3>2 DEF OneChain
    <3>8. (\A d \in webCalls' : d.op \in PageOps => Outlived(d)) /\ (initFor # "login" => ~expired')
      <4>1. CASE initFor = "boot"
        BY <1>5, <1>a, <2>1, <4>1 DEF Booting, ChainOps, PageOps
      <4>2. CASE initFor = "login"
        BY <1>5, <3>1, <4>2 DEF OldCalls, OneChain
      <4>3. CASE initFor = "setup"
        BY <1>5, <2>1, <3>1, <4>3 DEF OldCalls, OneChain, Protected
      <4>4. QED
        BY <2>1, <4>1, <4>2, <4>3
    <3>9. user' # None => began \in live /\ cookie = began /\ began # 0
      BY <1>5, <1>a, <3>1 DEF Numbered, OneChain
    <3>10. \A d \in webCalls' : d.after # began
      BY <1>5, <1>b, <3>2, <3>8
    <3>11. Ended'
      <4>1. expired' /\ initFor' # "login" => FALSE
        BY <2>1, <3>8
      <4>2. QED
        BY <1>5, <3>9, <3>10, <4>1 DEF Ended
    <3>4. CASE initFor = "boot"
      <4>1. route' = "none" /\ ~expired' /\ \A d \in webCalls' : d.op \notin PageOps
        BY <1>5, <1>a, <2>1, <3>4 DEF Booting, ChainOps, PageOps
      <4>2. c.sid = cookie
        BY <1>5, <3>1 DEF OneChain
      <4>3. OldCalls' /\ Coming'
        BY <1>5, <1>a, <2>1, <2>2, <2>4, <3>4, <4>1, <4>2 DEF OldCalls, Coming, Protected, KnowsSetUp
      <4>4. QED
        BY <3>3, <3>11, <4>3
    <3>5. CASE initFor = "login"
      <4>1. route' = "login" /\ route = "login" /\ ~expired' /\ c.sid = cookie /\ initialized # "no"
        BY <1>5, <1>a, <2>1, <3>1, <3>5 DEF OneChain, KnowsSetUp
      <4>2. going' # "setup" /\ initialized' = initialized
        BY <2>2, <2>4, <3>5, <4>1
      <4>3. OldCalls'
        BY <1>5, <3>1, <3>5, <4>1, <4>2 DEF OldCalls, Protected
      <4>4. Coming'
        BY <1>5, <1>a, <2>1, <2>4, <3>5, <4>1, <4>2 DEF Coming, Protected
      <4>5. QED
        BY <3>3, <3>11, <4>3, <4>4
    <3>6. CASE initFor = "setup"
      <4>1. route' = "setup" /\ route = "setup" /\ c.sid = cookie /\ going = "none" /\ going' = "none"
        BY <1>5, <2>4, <3>1, <3>6 DEF OneChain
      <4>2. ~expired' /\ \A d \in webCalls' : d.op \notin PageOps
        BY <1>5, <2>1, <3>1, <3>6, <4>1 DEF OldCalls, Protected
      <4>3. OldCalls' /\ Coming'
        BY <1>5, <2>1, <4>1, <4>2 DEF OldCalls, Coming, Protected
      <4>4. QED
        BY <3>3, <3>11, <4>3
    <3>7. QED
      BY <2>1, <3>4, <3>5, <3>6
  <2>9. QED
    BY <1>c, <2>5, <2>6, <2>7, <2>8
<1>6. ASSUME NEW c \in webCalls, StatusCame(c) PROVE SessionInv'
  <2>1. /\ c.op = "status" /\ initialized' \in {IF setUp THEN "yes" ELSE "no", initialized}
        /\ UNCHANGED <<server, cookie, user, overlap, route, setupFits>>
    BY <1>6 DEF StatusCame
  <2>2. CASE initialized' # "yes"
    <3>1. AfterInit(initialized', user') /\ webCalls' = webCalls \ {c}
      BY <1>6, <2>1, <2>2 DEF StatusCame
    <3>2. initialized' = initialized \/ (initialized' = "no" /\ ~setUp)
      BY <2>1, <2>2
    <3>3. initialized # "yes" /\ user' = None
      BY <1>a, <2>1, <2>2, <3>2 DEF KnowsSetUp
    <3>4. QED
      BY <1>5, <2>1, <3>1, <3>2, <3>3 DEF ChainOps
  <2>3. CASE initialized' = "yes"
    <3>1. PICK d : d = Simple("me")
      OBVIOUS
    <3>2. d \in WebRecords /\ d.op = "me" /\ d.sid = cookie /\ d.after = began
      BY <1>a, <3>1, WebRecord DEF ChainOps
    <3>3. /\ webCalls' = (webCalls \ {c}) \cup {d}
          /\ UNCHANGED <<server, cookie, user, overlap, route, setupFits, expired, initFor, sending, setupCodeDlg, going>>
      BY <1>6, <2>1, <2>3, <3>1 DEF StatusCame
    <3>4. setUp
      BY <1>a, <2>1, <2>3 DEF KnowsSetUp
    <3>5. SessionForms' /\ webCalls' \subseteq WebRecords
      BY <1>a, <2>3, <3>2, <3>3 DEF SessionForms
    <3>6. Numbered' /\ KnowsSetUp' /\ Booting'
      BY <1>a, <2>3, <3>2, <3>3, <3>4 DEF Numbered, KnowsSetUp, Booting, ChainOps
    <3>7. ASSUME ~overlap' PROVE OneChain' /\ OldCalls' /\ Coming' /\ Ended'
      <4>1. OneChain /\ OldCalls /\ Coming /\ Ended
        BY <1>a, <3>3, <3>7
      <4>2. d.op \in ChainOps /\ c.op \in ChainOps /\ d.op \notin FormOps \cup PageOps
        BY <2>1, <3>2 DEF ChainOps, FormOps, PageOps
      <4>3. \A e \in webCalls' : e.op \in ChainOps \cup FormOps => e = d
        BY <3>3, <4>1, <4>2 DEF OneChain
      <4>4. OneChain'
        BY <3>2, <3>3, <4>1, <4>2, <4>3 DEF OneChain
      <4>5. OldCalls'
        BY <2>3, <3>3, <4>1, <4>2 DEF OldCalls
      <4>6. Coming'
        BY <3>3, <4>1 DEF Coming
      <4>7. user = None
        <5>1. initFor \in {"boot", "login", "setup"} /\ (initFor # "boot" => sending)
          BY <1>a, <4>1, <4>2 DEF OneChain, SessionForms
        <5>2. QED
          BY <1>a, <4>1, <5>1 DEF OneChain, Booting
      <4>8. LoggingOut => LoggingOut'
        BY <2>1, <3>3
      <4>9. Ended'
        BY <3>2, <3>3, <4>1, <4>7, <4>8 DEF Ended
      <4>10. QED
        BY <4>4, <4>5, <4>6, <4>9
    <3>8. QED
      BY <1>c, <3>5, <3>6, <3>7
  <2>4. QED
    BY <2>2, <2>3
<1>7. ASSUME NEW c \in webCalls, MeCame(c) PROVE SessionInv'
  <2>1. /\ c.op = "me" /\ webCalls' = webCalls \ {c} /\ AfterInit(initialized', user')
        /\ user' \in {None} \cup (IF c.sid \in live THEN {RoleOf(c.sid)} ELSE {})
        /\ denied' = (denied /\ user' = None)
        /\ UNCHANGED <<setUp, began, live, cookie, initialized, overlap, route, setupFits>>
    BY <1>7 DEF MeCame
  <2>2. initialized = "yes"
    BY <1>a, <2>1 DEF KnowsSetUp
  <2>3. user' \in Roles \cup {None} /\ (user' # None => c.sid \in live)
    BY <2>1 DEF RoleOf, Roles
  <2>4. denied' = denied \/ (denied' = FALSE /\ user' # None)
    BY <1>a, <2>1 DEF SessionForms
  <2>5. QED
    BY <1>5, <2>1, <2>2, <2>3, <2>4 DEF ChainOps
<1>8. ASSUME NEW c \in webCalls, c.op \in FormOps, webCalls' = webCalls \ {c}, sending' = FALSE,
             setUp => setUp', setUp' \in BOOLEAN,
             UNCHANGED <<began, live, denied, cookie, initialized, initFor, user, expired, overlap, shown, setupCodeDlg>>
      PROVE  SessionInv'
  <2>1. /\ SessionForms' /\ webCalls' \subseteq WebRecords
        /\ Numbered' /\ KnowsSetUp' /\ Booting'
    <3>1. SessionForms' /\ webCalls' \subseteq WebRecords
      BY ZenonT(30), <1>8, <1>a DEF SessionForms
    <3>2. Numbered'
      BY <1>8, <1>a DEF Numbered
    <3>3. KnowsSetUp' /\ Booting'
      BY <1>8, <1>a DEF KnowsSetUp, Booting
    <3>4. QED
      BY <3>1, <3>2, <3>3
  <2>2. ASSUME ~overlap' PROVE OneChain' /\ OldCalls' /\ Coming' /\ Ended'
    <3>1. OneChain /\ OldCalls /\ Coming /\ Ended
      BY <1>8, <1>a, <2>2
    <3>2. \A d \in webCalls' : d.op \notin ChainOps \cup FormOps
      BY <1>8, <3>1 DEF OneChain
    <3>3. \A d \in webCalls : d.op \notin ChainOps
      BY <1>8, <3>1 DEF OneChain, ChainOps, FormOps
    <3>4. OneChain'
      BY <1>8, <3>1, <3>2, <3>3 DEF OneChain
    <3>5. OldCalls' /\ Coming'
      BY <1>8, <3>1 DEF OldCalls, Coming
    <3>6. LoggingOut => LoggingOut'
      BY <1>8 DEF FormOps
    <3>7. Ended'
      BY <1>8, <3>1, <3>6 DEF Ended
    <3>8. QED
      BY <3>4, <3>5, <3>7
  <2>3. QED
    BY <1>c, <2>1, <2>2
<1>9. ASSUME NEW c \in webCalls, c.op \in FormOps, Begin, setUp', setUp => setUp', initFor' = c.op,
             webCalls' = (webCalls \ {c}) \cup {[Simple("status") EXCEPT !.sid = cookie', !.after = began']},
             UNCHANGED <<initialized, user, expired, overlap, shown, sending, setupCodeDlg>>
      PROVE  SessionInv'
  <2>0. /\ began < MaxLogins /\ began' = began + 1 /\ live' = live \cup {began + 1} /\ cookie' = began + 1
        /\ denied' = FALSE /\ began + 1 \in 1..MaxLogins
    BY <1>9, <1>a DEF Begin
  <2>1. PICK d : d = [Simple("status") EXCEPT !.sid = cookie', !.after = began']
    OBVIOUS
  <2>2. d \in WebRecords /\ d.op = "status" /\ d.sid = cookie' /\ d.after = began'
    <3>1. Simple("status") \in WebRecords /\ Simple("status").op = "status"
      BY <1>a, WebRecord DEF ChainOps
    <3>2. cookie' \in 0..MaxLogins /\ began' \in 0..MaxLogins
      BY <1>a, <2>0
    <3>3. QED
      BY <2>1, <3>1, <3>2 DEF WebRecords
  <2>3. webCalls' = (webCalls \ {c}) \cup {d}
    BY <1>9, <2>1
  <2>4. c.op \in {"login", "setup"} /\ setUp' \in BOOLEAN
    BY <1>9 DEF FormOps
  <2>5. SessionForms' /\ webCalls' \subseteq WebRecords
    <3>1. live' \subseteq Sids
      BY <1>a, <2>0 DEF SessionForms, Sids
    <3>2. SessionForms'
      <4>1. began' \in 0..MaxLogins /\ cookie' \in 0..MaxLogins
        BY <1>a, <2>0
      <4>2. denied' \in BOOLEAN
        BY <2>0
      <4>3. initFor' \in {"none", "boot", "login", "setup"} /\ setUp' \in BOOLEAN
        BY <1>9, <2>4
      <4>4. QED
        BY <1>9, <1>a, <2>4, <3>1, <4>1, <4>2, <4>3 DEF SessionForms
    <3>3. QED
      BY <1>a, <2>2, <2>3, <3>2
  <2>6. Numbered'
    BY <1>9, <1>a, <2>0, <2>2, <2>3 DEF Numbered
  <2>7. initFor # "boot"
    BY <1>9, <1>a DEF Booting, ChainOps, FormOps
  <2>8. KnowsSetUp' /\ Booting'
    BY <1>9, <1>a, <2>2, <2>3, <2>4, <2>7 DEF KnowsSetUp, Booting, PageOps
  <2>9. ASSUME ~overlap' PROVE OneChain' /\ OldCalls' /\ Coming' /\ Ended'
    <3>1. OneChain /\ OldCalls /\ Coming /\ Ended
      BY <1>9, <1>a, <2>9
    <3>2. sending /\ user = None /\ route = c.op
      BY <1>9, <2>7, <3>1 DEF OneChain
    <3>3. d.op \in ChainOps /\ d.op \notin FormOps \cup PageOps
      BY <2>2 DEF ChainOps, FormOps, PageOps
    <3>4. \A e \in webCalls' : e.op \in ChainOps \cup FormOps => e = d
      BY <1>9, <2>3, <3>1, <3>3 DEF OneChain
    <3>5. OneChain'
      BY <1>9, <2>2, <2>3, <2>4, <3>1, <3>2, <3>3, <3>4 DEF OneChain
    <3>6. \A e \in webCalls' : e.op \in PageOps => e \in webCalls /\ e.after # began'
      BY <1>a, <2>0, <2>3, <3>3 DEF Numbered
    <3>7. OldCalls'
      BY <1>9, <3>1, <3>6 DEF OldCalls, Outlived
    <3>8. Coming'
      BY <1>9, <2>7, <3>1 DEF Coming
    <3>9. Ended'
      <4>1. \A e \in webCalls' : e.op = "revoked" => e.after # began'
        BY <3>6 DEF PageOps
      <4>2. initFor' # "login" => ~expired'
        BY <1>9, <2>4, <3>1, <3>2 DEF OldCalls, Protected
      <4>3. QED
        BY <1>9, <3>2, <4>1, <4>2 DEF Ended
    <3>10. QED
      BY <3>5, <3>7, <3>8, <3>9
  <2>10. QED
    BY <1>c, <2>5, <2>6, <2>8, <2>9
<1>10. ASSUME NEW c \in webCalls, LoginCame(c) \/ SetupCame(c) PROVE SessionInv'
  <2>1. CASE LoginCame(c)
    <3>1. c.op = "login" /\ c.op \in FormOps /\ UNCHANGED <<setUp, initialized, user, expired, overlap, shown, setupCodeDlg>>
      BY <2>1 DEF LoginCame, FormOps
    <3>2. CASE /\ setUp /\ Begin /\ initFor' = "login" /\ UNCHANGED sending
               /\ webCalls' = (webCalls \ {c}) \cup {[Simple("status") EXCEPT !.sid = cookie', !.after = began']}
      BY <1>9, <3>1, <3>2
    <3>3. CASE sending' = FALSE /\ TakeCall(c) /\ UNCHANGED <<began, live, denied, cookie, initFor>>
      BY <1>a, <1>8, <3>1, <3>3 DEF SessionForms
    <3>4. QED
      BY <2>1, <3>2, <3>3 DEF LoginCame
  <2>2. CASE SetupCame(c)
    <3>1. c.op = "setup" /\ c.op \in FormOps /\ UNCHANGED <<initialized, user, expired, overlap, shown, setupCodeDlg>>
      BY <2>2 DEF SetupCame, FormOps
    <3>2. CASE /\ ~setUp /\ setUp' = TRUE /\ Begin /\ initFor' = "setup" /\ UNCHANGED sending
               /\ webCalls' = (webCalls \ {c}) \cup {[Simple("status") EXCEPT !.sid = cookie', !.after = began']}
      BY <1>9, <3>1, <3>2
    <3>3. CASE /\ sending' = FALSE /\ TakeCall(c) /\ setUp' \in {setUp, TRUE}
               /\ UNCHANGED <<began, live, denied, cookie, initFor>>
      BY <1>a, <1>8, <3>1, <3>3 DEF SessionForms
    <3>4. QED
      BY <2>2, <3>2, <3>3 DEF SetupCame
  <2>3. QED
    BY <1>10, <2>1, <2>2
<1>11. ASSUME login \/ SubmitSetup PROVE SessionInv'
  <2>1. PICK o \in FormOps :
          /\ route = o /\ ~sending /\ (o = "setup" => ~setupCodeDlg) /\ sending' = TRUE
          /\ overlap' = (overlap \/ user # None)
          /\ webCalls' = webCalls \cup {Simple(o)}
          /\ UNCHANGED <<server, cookie, shown, initialized, user, expired, initFor, setupCodeDlg>>
    BY <1>11 DEF login, SubmitSetup, FormOps
  <2>2. PICK d : d = Simple(o)
    OBVIOUS
  <2>3. d \in WebRecords /\ d.op = o /\ d.sid = cookie /\ d.after = began /\ o \in {"login", "setup"} /\ d.op \notin ChainOps \cup PageOps
    BY <1>a, <2>1, <2>2, WebRecord DEF ChainOps, FormOps, PageOps
  <2>4. webCalls' = webCalls \cup {d}
    BY <2>1, <2>2
  <2>5. SessionForms' /\ webCalls' \subseteq WebRecords
    BY <1>a, <2>1, <2>3, <2>4 DEF SessionForms
  <2>6. initFor # "boot"
    BY <1>a, <2>1, <2>3 DEF Booting
  <2>7. Numbered' /\ KnowsSetUp' /\ Booting'
    BY <1>a, <2>1, <2>3, <2>4, <2>6 DEF Numbered, KnowsSetUp, Booting, PageOps
  <2>8. ASSUME ~overlap' PROVE OneChain' /\ OldCalls' /\ Coming' /\ Ended'
    <3>1. OneChain /\ OldCalls /\ Coming /\ Ended /\ user = None
      BY <1>a, <2>1, <2>8
    <3>2. \A e \in webCalls : e.op \notin ChainOps \cup FormOps
      BY <2>1, <2>6, <3>1 DEF OneChain
    <3>3. \/ route = "login" /\ going \in {"none", "login"}
          \/ route = "setup" /\ going = "none" /\ ~setupCodeDlg
      BY <1>a, <2>1, <2>3, <2>6, <3>1 DEF Coming, SessionForms, Routes
    <3>4. OneChain'
      BY <2>1, <2>3, <2>4, <3>1, <3>2, <3>3 DEF OneChain
    <3>5. OldCalls'
      BY <2>1, <2>3, <2>4, <3>1 DEF OldCalls
    <3>6. Coming'
      BY <2>1, <3>1 DEF Coming
    <3>7. LoggingOut => LoggingOut'
      BY <2>1, <2>4
    <3>8. Ended'
      BY <2>1, <2>3, <2>4, <3>1, <3>7 DEF Ended
    <3>9. QED
      BY <3>4, <3>5, <3>6, <3>8
  <2>9. QED
    BY <1>c, <2>5, <2>7, <2>8
<1>12. ASSUME NEW o \in {"page", "revoke", "logout"}, NEW e \in SUBSET Sids, route \in Protected, webCalls' = webCalls \cup {WebCall(o, e)},
              UNCHANGED <<server, cookie, shown, sess, sending, setupCodeDlg>>
       PROVE  SessionInv'
  <2>1. PICK d : d = WebCall(o, e)
    OBVIOUS
  <2>2. d \in WebRecords /\ d.op = o /\ d.sid = cookie /\ d.after = began /\ d.op \notin ChainOps \cup FormOps \cup {"me"}
    BY <1>a, <2>1, WebRecord DEF ChainOps, FormOps, PageOps
  <2>3. webCalls' = webCalls \cup {d}
    BY <1>12, <2>1
  <2>4. SessionForms' /\ webCalls' \subseteq WebRecords
    BY <1>12, <1>a, <2>2, <2>3 DEF SessionForms
  <2>5. Numbered' /\ KnowsSetUp' /\ Booting'
    BY <1>12, <1>a, <2>2, <2>3 DEF Numbered, KnowsSetUp, Booting, Protected
  <2>6. ASSUME ~overlap' PROVE OneChain' /\ OldCalls' /\ Coming' /\ Ended'
    <3>1. OneChain /\ OldCalls /\ Coming /\ Ended /\ route # "login"
      BY <1>12, <1>a, <2>6 DEF Protected
    <3>2. OneChain'
      BY <1>12, <2>2, <2>3, <3>1 DEF OneChain
    <3>3. OldCalls'
      BY <1>12, <2>2, <2>3, <3>1 DEF OldCalls
    <3>4. Coming'
      BY <1>12, <3>1 DEF Coming
    <3>5. LoggingOut => LoggingOut'
      BY <1>12, <2>3
    <3>6. Ended'
      BY <1>12, <2>2, <2>3, <3>1, <3>5 DEF Ended
    <3>7. QED
      BY <3>2, <3>3, <3>4, <3>6
  <2>7. QED
    BY <1>c, <2>4, <2>5, <2>6
<1>13. ASSUME PageAsks \/ logout \/ \E e \in SUBSET Sids : Revoke(e) PROVE SessionInv'
  BY <1>13, <1>12 DEF PageAsks, logout, Revoke, Simple
<1>14. ASSUME NEW c \in webCalls, c.op \in {"page", "revoke"}, Unauthorized(c),
              UNCHANGED <<setUp, began, live, cookie, initialized, initFor, route, setupFits, sending, setupCodeDlg>>
       PROVE  SessionInv'
  <2>0. initialized = "yes" /\ initFor # "boot" /\ c.op \in PageOps
    BY <1>14, <1>a DEF KnowsSetUp, Booting, PageOps, ChainOps
  <2>1. Guard("login", initialized, None) = "login"
    BY <2>0, Guarded DEF Routes, Protected
  <2>2. /\ webCalls' = webCalls \ {c} /\ user' = None
        /\ denied' = (denied \/ (c.sid = began /\ began \in live))
        /\ expired' = (expired \/ user # None)
        /\ going' = (IF user # None /\ route \in Protected THEN "login" ELSE going)
        /\ overlap' = (overlap \/ (user # None /\ Outlived(c)))
    BY <1>14, <2>1 DEF Unauthorized
  <2>3. SessionForms' /\ webCalls' \subseteq WebRecords
    BY <1>14, <1>a, <2>2 DEF SessionForms, Routes
  <2>4. Numbered' /\ KnowsSetUp' /\ Booting'
    BY <1>14, <1>a, <2>0, <2>2 DEF Numbered, KnowsSetUp, Booting
  <2>5. ASSUME ~overlap' PROVE OneChain' /\ OldCalls' /\ Coming' /\ Ended'
    <3>1. OneChain /\ OldCalls /\ Coming /\ Ended /\ (user # None => ~Outlived(c))
      BY <1>a, <2>2, <2>5
    <3>2. route \in Protected \cup {"login"} /\ going # "setup"
      BY <2>0, <3>1 DEF OldCalls
    <3>3. user # None => route \in Protected
      BY <2>0, <3>1, <3>2 DEF OldCalls
    <3>4. c.op \notin ChainOps \cup FormOps
      BY <1>14 DEF ChainOps, FormOps
    <3>5. OneChain'
      BY <1>14, <2>2, <3>1, <3>4 DEF OneChain
    <3>6. OldCalls'
      BY <1>14, <2>0, <2>2, <3>1, <3>2 DEF OldCalls, Outlived
    <3>7. Coming'
      BY <1>14, <2>0, <2>2, <3>1, <3>2, <3>3 DEF Coming, Protected
    <3>8. LoggingOut => LoggingOut'
      BY <1>14, <2>2 DEF LoggingOut
    <3>9. user # None => denied' \/ LoggingOut
      <4>1. ASSUME user # None, began \in live PROVE denied'
        <5>1. c.after = began /\ c.sid \in {0, began}
          BY <1>a, <3>1, <4>1 DEF Numbered, Outlived
        <5>2. QED
          BY <2>2, <3>1, <4>1, <5>1 DEF Ended
      <4>2. QED
        BY <2>2, <3>1, <4>1 DEF Ended
    <3>10. Ended'
      <4>1. expired' /\ initFor' # "login" => denied' \/ LoggingOut'
        BY <1>14, <2>2, <3>1, <3>8, <3>9 DEF Ended
      <4>2. user' = None /\ \A x \in webCalls' : x.op = "revoked" /\ x.sid \in x.ends /\ x.after = began => denied'
        BY <2>2, <3>1 DEF Ended
      <4>3. QED
        BY <1>14, <4>1, <4>2 DEF Ended
    <3>11. QED
      BY <3>5, <3>6, <3>7, <3>10
  <2>6. QED
    BY <1>c, <2>3, <2>4, <2>5
<1>15. ASSUME NEW c \in webCalls, c.op \in {"page", "revoke", "revoked"}, webCalls' = webCalls \ {c},
              UNCHANGED <<server, cookie, shown, sess, sending, setupCodeDlg>>
       PROVE  SessionInv'
  <2>1. /\ SessionForms' /\ webCalls' \subseteq WebRecords
        /\ Numbered' /\ KnowsSetUp' /\ Booting'
    <3>1. SessionForms' /\ webCalls' \subseteq WebRecords
      BY <1>15, <1>a DEF SessionForms
    <3>2. Numbered'
      BY <1>15, <1>a DEF Numbered
    <3>3. KnowsSetUp' /\ Booting'
      BY <1>15, <1>a DEF KnowsSetUp, Booting
    <3>4. QED
      BY <3>1, <3>2, <3>3
  <2>2. ASSUME ~overlap' PROVE OneChain' /\ OldCalls' /\ Coming' /\ Ended'
    <3>1. OneChain /\ OldCalls /\ Coming /\ Ended
      BY <1>15, <1>a, <2>2
    <3>2. c.op \notin ChainOps \cup FormOps
      BY <1>15 DEF ChainOps, FormOps
    <3>3. OneChain'
      BY <1>15, <3>1, <3>2 DEF OneChain
    <3>4. OldCalls' /\ Coming'
      BY <1>15, <3>1 DEF OldCalls, Coming, Outlived
    <3>5. LoggingOut => LoggingOut'
      BY <1>15 DEF LoggingOut
    <3>6. Ended'
      BY <1>15, <3>1, <3>5 DEF Ended
    <3>7. QED
      BY <3>3, <3>4, <3>6
  <2>3. QED
    BY <1>c, <2>1, <2>2
<1>16. ASSUME NEW c \in webCalls, PageCame(c) PROVE SessionInv'
  <2>1. /\ c.op = "page"
        /\ UNCHANGED <<setUp, began, live, cookie, initialized, initFor, route, setupFits, sending, setupCodeDlg>>
    BY <1>16 DEF PageCame
  <2>2. CASE Unauthorized(c)
    BY <1>14, <2>1, <2>2
  <2>3. CASE TakeCall(c) /\ UNCHANGED <<denied, user, expired, going, overlap>>
    BY <1>15, <2>1, <2>3
  <2>4. QED
    BY <1>16, <2>2, <2>3 DEF PageCame
<1>17. ASSUME NEW c \in webCalls, RevokeCame(c) PROVE SessionInv'
  <2>1. /\ c.op \in {"revoke", "revoked"} /\ c.op \in PageOps
        /\ UNCHANGED <<setUp, began, live, initialized, initFor, route, setupFits, sending, setupCodeDlg>>
    BY <1>17 DEF RevokeCame, PageOps
  <2>2. CASE c.op = "revoke" /\ Unauthorized(c) /\ UNCHANGED cookie
    BY <1>14, <2>1, <2>2
  <2>3. CASE TakeCall(c) /\ UNCHANGED <<cookie, denied, user, expired, going, overlap>>
    BY <1>15, <2>1, <2>3
  <2>4. CASE /\ c.op = "revoked"
             /\ cookie' = (IF c.sid \in c.ends THEN 0 ELSE cookie)
             /\ webCalls' = (webCalls \ {c})
                  \cup {[op |-> "page", sid |-> cookie', after |-> began, ends |-> {}]}
             /\ overlap' = (overlap \/ Outlived(c))
             /\ UNCHANGED <<denied, user, expired, going>>
    <3>0. cookie' \in {0, cookie} /\ cookie' \in 0..MaxLogins
      BY <1>a, <2>4
    <3>1. PICK d : d = [op |-> "page", sid |-> cookie', after |-> began, ends |-> {}]
      OBVIOUS
    <3>2. /\ d \in WebRecords /\ d.op = "page" /\ d.op \in PageOps /\ d.sid = cookie' /\ d.after = began
          /\ d.op \notin ChainOps \cup FormOps \cup {"me", "revoked", "loggedOut"}
      <4>1. d \in WebRecords
        BY <1>a, <3>0, <3>1 DEF WebRecords
      <4>2. QED
        BY <3>1, <4>1 DEF ChainOps, FormOps, PageOps
    <3>3. webCalls' = (webCalls \ {c}) \cup {d} /\ c.op \notin ChainOps \cup FormOps
      BY <2>1, <2>4, <3>1 DEF ChainOps, FormOps
    <3>4. SessionForms' /\ webCalls' \subseteq WebRecords
      <4>1. overlap' \in BOOLEAN
        BY <1>a, <2>4
      <4>2. QED
        BY <1>a, <2>1, <2>4, <3>0, <3>2, <3>3, <4>1 DEF SessionForms
    <3>5. initialized = "yes" /\ initFor # "boot"
      BY <1>a, <2>1 DEF KnowsSetUp, Booting, PageOps, ChainOps
    <3>6. Numbered' /\ KnowsSetUp' /\ Booting'
      BY <1>a, <2>1, <2>4, <3>0, <3>2, <3>3, <3>5 DEF Numbered, KnowsSetUp, Booting
    <3>7. ASSUME ~overlap' PROVE OneChain' /\ OldCalls' /\ Coming' /\ Ended'
      <4>1. OneChain /\ OldCalls /\ Coming /\ Ended /\ c.after = began
        BY <1>a, <2>4, <3>7 DEF Outlived
      <4>2. route \in Protected \/ (route = "login" /\ user = None /\ initFor # "login")
        BY <2>1, <4>1 DEF OldCalls, Outlived
      <4>3. initFor = "none"
        BY <1>a, <3>5, <4>1, <4>2 DEF OneChain, SessionForms, Protected
      <4>4. OneChain'
        BY <2>1, <2>4, <3>2, <3>3, <4>1, <4>3 DEF OneChain
      <4>5. OldCalls' /\ Coming'
        BY <2>1, <2>4, <3>2, <3>3, <3>5, <4>1, <4>2 DEF OldCalls, Coming, Protected
      <4>6. LoggingOut => LoggingOut'
        BY <2>1, <2>4, <3>3 DEF LoggingOut
      <4>7. cookie' # cookie => denied
        BY <2>4, <4>1 DEF Ended
      <4>8. user # None /\ (cookie' = 0 \/ \E x \in webCalls' : x.sid = 0 /\ x.after = began) => denied
        BY <3>2, <3>3, <4>1, <4>7 DEF Ended
      <4>9. \A x \in webCalls' : x.op = "revoked" /\ x.sid \in x.ends /\ x.after = began => denied
        BY <3>2, <3>3, <4>1 DEF Ended
      <4>10. Ended'
        BY <2>1, <2>4, <4>1, <4>6, <4>8, <4>9 DEF Ended
      <4>11. QED
        BY <4>4, <4>5, <4>10
    <3>8. QED
      BY <1>c, <3>4, <3>6, <3>7
  <2>5. QED
    BY <1>17, <2>2, <2>3, <2>4 DEF RevokeCame
<1>23. ASSUME NEW c \in webCalls, c.op \in {"revoke", "logout"}, NEW d \in WebRecords,
              webCalls' = (webCalls \ {c}) \cup {d}, d.op \in {"revoked", "loggedOut"},
              d.sid = c.sid, d.after = c.after, live' \subseteq live, denied => denied', denied' \in BOOLEAN,
              began \in live => began \in live' \/ denied' \/ (d.op = "loggedOut" /\ d.sid = began),
              d.op = "revoked" /\ d.sid \in d.ends /\ d.after = began => denied',
              UNCHANGED <<setUp, began, cookie, shown, sess, sending, setupCodeDlg>>
       PROVE  SessionInv'
  <2>1. /\ c.op \in PageOps /\ c.op \notin ChainOps \cup FormOps
        /\ d.op \in PageOps /\ d.op \notin ChainOps \cup FormOps \cup {"me"}
    BY <1>23 DEF ChainOps, FormOps, PageOps
  <2>2. SessionForms' /\ webCalls' \subseteq WebRecords
    BY <1>a, <1>23 DEF SessionForms
  <2>3. Numbered' /\ KnowsSetUp' /\ Booting'
    BY <1>a, <1>23, <2>1 DEF Numbered, KnowsSetUp, Booting
  <2>4. ASSUME ~overlap' PROVE OneChain' /\ OldCalls' /\ Coming' /\ Ended'
    <3>1. OneChain /\ OldCalls /\ Coming /\ Ended
      BY <1>a, <1>23, <2>4
    <3>2. OneChain'
      BY <1>23, <2>1, <3>1 DEF OneChain
    <3>3. OldCalls'
      BY <1>23, <2>1, <3>1 DEF OldCalls, Outlived
    <3>4. Coming'
      BY <1>23, <3>1 DEF Coming
    <3>5. LoggingOut => LoggingOut'
      BY <1>23 DEF LoggingOut
    <3>6. d.op = "loggedOut" /\ d.sid = began => LoggingOut'
      BY <1>23 DEF LoggingOut
    <3>7. user # None /\ (cookie = 0 \/ \E x \in webCalls' : x.sid = 0 /\ x.after = began) => denied'
      BY <1>23, <3>1 DEF Ended
    <3>8. \A x \in webCalls' : x.op = "revoked" /\ x.sid \in x.ends /\ x.after = began => denied'
      BY <1>23, <3>1 DEF Ended
    <3>9. user # None => began \in live' \/ denied' \/ LoggingOut'
      BY <1>23, <3>1, <3>5, <3>6 DEF Ended
    <3>10. Ended'
      BY <1>23, <3>1, <3>5, <3>7, <3>8, <3>9 DEF Ended
    <3>11. QED
      BY <3>2, <3>3, <3>4, <3>10
  <2>5. QED
    BY <1>c, <2>2, <2>3, <2>4
<1>24. ASSUME NEW c \in webCalls, RevokeServed(c) PROVE SessionInv'
  <2>1. PICK gone \in SUBSET {s \in c.ends \cap live : RoleOf(s) = RoleOf(c.sid)} :
          /\ live' = live \ gone /\ denied' = (denied \/ began \in gone)
          /\ webCalls' = (webCalls \ {c}) \cup {[c EXCEPT !.op = "revoked", !.ends = gone]}
    BY <1>24 DEF RevokeServed
  <2>2. PICK d : d = [c EXCEPT !.op = "revoked", !.ends = gone]
    OBVIOUS
  <2>3. c \in WebRecords /\ gone \in SUBSET Sids
    BY <1>a, <1>b
  <2>4. d \in WebRecords /\ d.op = "revoked" /\ d.ends = gone /\ d.sid = c.sid /\ d.after = c.after
    BY <2>2, <2>3 DEF WebRecords
  <2>5. /\ c.op = "revoke" /\ c.sid \in live
        /\ UNCHANGED <<setUp, began, cookie, shown, sess, sending, setupCodeDlg>>
    BY <1>24 DEF RevokeServed
  <2>6. webCalls' = (webCalls \ {c}) \cup {d}
    BY <2>1, <2>2
  <2>7. c.after = began => c.sid = began
    BY <1>a, <2>5 DEF Numbered
  <2>8. denied' \in BOOLEAN
    BY <2>1, <1>a DEF SessionForms
  <2>9. live' \subseteq live /\ (denied => denied') /\ (began \in live => began \in live' \/ denied')
    BY <2>1
  <2>10. d.op = "revoked" /\ d.sid \in d.ends /\ d.after = began => denied'
    BY <2>1, <2>4, <2>7
  <2>11. QED
    BY <1>23, <2>4, <2>5, <2>6, <2>8, <2>9, <2>10
<1>25. ASSUME NEW c \in webCalls, LogoutServed(c) PROVE SessionInv'
  <2>1. PICK d : d = [c EXCEPT !.op = "loggedOut"]
    OBVIOUS
  <2>2. d \in WebRecords /\ d.op = "loggedOut" /\ d.sid = c.sid /\ d.after = c.after
    BY <1>a, <2>1 DEF WebRecords
  <2>3. /\ c.op = "logout" /\ live' \in {live, live \ {c.sid}}
        /\ webCalls' = (webCalls \ {c}) \cup {d}
        /\ UNCHANGED <<setUp, began, denied, cookie, shown, sess, sending, setupCodeDlg>>
    BY <1>25, <2>1 DEF LogoutServed
  <2>4. denied' \in BOOLEAN
    BY <2>3, <1>a DEF SessionForms
  <2>5. QED
    BY <1>23, <2>2, <2>3, <2>4
<1>18. ASSUME NEW c \in webCalls, LoggedOut(c) PROVE SessionInv'
  <2>0. c.op \in {"logout", "loggedOut"} /\ c.op \in PageOps /\ c.op \notin ChainOps \cup FormOps
    BY <1>18 DEF LoggedOut, ChainOps, FormOps, PageOps
  <2>1. initialized = "yes" /\ initFor # "boot"
    BY <1>a, <2>0 DEF KnowsSetUp, Booting, PageOps, ChainOps
  <2>2. Guard("login", initialized, None) = "login"
    BY <2>1, Guarded DEF Routes, Protected
  <2>3. /\ webCalls' = webCalls \ {c} /\ expired' = FALSE /\ user' = None /\ going' = "login"
        /\ overlap' = (overlap \/ Outlived(c)) /\ cookie' \in {0, cookie}
        /\ UNCHANGED <<setUp, began, live, denied, initialized, initFor, route, setupFits, sending, setupCodeDlg>>
    BY <1>18, <2>2 DEF LoggedOut
  <2>4. SessionForms' /\ webCalls' \subseteq WebRecords
    <3>1. cookie' \in 0..MaxLogins /\ webCalls' \subseteq WebRecords
      BY <1>a, <2>3
    <3>2. user' \in Roles \cup {None} /\ going' \in Routes \cup {"none"} /\ expired' \in BOOLEAN
      BY <2>3 DEF Routes
    <3>3. overlap' \in BOOLEAN
      BY <2>3, <1>a
    <3>4. QED
      BY <1>a, <2>3, <3>1, <3>2, <3>3 DEF SessionForms
  <2>5. Numbered' /\ KnowsSetUp' /\ Booting'
    BY <1>a, <2>1, <2>3 DEF Numbered, KnowsSetUp, Booting, Protected
  <2>6. ASSUME ~overlap' PROVE OneChain' /\ OldCalls' /\ Coming' /\ Ended'
    <3>1. OneChain /\ OldCalls /\ Coming /\ Ended /\ ~Outlived(c)
      BY <1>a, <2>3, <2>6
    <3>2. route \in Protected \cup {"login"} /\ route # "setup"
      BY <2>0, <3>1 DEF OldCalls, Protected
    <3>3. initFor = "none"
      BY <1>a, <2>0, <2>1, <3>1, <3>2 DEF OldCalls, OneChain, SessionForms
    <3>4. OneChain'
      BY <2>0, <2>1, <2>3, <3>1, <3>2, <3>3 DEF OneChain
    <3>5. OldCalls' /\ Coming'
      BY <2>1, <2>3, <3>1, <3>2, <3>3 DEF OldCalls, Coming, Protected
    <3>6. Ended'
      BY <2>3, <3>1 DEF Ended
    <3>7. QED
      BY <3>4, <3>5, <3>6
  <2>7. QED
    BY <1>c, <2>4, <2>5, <2>6
<1>19. ASSUME NEW s \in Sids, EndSession(s) PROVE SessionInv'
  <2>1. /\ live' = live \ {s} /\ denied' = (denied \/ s = began)
        /\ UNCHANGED <<setUp, began, cookie, shown, sess, sending, setupCodeDlg, webCalls>>
    BY <1>19 DEF EndSession
  <2>2. /\ SessionForms' /\ webCalls' \subseteq WebRecords
        /\ Numbered' /\ KnowsSetUp' /\ Booting'
    <3>1. SessionForms' /\ webCalls' \subseteq WebRecords
      BY <1>a, <2>1 DEF SessionForms
    <3>2. Numbered'
      BY <1>a, <2>1 DEF Numbered
    <3>3. KnowsSetUp' /\ Booting'
      BY <1>a, <2>1 DEF KnowsSetUp, Booting
    <3>4. QED
      BY <3>1, <3>2, <3>3
  <2>3. ASSUME ~overlap' PROVE OneChain' /\ OldCalls' /\ Coming' /\ Ended'
    BY <1>a, <2>1, <2>3 DEF OneChain, OldCalls, Coming, Ended
  <2>4. QED
    BY <1>c, <2>2, <2>3
<1>20. ASSUME CloseAlert PROVE SessionInv'
  <2>1. /\ expired' = FALSE
        /\ UNCHANGED <<server, cookie, shown, initialized, user, initFor, overlap, sending, setupCodeDlg, webCalls>>
    BY <1>20 DEF CloseAlert
  <2>2. /\ SessionForms' /\ webCalls' \subseteq WebRecords
        /\ Numbered' /\ KnowsSetUp' /\ Booting'
    <3>1. SessionForms' /\ webCalls' \subseteq WebRecords
      BY ZenonT(30), <1>a, <2>1 DEF SessionForms
    <3>2. Numbered'
      BY <1>a, <2>1 DEF Numbered
    <3>3. KnowsSetUp' /\ Booting'
      BY <1>a, <2>1 DEF KnowsSetUp, Booting
    <3>4. QED
      BY <3>1, <3>2, <3>3
  <2>3. ASSUME ~overlap' PROVE OneChain' /\ OldCalls' /\ Coming' /\ Ended'
    BY <1>a, <2>1, <2>3 DEF OneChain, OldCalls, Coming, Ended
  <2>4. QED
    BY <1>c, <2>2, <2>3
<1>21. ASSUME CloseCode PROVE SessionInv'
  <2>1. /\ setupCodeDlg /\ setupCodeDlg' = FALSE
        /\ going' = (IF route = "setup" /\ user # None THEN Guard("dashboard", initialized, user) ELSE going)
        /\ UNCHANGED <<server, cookie, route, setupFits, sess, sending, webCalls>>
    BY <1>21 DEF CloseCode
  <2>2. user # None => initialized = "yes"
    BY <1>a DEF KnowsSetUp, SessionForms
  <2>3. (route = "setup" /\ user # None) => /\ going' \in Protected /\ (going' = "nodes" => user = "full")
                                           /\ going' \in Routes
    BY <1>a, <2>1, <2>2, Guarded DEF SessionForms, Routes, Protected
  <2>4. initFor # "boot"
    BY <1>a, <2>1 DEF Booting
  <2>5. SessionForms' /\ webCalls' \subseteq WebRecords
    BY ZenonT(30), <1>a, <2>1, <2>3 DEF SessionForms
  <2>6. Numbered' /\ KnowsSetUp' /\ Booting'
    BY <1>a, <2>1, <2>2, <2>3, <2>4 DEF Numbered, KnowsSetUp, Booting, Protected
  <2>7. ASSUME ~overlap' PROVE OneChain' /\ OldCalls' /\ Coming' /\ Ended'
    BY <1>a, <2>1, <2>3, <2>4, <2>7 DEF OneChain, OldCalls, Coming, Ended, Protected
  <2>8. QED
    BY <1>c, <2>5, <2>6, <2>7
<1>22. QED
  <2>1. (\E s \in Sids : s <= began /\ Revoke({s})) \/ Revoke(Sids \ {cookie}) => \E e \in SUBSET Sids : Revoke(e)
    OBVIOUS
  <2>2. QED
    BY <1>1, <1>2, <1>3, <1>4, <1>6, <1>7, <1>10, <1>11, <1>13, <1>16, <1>17, <1>18, <1>19, <1>20, <1>21,
       <1>24, <1>25, <2>1
    DEF SessionNext

LEMMA SessionInvariant == SessionSpec => []SessionInv
  BY SessionInitInv, SessionStep, PTL DEF SessionSpec

\* The page shown fits the session: nobody is sent to the setup of a panel that
\* is set up, a protected page without a user is on its way to the login page,
\* and a user who has logged in leaves it, unless calls of two sessions of the
\* browser met (the guard of router/index.js and what waits for initSession).
THEOREM PageFitsSessionHolds == SessionSpec => []PageFitsSession
<1>1. SessionInv => PageFitsSession
  BY SessionAssumption DEF SessionInv, KnowsSetUp, Coming, PageFitsSession, Protected
<1>2. QED
  BY <1>1, SessionInvariant, PTL

\* "The session has expired" is said only of a session the server has ended:
\* logging out clears the user before any answer to an older call can say it
\* (http.js, App.vue).
THEOREM ExpiredIsHonestHolds == SessionSpec => []ExpiredIsHonest
<1>1. SessionInv => ExpiredIsHonest
  BY DEF SessionInv, Ended, LoggingOut, ExpiredIsHonest
<1>2. QED
  BY <1>1, SessionInvariant, PTL
-----------------------------------------------------------------------------
(* Types of the other pages *)

UserRecords == [op : Forms3 \cup Questions \cup {"load"}, user : Users \cup {None}, left : BOOLEAN]
UserDialogs == [kind : Forms3 \cup Questions \cup {"none"}, user : Users \cup {None}]

\* Dialogs, requests and codes are of accounts, the reading of the list apart.
UserTypesInv ==
  /\ accounts \subseteq Users /\ users \subseteq Users
  /\ saving \in BOOLEAN /\ codeDlg \in BOOLEAN /\ crossed \in BOOLEAN
  /\ superCode \in Users \cup {None} /\ unseen \subseteq Users
  /\ userDlg \in UserDialogs /\ (userDlg.kind # "none" => userDlg.user \in Users)
  /\ userCalls \subseteq UserRecords /\ \A c \in userCalls : c.op # "load" => c.user \in Users
  /\ codeDlg => superCode \in Users

LEMMA UserCalls ==
  /\ \A op \in Forms3 \cup Questions \cup {"load"}, u \in Users \cup {None} :
       UserCall(op, u) \in UserRecords /\ UserCall(op, u).op = op /\ UserCall(op, u).user = u
  /\ \A c : MayReload(c) \subseteq {UserCall("load", None)}
  BY DEF UserCall, UserRecords, MayReload

LEMMA UserTyped == UserSpec => []UserTypeOK
<1>1. UserInit => UserTypesInv
  <2>1. UserCall("load", None) \in UserRecords /\ UserCall("load", None).op = "load"
    BY UserCalls
  <2>2. NoUserDlg \in UserDialogs /\ NoUserDlg.kind = "none"
    BY DEF NoUserDlg, UserDialogs
  <2>3. QED
    BY <2>1, <2>2 DEF UserInit, UserTypesInv
<1>2. UserTypesInv /\ [UserNext]_userVars => UserTypesInv'
  <2> SUFFICES ASSUME UserTypesInv, [UserNext]_userVars PROVE UserTypesInv'
    OBVIOUS
  <2>a. /\ UserCall("load", None) \in UserRecords /\ UserCall("load", None).op = "load"
        /\ NoUserDlg \in UserDialogs /\ NoUserDlg.kind = "none"
    BY UserCalls DEF NoUserDlg, UserDialogs
  <2>b. \A c \in userCalls : /\ c.op \in Forms3 \cup Questions \cup {"load"} /\ c.user \in Users \cup {None}
                             /\ c.op # "load" => c.user \in Users
                             /\ Spinner(c) \in BOOLEAN
                             /\ CloseUserDlg(c) \in {NoUserDlg, userDlg}
                             /\ MayReload(c) \subseteq {UserCall("load", None)}
    BY UserCalls DEF UserTypesInv, UserRecords, Spinner, CloseUserDlg
  <2>1. CASE ReloadUsers
    BY <2>a, <2>1 DEF ReloadUsers, userHist, UserTypesInv
  <2>2. CASE CancelUserDlg
    BY <2>a, <2>2 DEF CancelUserDlg, userHist, UserTypesInv
  <2>3. ASSUME NEW op \in Forms3 \cup Questions, op = userDlg.kind, SendUser(op),
               userDlg' \in {userDlg, NoUserDlg}, saving' \in BOOLEAN
        PROVE  UserTypesInv'
    <3>1. userDlg.user \in Users
      BY <2>3 DEF UserTypesInv, Forms3, Questions
    <3>2. UserCall(op, userDlg.user) \in UserRecords /\ UserCall(op, userDlg.user).user \in Users
      BY <3>1, UserCalls
    <3>3. crossed' \in BOOLEAN
      BY <2>3 DEF SendUser, UserTypesInv
    <3>4. QED
      BY <2>a, <2>3, <3>2, <3>3 DEF SendUser, UserTypesInv
  <2>4. CASE SubmitUser
    BY <2>3, <2>4 DEF SubmitUser
  <2>5. CASE ConfirmUser
    BY <2>3, <2>5 DEF ConfirmUser, UserTypesInv
  <2>6. CASE CloseSuperCode
    BY <2>6 DEF CloseSuperCode, UserTypesInv
  <2>14. CASE LeaveUsers
    <3> DEFINE kept == {[c EXCEPT !.left = TRUE] : c \in {d \in userCalls : d.op # "load"}}
    <3>1. \A c \in userCalls : /\ [c EXCEPT !.left = TRUE] \in UserRecords
                               /\ [c EXCEPT !.left = TRUE].user = c.user
      BY DEF UserTypesInv, UserRecords
    <3>2. kept \subseteq UserRecords /\ \A c \in kept : c.user \in Users
      BY <3>1 DEF UserTypesInv
    <3>3. userCalls' = kept \cup {UserCall("load", None)}
      BY <2>14 DEF LeaveUsers
    <3> HIDE DEF kept
    <3>4. QED
      BY <2>a, <2>14, <3>2, <3>3 DEF LeaveUsers, UserTypesInv
  <2>7. ASSUME NEW k \in Forms3 \cup Questions, NEW u \in Users, OpenUserDlg(k, u) PROVE UserTypesInv'
    BY <2>7 DEF OpenUserDlg, userHist, UserTypesInv, UserDialogs
  <2>8. ASSUME NEW c \in userCalls, UsersLoaded(c) PROVE UserTypesInv'
    BY <2>8 DEF UsersLoaded, userHist, UserTypesInv
  <2>9. ASSUME NEW c \in userCalls, showSuperCode(c) PROVE UserTypesInv'
    <3>1. c.user \in Users
      BY <2>b, <2>9 DEF showSuperCode, CodeMade, MakesCode
    <3>2. QED
      BY <2>a, <2>b, <2>9, <3>1 DEF showSuperCode, CodeMade, UserTypesInv
  <2>10. ASSUME NEW c \in userCalls, UserDone(c) PROVE UserTypesInv'
    BY <2>a, <2>b, <2>10 DEF UserDone, userHist, UserTypesInv
  <2>11. ASSUME NEW c \in userCalls, UserFails(c) PROVE UserTypesInv'
    <3>1. c.user \in Users
      BY <2>b, <2>11 DEF UserFails
    <3>2. QED
      BY <2>b, <2>11, <3>1 DEF UserFails, CodeMade, UserTypesInv
  <2>12. CASE UNCHANGED userVars
    BY <2>12 DEF userVars, userHist, UserTypesInv
  <2>13. QED
    BY <2>1, <2>2, <2>4, <2>5, <2>6, <2>7, <2>8, <2>9, <2>10, <2>11, <2>12, <2>14 DEF UserNext
<1>3. UserTypesInv => UserTypeOK
  BY DEF UserTypesInv, UserTypeOK, UserRecords, UserDialogs
<1>4. QED
  BY <1>1, <1>2, <1>3, PTL DEF UserSpec

EntryOps == {"login", "captcha", "firstCaptcha", "reset1", "reset2"}
EntryRecords == [op : EntryOps, id : 0..MaxCaptchas, code : 0..MaxCaptchas]

LEMMA FormTypes ==
  FormTypeOK <=>
    /\ mode \in {"login", "reset1", "reset2"} /\ method \in {"super_code", "mail"}
    /\ loginLoading \in BOOLEAN /\ captchaRequired \in BOOLEAN /\ newCodeDlg \in BOOLEAN
    /\ pictures \in 0..MaxCaptchas /\ captchaID \in 0..MaxCaptchas /\ captchaCode \in 0..MaxCaptchas
    /\ formCalls \subseteq EntryRecords
  BY DEF FormTypeOK, EntryRecords, EntryOps

LEMMA FormCalls ==
  \A op \in EntryOps, id, code \in 0..MaxCaptchas : FormCall(op, id, code) \in EntryRecords
  BY DEF FormCall, EntryRecords

LEMMA FormTyped == FormSpec => []FormTypeOK
<1> USE CaptchaAssumption
<1>1. FormInit => FormTypeOK
  <2>1. 0 \in 0..MaxCaptchas
    OBVIOUS
  <2>2. QED
    BY <2>1 DEF FormInit, FormTypeOK
<1>2. FormTypeOK /\ [FormNext]_formVars => FormTypeOK'
  <2> SUFFICES ASSUME FormTypeOK, [FormNext]_formVars PROVE FormTypeOK'
    OBVIOUS
  <2>z. 0 \in 0..MaxCaptchas
    OBVIOUS
  <2>y. \A op \in EntryOps : FormCall(op, 0, 0) \in EntryRecords
    BY <2>z, FormCalls
  <2>a. /\ 0 \in 0..MaxCaptchas /\ \A c \in formCalls : c.id \in 0..MaxCaptchas /\ c \in EntryRecords
        /\ formCalls \subseteq EntryRecords
        /\ \A op \in EntryOps : FormCall(op, 0, 0) \in EntryRecords
    BY <2>z, <2>y, FormTypes DEF EntryRecords
  <2>b. (formCalls' \subseteq EntryRecords) <=>
          formCalls' \subseteq [op : {"login", "captcha", "firstCaptcha", "reset1", "reset2"},
                                id : 0..MaxCaptchas, code : 0..MaxCaptchas]
    BY DEF EntryRecords, EntryOps
  <2>1. CASE TypeCaptcha
    BY <2>1 DEF TypeCaptcha, FormTypeOK
  <2>2. CASE SubmitLogin
    <3>1. FormCall("login", captchaID, captchaCode) \in EntryRecords
      BY FormCalls DEF FormTypeOK, EntryOps
    <3>2. formCalls' \subseteq EntryRecords
      BY <2>a, <2>2, <3>1 DEF SubmitLogin, EntryOps
    <3>3. QED
      BY <2>2, <2>b, <3>2 DEF SubmitLogin, loginCaptcha, FormTypeOK
  <2>3. CASE RefreshCaptcha
    <3>1. formCalls' \subseteq EntryRecords
      BY <2>a, <2>3 DEF RefreshCaptcha, FormAsk, EntryOps
    <3>2. QED
      BY <2>3, <2>b, <3>1 DEF RefreshCaptcha, loginCaptcha, FormTypeOK
  <2>4. CASE goReset \/ BackToLogin \/ ChooseMethod \/ CloseNewCode
    BY <2>4 DEF goReset, BackToLogin, ChooseMethod, CloseNewCode, loginCaptcha, FormTypeOK
  <2>5. CASE SubmitReset
    <3>1. mode \in EntryOps
      BY <2>5 DEF SubmitReset, FormTypeOK, EntryOps
    <3>2. formCalls' \subseteq EntryRecords
      BY <2>a, <2>5, <3>1 DEF SubmitReset, FormAsk
    <3>3. QED
      BY <2>5, <2>b, <3>2 DEF SubmitReset, loginCaptcha, FormTypeOK
  <2>6. ASSUME NEW c \in formCalls, LoginAnswered(c) PROVE FormTypeOK'
    <3>1. formCalls' \subseteq EntryRecords
      BY <2>a, <2>6 DEF LoginAnswered, EntryOps
    <3>2. QED
      BY <2>a, <2>6, <2>b, <3>1 DEF LoginAnswered, resetCaptcha, FormTypeOK
  <2>7. ASSUME NEW c \in formCalls, ServeCaptcha(c) PROVE FormTypeOK'
    <3>1. pictures + 1 \in 0..MaxCaptchas
      BY <2>7 DEF ServeCaptcha, FormTypeOK
    <3>2. [c EXCEPT !.id = pictures + 1] \in EntryRecords
      BY <2>a, <3>1 DEF EntryRecords
    <3>3. formCalls' \subseteq EntryRecords
      BY <2>a, <2>7, <3>2 DEF ServeCaptcha
    <3>4. QED
      BY <2>7, <2>b, <3>1, <3>3 DEF ServeCaptcha, FormTypeOK
  <2>8. ASSUME NEW c \in formCalls, CaptchaCame(c) PROVE FormTypeOK'
    <3>1. formCalls' \subseteq EntryRecords
      BY <2>a, <2>8 DEF CaptchaCame
    <3>2. captchaID' \in 0..MaxCaptchas /\ captchaCode' \in 0..MaxCaptchas
      BY <2>a, <2>8 DEF CaptchaCame, loadCaptcha, FormTypeOK
    <3>3. QED
      BY <2>8, <2>b, <3>1, <3>2 DEF CaptchaCame, FormTypeOK
  <2>9. ASSUME NEW c \in formCalls, ResetAnswered(c) PROVE FormTypeOK'
    BY <2>a, <2>b, <2>9 DEF ResetAnswered, loginCaptcha, FormTypeOK
  <2>10. CASE UNCHANGED formVars
    BY <2>10 DEF formVars, loginCaptcha, FormTypeOK
  <2>11. QED
    BY <2>1, <2>2, <2>3, <2>4, <2>5, <2>6, <2>7, <2>8, <2>9, <2>10 DEF FormNext
<1>3. QED
  BY <1>1, <1>2, PTL DEF FormSpec


ScriptOps == {"detail", "edit", "delete", "deployments", "deploy", "run"}
ScriptRecords == [op : ScriptOps, script : ScriptOrNone, node : Nodes \cup {None},
                  text : ScriptOrNone, stray : BOOLEAN]

ScriptRest ==
  /\ scripts \subseteq AllScripts /\ deployNode \in Nodes \cup {None} /\ runTask \in BOOLEAN
  /\ scriptBusy \subseteq {"edit", "deploy", "run"} /\ scriptCalls \subseteq ScriptRecords

LEMMA ScriptRecord ==
  \A op \in ScriptOps, s \in ScriptOrNone, n \in Nodes \cup {None} :
    ScriptAsk(op, s, n) \in ScriptRecords
  BY DEF ScriptAsk, ScriptRecords, ScriptOrNone

LEMMA ScriptTyped == ScriptSpec => []ScriptTypeOK
<1>1. ScriptInit => ScriptsInv /\ ScriptRest
  <2>1. ScriptInit => ScriptRest
    BY DEF ScriptInit, ScriptRest
  <2>2. ScriptInit => ScriptsInv
    BY NoDialogFits DEF ScriptInit, ScriptsInv, ScriptKeepsItsText
  <2>3. QED
    BY <2>1, <2>2
<1>2. ScriptsInv /\ ScriptRest /\ [ScriptNext]_scriptVars => ScriptRest'
  <2> SUFFICES ASSUME ScriptsInv, ScriptRest, [ScriptNext]_scriptVars PROVE ScriptRest'
    OBVIOUS
  <2>a. /\ scriptDialog \in DialogType /\ None \in ScriptOrNone /\ AllScripts \subseteq ScriptOrNone
        /\ scriptDialog.script \in ScriptOrNone /\ scriptDialog.text \in ScriptOrNone
        /\ scriptDialog.node \in Nodes \cup {None} /\ scriptDialog.stray \in BOOLEAN
        /\ None \in Nodes \cup {None}
    BY DEF ScriptsInv, DialogType, ScriptOrNone
  <2>b. ASSUME NEW k \in {"edit", "deploy", "run"}, NEW c \in ScriptRecords, SubmitOnce(k, c)
        PROVE  ScriptRest'
    BY <2>b DEF SubmitOnce, ScriptRest
  <2>c. \A c \in scriptCalls : Answered(c) => scriptCalls' \subseteq ScriptRecords
    BY DEF Answered, ScriptRest
  <2>1. CASE openCreateScript \/ TypeScript \/ CancelScriptDialog \/ CloseRunTask \/ UNCHANGED scriptVars
    BY <2>1 DEF openCreateScript, TypeScript, CancelScriptDialog, CloseRunTask, scriptVars, ScriptRest
  <2>2. CASE submitScript
    <3> DEFINE c == [ScriptAsk("edit", scriptDialog.script, None) EXCEPT
                       !.text = scriptDialog.text, !.stray = scriptDialog.stray]
    <3>1. ScriptAsk("edit", scriptDialog.script, None) \in ScriptRecords
      BY <2>a, ScriptRecord DEF ScriptOps
    <3>2. c \in ScriptRecords
      BY <2>a, <3>1 DEF ScriptRecords
    <3>3. SubmitOnce("edit", c)
      BY <2>2 DEF submitScript
    <3> HIDE DEF c
    <3>4. QED
      BY <2>b, <3>2, <3>3
  <2>3. CASE submitDeploy
    <3>1. ScriptAsk("deploy", scriptDialog.script, deployNode) \in ScriptRecords
      BY <2>a, ScriptRecord DEF ScriptOps, ScriptRest
    <3>2. QED
      BY <2>3, <2>b, <3>1 DEF submitDeploy
  <2>4. CASE submitRun
    <3>1. ScriptAsk("run", scriptDialog.script, scriptDialog.node) \in ScriptRecords
      BY <2>a, ScriptRecord DEF ScriptOps
    <3>2. QED
      BY <2>4, <2>b, <3>1 DEF submitRun
  <2>5. ASSUME NEW s \in AllScripts, openEditScript(s) \/ removeScript(s) PROVE ScriptRest'
    <3>1. ScriptAsk("detail", s, None) \in ScriptRecords /\ ScriptAsk("delete", s, None) \in ScriptRecords
      BY <2>a, ScriptRecord DEF ScriptOps
    <3>2. QED
      BY <2>5, <3>1 DEF openEditScript, removeScript, ScriptRest
  <2>6. ASSUME NEW s \in AllScripts, NEW n \in Nodes, openDeployScript(s, n) \/ openRunScript(s, n)
        PROVE  ScriptRest'
    <3>1. ScriptAsk("deployments", s, n) \in ScriptRecords
      BY <2>a, ScriptRecord DEF ScriptOps
    <3>2. QED
      BY <2>6, <3>1 DEF openDeployScript, openRunScript, ScriptRest
  <2>7. ASSUME NEW n \in Nodes, ChooseNode(n) PROVE ScriptRest'
    <3>1. ScriptAsk("deployments", scriptDialog.script, n) \in ScriptRecords
      BY <2>a, ScriptRecord DEF ScriptOps
    <3>2. QED
      BY <2>7, <3>1 DEF ChooseNode, ScriptRest
  <2>8. ASSUME NEW c \in scriptCalls,
               DetailCame(c) \/ ScriptSaved(c) \/ ScriptRemoved(c) \/ DeploymentsCame(c) \/ Sent(c)
        PROVE  ScriptRest'
    <3>1. scriptCalls' \subseteq ScriptRecords
      BY <2>8, <2>c DEF DetailCame, ScriptSaved, ScriptRemoved, DeploymentsCame, Sent
    <3>2. QED
      BY <2>8, <3>1 DEF DetailCame, ScriptSaved, ScriptRemoved, DeploymentsCame, Sent, ScriptRest
  <2>9. QED
    BY <2>1, <2>2, <2>3, <2>4, <2>5, <2>6, <2>7, <2>8 DEF ScriptNext
<1>3. ScriptsInv /\ ScriptRest => ScriptTypeOK
  BY DEF ScriptsInv, ScriptRest, ScriptTypeOK, ScriptRecords, ScriptOps, DialogType
<1>4. QED
  BY <1>1, <1>2, <1>3, ScriptsStep, PTL DEF ScriptSpec

DetailOps == {"all", "start", "stop", "restart", "status", "journal", "load", "save", "uninstall"}
DetailRecords == [op : DetailOps, path : FileOrNone, text : FileOrNone, sure : BOOLEAN]

LEMMA DetailRecord ==
  \A op \in DetailOps : /\ DetailAsk(op) \in DetailRecords
                        /\ \A f, g \in FileOrNone, sure \in BOOLEAN :
                             DetailCall(op, f, g, sure) \in DetailRecords
  BY DEF DetailAsk, DetailCall, DetailRecords, FileOrNone

DetailForms ==
  /\ recipeLoaded \in BOOLEAN /\ appRunning \in BOOLEAN /\ shownRunning \in BOOLEAN
  /\ autoFollow \in BOOLEAN /\ savingConfig \in BOOLEAN /\ configLate \in BOOLEAN
  /\ configPath \in FileOrNone /\ configContent \in FileOrNone
  /\ uninstallStep \in {"none", "asked", "task"}

LEMMA DetailTypes == DetailTypeOK <=> DetailForms /\ detailCalls \subseteq DetailRecords
  BY DEF DetailTypeOK, DetailForms, DetailRecords, DetailOps

LEMMA DetailTyped == DetailSpec => []DetailTypeOK
<1> DEFINE Inv == DetailForms /\ detailCalls \subseteq DetailRecords
<1>1. DetailInit => Inv
  <2>1. DetailAsk("all") \in DetailRecords
    BY DetailRecord DEF DetailOps
  <2>2. QED
    BY <2>1 DEF DetailInit, DetailForms, FileOrNone
<1>2. Inv /\ [DetailNext]_detailVars => Inv'
  <2> SUFFICES ASSUME Inv, [DetailNext]_detailVars PROVE Inv'
    OBVIOUS
  <2>a. \A op \in DetailOps : DetailAsk(op) \in DetailRecords
    BY DetailRecord
  <2>b. None \in FileOrNone /\ Files \subseteq FileOrNone
    BY DEF FileOrNone
  <2>1. ASSUME NEW act \in {"start", "stop", "restart"}, action(act) PROVE Inv'
    BY <2>1, <2>a DEF action, configVars, DetailForms, DetailOps
  <2>2. CASE toggleAuto \/ TypeConfig \/ CloseUninstallTask \/ UNCHANGED detailVars
    BY <2>2 DEF toggleAuto, TypeConfig, CloseUninstallTask, detailVars, configVars, DetailForms
  <2>3. CASE loadJournal \/ submitUninstall
    BY <2>3, <2>a DEF loadJournal, submitUninstall, configVars, DetailForms, DetailOps
  <2>4. CASE loadConfig
    <3>1. DetailCall("load", configPath, None, FALSE) \in DetailRecords
      BY <2>b, DetailRecord DEF DetailForms, DetailOps
    <3>2. QED
      BY <2>4, <3>1 DEF loadConfig, configVars, DetailForms
  <2>5. CASE saveConfig
    <3> DEFINE sure == ConfigLoads = {} /\ ~configLate
    <3>1. sure \in BOOLEAN
      BY DEF DetailForms
    <3> HIDE DEF sure
    <3>2. DetailCall("save", configPath, configContent, sure) \in DetailRecords
      BY <3>1, DetailRecord DEF DetailForms, DetailOps
    <3>3. detailCalls' \subseteq DetailRecords
      BY <2>5, <3>2 DEF saveConfig, sure
    <3>4. QED
      BY <2>5, <3>3 DEF saveConfig, DetailForms
  <2>6. ASSUME NEW f \in Files, ChooseFile(f) PROVE Inv'
    <3>1. DetailCall("load", f, None, FALSE) \in DetailRecords
      BY <2>b, DetailRecord DEF DetailOps
    <3>2. QED
      BY <2>6, <2>b, <3>1 DEF ChooseFile, DetailForms
  <2>7. ASSUME NEW open \in BOOLEAN, UninstallDialog(open) PROVE Inv'
    BY <2>7 DEF UninstallDialog, configVars, DetailForms
  <2>8. ASSUME NEW c \in detailCalls, AllLoaded(c) \/ refreshStatus(c) \/ JournalCame(c) PROVE Inv'
    BY <2>8 DEF AllLoaded, refreshStatus, JournalCame, configVars, DetailForms
  <2>9. ASSUME NEW c \in detailCalls, ActionAnswer(c) PROVE Inv'
    BY <2>9, <2>a DEF ActionAnswer, configVars, DetailForms, DetailOps
  <2>10. ASSUME NEW c \in detailCalls, ConfigCame(c) PROVE Inv'
    <3>1. c.path \in FileOrNone
      BY DEF DetailRecords
    <3>2. QED
      BY <2>10, <2>b, <3>1 DEF ConfigCame, DetailForms
  <2>11. ASSUME NEW c \in detailCalls, ConfigSaved(c) \/ UninstallAnswer(c) PROVE Inv'
    BY <2>11 DEF ConfigSaved, UninstallAnswer, configVars, DetailForms
  <2>12. QED
    BY <2>1, <2>2, <2>3, <2>4, <2>5, <2>6, <2>7, <2>8, <2>9, <2>10, <2>11 DEF DetailNext
<1>3. Inv => DetailTypeOK
  BY DetailTypes
<1>4. QED
  BY <1>1, <1>2, <1>3, PTL DEF DetailSpec

-----------------------------------------------------------------------------
(* The requests that change accounts (AdminGuard) *)

Seats      == [role : RoleCodes, status : Statuses]
AskSteps   == {"read", "status", "role", "counted", "delete"}
AskRecords == [op : {"update", "delete"}, id : Logins, role : RoleCodes \cup {Keep},
               status : Statuses \cup {Keep}, seen : Seats, others : 0..Cardinality(Logins),
               step : AskSteps]

GuardTypesInv ==
  person \in [Logins -> Seats \cup {Absent}] /\ asks \subseteq AskRecords /\ unread \in BOOLEAN

LEMMA CountInRange == \A u : CountActiveAdmins(u) \in 0..Cardinality(Logins)
<1> TAKE u
<1> DEFINE A == {v \in Logins \ {u} : isActiveAdmin(person[v])}
<1>1. A \subseteq Logins
  OBVIOUS
<1> HIDE DEF A
<1>2. IsFiniteSet(A) /\ Cardinality(A) <= Cardinality(Logins)
  BY <1>1, AdminAssumption, FS_Subset
<1>3. Cardinality(A) \in Nat /\ Cardinality(Logins) \in Nat
  BY <1>2, AdminAssumption, FS_CardinalityType
<1>4. Cardinality(A) \in 0..Cardinality(Logins)
  BY <1>2, <1>3
<1>5. QED
  BY <1>4 DEF A, CountActiveAdmins

LEMMA UnreadStays == [GuardNext]_adminVars => unread' = unread \/ unread' = TRUE
  BY DEF GuardNext, adminVars, setup, createUser, Arrives, CheckUpdate, CheckUpdateUnread,
         UpdateUserStatus, UpdateUserRole, CountOthers, CheckDelete, CheckDeleteUnread, DeleteUser,
         AskFails

LEMMA GuardTypesStep == GuardTypesInv /\ [GuardNext]_adminVars => GuardTypesInv'
<1> SUFFICES ASSUME GuardTypesInv, [GuardNext]_adminVars PROVE GuardTypesInv'
  OBVIOUS
<1>a. \A u \in Logins, r \in RoleCodes : Person(r, "active") \in Seats
  BY DEF Person, Seats, Statuses
<1>b. \A r \in asks, s \in AskRecords : Goes(r, s) => asks' \subseteq AskRecords
  BY DEF Goes, GuardTypesInv
<1>c. \A r \in asks : Ends(r) => asks' \subseteq AskRecords
  BY DEF Ends, GuardTypesInv
<1>d. \A r \in asks : r \in AskRecords /\ r.id \in Logins
  BY DEF GuardTypesInv, AskRecords
<1>e. \A r \in asks, st \in AskSteps : [r EXCEPT !.step = st] \in AskRecords
  BY <1>d DEF AskRecords
<1>0. unread' \in BOOLEAN
  BY UnreadStays DEF GuardTypesInv
<1> USE <1>0
<1>1. ASSUME NEW u \in Logins, setup(u) PROVE GuardTypesInv'
  BY <1>a, <1>1 DEF setup, GuardTypesInv, RoleCodes
<1>2. ASSUME NEW u \in Logins, NEW role \in RoleCodes, createUser(u, role) PROVE GuardTypesInv'
  BY <1>a, <1>2 DEF createUser, GuardTypesInv
<1>3. ASSUME NEW op \in {"update", "delete"}, NEW by \in Logins, NEW u \in Logins,
             NEW role \in RoleCodes \cup {Keep}, NEW status \in Statuses \cup {Keep},
             Arrives(op, by, u, role, status)
      PROVE  GuardTypesInv'
  <2> DEFINE r == [op |-> op, id |-> u, role |-> role, status |-> status, seen |-> person[u],
                   others |-> 0, step |-> "read"]
  <2>1. person[u] \in Seats
    BY <1>3 DEF Arrives, GuardTypesInv
  <2>2. 0 \in 0..Cardinality(Logins)
    BY AdminAssumption, FS_CardinalityType
  <2>3. r \in AskRecords
    BY <2>1, <2>2 DEF AskRecords, AskSteps
  <2>4. asks' = asks \cup {r} /\ person' = person
    BY <1>3 DEF Arrives
  <2> HIDE DEF r
  <2>5. QED
    BY <2>3, <2>4 DEF GuardTypesInv
<1>4. ASSUME NEW r \in asks, CheckUpdate(r) PROVE GuardTypesInv'
  <2>1. [r EXCEPT !.step = "status"] \in AskRecords
    BY <1>e DEF AskSteps
  <2>2. asks' \subseteq AskRecords
    BY <1>4, <1>b, <1>c, <2>1 DEF CheckUpdate
  <2>3. QED
    BY <1>4, <2>2 DEF CheckUpdate, GuardTypesInv
<1>f. ASSUME NEW r \in asks, NEW f \in {"role", "status"}, UpdateField(r, f, r[f])
      PROVE  person' \in [Logins -> Seats \cup {Absent}]
  <2>1. CASE person' = person
    BY <2>1 DEF GuardTypesInv
  <2>2. CASE person' # person
    <3>1. person[r.id] \in Seats /\ r[f] # Keep /\ person' = [person EXCEPT ![r.id][f] = r[f]]
      BY <1>d, <1>f, <2>2 DEF UpdateField, GuardTypesInv
    <3>2. (f = "role" => r[f] \in RoleCodes) /\ (f = "status" => r[f] \in Statuses)
      BY <1>d, <3>1 DEF AskRecords
    <3>3. [person[r.id] EXCEPT ![f] = r[f]] \in Seats
      BY <3>1, <3>2 DEF Seats
    <3>4. QED
      BY <1>d, <3>1, <3>3 DEF GuardTypesInv
  <2>3. QED
    BY <2>1, <2>2
<1>5. ASSUME NEW r \in asks, UpdateUserStatus(r) PROVE GuardTypesInv'
  <2>1. [r EXCEPT !.step = "role"] \in AskRecords
    BY <1>e DEF AskSteps
  <2>2. r["status"] = r.status
    OBVIOUS
  <2>3. QED
    BY <1>5, <1>b, <1>f, <2>1, <2>2 DEF UpdateUserStatus, GuardTypesInv
<1>6. ASSUME NEW r \in asks, UpdateUserRole(r) PROVE GuardTypesInv'
  <2>1. r["role"] = r.role
    OBVIOUS
  <2>2. QED
    BY <1>6, <1>c, <1>f, <2>1 DEF UpdateUserRole, GuardTypesInv
<1>7. ASSUME NEW r \in asks, CountOthers(r) PROVE GuardTypesInv'
  <2> DEFINE s == [r EXCEPT !.step = "counted", !.others = CountActiveAdmins(r.id)]
  <2>1. s \in AskRecords
    BY <1>d, CountInRange DEF AskRecords, AskSteps
  <2>2. Goes(r, s) /\ person' = person
    BY <1>7 DEF CountOthers
  <2> HIDE DEF s
  <2>3. QED
    BY <1>b, <2>1, <2>2 DEF GuardTypesInv
<1>8. ASSUME NEW r \in asks, CheckDelete(r) PROVE GuardTypesInv'
  <2>1. [r EXCEPT !.step = "delete"] \in AskRecords
    BY <1>e DEF AskSteps
  <2>2. asks' \subseteq AskRecords
    BY <1>8, <1>b, <1>c, <2>1 DEF CheckDelete
  <2>3. QED
    BY <1>8, <2>2 DEF CheckDelete, GuardTypesInv
<1>9. ASSUME NEW r \in asks, DeleteUser(r) PROVE GuardTypesInv'
  BY <1>9, <1>c, <1>d DEF DeleteUser, GuardTypesInv
<1>10. CASE UNCHANGED adminVars
  BY <1>10 DEF adminVars, GuardTypesInv
<1>11. ASSUME NEW r \in asks, AskFails(r) PROVE GuardTypesInv'
  BY <1>11, <1>c DEF AskFails, GuardTypesInv
<1>14. ASSUME NEW r \in asks, CheckUpdateUnread(r) \/ CheckDeleteUnread(r) PROVE GuardTypesInv'
  <2>1. [r EXCEPT !.step = "status"] \in AskRecords /\ [r EXCEPT !.step = "delete"] \in AskRecords
    BY <1>e DEF AskSteps
  <2>2. QED
    BY <1>14, <1>b, <2>1 DEF CheckUpdateUnread, CheckDeleteUnread, GuardTypesInv
<1>12. CASE GuardNext
  <2>1. Keep \in RoleCodes \cup {Keep} /\ Keep \in Statuses \cup {Keep}
    OBVIOUS
  <2>2. CASE \E u \in Logins : setup(u) \/ \E role \in RoleCodes : createUser(u, role)
    BY <1>1, <1>2, <2>2
  <2>3. CASE \E u, by \in Logins : Arrives("delete", by, u, Keep, Keep)
    BY <1>3, <2>1, <2>3
  <2>4. CASE \E u, by \in Logins, role \in RoleCodes \cup {Keep}, status \in Statuses \cup {Keep} :
               Arrives("update", by, u, role, status)
    BY <1>3, <2>4
  <2>5. CASE \E r \in asks : \/ CheckUpdate(r) \/ UpdateUserStatus(r) \/ UpdateUserRole(r)
                             \/ CountOthers(r) \/ CheckDelete(r) \/ DeleteUser(r) \/ AskFails(r)
                             \/ CheckUpdateUnread(r) \/ CheckDeleteUnread(r)
    BY <1>4, <1>5, <1>6, <1>7, <1>8, <1>9, <1>11, <1>14, <2>5
  <2>6. QED
    BY <1>12, <2>2, <2>3, <2>4, <2>5 DEF GuardNext
<1>13. QED
  BY <1>10, <1>12

LEMMA GuardTyped == GuardSpec => []GuardTypeOK
<1>1. GuardInit => GuardTypesInv
  BY DEF GuardInit, GuardTypesInv
<1>2. GuardTypesInv => GuardTypeOK
  BY DEF GuardTypesInv, GuardTypeOK, AskRecords, Seats, AskSteps
<1>3. QED
  BY <1>1, <1>2, GuardTypesStep, PTL DEF GuardSpec

\* An account other than u administers the panel.
OtherAdmin(u) == \E v \in Logins \ {u} : isActiveAdmin(person[v])

\* At most one request that changes or deletes an account is in progress.
Alone == \A r, s \in asks : r = s

\* The account of a request that is alone is there and as it was read, and a
\* request past its check leaves an administrator: it takes nobody's rights, or
\* there is another one.
AskSafe(r) ==
  /\ person[r.id] # Absent
  /\ r.op = "update" /\ r.step = "read" => person[r.id] = r.seen
  /\ r.op = "update" /\ r.step # "read" => OtherAdmin(r.id) \/ ~Downgrade(r)
  /\ r.op = "delete" /\ r.step = "counted" => r.others = 0 \/ OtherAdmin(r.id)
  /\ r.op = "delete" /\ r.step = "delete" => OtherAdmin(r.id)
AloneInv == unread \/ (Administered /\ \A r \in asks : AskSafe(r))

LEMMA CountedOther == \A u : CountActiveAdmins(u) # 0 <=> OtherAdmin(u)
<1> TAKE u
<1> DEFINE A == {v \in Logins \ {u} : isActiveAdmin(person[v])}
<1>1. A \subseteq Logins /\ (A # {} <=> OtherAdmin(u))
  BY DEF OtherAdmin
<1> HIDE DEF A
<1>2. IsFiniteSet(A)
  BY <1>1, AdminAssumption, FS_Subset
<1>3. Cardinality(A) = 0 <=> A = {}
  BY <1>2, FS_EmptySet
<1>4. QED
  BY <1>1, <1>3 DEF A, CountActiveAdmins

\* While one account changes, the administrators among the others stay.
LEMMA OthersStay ==
  ASSUME GuardTypesInv, NEW u \in Logins, NEW p, person' = [person EXCEPT ![u] = p]
  PROVE  /\ person'[u] = p /\ \A v \in Logins \ {u} : person'[v] = person[v]
         /\ OtherAdmin(u) => OtherAdmin(u)' /\ Administered'
         /\ \A v \in Logins \ {u} : OtherAdmin(v) /\ person[u] = Absent => OtherAdmin(v)'
<1>1. person'[u] = p /\ \A v \in Logins \ {u} : person'[v] = person[v]
  BY DEF GuardTypesInv
<1>2. ~isActiveAdmin(Absent)
  BY DEF isActiveAdmin, Absent, Person
<1>3. QED
  BY <1>1, <1>2 DEF OtherAdmin, Administered, isActiveAdmin

LEMMA AloneStep ==
  GuardTypesInv /\ AloneInv /\ Alone /\ Alone' /\ [GuardNext]_adminVars => AloneInv'
<1> SUFFICES ASSUME GuardTypesInv, AloneInv, Alone, Alone', [GuardNext]_adminVars, ~unread'
             PROVE  Administered' /\ \A r \in asks' : AskSafe(r)'
  BY DEF AloneInv
<1>0. Administered /\ \A r \in asks : AskSafe(r)
  BY UnreadStays DEF AloneInv
<1>c. \A r \in asks : ~CheckUpdateUnread(r) /\ ~CheckDeleteUnread(r)
  BY DEF CheckUpdateUnread, CheckDeleteUnread
<1>a. \A r \in asks : r \in AskRecords /\ r.id \in Logins
  BY DEF GuardTypesInv, AskRecords
<1>b. \A u \in Logins : isActiveAdmin(person[u]) => person[u] # Absent
  BY DEF isActiveAdmin, Absent, Person
\* A new account.
<1>1. ASSUME NEW u \in Logins, NEW p \in Seats, person[u] = Absent, UNCHANGED asks,
             person' = [person EXCEPT ![u] = p], isActiveAdmin(p) \/ \E v \in Logins : person[v] # Absent
      PROVE  Administered' /\ \A r \in asks' : AskSafe(r)'
  <2>2. Administered'
    <3>1. CASE isActiveAdmin(p)
      BY <1>1, <3>1, OthersStay DEF Administered
    <3>2. CASE \E v \in Logins : person[v] # Absent
      <4>1. OtherAdmin(u)
        BY <1>0, <1>1, <1>b, <3>2 DEF Administered, OtherAdmin
      <4>2. QED
        BY <1>1, <4>1, OthersStay
    <3>3. QED
      BY <1>1, <3>1, <3>2
  <2>3. ASSUME NEW r \in asks PROVE AskSafe(r)'
    <3>1. AskSafe(r) /\ r.id \in Logins \ {u}
      BY <1>0, <1>1, <1>a DEF AskSafe
    <3>2. person'[r.id] = person[r.id] /\ (OtherAdmin(r.id) => OtherAdmin(r.id)')
      BY <1>1, <3>1, OthersStay
    <3>3. QED
      BY <3>1, <3>2 DEF AskSafe
  <2>4. QED
    BY <1>1, <2>2, <2>3
<1>2. ASSUME NEW u \in Logins, setup(u) PROVE Administered' /\ \A r \in asks' : AskSafe(r)'
  <2>1. Person("admin", "active") \in Seats /\ isActiveAdmin(Person("admin", "active"))
    BY DEF Person, Seats, RoleCodes, Statuses, isActiveAdmin
  <2>2. QED
    BY <1>1, <1>2, <2>1 DEF setup
<1>3. ASSUME NEW u \in Logins, NEW role \in RoleCodes, createUser(u, role)
      PROVE  Administered' /\ \A r \in asks' : AskSafe(r)'
  <2>1. Person(role, "active") \in Seats /\ Absent.status # "active"
    BY DEF Person, Seats, RoleCodes, Statuses, Absent
  <2>2. QED
    BY <1>1, <1>3, <2>1 DEF createUser
\* A request arrives, none or an equal one being in progress.
<1>4. ASSUME NEW op \in {"update", "delete"}, NEW by \in Logins, NEW u \in Logins, NEW role, NEW status,
             Arrives(op, by, u, role, status)
      PROVE  Administered' /\ \A r \in asks' : AskSafe(r)'
  <2>0. PICK n : n = [op |-> op, id |-> u, role |-> role, status |-> status, seen |-> person[u],
                      others |-> 0, step |-> "read"]
    OBVIOUS
  <2>1. /\ n.op = op /\ n.id = u /\ n.seen = person[u] /\ n.step = "read"
        /\ asks' = asks \cup {n} /\ UNCHANGED person /\ person[u] # Absent
    BY <1>4, <2>0 DEF Arrives
  <2>2. \A r \in asks' : r = n
    BY <2>1 DEF Alone
  <2>3. AskSafe(n)'
    BY <2>1 DEF AskSafe
  <2>4. Administered'
    BY <1>0, <2>1 DEF Administered
  <2>5. QED
    BY <2>2, <2>3, <2>4
\* A request ends without a change, or goes on with one.
<1>5. ASSUME NEW r \in asks, Ends(r), Administered' PROVE \A q \in asks' : AskSafe(q)'
  BY <1>5 DEF Ends, Alone
<1>6. ASSUME NEW r \in asks, NEW s, Goes(r, s), AskSafe(s)' PROVE \A q \in asks' : AskSafe(q)'
  BY <1>6 DEF Goes, Alone
<1>7. UNCHANGED person => Administered'
  BY <1>0 DEF Administered
<1>8. \A r \in asks : OtherAdmin(r.id) \/ isActiveAdmin(person[r.id])
  BY <1>0, <1>a DEF AskSafe, Administered, OtherAdmin
<1>9. ASSUME NEW r \in asks, AskFails(r) PROVE Administered' /\ \A q \in asks' : AskSafe(q)'
  BY <1>5, <1>7, <1>9 DEF AskFails
<1>10. ASSUME NEW r \in asks, CheckUpdate(r) PROVE Administered' /\ \A q \in asks' : AskSafe(q)'
  <2> DEFINE s == [r EXCEPT !.step = "status"]
  <2>1. /\ s.op = "update" /\ s.step = "status" /\ s.id = r.id
        /\ s.status = r.status /\ s.role = r.role
    BY <1>10, <1>a DEF CheckUpdate, AskRecords
  <2>2. UNCHANGED person /\ (Ends(r) \/ (Goes(r, s) /\ ~(/\ isActiveAdmin(r.seen) /\ Downgrade(r)
                                                        /\ CountActiveAdmins(r.id) = 0)))
    BY <1>10 DEF CheckUpdate
  <2> HIDE DEF s
  <2>3. ASSUME Goes(r, s) /\ ~(isActiveAdmin(r.seen) /\ Downgrade(r) /\ CountActiveAdmins(r.id) = 0)
        PROVE  AskSafe(s)'
    <3>1. person[r.id] = r.seen /\ person[r.id] # Absent
      BY <1>0, <1>10 DEF AskSafe, CheckUpdate
    <3>2. OtherAdmin(r.id) \/ ~Downgrade(r)
      BY <1>8, <2>3, <3>1, CountedOther
    <3>3. Downgrade(s) <=> Downgrade(r)
      BY <2>1 DEF Downgrade
    <3>4. OtherAdmin(s.id)' <=> OtherAdmin(r.id)
      BY <2>1, <2>2 DEF OtherAdmin
    <3>5. QED
      BY <2>1, <2>2, <3>1, <3>2, <3>3, <3>4 DEF AskSafe, Downgrade
  <2>4. QED
    BY <1>5, <1>6, <1>7, <2>2, <2>3
<1>11. ASSUME NEW r \in asks, NEW f \in {"role", "status"}, r.op = "update", r.step # "read",
              UpdateField(r, f, r[f])
       PROVE  /\ Administered' /\ person'[r.id] # Absent
              /\ OtherAdmin(r.id) => OtherAdmin(r.id)'
  <2>1. (OtherAdmin(r.id) \/ ~Downgrade(r)) /\ person[r.id] # Absent
    BY <1>0, <1>11 DEF AskSafe
  <2>2. CASE person' = person
    BY <1>7, <2>1, <2>2 DEF OtherAdmin
  <2>3. CASE person' # person
    <3> DEFINE p == [person[r.id] EXCEPT ![f] = r[f]]
    <3>1. person[r.id] \in Seats /\ r[f] # Keep /\ person' = [person EXCEPT ![r.id] = p]
      BY <1>11, <1>a, <2>3 DEF UpdateField, GuardTypesInv
    <3>2. (f = "role" => r[f] \in RoleCodes) /\ (f = "status" => r[f] \in Statuses)
      BY <1>a, <3>1 DEF AskRecords
    <3>3. p \in Seats
      BY <3>1, <3>2 DEF Seats
    <3>4. Absent \notin Seats
      BY DEF Absent, Seats, RoleCodes
    <3>5. ASSUME ~Downgrade(r), isActiveAdmin(person[r.id]) PROVE isActiveAdmin(p)
      <4>1. person[r.id].role = "admin" /\ person[r.id].status = "active"
        BY <3>5 DEF isActiveAdmin, Person
      <4>2. (f = "role" => r[f] = "admin") /\ (f = "status" => r[f] = "active")
        BY <3>2, <3>5 DEF Downgrade, RoleCodes, Statuses
      <4>3. p.role = "admin" /\ p.status = "active"
        BY <3>1, <4>1, <4>2 DEF Seats
      <4>4. QED
        BY <3>3, <4>3 DEF isActiveAdmin, Person, Seats
    <3> HIDE DEF p
    <3>6. /\ person'[r.id] = p
          /\ OtherAdmin(r.id) => OtherAdmin(r.id)' /\ Administered'
      BY <1>a, <3>1, OthersStay
    <3>7. CASE OtherAdmin(r.id)
      BY <3>3, <3>4, <3>6, <3>7
    <3>8. CASE ~OtherAdmin(r.id)
      <4>1. isActiveAdmin(person'[r.id])
        BY <1>8, <2>1, <3>5, <3>6, <3>8
      <4>2. QED
        BY <1>a, <3>3, <3>4, <3>6, <3>8, <4>1 DEF Administered
    <3>9. QED
      BY <3>7, <3>8
  <2>4. QED
    BY <2>2, <2>3
<1>12. ASSUME NEW r \in asks, UpdateUserStatus(r) PROVE Administered' /\ \A q \in asks' : AskSafe(q)'
  <2> DEFINE s == [r EXCEPT !.step = "role"]
  <2>1. /\ s.op = "update" /\ s.step = "role" /\ s.id = r.id
        /\ s.status = r.status /\ s.role = r.role
    BY <1>12, <1>a DEF UpdateUserStatus, AskRecords
  <2>2. r.op = "update" /\ r.step = "status" /\ UpdateField(r, "status", r["status"]) /\ Goes(r, s)
    BY <1>12 DEF UpdateUserStatus
  <2> HIDE DEF s
  <2>3. Administered' /\ person'[r.id] # Absent /\ (OtherAdmin(r.id) => OtherAdmin(r.id)')
    BY <1>11, <2>2
  <2>4. OtherAdmin(r.id) \/ ~Downgrade(r)
    BY <1>0, <2>2 DEF AskSafe
  <2>5. AskSafe(s)'
    BY <2>1, <2>3, <2>4 DEF AskSafe, Downgrade, OtherAdmin
  <2>6. QED
    BY <1>6, <2>2, <2>3, <2>5
<1>13. ASSUME NEW r \in asks, UpdateUserRole(r) PROVE Administered' /\ \A q \in asks' : AskSafe(q)'
  <2>1. r.op = "update" /\ r.step = "role" /\ UpdateField(r, "role", r["role"]) /\ Ends(r)
    BY <1>13 DEF UpdateUserRole
  <2>2. QED
    BY <1>5, <1>11, <2>1
<1>14. ASSUME NEW r \in asks, CountOthers(r) PROVE Administered' /\ \A q \in asks' : AskSafe(q)'
  <2>0. PICK s : s = [r EXCEPT !.step = "counted", !.others = CountActiveAdmins(r.id)]
    OBVIOUS
  <2>1. s.op = "delete" /\ s.step = "counted" /\ s.id = r.id /\ s.others = CountActiveAdmins(r.id)
    BY <1>14, <1>a, <2>0 DEF CountOthers, AskRecords
  <2>2. Goes(r, s) /\ UNCHANGED person
    BY <1>14, <2>0 DEF CountOthers
  <2>3. (s.others = 0 \/ OtherAdmin(r.id)) /\ person[r.id] # Absent
    BY <1>0, <2>1, CountedOther DEF AskSafe
  <2>4. AskSafe(s)'
    BY <2>1, <2>2, <2>3 DEF AskSafe, OtherAdmin
  <2>5. QED
    BY <1>6, <1>7, <2>2, <2>4
<1>15. ASSUME NEW r \in asks, CheckDelete(r) PROVE Administered' /\ \A q \in asks' : AskSafe(q)'
  <2> DEFINE s == [r EXCEPT !.step = "delete"]
  <2>1. s.op = "delete" /\ s.step = "delete" /\ s.id = r.id
    BY <1>15, <1>a DEF CheckDelete, AskRecords
  <2>2. UNCHANGED person /\ (Ends(r) \/ (Goes(r, s) /\ ~(isActiveAdmin(person[r.id]) /\ r.others = 0)))
    BY <1>15 DEF CheckDelete
  <2> HIDE DEF s
  <2>3. ASSUME ~(isActiveAdmin(person[r.id]) /\ r.others = 0) PROVE AskSafe(s)'
    <3>1. person[r.id] # Absent /\ (r.others = 0 \/ OtherAdmin(r.id))
      BY <1>0, <1>15 DEF AskSafe, CheckDelete
    <3>2. OtherAdmin(r.id)
      BY <1>8, <2>3, <3>1
    <3>3. QED
      BY <2>1, <2>2, <3>1, <3>2 DEF AskSafe, OtherAdmin
  <2>4. QED
    BY <1>5, <1>6, <1>7, <2>2, <2>3
<1>16. ASSUME NEW r \in asks, DeleteUser(r) PROVE Administered' /\ \A q \in asks' : AskSafe(q)'
  <2>1. person' = [person EXCEPT ![r.id] = Absent] /\ Ends(r) /\ OtherAdmin(r.id)
    BY <1>0, <1>16 DEF DeleteUser, AskSafe
  <2>2. Administered'
    BY <1>a, <2>1, OthersStay
  <2>3. QED
    BY <1>5, <2>1, <2>2
<1>17. CASE UNCHANGED adminVars
  BY <1>0, <1>17 DEF adminVars, Administered, AskSafe, OtherAdmin, Downgrade
<1>18. CASE GuardNext
  <2>1. CASE \E u \in Logins : setup(u) \/ \E role \in RoleCodes : createUser(u, role)
    BY <1>2, <1>3, <2>1
  <2>2. CASE \E u, by \in Logins : Arrives("delete", by, u, Keep, Keep)
    BY <1>4, <2>2
  <2>3. CASE \E u, by \in Logins, role \in RoleCodes \cup {Keep}, status \in Statuses \cup {Keep} :
               Arrives("update", by, u, role, status)
    BY <1>4, <2>3
  <2>4. CASE \E r \in asks : \/ CheckUpdate(r) \/ UpdateUserStatus(r) \/ UpdateUserRole(r)
                             \/ CountOthers(r) \/ CheckDelete(r) \/ DeleteUser(r) \/ AskFails(r)
                             \/ CheckUpdateUnread(r) \/ CheckDeleteUnread(r)
    BY <1>9, <1>10, <1>12, <1>13, <1>14, <1>15, <1>16, <1>c, <2>4
  <2>5. QED
    BY <1>18, <2>1, <2>2, <2>3, <2>4 DEF GuardNext
<1>19. QED
  BY <1>17, <1>18

\* The check that keeps an administrator (updateUser and deleteUser in
\* user_handlers.go) is enough as long as no two requests that change or delete
\* accounts are in progress at once and what it reads is answered: after a request
\* that went on without (unread) nothing is said. Accounts may be created
\* meanwhile, and a request may fail at any statement.
THEOREM AdminRemainsAlone == GuardSpec /\ []Alone => []AdminRemains
<1>1. GuardInit => GuardTypesInv /\ AloneInv
  BY DEF GuardInit, GuardTypesInv, AloneInv, Administered
<1>2. AloneInv => AdminRemains
  BY DEF AloneInv, AdminRemains
<1>3. QED
  BY <1>1, <1>2, GuardTypesStep, AloneStep, PTL DEF GuardSpec

-----------------------------------------------------------------------------
(* All of them together: MCPages, whose behaviours let one part move *)

\* A behaviour of the composition is one of every part: what the parts keep, it
\* keeps.
LEMMA PartsOfThePages ==
  Spec => /\ SessionSpec /\ FormSpec
          /\ InstallSpec /\ CustSpec /\ ScriptSpec /\ DetailSpec
          /\ UserSpec /\ ChannelSpec /\ GuardSpec
<1>1. Init => /\ SessionInit /\ FormInit /\ InstallInit /\ CustInit /\ ScriptInit /\ DetailInit
              /\ UserInit /\ ChannelInit /\ GuardInit
  BY DEF Init
<1>2. [Next]_<<page, frontVars, appsVars, accountVars>> =>
        /\ [SessionNext]_sessionVars /\ [FormNext]_formVars
        /\ [InstallNext]_installVars /\ [CustNext]_custVars /\ [ScriptNext]_scriptVars
        /\ [DetailNext]_detailVars
        /\ [UserNext]_userVars /\ [ChannelNext]_channelVars /\ [GuardNext]_adminVars
  BY DEF Next, FrontNext, AppsNext, AccountNext, frontVars, appsVars, accountVars
<1>3. QED
  BY <1>1, <1>2, PTL DEF Spec, SessionSpec, FormSpec, InstallSpec, CustSpec, ScriptSpec, DetailSpec,
                         UserSpec, ChannelSpec, GuardSpec

\* Every variable of these parts keeps its type, for any nodes, accounts, files,
\* scripts, applications, channels and bounds (web/src, internal/api).
THEOREM PagesTyped == Spec => []PagesTypeOK
<1>1. /\ SessionInv => SessionTypeOK
      /\ InstallInv => InstallTypeOK
      /\ CustInv => CustTypeOK
      /\ ChannelInv => ChannelTypeOK
  BY DEF SessionInv, InstallInv, CustInv, ChannelInv
<1>2. CustSpec => []CustTypeOK
  BY CustInitInv, CustStep, <1>1, PTL DEF CustSpec
<1>3. ChannelSpec => []ChannelTypeOK
  BY ChannelInitInv, ChannelStep, <1>1, PTL DEF ChannelSpec
<1>4. SessionSpec => []SessionTypeOK
  BY SessionInvariant, <1>1, PTL
<1>5. InstallSpec => []InstallTypeOK
  BY InstallInvariant, <1>1, PTL
<1>6. Spec => [](/\ SessionTypeOK /\ FormTypeOK /\ InstallTypeOK /\ CustTypeOK /\ ScriptTypeOK
                 /\ DetailTypeOK /\ UserTypeOK /\ ChannelTypeOK /\ GuardTypeOK)
  BY PartsOfThePages, <1>2, <1>3, <1>4, <1>5, FormTyped, ScriptTyped, DetailTyped, UserTyped,
     GuardTyped, PTL
<1>7. QED
  BY <1>6, PTL DEF PagesTypeOK

\* Every page beside the node page keeps its promise, in any behaviour of the
\* composition that is model-checked.
THEOREM PagesSafe ==
  Spec => [](/\ PageFitsSession /\ ExpiredIsHonest /\ CodeAnswersThePicture
             /\ TaskIsFollowed /\ FinishedIsListed /\ UploadFollowsSave
             /\ DialogsKeepTheirScript /\ ConfigSavedWhereRead
             /\ NewCodeIsShown /\ SwitchKeepsTheEdit)
  BY PartsOfThePages, PageFitsSessionHolds, ExpiredIsHonestHolds, CodeFitsPicture,
     TaskIsFollowedHolds, FinishedIsListedHolds, UploadFollowsSaveHolds, ScriptsKept, SavedWhereRead,
     CodeShown, SwitchKeepsTheEditHolds, PTL
=============================================================================
