----------------------------- MODULE UserAdmin -----------------------------
(***************************************************************************)
(* The page of the panel's accounts (web/src/views/UsersView.vue) and the  *)
(* dialog that shows a new recovery code once                              *)
(* (web/src/components/SuperCodeDialog.vue).                               *)
(*                                                                         *)
(* Creating an account, resetting a password and asking for it make a new  *)
(* code and end the old one; the panel keeps no readable copy. All three   *)
(* answers go into the one dialog. The page may be left and entered anew   *)
(* at any time, even over an open dialog; what it has sent goes on without *)
(* it. What else the forms hold is left out.                               *)
(***************************************************************************)
EXTENDS WebBase, FiniteSets

CONSTANTS Users    (* accounts, existing or to be created *)

ASSUME UserAssumption == None \notin Users

VARIABLES
  accounts,     (* accounts that exist                                    *)
  users,        (* the rows of the page                                   *)
  userDlg,      (* the dialog or question: its kind and account           *)
  saving,       (* the flag the three forms share                         *)
  codeDlg,      (* the code is on the screen                              *)
  superCode,    (* the account whose code it is                           *)
  userCalls,    (* requests in flight, left: by a page since left         *)
  unseen,       (* history: accounts whose new code has reached the page, *)
                (* which has not shown it until the user closed the       *)
                (* dialog or left the page                                *)
  crossed       (* history: two requests of a page for a code met         *)

userHist == <<unseen, crossed>>
userVars == <<accounts, users, userDlg, saving, codeDlg, superCode, userCalls, userHist>>

NoUserDlg == [kind |-> "none", user |-> None]
Forms3 == {"create", "edit", "reset"}   \* submitted by a button that saves
Questions == {"rotate", "delete"}
MakesCode == {"create", "reset", "rotate"}

UserCall(op, u) == [op |-> op, user |-> u, left |-> FALSE]
UserRoom == Cardinality(userCalls) < MaxCalls
CodeCalls == {c \in userCalls : c.op \in MakesCode /\ ~c.left}
NothingOpen == userDlg = NoUserDlg /\ ~codeDlg

UserInit ==
  /\ accounts \in SUBSET Users
  /\ users = {}
  /\ userDlg = NoUserDlg
  /\ saving = FALSE
  /\ codeDlg = FALSE /\ superCode = None
  /\ userCalls = {UserCall("load", None)}
  /\ unseen = {} /\ crossed = FALSE

ReloadUsers ==
  /\ NothingOpen /\ UserRoom
  /\ userCalls' = userCalls \cup {UserCall("load", None)}
  /\ UNCHANGED <<accounts, users, userDlg, saving, codeDlg, superCode, userHist>>

UsersLoaded(c) ==
  /\ c.op = "load"
  /\ userCalls' = userCalls \ {c}
  /\ users' \in {accounts, users}
  /\ UNCHANGED <<accounts, userDlg, saving, codeDlg, superCode, userHist>>

\* openCreate, openEdit, openReset and the questions before a new code and
\* before a deletion.
OpenUserDlg(kind, u) ==
  /\ NothingOpen
  /\ IF kind = "create" THEN u \notin accounts ELSE u \in users
  /\ userDlg' = [kind |-> kind, user |-> u]
  /\ UNCHANGED <<accounts, users, saving, codeDlg, superCode, userCalls, userHist>>

CancelUserDlg ==
  /\ userDlg # NoUserDlg /\ ~codeDlg
  /\ userDlg' = NoUserDlg
  /\ UNCHANGED <<accounts, users, saving, codeDlg, superCode, userCalls, userHist>>

SendUser(op) ==
  /\ UserRoom
  /\ userCalls' = userCalls \cup {UserCall(op, userDlg.user)}
  /\ crossed' = (crossed \/ (op \in MakesCode /\ CodeCalls # {}))
  /\ UNCHANGED <<accounts, users, codeDlg, superCode, unseen>>

\* submitCreate, submitEdit and submitReset; their buttons are dead while any
\* of the three is saving.
SubmitUser ==
  /\ userDlg.kind \in Forms3 /\ ~codeDlg
  /\ ~saving
  /\ SendUser(userDlg.kind)
  /\ saving' = TRUE
  /\ UNCHANGED userDlg

\* onRotateCode and onDelete after their question; nothing counts them.
ConfirmUser ==
  /\ userDlg.kind \in Questions /\ ~codeDlg
  /\ SendUser(userDlg.kind)
  /\ userDlg' = NoUserDlg
  /\ UNCHANGED saving

Spinner(c) == IF c.op \in Forms3 /\ ~c.left THEN FALSE ELSE saving
CloseUserDlg(c) == IF c.op = userDlg.kind /\ c.op \in Forms3 THEN NoUserDlg ELSE userDlg
MayReload(c) == IF c.op \in {"create", "edit", "delete"} THEN {UserCall("load", None)} ELSE {}

\* The panel has made a code, of an account that is there or that it creates.
CodeMade(c) ==
  /\ c.op \in MakesCode
  /\ c.op # "create" => c.user \in accounts
  /\ accounts' = accounts \cup {c.user}

\* Mutant of showSuperCode: the whole answer is taken for the code.
showAnswer(c) ==
  /\ ~c.left /\ CodeMade(c)
  /\ userCalls' = (userCalls \ {c}) \cup MayReload(c)
  /\ unseen' = unseen \cup {c.user}
  /\ superCode' = c
  /\ codeDlg' = TRUE
  /\ saving' = Spinner(c)
  /\ userDlg' = CloseUserDlg(c)
  /\ UNCHANGED <<users, crossed>>

\* Mutant of showSuperCode: the code of a rotation is not shown.
showCodeOfForms(c) ==
  /\ ~c.left /\ CodeMade(c)
  /\ userCalls' = (userCalls \ {c}) \cup MayReload(c)
  /\ unseen' = unseen \cup {c.user}
  /\ saving' = Spinner(c)
  /\ userDlg' = CloseUserDlg(c)
  /\ IF c.op = "rotate" THEN UNCHANGED <<codeDlg, superCode>>
                        ELSE codeDlg' = TRUE /\ superCode' = c.user
  /\ UNCHANGED <<users, crossed>>

\* The code of the answer replaces the one that is shown.
showSuperCode(c) ==
  /\ ~c.left /\ CodeMade(c)
  /\ userCalls' = (userCalls \ {c}) \cup MayReload(c)
  /\ unseen' = unseen \cup {c.user}
  /\ superCode' = c.user
  /\ codeDlg' = TRUE
  /\ saving' = Spinner(c)
  /\ userDlg' = CloseUserDlg(c)
  /\ UNCHANGED <<users, crossed>>

UserDone(c) ==
  /\ ~c.left /\ c.op \in {"edit", "delete"}
  /\ userCalls' = (userCalls \ {c}) \cup MayReload(c)
  /\ accounts' = (IF c.op = "delete" THEN accounts \ {c.user} ELSE accounts)
  /\ saving' = Spinner(c)
  /\ userDlg' = CloseUserDlg(c)
  /\ UNCHANGED <<users, codeDlg, superCode, userHist>>

\* Refused, failed when a part was done, done without its answer reaching the
\* page, or answered in whatever way to a page that has been left.
UserFails(c) ==
  /\ c.op # "load"
  /\ userCalls' = userCalls \ {c}
  /\ saving' = Spinner(c)
  /\ \/ UNCHANGED <<accounts, unseen>>
     \/ c.op = "delete" /\ accounts' = accounts \ {c.user} /\ UNCHANGED unseen
     \/ CodeMade(c) /\ unseen' = unseen \ {c.user}   \* the former code is void
  /\ UNCHANGED <<users, userDlg, codeDlg, superCode, crossed>>

\* The button that says the code has been saved, the cross, and Escape: the
\* page does not tell them apart, so that it may well not be saved.
CloseSuperCode ==
  /\ codeDlg
  /\ codeDlg' = FALSE
  /\ unseen' = unseen \ {superCode}
  /\ UNCHANGED <<accounts, users, userDlg, saving, superCode, userCalls, crossed>>

\* The user goes to another page and comes back, to a new instance of this one.
\* The answers of the requests before are handled by the former instance, where
\* nobody sees what they show.
LeaveUsers ==
  LET kept == {[c EXCEPT !.left = TRUE] : c \in {d \in userCalls : d.op # "load"}} IN
  /\ Cardinality(kept) < MaxCalls
  /\ userCalls' = kept \cup {UserCall("load", None)}
  /\ users' = {} /\ userDlg' = NoUserDlg /\ saving' = FALSE
  /\ codeDlg' = FALSE /\ superCode' = None
  /\ unseen' = (IF codeDlg THEN unseen \ {superCode} ELSE unseen)
  /\ UNCHANGED <<accounts, crossed>>

UserNext ==
  \/ ReloadUsers \/ CancelUserDlg \/ SubmitUser \/ ConfirmUser \/ CloseSuperCode \/ LeaveUsers
  \/ \E k \in Forms3 \cup Questions, u \in Users : OpenUserDlg(k, u)
  \/ \E c \in userCalls : UsersLoaded(c) \/ showSuperCode(c) \/ UserDone(c) \/ UserFails(c)

UserSpec == UserInit /\ [][UserNext]_userVars

-----------------------------------------------------------------------------
(* Properties *)

\* Types of the variables.
UserTypeOK ==
  /\ accounts \subseteq Users /\ users \subseteq Users
  /\ userDlg \in [kind : Forms3 \cup Questions \cup {"none"}, user : Users \cup {None}]
  /\ saving \in BOOLEAN /\ codeDlg \in BOOLEAN /\ crossed \in BOOLEAN
  /\ superCode \in Users \cup {None}
  /\ userCalls \subseteq [op : Forms3 \cup Questions \cup {"load"}, user : Users \cup {None},
                           left : BOOLEAN]
  /\ unseen \subseteq Users

\* A code that has replaced an account's old one, and whose answer has reached
\* the page, is on the screen until the user closes the dialog, in whatever way,
\* or leaves the page, unless two requests of the page for a code met
\* (showSuperCode; the dialog says the code is never shown again). Of a code
\* whose answer was lost, an error, or came when the page had been left nothing
\* is said: nobody has seen it.
NewCodeIsShown == ~crossed => \A u \in unseen : codeDlg /\ superCode = u
=============================================================================
