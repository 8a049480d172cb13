----------------------------- MODULE CustomApps -----------------------------
(***************************************************************************)
(* The custom applications of the apps page (web/src/views/AppsView.vue):  *)
(* one dialog, used again for every application, that saves a record and   *)
(* then uploads the file chosen in it.                                     *)
(*                                                                         *)
(* The refs of the dialog are read when the answer of the save arrives:    *)
(* closing the dialog has reset them, opening it again has filled them for *)
(* another application. A file is the dialog it was chosen in. Of an       *)
(* application's kind only whether it is a binary matters. A list is read  *)
(* by the server when its answer is applied.                               *)
(***************************************************************************)
EXTENDS WebBase, FiniteSets

CONSTANTS
  MaxApps,     (* bound: applications created    *)
  MaxCust      (* bound: times the dialog opens  *)

ASSUME CustAssumption == MaxApps \in Nat /\ MaxCust \in Nat

VARIABLES
  custKind,    (* of each application: none, other, binary or deleted             *)
  customApps,  (* the cards on the page                                           *)
  customDlg,   (* the dialog is shown                                             *)
  custOpened,  (* dialogs opened so far; the last is the current one              *)
  custAbout,   (* history: the application each dialog has been opened for or has *)
               (* created, 0 if none                                              *)
  editingId,   (* application edited, 0 for a new one                             *)
  isBinary,    (* customForm.type                                                 *)
  binaryFile,  (* the file chosen, 0 if none                                      *)
  customSaving,
  custCalls,   (* requests in flight: [op, id, file, dlg, binary]                 *)
  custLeft     (* history: dialogs closed before their save was answered          *)

custHist == <<custAbout, custLeft>>
custForm == <<editingId, isBinary, binaryFile>>
custVars == <<custKind, customApps, customDlg, custOpened, custForm, customSaving,
              custCalls, custHist>>

Apps == 1..MaxApps
CustDialogs == 1..MaxCust
Existing == {a \in Apps : custKind[a] \in {"other", "binary"}}

CustCall(op, id, file, d, bin) == [op |-> op, id |-> id, file |-> file, dlg |-> d, binary |-> bin]
ListCustom == CustCall("list", 0, 0, 0, FALSE)
CustRoom == Cardinality(custCalls) < MaxCalls

CustInit ==
  /\ custKind = [a \in Apps |-> "none"]
  /\ customApps = {}
  /\ customDlg = FALSE
  /\ custOpened = 0
  /\ custAbout = [d \in CustDialogs |-> 0]
  /\ editingId = 0 /\ isBinary = FALSE /\ binaryFile = 0
  /\ customSaving = FALSE
  /\ custCalls = {}
  /\ custLeft = {}

-----------------------------------------------------------------------------
(* The page *)

loadCustomApps ==
  /\ ~customDlg /\ CustRoom
  /\ custCalls' = custCalls \cup {ListCustom}
  /\ UNCHANGED <<custKind, customApps, customDlg, custOpened, custForm, customSaving, custHist>>

ListAnswer(c) ==
  /\ c.op = "list"
  /\ custCalls' = custCalls \ {c}
  /\ customApps' \in {Existing, customApps}   \* it may fail
  /\ UNCHANGED <<custKind, customDlg, custOpened, custForm, customSaving, custHist>>

\* The dialog opens on a form of its own, for an application of the page or for
\* a new one.
OpenCustom(a) ==
  /\ ~customDlg
  /\ custOpened < MaxCust
  /\ custOpened' = custOpened + 1
  /\ custAbout' = [custAbout EXCEPT ![custOpened + 1] = a]
  /\ editingId' = a
  /\ binaryFile' = 0
  /\ isBinary' = (a # 0 /\ custKind[a] = "binary")
  /\ customDlg' = TRUE
  /\ UNCHANGED <<custKind, customApps, customSaving, custCalls, custLeft>>

openCreateCustom == OpenCustom(0)
openEditCustom(a) == a \in customApps /\ custKind[a] # "deleted" /\ OpenCustom(a)

\* The kind of an application that exists cannot be changed.
ChooseType ==
  /\ customDlg /\ editingId = 0
  /\ isBinary' = ~isBinary
  /\ UNCHANGED <<custKind, customApps, customDlg, custOpened, editingId, binaryFile,
                 customSaving, custCalls, custHist>>

onWizardFile ==
  /\ customDlg /\ isBinary
  /\ binaryFile' = custOpened
  /\ UNCHANGED <<custKind, customApps, customDlg, custOpened, editingId, isBinary,
                 customSaving, custCalls, custHist>>

\* Leaving the dialog, by its button or by a finished save, resets the form.
resetCustomForm == editingId' = 0 /\ isBinary' = FALSE /\ binaryFile' = 0

CloseCustom ==
  /\ customDlg
  /\ customDlg' = FALSE
  /\ resetCustomForm
  /\ custLeft' = custLeft \cup {c.dlg : c \in {x \in custCalls : x.op \in {"create", "save"}}}
  /\ UNCHANGED <<custKind, customApps, custOpened, customSaving, custCalls, custAbout>>

-----------------------------------------------------------------------------
(* Saving, then uploading *)

\* The button is dead while a save is in flight.
submitCustom ==
  /\ customDlg /\ ~customSaving /\ CustRoom
  /\ customSaving' = TRUE
  /\ custCalls' = custCalls \cup
       {CustCall(IF editingId = 0 THEN "create" ELSE "save", editingId, 0, custOpened, isBinary)}
  /\ UNCHANGED <<custKind, customApps, customDlg, custOpened, custForm, custHist>>

\* What follows the record's answer, with the file and the kind of the form as
\* it is now.
AfterSave(c, id) ==
  IF isBinary /\ binaryFile # 0
    THEN /\ custCalls' = (custCalls \ {c}) \cup {CustCall("upload", id, binaryFile, c.dlg, TRUE)}
         /\ UNCHANGED <<customDlg, custForm, customSaving>>
    ELSE /\ custCalls' = (custCalls \ {c}) \cup {ListCustom}
         /\ customDlg' = FALSE
         /\ customSaving' = FALSE
         /\ IF customDlg THEN resetCustomForm ELSE UNCHANGED custForm

\* Mutant of Created: the file goes to the id of the form, as after an edit.
CreatedThenForm(c) ==
  /\ c.op = "create"
  /\ \E a \in Apps :
       /\ custKind[a] = "none" /\ \A b \in 1..(a - 1) : custKind[b] # "none"
       /\ custKind' = [custKind EXCEPT ![a] = IF c.binary THEN "binary" ELSE "other"]
       /\ custAbout' = [custAbout EXCEPT ![c.dlg] = a]
       /\ AfterSave(c, editingId)
  /\ UNCHANGED <<customApps, custOpened, custLeft>>

Created(c) ==
  /\ c.op = "create"
  /\ \E a \in Apps :
       /\ custKind[a] = "none" /\ \A b \in 1..(a - 1) : custKind[b] # "none"
       /\ custKind' = [custKind EXCEPT ![a] = IF c.binary THEN "binary" ELSE "other"]
       /\ custAbout' = [custAbout EXCEPT ![c.dlg] = a]
       /\ AfterSave(c, a)
  /\ UNCHANGED <<customApps, custOpened, custLeft>>

\* The id is read again from the form.
Saved(c) ==
  /\ c.op = "save" /\ c.id \in Existing
  /\ AfterSave(c, editingId)
  /\ UNCHANGED <<custKind, customApps, custOpened, custHist>>

Uploaded(c) ==
  /\ c.op = "upload" /\ c.id \in Existing
  /\ custCalls' = (custCalls \ {c}) \cup {ListCustom}
  /\ customDlg' = FALSE
  /\ customSaving' = FALSE
  /\ IF customDlg THEN resetCustomForm ELSE UNCHANGED custForm
  /\ UNCHANGED <<custKind, customApps, custOpened, custHist>>

\* Of a creation the answer alone may be lost. The dialog, if still open, stays
\* as it is for another try.
CustFails(c) ==
  /\ c.op \in {"create", "save", "upload"}
  /\ custCalls' = custCalls \ {c}
  /\ customSaving' = FALSE
  /\ \/ UNCHANGED custKind
     \/ /\ c.op = "create"
        /\ \E a \in Apps :
             /\ custKind[a] = "none" /\ \A b \in 1..(a - 1) : custKind[b] # "none"
             /\ custKind' = [custKind EXCEPT ![a] = IF c.binary THEN "binary" ELSE "other"]
  /\ UNCHANGED <<customApps, customDlg, custOpened, custForm, custAbout, custLeft>>

-----------------------------------------------------------------------------
(* The cards *)

\* An upload from a card, and a deletion once its question is answered.
CardAction(op, a) ==
  /\ ~customDlg /\ CustRoom
  /\ a \in customApps
  /\ op = "cardUpload" => custKind[a] # "other"
  /\ custCalls' = custCalls \cup {CustCall(op, a, 0, 0, op = "cardUpload")}
  /\ UNCHANGED <<custKind, customApps, customDlg, custOpened, custForm, customSaving, custHist>>

onUploadChange(a) == CardAction("cardUpload", a)
removeCustom(a)   == CardAction("delete", a)

CardAnswer(c) ==
  /\ c.op \in {"cardUpload", "delete"}
  /\ \/ /\ custCalls' = (custCalls \ {c}) \cup {ListCustom}
        /\ custKind' = (IF c.op = "delete" THEN [custKind EXCEPT ![c.id] = "deleted"] ELSE custKind)
     \/ custCalls' = custCalls \ {c} /\ UNCHANGED custKind   \* it fails
  /\ UNCHANGED <<customApps, customDlg, custOpened, custForm, customSaving, custHist>>

CustNext ==
  \/ loadCustomApps \/ openCreateCustom \/ ChooseType \/ onWizardFile \/ CloseCustom \/ submitCustom
  \/ \E a \in Apps : openEditCustom(a) \/ onUploadChange(a) \/ removeCustom(a)
  \/ \E c \in custCalls : \/ ListAnswer(c) \/ Created(c) \/ Saved(c) \/ Uploaded(c)
                          \/ CustFails(c) \/ CardAnswer(c)

CustSpec == CustInit /\ [][CustNext]_custVars

-----------------------------------------------------------------------------
(* Properties *)

\* Types of the variables.
CustTypeOK ==
  /\ custKind \in [Apps -> {"none", "other", "binary", "deleted"}]
  /\ customApps \subseteq Apps
  /\ customDlg \in BOOLEAN /\ isBinary \in BOOLEAN /\ customSaving \in BOOLEAN
  /\ custOpened \in 0..MaxCust /\ editingId \in 0..MaxApps /\ binaryFile \in 0..MaxCust
  /\ custAbout \in [CustDialogs -> 0..MaxApps]
  /\ custCalls \subseteq [op : {"list", "create", "save", "upload", "cardUpload", "delete"},
                          id : 0..MaxApps, file : 0..MaxCust, dlg : 0..MaxCust, binary : BOOLEAN]
  /\ custLeft \subseteq CustDialogs

\* The file that follows a save is the one chosen in the dialog that saved, and
\* goes to the application that dialog was for, unless the dialog was closed
\* before the save was answered (submitCustom reads the form after its await).
UploadFollowsSave ==
  \A c \in custCalls : c.op = "upload" /\ c.dlg \notin custLeft =>
    c.file = c.dlg /\ c.id = custAbout[c.dlg]
=============================================================================
