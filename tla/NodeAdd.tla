------------------------------- MODULE NodeAdd -------------------------------
(***************************************************************************)
(* The dialog that adds a node (web/src/views/NodesView.vue): by a         *)
(* registration token, by hand, or by an installation over SSH whose host  *)
(* key is probed first and, the first time, confirmed by the user.         *)
(*                                                                         *)
(* A form is an object: opening the dialog makes a new one, while a        *)
(* request in flight holds on to the one it was sent for. The fields stay  *)
(* open to the user during a request. The rest of the forms is left out.   *)
(***************************************************************************)
EXTENDS WebBase, FiniteSets

CONSTANTS
  Hosts,      (* SSH hosts a user may type                *)
  MaxForms    (* bound: times the dialog is opened        *)

ASSUME AddAssumption == None \notin Hosts /\ MaxForms \in Nat

VARIABLES
  addVisible,
  addTab,
  ssh,            (* of each form: host, policy, host whose fingerprint it     *)
                  (* holds, and whether the host was typed since that was set  *)
                  (* or asked for                                              *)
  sshForm,        (* the current form, 0 before the first                      *)
  sshSubmitting,
  pin,            (* the question of the fingerprint: the host it is of        *)
  asked,          (* requests in flight                                        *)
  installCmd,     (* a registration command is shown                           *)
  sshTaskId,         (* the progress of an installation is shown                  *)
  known           (* hosts whose fingerprint the panel has recorded            *)

addVars == <<addVisible, addTab, ssh, sshForm, sshSubmitting, pin, asked, installCmd,
             sshTaskId, known>>

Forms == 1..MaxForms
HostOrNone == Hosts \cup {None}
sshEmpty == [host |-> None, pinned |-> TRUE, fp |-> None, retyped |-> FALSE]

\* A request: what for, the form it was sent for, the host and fingerprint in
\* it, and whether the user has meddled with them.
Req(op, f, s) == [op |-> op, form |-> f, host |-> s.host, pinned |-> s.pinned, fp |-> s.fp,
                  meddled |-> s.retyped]

AddInit ==
  /\ addVisible = FALSE
  /\ addTab = "token"
  /\ ssh = [f \in Forms |-> sshEmpty]
  /\ sshForm = 0
  /\ sshSubmitting = FALSE
  /\ pin = None
  /\ asked = {}
  /\ installCmd = FALSE
  /\ sshTaskId = FALSE
  /\ known = {}

AddRoom == Cardinality(asked) < MaxCalls
InDialog == addVisible /\ pin = None

openAdd ==
  /\ ~addVisible /\ pin = None /\ ~sshTaskId
  /\ sshForm < MaxForms
  /\ addVisible' = TRUE
  /\ addTab' = "token"
  /\ installCmd' = FALSE
  /\ sshForm' = sshForm + 1
  /\ UNCHANGED <<ssh, sshSubmitting, pin, asked, sshTaskId, known>>

CloseAdd ==
  /\ InDialog
  /\ addVisible' = FALSE
  /\ UNCHANGED <<addTab, ssh, sshForm, sshSubmitting, pin, asked, installCmd, sshTaskId, known>>

ChooseTab(t) ==
  /\ InDialog /\ addTab # t
  /\ addTab' = t
  /\ UNCHANGED <<addVisible, ssh, sshForm, sshSubmitting, pin, asked, installCmd, sshTaskId, known>>

-----------------------------------------------------------------------------
(* By token, by hand *)

createToken ==
  /\ InDialog /\ addTab = "token" /\ AddRoom
  /\ ~\E r \in asked : r.op = "token"   \* its button is spinning
  /\ asked' = asked \cup {Req("token", sshForm, sshEmpty)}
  /\ UNCHANGED <<addVisible, addTab, ssh, sshForm, sshSubmitting, pin, installCmd, sshTaskId, known>>

\* A late answer fills the dialog that is open by then.
TokenAnswer(r) ==
  /\ r.op = "token"
  /\ asked' = asked \ {r}
  /\ installCmd' \in {TRUE, installCmd}
  /\ UNCHANGED <<addVisible, addTab, ssh, sshForm, sshSubmitting, pin, sshTaskId, known>>

submitManual ==
  /\ InDialog /\ addTab = "manual" /\ AddRoom
  /\ asked' = asked \cup {Req("manual", sshForm, sshEmpty)}
  /\ UNCHANGED <<addVisible, addTab, ssh, sshForm, sshSubmitting, pin, installCmd, sshTaskId, known>>

\* A success closes whichever dialog is open.
ManualAnswer(r) ==
  /\ r.op = "manual"
  /\ asked' = asked \ {r}
  /\ addVisible' \in {FALSE, addVisible}
  /\ UNCHANGED <<addTab, ssh, sshForm, sshSubmitting, pin, installCmd, sshTaskId, known>>

-----------------------------------------------------------------------------
(* Over SSH *)

OnSshTab == InDialog /\ addTab = "ssh"

TypeHost(h) ==
  /\ OnSshTab
  /\ LET s == ssh[sshForm] IN
     /\ h # s.host
     /\ ssh' = [ssh EXCEPT ![sshForm] =
                 [s EXCEPT !.host = h, !.retyped = s.retyped \/ s.fp # None \/ sshSubmitting]]
  /\ UNCHANGED <<addVisible, addTab, sshForm, sshSubmitting, pin, asked, installCmd, sshTaskId, known>>

ChoosePolicy ==
  /\ OnSshTab
  /\ ssh' = [ssh EXCEPT ![sshForm].pinned = ~@]
  /\ UNCHANGED <<addVisible, addTab, sshForm, sshSubmitting, pin, asked, installCmd, sshTaskId, known>>

\* The link to probe again.
ClearPin ==
  /\ OnSshTab
  /\ ssh[sshForm].pinned /\ ssh[sshForm].fp # None
  /\ ssh' = [ssh EXCEPT ![sshForm] = [@ EXCEPT !.fp = None, !.retyped = sshSubmitting]]
  /\ UNCHANGED <<addVisible, addTab, sshForm, sshSubmitting, pin, asked, installCmd, sshTaskId, known>>

\* Sends the current form, whichever form it was called for.
doSubmitSSH(form, answered) ==
  /\ sshSubmitting' = TRUE
  /\ asked' = (asked \ answered) \cup {Req("install", sshForm, form)}

\* Mutant of submitSSH: installs without having probed.
submitUnprobed ==
  /\ OnSshTab /\ ~sshSubmitting /\ AddRoom
  /\ ssh[sshForm].host # None
  /\ doSubmitSSH(ssh[sshForm], {})
  /\ UNCHANGED <<addVisible, addTab, ssh, sshForm, pin, installCmd, sshTaskId, known>>

submitSSH ==
  /\ OnSshTab /\ ~sshSubmitting /\ AddRoom
  /\ ssh[sshForm].host # None
  /\ IF ssh[sshForm].pinned /\ ssh[sshForm].fp = None
       THEN /\ sshSubmitting' = TRUE
            /\ asked' = asked \cup {Req("probe", sshForm, ssh[sshForm])}
            /\ ssh' = [ssh EXCEPT ![sshForm].retyped = FALSE]
       ELSE doSubmitSSH(ssh[sshForm], {}) /\ UNCHANGED ssh
  /\ UNCHANGED <<addVisible, addTab, sshForm, pin, installCmd, sshTaskId, known>>

\* A recorded and unchanged fingerprint goes into the form that asked, and the
\* current form is sent.
ProbeKnown(r) ==
  /\ r.op = "probe" /\ r.host \in known
  /\ ssh' = [ssh EXCEPT ![r.form].fp = r.host]
  /\ LET now == ssh'[sshForm] IN
     doSubmitSSH([now EXCEPT !.retyped = @ \/ r.form # sshForm], {r})
  /\ UNCHANGED <<addVisible, addTab, sshForm, pin, installCmd, sshTaskId, known>>

\* A new host, or one whose recorded fingerprint has changed: the user is asked.
ProbeAsks(r) ==
  /\ r.op = "probe"
  /\ pin' = r.host
  /\ asked' = asked \ {r}
  /\ sshSubmitting' = FALSE
  /\ ssh' = [ssh EXCEPT ![sshForm].retyped = @ \/ r.form # sshForm]
  /\ UNCHANGED <<addVisible, addTab, sshForm, installCmd, sshTaskId, known>>

ProbeFails(r) ==
  /\ r.op = "probe"
  /\ asked' = asked \ {r}
  /\ sshSubmitting' = FALSE
  /\ UNCHANGED <<addVisible, addTab, ssh, sshForm, pin, installCmd, sshTaskId, known>>

confirmPinAndInstall ==
  /\ pin # None /\ ~sshSubmitting
  /\ ssh' = [ssh EXCEPT ![sshForm].fp = pin]
  /\ pin' = None
  /\ doSubmitSSH(ssh'[sshForm], {})
  /\ UNCHANGED <<addVisible, addTab, sshForm, installCmd, sshTaskId, known>>

CancelPin ==
  /\ pin # None
  /\ pin' = None
  /\ UNCHANGED <<addVisible, addTab, ssh, sshForm, sshSubmitting, asked, installCmd, sshTaskId, known>>

\* The task is created; its installation compares the fingerprint with the
\* host's and records it if they agree.
InstallAnswer(r) ==
  /\ r.op = "install" /\ r.host # None
  /\ asked' = asked \ {r}
  /\ sshSubmitting' = FALSE
  /\ addVisible' = FALSE
  /\ sshTaskId' = TRUE
  /\ known' = (IF r.fp = r.host THEN known \cup {r.host} ELSE known)
  /\ UNCHANGED <<addTab, ssh, sshForm, pin, installCmd>>

\* The dialog and what was typed into it stay.
InstallRefused(r) ==
  /\ r.op = "install"
  /\ asked' = asked \ {r}
  /\ sshSubmitting' = FALSE
  /\ UNCHANGED <<addVisible, addTab, ssh, sshForm, pin, installCmd, sshTaskId, known>>

CloseTask ==
  /\ sshTaskId
  /\ sshTaskId' = FALSE
  /\ UNCHANGED <<addVisible, addTab, ssh, sshForm, sshSubmitting, pin, asked, installCmd, known>>

AddNext ==
  \/ openAdd \/ CloseAdd \/ \E t \in {"token", "manual", "ssh"} : ChooseTab(t)
  \/ createToken \/ submitManual
  \/ \E h \in Hosts : TypeHost(h)
  \/ ChoosePolicy \/ ClearPin \/ submitSSH \/ confirmPinAndInstall \/ CancelPin \/ CloseTask
  \/ \E r \in asked : \/ TokenAnswer(r) \/ ManualAnswer(r) \/ ProbeKnown(r) \/ ProbeAsks(r)
                      \/ ProbeFails(r) \/ InstallAnswer(r) \/ InstallRefused(r)

AddSpec == AddInit /\ [][AddNext]_addVars

-----------------------------------------------------------------------------
(* Properties *)

\* Types of the variables.
AddTypeOK ==
  /\ addVisible \in BOOLEAN /\ sshSubmitting \in BOOLEAN
  /\ addTab \in {"token", "manual", "ssh"}
  /\ ssh \in [Forms -> [host : HostOrNone, pinned : BOOLEAN, fp : HostOrNone,
                        retyped : BOOLEAN]]
  /\ sshForm \in 0..MaxForms /\ installCmd \in BOOLEAN
  /\ pin \in HostOrNone /\ sshTaskId \in BOOLEAN /\ known \subseteq Hosts
  /\ asked \subseteq [op : {"token", "manual", "probe", "install"}, form : 0..MaxForms,
                      host : HostOrNone, pinned : BOOLEAN, fp : HostOrNone,
                      meddled : BOOLEAN]

\* An installation that pins a fingerprint pins the one of the host it is for,
\* and an installation names a host, unless the host was typed, or the dialog
\* opened again, after the fingerprint was asked for (submitSSH,
\* confirmPinAndInstall).
PinBelongsToHost ==
  \A r \in asked : r.op = "install" /\ r.pinned /\ ~r.meddled =>
    r.host # None /\ r.fp = r.host
=============================================================================
