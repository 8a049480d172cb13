---------------------------- MODULE NodeTerminal ----------------------------
(***************************************************************************)
(* The SSH terminal of the node page (web/src/views/NodesView.vue) and the *)
(* server end of its WebSockets (internal/api/terminal_handler.go).        *)
(*                                                                         *)
(* The dialog has one current socket, termWs, but every socket it has ever *)
(* opened keeps its handlers until it is closed, and all of them act on    *)
(* the same dialog. Its node is the drawer's, which a late answer may      *)
(* change while the dialog is open (NodeDrawer). User name, password,      *)
(* sizes and the bytes of the session are left out.                        *)
(***************************************************************************)
EXTENDS WebBase, Integers

CONSTANTS
  HostKeys,     (* SSH host keys                            *)
  MaxDialogs,   (* bound: times the dialog is opened        *)
  MaxSockets    (* bound: WebSockets opened                 *)

ASSUME TermAssumption ==
  /\ None \notin HostKeys
  /\ MaxDialogs \in Nat /\ MaxSockets \in Nat

VARIABLES
  termVisible,     (* the dialog is shown                                    *)
  termState,       (* its page: form, hostkey or term                        *)
  termConnecting,  (* the spinner on its connect button                      *)
  termHostKey,     (* fingerprint offered for confirmation                   *)
  termOpened,      (* dialogs opened so far; the last is the current one     *)
  termForm,        (* of each: the fingerprint pinned                        *)
  termCur,         (* cur, the node in the title                             *)
  termWs,          (* current socket, 0 if none                              *)
  termSock,        (* of each socket: progress, form captured, node, pin sent *)
  term,            (* an xterm instance exists                               *)
  termMounted,     (* the page is mounted                                    *)
  termHost,        (* host key of each node's machine                        *)
  termConfirmed,   (* history: <<dialog, fingerprint>> the user confirmed    *)
  termDoubled,     (* history: a connect found a socket still open           *)
  termAbandoned,   (* history: closed while connecting, no connect since     *)
  termMoved        (* history: the node has changed under this dialog        *)

termHist == <<termConfirmed, termDoubled, termAbandoned, termMoved>>
termVars == <<termVisible, termState, termConnecting, termHostKey, termOpened,
              termForm, termCur, termWs, termSock, term, termMounted, termHost, termHist>>

TermDialogs == 1..MaxDialogs
Sockets == 1..MaxSockets

\* opening: no open event yet. dialing: start sent. asked: the server waits for
\* a start that carries the fingerprint. ended: the server has closed it.
Talking == {"opening", "dialing", "asked", "shell"}
Open(s) == termSock[s].st \in Talking \cup {"ended"}
\* What a socket holds counts while it is open.
Socket(st) == [st |-> st, form |-> 0, node |-> None, fp |-> None]
SockStates == {"unused", "closed", "ended"} \cup Talking

TermInit ==
  /\ termVisible = FALSE
  /\ termState = "form"
  /\ termConnecting = FALSE
  /\ termHostKey = None
  /\ termOpened = 0
  /\ termForm = [d \in TermDialogs |-> None]
  /\ termCur = None
  /\ termWs = 0
  /\ termSock = [s \in Sockets |-> Socket("unused")]
  /\ term = FALSE
  /\ termMounted = TRUE
  /\ termHost \in [Nodes -> HostKeys]
  /\ termConfirmed = {}
  /\ termDoubled = FALSE
  /\ termAbandoned = FALSE
  /\ termMoved = FALSE

-----------------------------------------------------------------------------
(* Helpers of the page *)

\* The sockets after closeTermWs, which takes the handlers off the current
\* socket and closes it.
ClosedCurrent ==
  IF termWs = 0 THEN termSock ELSE [termSock EXCEPT ![termWs] = Socket("closed")]

\* Mutant of closeTermWs: forgets the current socket without closing it.
forgetTermWs ==
  /\ termWs' = 0
  /\ UNCHANGED termSock

closeTermWs ==
  /\ termSock' = ClosedCurrent
  /\ termWs' = 0

teardownTerm ==
  /\ closeTermWs
  /\ term' = FALSE

\* The socket of a new connection replaces the current one, open or not.
NewSocket(s) ==
  /\ termSock[s].st = "unused"
  /\ \A r \in Sockets : r < s => termSock[r].st # "unused"
  /\ termSock' = [termSock EXCEPT ![s] = [@ EXCEPT !.st = "opening", !.form = termOpened,
                                                 !.node = termCur]]
  /\ termWs' = s
  /\ termConnecting' = TRUE
  /\ termDoubled' = (termDoubled \/ \E r \in Sockets : Open(r))
  /\ termAbandoned' = FALSE
  /\ UNCHANGED <<termCur, termMoved>>

-----------------------------------------------------------------------------
(* The user *)

\* Mutant of openTerminal: the form keeps the fingerprint of the last dialog.
openTerminalPinned(n) ==
  /\ termMounted /\ ~termVisible
  /\ termOpened < MaxDialogs
  /\ termOpened' = termOpened + 1
  /\ termForm' = [termForm EXCEPT ![termOpened + 1] =
                    IF termOpened = 0 THEN None ELSE termForm[termOpened]]
  /\ termState' = "form"
  /\ termVisible' = TRUE
  /\ termCur' = n
  /\ termMoved' = FALSE
  /\ UNCHANGED <<termConnecting, termHostKey, termWs, termSock, term, termMounted, termHost,
                 termConfirmed, termDoubled, termAbandoned>>

\* A fresh form each time; the spinner is not reset.
openTerminal(n) ==
  /\ termMounted /\ ~termVisible
  /\ termOpened < MaxDialogs
  /\ termOpened' = termOpened + 1
  /\ termForm' = [termForm EXCEPT ![termOpened + 1] = None]
  /\ termState' = "form"
  /\ termVisible' = TRUE
  /\ termCur' = n
  /\ termMoved' = FALSE
  /\ UNCHANGED <<termConnecting, termHostKey, termWs, termSock, term, termMounted, termHost,
                 termConfirmed, termDoubled, termAbandoned>>

\* The button is dead while connecting; the enter key in the password field
\* is not.
connectTerminal(s) ==
  /\ termVisible /\ termState = "form"
  /\ NewSocket(s)
  /\ UNCHANGED <<termVisible, termState, termHostKey, termOpened, termForm, term,
                 termMounted, termHost, termConfirmed>>

\* Pins the fingerprint and connects anew.
confirmHostKey(s) ==
  /\ termVisible /\ termState = "hostkey"
  /\ termForm' = [termForm EXCEPT ![termOpened] = termHostKey]
  /\ termConfirmed' = termConfirmed \cup {<<termOpened, termHostKey>>}
  /\ termState' = "form"
  /\ NewSocket(s)
  /\ UNCHANGED <<termVisible, termHostKey, termOpened, term, termMounted, termHost>>

cancelHostKey ==
  /\ termVisible /\ termState = "hostkey"
  /\ closeTermWs
  /\ termState' = "form"
  /\ UNCHANGED <<termVisible, termConnecting, termHostKey, termOpened, termForm, term,
                 termMounted, termCur, termHost, termHist>>

clearFingerprint ==
  /\ termVisible /\ termState = "form"
  /\ termForm[termOpened] # None
  /\ termForm' = [termForm EXCEPT ![termOpened] = None]
  /\ UNCHANGED <<termVisible, termState, termConnecting, termHostKey, termOpened, termWs,
                 termSock, term, termMounted, termCur, termHost, termHist>>

closeTerminalConn ==
  /\ termVisible /\ termState = "term"
  /\ teardownTerm
  /\ termState' = "form"
  /\ UNCHANGED <<termVisible, termConnecting, termHostKey, termOpened, termForm,
                 termMounted, termCur, termHost, termHist>>

\* Mutant of closeTerminal: hides the dialog and keeps its connection.
hideTerminal ==
  /\ termVisible
  /\ termVisible' = FALSE
  /\ termState' = "form"
  /\ termHostKey' = None
  /\ termAbandoned' = (termAbandoned \/ termConnecting)
  /\ UNCHANGED <<termConnecting, termOpened, termForm, termWs, termSock, term, termMounted, termCur, termHost,
                 termConfirmed, termDoubled, termMoved>>

closeTerminal ==
  /\ termVisible
  /\ termVisible' = FALSE
  /\ teardownTerm
  /\ termState' = "form"
  /\ termHostKey' = None
  /\ termAbandoned' = (termAbandoned \/ termConnecting)
  /\ UNCHANGED <<termConnecting, termOpened, termForm, termMounted, termCur, termHost,
                 termConfirmed, termDoubled, termMoved>>

\* The route changes and the page is destroyed.
onBeforeUnmount ==
  /\ termMounted
  /\ termMounted' = FALSE
  /\ teardownTerm
  /\ termVisible' = FALSE
  /\ UNCHANGED <<termCur, termState, termConnecting, termHostKey, termOpened, termForm, termHost,
                 termHist>>

-----------------------------------------------------------------------------
(* The sockets *)

\* The form captured by the handler may have been pinned since the connect.
onopen(s) ==
  /\ termSock[s].st = "opening"
  /\ termSock' = [termSock EXCEPT ![s] =
                    [@ EXCEPT !.st = "dialing", !.fp = termForm[termSock[s].form]]]
  /\ UNCHANGED <<termVisible, termState, termConnecting, termHostKey, termOpened,
                 termForm, termWs, term, termMounted, termCur, termHost, termHist>>

HostOf(s) == termHost[termSock[s].node]

\* Without a pin the server asks for one and waits for another start.
HostKeyFrame(s) ==
  /\ termSock[s].st = "dialing"
  /\ termSock[s].fp = None
  /\ termSock' = [termSock EXCEPT ![s].st = "asked"]
  /\ termHostKey' = HostOf(s)
  /\ termState' = "hostkey"
  /\ termConnecting' = FALSE
  /\ UNCHANGED <<termVisible, termOpened, termForm, termWs, term, termMounted, termCur, termHost,
                 termHist>>

\* The pin matches and a shell is opened. The terminal is built in its box,
\* which exists while the dialog is shown.
StartedFrame(s) ==
  /\ termSock[s].st = "dialing"
  /\ termSock[s].fp = HostOf(s)
  /\ termSock' = [termSock EXCEPT ![s].st = "shell"]
  /\ termState' = "term"
  /\ termConnecting' = FALSE
  /\ term' = (term \/ termVisible)
  /\ UNCHANGED <<termCur, termVisible, termHostKey, termOpened, termForm, termWs, termMounted,
                 termHost, termHist>>

\* The dial fails, at the latest when the pin does not match.
ErrorFrame(s) ==
  /\ termSock[s].st = "dialing"
  /\ termSock' = [termSock EXCEPT ![s].st = "ended"]
  /\ termConnecting' = FALSE
  /\ termState' = (IF termState = "term" THEN "term" ELSE "form")
  /\ UNCHANGED <<termVisible, termHostKey, termOpened, termForm, termWs, term,
                 termMounted, termCur, termHost, termHist>>

\* The shell ends or the connection breaks.
Ends(s) ==
  /\ termSock[s].st \in Talking
  /\ termSock' = [termSock EXCEPT ![s].st = "ended"]
  /\ UNCHANGED <<termVisible, termState, termConnecting, termHostKey, termOpened,
                 termForm, termWs, term, termMounted, termCur, termHost, termHist>>

\* Whichever socket it was, the page forgets the current one.
onclose(s) ==
  /\ termSock[s].st = "ended"
  /\ termSock' = [termSock EXCEPT ![s] = Socket("closed")]
  /\ termWs' = 0
  /\ termConnecting' = FALSE
  /\ termState' = (IF termState = "term" THEN "form" ELSE termState)
  /\ UNCHANGED <<termCur, termVisible, termHostKey, termOpened, termForm, term, termMounted,
                 termHost, termHist>>

\* The detail of a node asked for before comes late: the drawer, and the title
\* of the dialog above it, are that node's from now on.
DetailComes(n) ==
  /\ termVisible /\ n # termCur /\ ~termMoved   \* bound: once in a dialog
  /\ termCur' = n
  /\ termMoved' = TRUE
  /\ UNCHANGED <<termVisible, termState, termConnecting, termHostKey, termOpened, termForm, termWs,
                 termSock, term, termMounted, termHost, termConfirmed, termDoubled, termAbandoned>>

\* A machine is reinstalled.
NewHostKey(n, k) ==
  /\ k # termHost[n]
  /\ termHost' = [termHost EXCEPT ![n] = k]
  /\ UNCHANGED <<termCur, termVisible, termState, termConnecting, termHostKey, termOpened,
                 termForm, termWs, termSock, term, termMounted, termHist>>

TermNext ==
  \/ \E n \in Nodes : openTerminal(n) \/ DetailComes(n)
  \/ \E s \in Sockets : \/ connectTerminal(s) \/ confirmHostKey(s)
                        \/ onopen(s) \/ HostKeyFrame(s) \/ StartedFrame(s)
                        \/ ErrorFrame(s) \/ Ends(s) \/ onclose(s)
  \/ cancelHostKey \/ clearFingerprint \/ closeTerminalConn \/ closeTerminal
  \/ onBeforeUnmount
  \/ \E n \in Nodes, k \in HostKeys : NewHostKey(n, k)

TermSpec == TermInit /\ [][TermNext]_termVars

-----------------------------------------------------------------------------
(* Properties *)

\* Types of the variables.
TermTypeOK ==
  /\ termVisible \in BOOLEAN /\ termConnecting \in BOOLEAN
  /\ term \in BOOLEAN /\ termMounted \in BOOLEAN
  /\ termState \in {"form", "hostkey", "term"}
  /\ termHostKey \in HostKeys \cup {None}
  /\ termOpened \in 0..MaxDialogs
  /\ termForm \in [TermDialogs -> HostKeys \cup {None}]
  /\ termCur \in Nodes \cup {None}
  /\ termWs \in 0..MaxSockets
  /\ termSock \in [Sockets -> [st : SockStates, form : 0..MaxDialogs,
                               node : Nodes \cup {None}, fp : HostKeys \cup {None}]]
  /\ termHost \in [Nodes -> HostKeys]
  /\ termConfirmed \in SUBSET (TermDialogs \X (HostKeys \cup {None}))
  /\ termDoubled \in BOOLEAN /\ termAbandoned \in BOOLEAN /\ termMoved \in BOOLEAN

\* A shell is opened only with a fingerprint the user has confirmed in the
\* dialog that asked for this shell, whatever other sockets and dialogs have
\* offered, and whenever the machine was reinstalled (confirmHostKey and the
\* pin policy of sshx).
ShellVouched ==
  \A s \in Sockets : termSock[s].st = "shell" =>
    <<termSock[s].form, termSock[s].fp>> \in termConfirmed

\* The keys typed go to termWs: it is a socket of the dialog on the screen, and
\* of the node in its title unless a late answer has changed that; there is
\* none, and no terminal on the screen, without a dialog (closeTerminal,
\* onBeforeUnmount).
KeysGoToTheTitle ==
  /\ termWs # 0 => /\ termVisible /\ termSock[termWs].form = termOpened
                   /\ termSock[termWs].node = termCur \/ termMoved
  /\ term => termVisible

\* A socket is open beside the current one only if some connect has found one
\* open: after a connection confirmed by its fingerprint, or by the enter key
\* pressed twice.
OneSocketUnlessDoubled ==
  \A s \in Sockets : Open(s) => s = termWs \/ termDoubled

\* The spinner that disables the connect button is up only while a socket is open
\* that can take it down, or when the dialog was closed while connecting and none
\* connected since: closeTermWs drops the handlers that would take it down, and
\* the next dialog opens with a dead button, which only the enter key in the
\* password field gets around (NodesView.vue:714, 735, 1412-1443).
SpinnerCanEnd ==
  termMounted /\ termConnecting => termAbandoned \/ \E s \in Sockets : Open(s)

\* What the comment on onBeforeUnmount says it is for: after the page is
\* destroyed no WebSocket is left open.
UnmountReleases ==
  ~termMounted => \A s \in Sockets : ~Open(s)
=============================================================================
