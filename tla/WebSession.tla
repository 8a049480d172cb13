----------------------------- MODULE WebSession -----------------------------
(***************************************************************************)
(* Who the browser thinks is logged in, and which page it shows:           *)
(* web/src/session.js, api/http.js, router/index.js, App.vue, the login    *)
(* and setup views, logging out and revoking sessions.                     *)
(*                                                                         *)
(* A session of the server is a number, 0 is a browser without a cookie;   *)
(* a call carries the cookie there was when it was sent. What ends a       *)
(* session has two steps, the server's and the answer's; of other calls    *)
(* the server acts and the page takes the answer in one. Any answer may be *)
(* lost. What the server still does with the calls of a document that was  *)
(* left is left out. "nodes" stands for every page that needs a            *)
(* permission. LoginForm has the rest of the login view.                   *)
(***************************************************************************)
EXTENDS WebBase, FiniteSets

CONSTANTS
  MaxLogins     (* bound: sessions begun *)

ASSUME SessionAssumption == MaxLogins \in Nat /\ None \notin {"plain", "full"}

VARIABLES
  setUp, began, live,      (* the panel is set up; sessions begun; those that live      *)
  denied,                  (* history: the session begun last was ended by the server,  *)
                           (* not for logging out, or has been answered 401 while it    *)
                           (* lived since its user was last read                        *)
  cookie,                  (* the browser's session                                     *)
  initialized, user, expired, (* session.js                                             *)
  initFor,                 (* what waits for initSession: boot, login, setup or nothing *)
  route, going,            (* page shown; page being navigated to                       *)
  sending,                 (* the button of the login or setup view spins               *)
  setupCodeDlg,            (* the setup's dialog that shows the super code              *)
  webCalls,                (* requests in flight                                        *)
  setupFits,               (* history: the setup's URL was loaded, or nothing set up    *)
  overlap                  (* history: calls of two sessions of this browser met        *)

server == <<setUp, began, live, denied>>
shown == <<route, going, setupFits>>
sess == <<initialized, user, expired, initFor, overlap>>
sessionVars == <<server, cookie, shown, sess, sending, setupCodeDlg, webCalls>>

Sids == 1..MaxLogins
\* The first session is an administrator's, the next ones belong to an account
\* without the permission of "nodes".
Roles == {"plain", "full"}
RoleOf(s) == IF s = 1 THEN "full" ELSE "plain"
Protected == {"dashboard", "nodes"}
Routes == Protected \cup {"login", "setup"}

\* after: the sessions begun when it was sent.
WebCall(op, ends) == [op |-> op, sid |-> cookie, after |-> began, ends |-> ends]
Simple(op) == WebCall(op, {})
WebRoom == Cardinality(webCalls) < MaxCalls
TakeCall(c) == webCalls' = webCalls \ {c}

\* Mutant of Guard: a status that could not be read counts as "not set up".
GuardToSetup(to, ini, usr) ==
  LET home == IF usr = None THEN "login" ELSE "dashboard"
  IN  CASE ini # "yes"          -> "setup"
        [] ini = "yes" /\ to \in {"login", "setup"} -> home
        [] OTHER -> IF to = "nodes" /\ usr # "full" THEN home
                    ELSE IF usr = None THEN "login" ELSE to

\* The navigation guard and the redirects it answers with.
Guard(to, ini, usr) ==
  LET home == IF usr = None THEN "login" ELSE "dashboard"
  IN  CASE ini = "no"                       -> "setup"
        [] ini = "yes" /\ to = "setup"      -> home
        [] ini # "no" /\ to = "login"       -> home
        [] ini = "unknown" /\ to = "setup"  -> "setup"
        [] OTHER -> IF to = "nodes" /\ usr # "full" THEN home
                    ELSE IF usr = None THEN "login" ELSE to

SessionInit ==
  /\ setUp \in BOOLEAN
  /\ live \in (IF setUp THEN {{}, {1} \cap Sids} ELSE {{}})
  /\ began = Cardinality(live) /\ denied = FALSE /\ cookie = began
  /\ initialized = "unknown" /\ user = None /\ expired = FALSE /\ initFor = "boot"
  /\ route = "none" /\ going \in Routes
  /\ setupFits = (going = "setup" \/ ~setUp)
  /\ sending = FALSE /\ setupCodeDlg = FALSE
  /\ webCalls = {Simple("status")}
  /\ overlap = FALSE

\* The panel begins a session and sets its cookie.
Begin ==
  /\ began < MaxLogins
  /\ began' = began + 1 /\ live' = live \cup {began + 1} /\ cookie' = began + 1 /\ denied' = FALSE

-----------------------------------------------------------------------------
(* Loading the document, navigating *)

\* The user types a URL or reloads: main.js begins anew, the guard of the
\* first navigation waits for initSession.
LoadDocument(to) ==
  /\ setupFits' = (to = "setup" \/ ~setUp)
  /\ initialized' = "unknown" /\ user' = None /\ expired' = FALSE /\ initFor' = "boot"
  /\ route' = "none" /\ going' = to
  /\ sending' = FALSE /\ setupCodeDlg' = FALSE
  /\ webCalls' = {Simple("status")}
  /\ overlap' = FALSE
  /\ UNCHANGED <<server, cookie>>

\* A menu item or a link of a page.
Push(to) ==
  /\ route \in Protected
  /\ going' = Guard(to, initialized, user)
  /\ UNCHANGED <<server, cookie, route, setupFits, sess, sending, setupCodeDlg, webCalls>>

\* The page has been loaded and replaces the one shown, the guard is not
\* asked again. A view that is created anew has its first state.
Arrive ==
  /\ going # "none" /\ initFor # "boot"
  /\ route' = going /\ going' = "none"
  /\ sending' = (sending /\ going = route)
  /\ setupCodeDlg' = (setupCodeDlg /\ going = route)
  /\ UNCHANGED <<server, cookie, setupFits, sess, webCalls>>

-----------------------------------------------------------------------------
(* initSession *)

\* What follows it: the first navigation, the login's redirect to the page
\* the guard had refused, the code.
AfterInit(ini, usr) ==
  /\ initFor' = "none"
  /\ \/ /\ initFor = "boot"
        /\ going' = Guard(going, ini, usr)
        /\ UNCHANGED <<expired, sending, setupCodeDlg>>
     \/ /\ initFor = "login"
        /\ expired' = FALSE /\ sending' = FALSE
        /\ going' \in {Guard(to, ini, usr) : to \in Protected}
        /\ UNCHANGED setupCodeDlg
     \/ /\ initFor = "setup"
        /\ sending' = FALSE
        /\ setupCodeDlg' = (setupCodeDlg \/ usr # None)
        /\ UNCHANGED <<expired, going>>

StatusCame(c) ==
  /\ c.op = "status"
  /\ initialized' \in {IF setUp THEN "yes" ELSE "no", initialized}
  /\ IF initialized' = "yes"
     THEN /\ webCalls' = (webCalls \ {c}) \cup {Simple("me")}
          /\ UNCHANGED <<expired, initFor, sending, setupCodeDlg, going>>
     ELSE AfterInit(initialized', user) /\ TakeCall(c)
  /\ UNCHANGED <<server, cookie, user, overlap, route, setupFits>>

MeCame(c) ==
  /\ c.op = "me"
  /\ TakeCall(c)
  /\ user' \in {None} \cup (IF c.sid \in live THEN {RoleOf(c.sid)} ELSE {})
  /\ AfterInit(initialized, user')
  /\ denied' = (denied /\ user' = None)
  /\ UNCHANGED <<setUp, began, live, cookie, initialized, overlap, route, setupFits>>

-----------------------------------------------------------------------------
(* The login view *)

login ==
  /\ route = "login" /\ ~sending /\ WebRoom
  /\ sending' = TRUE
  /\ overlap' = (overlap \/ user # None)
  /\ webCalls' = webCalls \cup {Simple("login")}
  /\ UNCHANGED <<server, cookie, shown, initialized, user, expired, initFor, setupCodeDlg>>

LoginCame(c) ==
  /\ c.op = "login"
  /\ \/ /\ setUp /\ Begin
        /\ initFor' = "login"
        /\ webCalls' = (webCalls \ {c}) \cup {[Simple("status") EXCEPT !.sid = cookie', !.after = began']}
        /\ UNCHANGED sending
     \/ sending' = FALSE /\ TakeCall(c) /\ UNCHANGED <<began, live, denied, cookie, initFor>>
  /\ UNCHANGED <<setUp, initialized, user, expired, overlap, shown, setupCodeDlg>>

-----------------------------------------------------------------------------
(* Setup *)

SubmitSetup ==
  /\ route = "setup" /\ ~sending /\ ~setupCodeDlg /\ WebRoom
  /\ sending' = TRUE
  /\ overlap' = (overlap \/ user # None)
  /\ webCalls' = webCalls \cup {Simple("setup")}
  /\ UNCHANGED <<server, cookie, shown, initialized, user, expired, initFor, setupCodeDlg>>

\* Only the first one creates the administrator and logs it in, even where its
\* answer is lost.
SetupCame(c) ==
  /\ c.op = "setup"
  /\ \/ /\ ~setUp /\ setUp' = TRUE /\ Begin
        /\ initFor' = "setup"
        /\ webCalls' = (webCalls \ {c}) \cup {[Simple("status") EXCEPT !.sid = cookie', !.after = began']}
        /\ UNCHANGED sending
     \/ /\ sending' = FALSE /\ TakeCall(c)
        /\ setUp' \in {setUp, TRUE}
        /\ UNCHANGED <<began, live, denied, cookie, initFor>>
  /\ UNCHANGED <<initialized, user, expired, overlap, shown, setupCodeDlg>>

CloseCode ==
  /\ setupCodeDlg /\ setupCodeDlg' = FALSE
  /\ going' = (IF route = "setup" /\ user # None THEN Guard("dashboard", initialized, user) ELSE going)
  /\ UNCHANGED <<server, cookie, route, setupFits, sess, sending, webCalls>>

-----------------------------------------------------------------------------
(* Requests of the pages *)

\* A new session of this browser has begun since the call was sent.
Outlived(c) == c.after # began

\* Mutant of Unauthorized: does not look whether anybody was logged in.
UnauthorizedAnyway(c) ==
  /\ denied' = (denied \/ (c.sid = began /\ began \in live))
  /\ TakeCall(c)
  /\ user' = None
  /\ expired' = TRUE
  /\ going' = (IF route \in Protected THEN Guard("login", initialized, None) ELSE going)
  /\ overlap' = (overlap \/ (user # None /\ Outlived(c)))

\* A 401 to any call but the login's: the session does not live, or it, its
\* account or the permissions cannot be read, or the account is disabled
\* (Resolve of auth/session.go). request() clears the user, App.vue leaves a
\* page that is not public.
Unauthorized(c) ==
  /\ denied' = (denied \/ (c.sid = began /\ began \in live))
  /\ TakeCall(c)
  /\ user' = None
  /\ expired' = (expired \/ user # None)
  /\ going' = (IF user # None /\ route \in Protected THEN Guard("login", initialized, None) ELSE going)
  /\ overlap' = (overlap \/ (user # None /\ Outlived(c)))

\* What a page asks for when it is entered or asked to.
PageAsks ==
  /\ route \in Protected /\ WebRoom
  /\ webCalls' = webCalls \cup {Simple("page")}
  /\ UNCHANGED <<server, cookie, shown, sess, sending, setupCodeDlg>>

PageCame(c) ==
  /\ c.op = "page"
  /\ \/ Unauthorized(c)
     \/ TakeCall(c) /\ UNCHANGED <<denied, user, expired, going, overlap>>
  /\ UNCHANGED <<setUp, began, live, cookie, initialized, initFor, route, setupFits, sending,
                 setupCodeDlg>>

\* SessionsDialog: one session, or all but this one.
Revoke(which) ==
  /\ route \in Protected /\ WebRoom
  /\ webCalls' = webCalls \cup {WebCall("revoke", which)}
  /\ UNCHANGED <<server, cookie, shown, sess, sending, setupCodeDlg>>

\* The server ends sessions of the caller's account, of several maybe not each.
RevokeServed(c) ==
  /\ c.op = "revoke" /\ c.sid \in live
  /\ \E gone \in SUBSET {s \in c.ends \cap live : RoleOf(s) = RoleOf(c.sid)} :
       /\ gone # {}
       /\ live' = live \ gone /\ denied' = (denied \/ began \in gone)
       /\ webCalls' = (webCalls \ {c}) \cup {[c EXCEPT !.op = "revoked", !.ends = gone]}
  /\ UNCHANGED <<setUp, began, cookie, shown, sess, sending, setupCodeDlg>>

\* The answer takes the cookie of a session that has ended itself; the dialog
\* asks for the list again.
RevokeCame(c) ==
  /\ c.op \in {"revoke", "revoked"}
  /\ \/ c.op = "revoke" /\ Unauthorized(c) /\ UNCHANGED cookie
     \/ /\ c.op = "revoked"
        /\ cookie' = (IF c.sid \in c.ends THEN 0 ELSE cookie)
        /\ webCalls' = (webCalls \ {c})
             \cup {[op |-> "page", sid |-> cookie', after |-> began, ends |-> {}]}   \* load
        /\ overlap' = (overlap \/ Outlived(c))
        /\ UNCHANGED <<denied, user, expired, going>>
     \/ TakeCall(c) /\ UNCHANGED <<cookie, denied, user, expired, going, overlap>>
  /\ UNCHANGED <<setUp, began, live, initialized, initFor, route, setupFits, sending, setupCodeDlg>>

logout ==
  /\ route \in Protected /\ WebRoom
  /\ webCalls' = webCalls \cup {Simple("logout")}
  /\ UNCHANGED <<server, cookie, shown, sess, sending, setupCodeDlg>>

\* The server ends the session, unless that fails.
LogoutServed(c) ==
  /\ c.op = "logout" /\ c.sid \in live
  /\ live' \in {live, live \ {c.sid}}
  /\ webCalls' = (webCalls \ {c}) \cup {[c EXCEPT !.op = "loggedOut"]}
  /\ UNCHANGED <<setUp, began, denied, cookie, shown, sess, sending, setupCodeDlg>>

\* The user is cleared whatever the answer is; only the answer of a server that
\* has served the call takes the cookie, if it arrives.
LoggedOut(c) ==
  /\ c.op \in {"logout", "loggedOut"}
  /\ TakeCall(c)
  /\ cookie' \in {cookie, IF c.op = "loggedOut" THEN 0 ELSE cookie}
  /\ expired' = FALSE /\ user' = None
  /\ going' = Guard("login", initialized, None)
  /\ overlap' = (overlap \/ Outlived(c))
  /\ UNCHANGED <<server, initialized, initFor, route, setupFits, sending, setupCodeDlg>>

\* Another device, an administrator or the time ends a session.
EndSession(s) ==
  /\ s \in live
  /\ live' = live \ {s} /\ denied' = (denied \/ s = began)
  /\ UNCHANGED <<setUp, began, cookie, shown, sess, sending, setupCodeDlg, webCalls>>

CloseAlert ==
  /\ route = "login" /\ expired /\ expired' = FALSE
  /\ UNCHANGED <<server, cookie, shown, initialized, user, initFor, overlap, sending, setupCodeDlg, webCalls>>

SessionNext ==
  \/ Arrive \/ login \/ SubmitSetup \/ CloseCode \/ PageAsks \/ logout \/ CloseAlert
  \/ \E to \in Routes : LoadDocument(to) \/ Push(to)
  \/ \E s \in Sids : EndSession(s) \/ (s <= began /\ Revoke({s}))
  \/ Revoke(Sids \ {cookie})
  \/ \E c \in webCalls :
       \/ StatusCame(c) \/ MeCame(c) \/ LoginCame(c) \/ SetupCame(c)
       \/ PageCame(c) \/ RevokeServed(c) \/ RevokeCame(c) \/ LogoutServed(c) \/ LoggedOut(c)

SessionSpec == SessionInit /\ [][SessionNext]_sessionVars

-----------------------------------------------------------------------------
(* Properties *)

\* Types of the variables.
SessionTypeOK ==
  /\ setUp \in BOOLEAN /\ setupFits \in BOOLEAN /\ overlap \in BOOLEAN
  /\ began \in 0..MaxLogins /\ live \subseteq Sids /\ denied \in BOOLEAN
  /\ cookie \in 0..MaxLogins
  /\ initialized \in {"unknown", "yes", "no"} /\ user \in Roles \cup {None} /\ expired \in BOOLEAN
  /\ initFor \in {"none", "boot", "login", "setup"}
  /\ route \in Routes \cup {"none"} /\ going \in Routes \cup {"none"}
  /\ sending \in BOOLEAN /\ setupCodeDlg \in BOOLEAN
  /\ webCalls \subseteq
       [op : {"status", "me", "login", "setup", "page", "revoke", "revoked", "logout", "loggedOut"},
        sid : 0..MaxLogins, after : 0..MaxLogins, ends : SUBSET Sids]

\* The page shown fits the session (the comments of router/index.js): a panel
\* that is set up sends nobody to the setup, even when its status cannot be
\* read; a protected page is shown to a user with its permission, or another
\* page, without a user the login page, is on its way; and a user who has logged
\* in does not stay on the login page. That is, unless the page of a former
\* session still had calls in flight, or a form was sent again while the next
\* page loaded: one of those can end the session while it is between two pages.
PageFitsSession ==
  /\ route = "setup" => setupFits
  /\ ~overlap =>
       /\ (route \in Protected /\ user = None) => going = "login"
       /\ (route = "nodes" /\ user \notin {None, "full"}) => going # "none"
       /\ (route = "login" /\ user # None) => going \in Protected

\* "The session has expired" is said only to a user whose session, the one begun
\* last, the server has ended or answered 401 for while it lived: not at a first
\* visit, and not after logging out (the comments of http.js and App.vue). Between
\* the server's end of a logout and its answer, which takes the word back, a 401
\* to a page's call may say so for a moment; a new login takes it back with
\* initSession.
ExpiredIsHonest ==
  expired /\ ~overlap /\ initFor # "login" =>
    denied \/ \E c \in webCalls : c.op = "loggedOut" /\ c.sid = began
=============================================================================
