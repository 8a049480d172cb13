------------------------------ MODULE MCPages -------------------------------
(***************************************************************************)
(* Model checking of the session and of the pages beside the node page,    *)
(* and of the requests that change accounts.                               *)
(* They share no state of their models, so a behaviour begins by choosing  *)
(* the part that moves.                                                    *)
(***************************************************************************)
EXTENDS WebSession, LoginForm, AppInstall, CustomApps, Scripts, AppDetail, UserAdmin, NotifyPage,
        AdminGuard, TLC

VARIABLE page   (* the part that moves *)

frontVars == <<sessionVars, formVars>>
appsVars  == <<installVars, custVars, scriptVars, detailVars>>
accountVars == <<userVars, channelVars, adminVars>>

\* Choices among several initial states are made for the part that moves only.
Init ==
  /\ page \in {"session", "login", "install", "custom", "scripts", "detail", "users", "channels",
              "admins"}
  /\ SessionInit /\ (page # "session" => setUp /\ cookie = 0 /\ going = "login")
  /\ FormInit
  /\ InstallInit /\ CustInit /\ ScriptInit
  /\ DetailInit /\ (page # "detail" => ~appRunning)
  /\ UserInit /\ (page # "users" => accounts = {})
  /\ ChannelInit /\ GuardInit

FrontNext ==
  /\ \/ page = "session" /\ SessionNext /\ UNCHANGED formVars
     \/ page = "login" /\ FormNext /\ UNCHANGED sessionVars
  /\ UNCHANGED <<page, appsVars, accountVars>>

AppsNext ==
  /\ \/ page = "install" /\ InstallNext /\ UNCHANGED <<custVars, scriptVars, detailVars>>
     \/ page = "custom" /\ CustNext /\ UNCHANGED <<installVars, scriptVars, detailVars>>
     \/ page = "scripts" /\ ScriptNext /\ UNCHANGED <<installVars, custVars, detailVars>>
     \/ page = "detail" /\ DetailNext /\ UNCHANGED <<installVars, custVars, scriptVars>>
  /\ UNCHANGED <<page, frontVars, accountVars>>

AccountNext ==
  /\ \/ page = "users" /\ UserNext /\ UNCHANGED <<channelVars, adminVars>>
     \/ page = "channels" /\ ChannelNext /\ UNCHANGED <<userVars, adminVars>>
     \/ page = "admins" /\ GuardNext /\ UNCHANGED <<userVars, channelVars>>
  /\ UNCHANGED <<page, frontVars, appsVars>>

Next == FrontNext \/ AppsNext \/ AccountNext
Spec == Init /\ [][Next]_<<page, frontVars, appsVars, accountVars>>

\* The configuration gives AllScripts, Users, Channels and Logins the same
\* values, which nothing tells apart.
Sym == Permutations(Users)

-----------------------------------------------------------------------------
(* Properties of several parts *)

\* Types of the variables of every part.
PagesTypeOK ==
  /\ SessionTypeOK /\ FormTypeOK /\ InstallTypeOK /\ CustTypeOK /\ ScriptTypeOK /\ DetailTypeOK
  /\ UserTypeOK /\ ChannelTypeOK /\ GuardTypeOK
=============================================================================
