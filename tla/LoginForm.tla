----------------------------- MODULE LoginForm ------------------------------
(***************************************************************************)
(* The forms of the login view (web/src/views/LoginView.vue): the login    *)
(* with its captcha, and the two steps of a password reset.                *)
(*                                                                         *)
(* A picture is a number, a code typed is the number of the picture it was *)
(* read from, 0 is none. What a login begins is in WebSession; the form is *)
(* left with it. Names and passwords are left out.                         *)
(***************************************************************************)
EXTENDS WebBase, FiniteSets

CONSTANT MaxCaptchas   (* bound: pictures served *)

ASSUME CaptchaAssumption == MaxCaptchas \in Nat

VARIABLES
  mode,              (* the form shown                               *)
  method,            (* how the reset is to be proved                *)
  loginLoading,      (* the button of the form spins                 *)
  captchaRequired,   (* the field and the picture are shown          *)
  captchaID, captchaCode,
  pictures,          (* pictures the server has made                 *)
  newCodeDlg,        (* the new super code is shown                  *)
  formCalls          (* requests in flight                           *)

loginCaptcha == <<captchaRequired, captchaID, captchaCode, pictures>>
formVars == <<mode, method, loginLoading, loginCaptcha, newCodeDlg, formCalls>>

FormCall(op, id, code) == [op |-> op, id |-> id, code |-> code]
FormRoom == Cardinality(formCalls) < MaxCalls
FormAsk(op) == formCalls' = formCalls \cup {FormCall(op, 0, 0)}

FormInit ==
  /\ mode = "login" /\ method = "super_code"
  /\ loginLoading = FALSE
  /\ captchaRequired = FALSE /\ captchaID = 0 /\ captchaCode = 0 /\ pictures = 0
  /\ newCodeDlg = FALSE
  /\ formCalls = {}

-----------------------------------------------------------------------------
(* Login *)

\* A code is typed from the picture shown.
TypeCaptcha ==
  /\ mode = "login" /\ captchaRequired /\ captchaID # 0
  /\ captchaCode # captchaID /\ captchaCode' = captchaID
  /\ UNCHANGED <<mode, method, loginLoading, captchaRequired, captchaID, pictures, newCodeDlg, formCalls>>

SubmitLogin ==
  /\ mode = "login" /\ ~loginLoading /\ FormRoom
  /\ loginLoading' = TRUE
  /\ formCalls' = formCalls \cup {IF captchaRequired THEN FormCall("login", captchaID, captchaCode)
                                                     ELSE FormCall("login", 0, 0)}
  /\ UNCHANGED <<mode, method, loginCaptcha, newCodeDlg>>

resetCaptcha == captchaRequired' = FALSE /\ captchaID' = 0 /\ captchaCode' = 0

\* The captcha goes with a success (whose initSession may find nobody logged
\* in); a refusal may ask for one, which the button waits for.
LoginAnswered(c) ==
  /\ c.op = "login"
  /\ \/ resetCaptcha /\ loginLoading' = FALSE /\ formCalls' = formCalls \ {c}
     \/ /\ UNCHANGED <<captchaRequired, captchaID, captchaCode>>
        /\ loginLoading' = FALSE /\ formCalls' = formCalls \ {c}
     \/ /\ captchaRequired' = TRUE /\ UNCHANGED <<captchaID, captchaCode, loginLoading>>
        /\ formCalls' = (formCalls \ {c}) \cup {FormCall("firstCaptcha", 0, 0)}
  /\ UNCHANGED <<mode, method, pictures, newCodeDlg>>

\* A click on the picture.
RefreshCaptcha ==
  /\ mode = "login" /\ captchaRequired /\ FormRoom
  /\ FormAsk("captcha")
  /\ UNCHANGED <<mode, method, loginLoading, loginCaptcha, newCodeDlg>>

\* The server makes pictures in the order it is asked; they come in any.
ServeCaptcha(c) ==
  /\ c.op \in {"captcha", "firstCaptcha"} /\ c.id = 0 /\ pictures < MaxCaptchas
  /\ pictures' = pictures + 1
  /\ formCalls' = (formCalls \ {c}) \cup {[c EXCEPT !.id = pictures + 1]}
  /\ UNCHANGED <<mode, method, loginLoading, captchaRequired, captchaID, captchaCode, newCodeDlg>>

\* Mutant of loadCaptcha: the field keeps the code of the picture before.
loadCaptchaKeeping(id) == captchaID' = id /\ UNCHANGED captchaCode

\* loadCaptcha: a new picture empties the field.
loadCaptcha(id) == captchaID' = id /\ captchaCode' = 0

CaptchaCame(c) ==
  /\ c.op \in {"captcha", "firstCaptcha"}
  /\ formCalls' = formCalls \ {c}
  /\ loginLoading' = (loginLoading /\ c.op = "captcha")
  /\ IF c.id # 0 THEN loadCaptcha(c.id) ELSE UNCHANGED <<captchaID, captchaCode>>
  /\ UNCHANGED <<mode, method, captchaRequired, pictures, newCodeDlg>>

-----------------------------------------------------------------------------
(* Password reset *)

goReset ==
  /\ mode = "login"
  /\ mode' = "reset1" /\ method' = "super_code"
  /\ UNCHANGED <<loginLoading, loginCaptcha, newCodeDlg, formCalls>>

BackToLogin ==
  /\ mode # "login" /\ mode' = "login"
  /\ UNCHANGED <<method, loginLoading, loginCaptcha, newCodeDlg, formCalls>>

ChooseMethod ==
  /\ mode = "reset1" /\ method' \in {"super_code", "mail"} \ {method}
  /\ UNCHANGED <<mode, loginLoading, loginCaptcha, newCodeDlg, formCalls>>

\* sendRequest and confirmReset.
SubmitReset ==
  /\ mode # "login" /\ ~loginLoading /\ FormRoom
  /\ loginLoading' = TRUE
  /\ FormAsk(mode)
  /\ UNCHANGED <<mode, method, loginCaptcha, newCodeDlg>>

\* The answer decides the form even when another one is shown by now. A reset
\* by super code comes with a new one.
ResetAnswered(c) ==
  /\ c.op \in {"reset1", "reset2"}
  /\ formCalls' = formCalls \ {c}
  /\ loginLoading' = FALSE
  /\ \/ UNCHANGED <<mode, newCodeDlg>>
     \/ c.op = "reset1" /\ mode' = "reset2" /\ UNCHANGED newCodeDlg
     \/ c.op = "reset2" /\ mode' = "login" /\ newCodeDlg' \in {newCodeDlg, TRUE}
  /\ UNCHANGED <<method, loginCaptcha>>

CloseNewCode ==
  /\ newCodeDlg /\ newCodeDlg' = FALSE
  /\ UNCHANGED <<mode, method, loginLoading, loginCaptcha, formCalls>>

FormNext ==
  \/ TypeCaptcha \/ SubmitLogin \/ RefreshCaptcha
  \/ goReset \/ BackToLogin \/ ChooseMethod \/ SubmitReset \/ CloseNewCode
  \/ \E c \in formCalls :
       \/ LoginAnswered(c) \/ ServeCaptcha(c) \/ CaptchaCame(c) \/ ResetAnswered(c)

FormSpec == FormInit /\ [][FormNext]_formVars

-----------------------------------------------------------------------------
(* Properties *)

\* Types of the variables.
FormTypeOK ==
  /\ mode \in {"login", "reset1", "reset2"} /\ method \in {"super_code", "mail"}
  /\ loginLoading \in BOOLEAN /\ captchaRequired \in BOOLEAN /\ newCodeDlg \in BOOLEAN
  /\ pictures \in 0..MaxCaptchas
  /\ captchaID \in 0..MaxCaptchas /\ captchaCode \in 0..MaxCaptchas
  /\ formCalls \subseteq
       [op : {"login", "captcha", "firstCaptcha", "reset1", "reset2"},
        id : 0..MaxCaptchas, code : 0..MaxCaptchas]

\* A login is sent with the code read from the picture whose id it sends,
\* whichever of several pictures asked for has come last (loadCaptcha).
CodeAnswersThePicture ==
  \A c \in formCalls : (c.op = "login" /\ c.code # 0) => c.code = c.id
=============================================================================
