------------------------------- MODULE SignIn -------------------------------
(***************************************************************************)
(* Who is signed in, as the page believes and as the server's session says: *)
(* frontend/src/hooks/useAuth.ts with the handlers of app/App.tsx, the form *)
(* of widgets/auth/AuthForm.tsx, the two-factor modal and the entry from    *)
(* the promo page (app/useAuthEntryNavigation.ts).                          *)
(*                                                                         *)
(* A call is one run of an asynchronous handler: it waits for the CSRF     *)
(* token, is sent, is handled by the server, and its answer arrives.       *)
(* Calls of one page overlap freely: no handler looks at the others.       *)
(***************************************************************************)
EXTENDS Naturals

CONSTANTS Users,     \* accounts; "none" stands for nobody
          Guarded,   \* accounts with two-factor codes
          MaxCalls,  \* calls of one behaviour
          Names, Words  \* logins and passwords, without blanks at their ends

SignInAssumption ==
    /\ "none" \notin Users /\ Guarded \subseteq Users
    /\ MaxCalls \in Nat \ {0} /\ "" \notin Names \cup Words

VARIABLES
    session,    \* the user of the browser's session cookie (server)
    challenge,  \* the user whose password was accepted, code still missing (server)
    path,       \* the route
    auth,       \* useAuth: user, loading, wsAuthToken
    modal,      \* App: loginTwoFactorOpen, and the modal's submitting
    calls,      \* calls under way, by number
    made,       \* calls made
    inStep      \* the page has learned the session from a call that ran alone
signInVars == <<session, challenge, path, auth, modal, calls, made, inStep>>
VARIABLES
    mode,       \* the form shown: "login", "register" or "password"
    typed,      \* its fields, as typed
    accounts,   \* [Names -> the password of its hash] (server)
    told,       \* [Names -> what was typed when it was last set, and where]
    owner       \* whose session it is (server)
accountVars == <<mode, typed, accounts, told, owner>>

Paths == {"/", "/login", "/register", "/public", "/settings"}
Fresh == [user |-> "none", loading |-> TRUE, token |-> "none"]
SignedOut == [user |-> "none", loading |-> FALSE, token |-> "none"]
SignedIn(u) == [user |-> u, loading |-> FALSE, token |-> u]
Closed == [open |-> FALSE, submitting |-> FALSE]

Unanswered == [ok |-> FALSE, user |-> "none", code |-> "none"]
NewCall(kind, who) ==
    [kind |-> kind, who |-> who, page |-> TRUE, alone |-> DOMAIN calls = {},
     answer |-> Unanswered,
     stage |-> IF kind \in {"logout", "entry"} THEN "sent" ELSE "csrf"]

\* The calls after one more is made: none of them runs alone any more.
With(call) == [i \in DOMAIN calls \cup {made + 1} |->
                  IF i = made + 1 THEN call ELSE [calls[i] EXCEPT !.alone = FALSE]]
Without(c) == [i \in DOMAIN calls \ {c} |-> calls[i]]

Make(call) ==
    /\ made < MaxCalls
    /\ calls' = With(call) /\ made' = made + 1 /\ UNCHANGED inStep

\* The workspace is mounted on every route but "/"; it starts by asking for
\* the token and then for the session.
Init ==
    /\ session \in {"none"} \cup Users /\ challenge = "none"
    /\ path \in {"/login", "/public"}
    /\ auth = Fresh /\ modal = Closed
    /\ calls = [i \in {1} |-> [kind |-> "startup", who |-> "none", page |-> TRUE,
                                alone |-> TRUE, answer |-> Unanswered,
                                stage |-> "csrf"]]
    /\ made = 1 /\ inStep = FALSE

Form == path \in {"/login", "/register"}

\* AuthForm.handleSubmit on /login and /register: the form is not disabled
\* while it is being sent.
SubmitForm(who) ==
    /\ Form /\ (path = "/register" => who \notin Guarded)
    /\ Make(NewCall("login", who))
    /\ UNCHANGED <<session, challenge, path, auth, modal>>

SubmitCode ==
    /\ modal.open /\ ~modal.submitting
    /\ Make(NewCall("confirm", "none"))
    /\ modal' = [modal EXCEPT !.submitting = TRUE]
    /\ UNCHANGED <<session, challenge, path, auth>>

CloseModal ==
    /\ modal.open /\ modal' = [modal EXCEPT !.open = FALSE]
    /\ UNCHANGED <<session, challenge, path, auth, calls, made, inStep>>

Logout ==
    /\ path # "/" /\ auth.user # "none"
    /\ Make(NewCall("logout", "none"))
    /\ UNCHANGED <<session, challenge, path, auth, modal>>

SaveProfile ==
    /\ path = "/settings" /\ auth.user # "none"
    /\ Make(NewCall("update", auth.user))
    /\ UNCHANGED <<session, challenge, path, auth, modal>>

\* useAuthEntryNavigation: one session check at a time.
Enter ==
    /\ path = "/" /\ \A i \in DOMAIN calls : calls[i].kind # "entry"
    /\ Make(NewCall("entry", "none"))
    /\ UNCHANGED <<session, challenge, path, auth, modal>>

\* Leaving for "/" unmounts the workspace with useAuth; coming back mounts a
\* new one, which starts over.  A call of the old page may still navigate.
Orphaned == [i \in DOMAIN calls |-> [calls[i] EXCEPT !.page = (@ /\ calls[i].kind = "entry")]]
Remount ==
    /\ made < MaxCalls /\ made' = made + 1
    /\ calls' = With(NewCall("startup", "none"))
    /\ auth' = Fresh /\ modal' = Closed
    /\ inStep' = FALSE

Arrive(next) ==
    IF path = "/" /\ next # "/" THEN Remount
    ELSE /\ UNCHANGED <<calls, made, inStep>>
         /\ UNCHANGED <<auth, modal>>

Navigate(next) ==
    /\ next \in Paths \ {path}
    /\ path' = next
    /\ IF next = "/"
       THEN /\ calls' = Orphaned /\ auth' = Fresh /\ modal' = Closed
            /\ UNCHANGED <<made, inStep>>
       ELSE Arrive(next)
    /\ UNCHANGED <<session, challenge>>

-----------------------------------------------------------------------------
\* ensureCsrf: the startup goes on whether the token comes or not; every
\* other call ends with the error.
CsrfArrives(c) ==
    /\ calls[c].stage = "csrf"
    /\ calls' = [calls EXCEPT ![c].stage = "sent"]
    /\ UNCHANGED <<session, challenge, path, auth, modal, made, inStep>>

CsrfFails_Fault(c) ==
    /\ calls[c].stage = "csrf"
    /\ calls' = Without(c)
    /\ modal' = IF calls[c].kind = "confirm" THEN [modal EXCEPT !.submitting = FALSE] ELSE modal
    /\ UNCHANGED <<session, challenge, path, auth, made, inStep>>
CsrfFails(c) ==
    /\ calls[c].stage = "csrf"
    /\ calls' = IF calls[c].kind = "startup"
                THEN [calls EXCEPT ![c].stage = "sent"] ELSE Without(c)
    /\ modal' = IF calls[c].kind = "confirm" /\ calls[c].page
                THEN [modal EXCEPT !.submitting = FALSE] ELSE modal
    /\ UNCHANGED <<session, challenge, path, auth, made, inStep>>

\* The server: sessions, passwords and codes.
Answered(c, user, code, ok) ==
    calls' = [calls EXCEPT ![c].stage = "answered",
                           ![c].answer = [ok |-> ok, user |-> user, code |-> code]]
Handled(c) ==
    /\ calls[c].stage = "sent"
    /\ \/ /\ calls[c].kind \in {"startup", "entry"}
          /\ Answered(c, session, "none", TRUE) /\ UNCHANGED <<session, challenge>>
       \/ /\ calls[c].kind = "login" /\ calls[c].who \in Guarded
          /\ challenge' = calls[c].who /\ Answered(c, "none", "required", TRUE)
          /\ UNCHANGED session
       \/ /\ calls[c].kind = "login" /\ calls[c].who \notin Guarded
          /\ session' = calls[c].who /\ challenge' = "none"
          /\ Answered(c, calls[c].who, "none", TRUE)
       \/ /\ calls[c].kind = "confirm" /\ challenge # "none"
          /\ session' = challenge /\ challenge' = "none"
          /\ Answered(c, challenge, "none", TRUE)
       \/ /\ calls[c].kind = "logout"
          /\ session' = "none" /\ challenge' = "none" /\ Answered(c, "none", "none", TRUE)
       \/ /\ calls[c].kind = "update" /\ session # "none"
          /\ Answered(c, session, "none", TRUE) /\ UNCHANGED <<session, challenge>>
       \/ /\ calls[c].kind = "update" /\ session = "none"
          /\ Answered(c, "none", "401", FALSE) /\ UNCHANGED <<session, challenge>>
    /\ UNCHANGED <<path, auth, modal, made, inStep>>

\* A wrong password or code, a refused profile.
Refused(c) ==
    /\ calls[c].stage = "sent" /\ calls[c].kind \in {"login", "confirm", "update"}
    /\ Answered(c, "none", "400", FALSE)
    /\ UNCHANGED <<session, challenge, path, auth, modal, made, inStep>>

\* The request or its answer is lost; what the server did stays done.
Lost(c) ==
    /\ calls[c].stage \in {"sent", "answered"}
    /\ calls' = [calls EXCEPT ![c].stage = "answered",
                              ![c].answer = [ok |-> FALSE, user |-> "none", code |-> "lost"]]
    /\ calls' # calls
    /\ UNCHANGED <<session, challenge, path, auth, modal, made, inStep>>

\* The session ends elsewhere: another tab, or its time is over.
SessionEnds ==
    /\ session # "none" /\ session' = "none" /\ inStep' = FALSE
    /\ calls' = [i \in DOMAIN calls |-> [calls[i] EXCEPT !.alone = FALSE]]
    /\ UNCHANGED <<challenge, path, auth, modal, made>>

-----------------------------------------------------------------------------
\* What the handlers make of an answer: setAuth ...
AuthAfter_Fault(call) ==
    IF call.answer.code = "401" THEN auth
    ELSE IF call.answer.ok THEN SignedIn(call.answer.user) ELSE auth
AuthAfter(call) ==
    LET a == call.answer IN
    CASE call.kind = "entry" -> auth
      [] call.kind = "startup" -> IF a.user = "none" THEN SignedOut ELSE SignedIn(a.user)
      [] call.kind = "login" /\ a.code = "required" -> [auth EXCEPT !.loading = FALSE]
      [] call.kind \in {"login", "confirm"} /\ a.ok /\ a.code = "none" -> SignedIn(a.user)
      [] call.kind = "logout" -> SignedOut
      [] call.kind = "update" /\ a.ok -> [auth EXCEPT !.user = a.user]
      [] call.kind = "update" /\ a.code = "401" -> SignedOut
      [] OTHER -> auth

\* ... the modal of the code ...
ModalAfter(call) ==
    LET a == call.answer IN
    IF call.kind = "login" /\ a.code = "required" THEN [modal EXCEPT !.open = TRUE]
    ELSE IF call.kind # "confirm" THEN modal
    ELSE [open |-> modal.open /\ ~a.ok, submitting |-> FALSE]

\* ... and onNavigate.
PathAfter(call) ==
    LET a == call.answer IN
    CASE call.kind \in {"login", "confirm"} /\ a.ok /\ a.code = "none" -> "/public"
      [] call.kind = "entry" -> IF a.user = "none" THEN "/login" ELSE "/public"
      [] call.kind = "logout" -> "/login"
      [] call.kind = "update" /\ a.code = "401" -> "/login"
      [] OTHER -> path

\* What the page then knows of the session.
Learns(call) ==
    /\ call.alone /\ call.answer.code # "lost"
    /\ \/ inStep
       \/ call.kind \in {"startup", "logout"} \/ call.answer.code = "401"
       \/ call.kind \in {"login", "confirm"} /\ call.answer.ok /\ call.answer.code = "none"

AnswerArrives(c) ==
    /\ calls[c].stage = "answered"
    /\ path' = PathAfter(calls[c])
    /\ IF calls[c].page /\ path # "/"
       THEN /\ calls' = Without(c) /\ UNCHANGED made
            /\ auth' = AuthAfter(calls[c]) /\ modal' = ModalAfter(calls[c])
            /\ inStep' = Learns(calls[c])
       ELSE IF path = "/" /\ path' # "/"
       THEN /\ made < MaxCalls /\ made' = made + 1
            /\ calls' = [i \in (DOMAIN calls \ {c}) \cup {made + 1} |->
                            IF i = made + 1 THEN [NewCall("startup", "none") EXCEPT !.alone = DOMAIN calls = {c}]
                            ELSE [calls[i] EXCEPT !.alone = FALSE]]
            /\ auth' = Fresh /\ modal' = Closed
            /\ inStep' = FALSE
       ELSE /\ calls' = Without(c) /\ inStep' = FALSE
            /\ UNCHANGED <<made, auth, modal>>
    /\ UNCHANGED <<session, challenge>>

Next ==
    \/ \E who \in Users : SubmitForm(who)
    \/ SubmitCode \/ CloseModal \/ Logout \/ SaveProfile \/ Enter
    \/ \E next \in Paths : Navigate(next)
    \/ \E c \in DOMAIN calls :
          CsrfArrives(c) \/ CsrfFails(c) \/ Handled(c) \/ Refused(c) \/ Lost(c) \/ AnswerArrives(c)
    \/ SessionEnds

\* Requests are answered or fail (axios gives up after ten seconds), and their
\* continuations run.
Fairness ==
    \A c \in 1..MaxCalls :
        /\ WF_signInVars(c \in DOMAIN calls /\ (CsrfArrives(c) \/ CsrfFails(c)))
        /\ WF_signInVars(c \in DOMAIN calls /\ (Handled(c) \/ Refused(c) \/ Lost(c)))
        /\ WF_signInVars(c \in DOMAIN calls /\ AnswerArrives(c))

Spec == Init /\ [][Next]_signInVars /\ Fairness

-----------------------------------------------------------------------------
SignInTypeOK ==
    /\ session \in {"none"} \cup Users /\ challenge \in {"none"} \cup Guarded
    /\ path \in Paths
    /\ auth \in [user : {"none"} \cup Users, loading : BOOLEAN, token : {"none"} \cup Users]
    /\ modal \in [open : BOOLEAN, submitting : BOOLEAN]
    /\ DOMAIN calls \subseteq 1..made /\ made \in 1..MaxCalls
    /\ inStep \in BOOLEAN

\* While the calls of a page do not overlap and no answer is lost, what the
\* page shows is the server's session after each of them: a code that is
\* still required, a refused profile and a 401 included.
InStep ==
    inStep /\ DOMAIN calls = {} /\ path # "/" =>
        auth = IF session = "none" THEN SignedOut ELSE SignedIn(session)

\* A mounted workspace does not stay in its loading state: neither a failed
\* token nor a failed session request leaves it there.
LoadingEnds == auth.loading /\ path # "/" ~> ~auth.loading \/ path = "/"

\* A user is shown together with the token of his session (useAuth.test.ts:294
\* "logout clears auth user even when api fails").  The answer of a profile
\* update that was sent before brings him back.
SignedOutStaysOut == auth.user # "none" => auth.token = auth.user

-----------------------------------------------------------------------------
(* The texts of the forms and what becomes of them on their way: AuthForm,  *)
(* PasswordChangeModal, the request schemas of dto/http/auth.ts and          *)
(* users/application/auth_service.py.  A text is its core and whether blanks *)
(* (or, in a login, capitals) are around it.                                 *)

Text(cores) == [core : cores \cup {""}, dressed : BOOLEAN]
Trimmed(t) == [t EXCEPT !.dressed = FALSE]
NoText == [core |-> "", dressed |-> FALSE]
Fields == {"identifier", "name", "password", "confirm"}
NobodyTold == [text |-> NoText, by |-> "nobody"]

AccountInit ==
    /\ mode = "login" /\ typed = [f \in Fields |-> NoText]
    /\ accounts = [n \in Names |-> NoText] /\ told = [n \in Names |-> NobodyTold]
    /\ owner = "none"

\* Another form has fields of its own; that of the password is in the settings.
ShowForm(m) ==
    /\ m # mode /\ (m = "password" <=> owner # "none")
    /\ mode' = m /\ typed' = [f \in Fields |-> NoText]
    /\ UNCHANGED <<accounts, told, owner>>

Type(field, t) ==
    /\ field = "name" => mode = "register"
    /\ field = "confirm" => mode # "login"
    /\ typed' = [typed EXCEPT ![field] = t]
    /\ UNCHANGED <<mode, accounts, told, owner>>

\* Blanks alone do not count as a login or a name; they do as a password.
CanSubmit ==
    /\ Trimmed(typed["identifier"]) # NoText /\ typed["password"] # NoText
    /\ mode = "register" => Trimmed(typed["name"]) # NoText /\ typed["confirm"] # NoText

\* What the browser sends of a password: registration trims it, login does not.
RegisteredPassword(t) == Trimmed(t)
LoginPassword_Fault(t) == [t EXCEPT !.dressed = ~t.dressed]
LoginPassword(t) == t

\* The server's rules on strength may refuse any password.
Register ==
    LET n == typed["identifier"].core
        password == RegisteredPassword(typed["password"]) IN
    /\ mode = "register" /\ CanSubmit /\ owner = "none"
    /\ password # NoText /\ password = RegisteredPassword(typed["confirm"])
    /\ accounts[n] = NoText
    /\ accounts' = [accounts EXCEPT ![n] = password]
    /\ told' = [told EXCEPT ![n] = [text |-> typed["password"], by |-> "register"]]
    /\ owner' = n /\ UNCHANGED <<mode, typed>>

\* security_change_password_view gets the three texts as they were typed.
ChangePassword_Fault ==
    /\ mode = "password" /\ owner # "none"
    /\ typed["identifier"] = accounts[owner]
    /\ accounts' = [accounts EXCEPT ![owner] = typed["password"]]
    /\ told' = [told EXCEPT ![owner] = [text |-> typed["confirm"], by |-> "change"]]
    /\ UNCHANGED <<mode, typed, owner>>
ChangePassword ==
    /\ mode = "password" /\ owner # "none"
    /\ typed["identifier"] = accounts[owner]
    /\ typed["password"] # NoText /\ typed["password"] = typed["confirm"]
    /\ accounts' = [accounts EXCEPT ![owner] = typed["password"]]
    /\ told' = [told EXCEPT ![owner] = [text |-> typed["confirm"], by |-> "change"]]
    /\ typed' = [f \in Fields |-> NoText] /\ UNCHANGED <<mode, owner>>

\* login_user: the login without blanks and capitals, the password as it came.
Opens(n, t) == t # NoText /\ accounts[n] # NoText /\ LoginPassword(t) = accounts[n]
LogIn ==
    /\ mode = "login" /\ CanSubmit /\ owner = "none"
    /\ Opens(typed["identifier"].core, typed["password"])
    /\ owner' = typed["identifier"].core /\ UNCHANGED <<mode, typed, accounts, told>>
LogOut ==
    /\ owner # "none" /\ owner' = "none"
    /\ mode' = "login" /\ typed' = [f \in Fields |-> NoText]
    /\ UNCHANGED <<accounts, told>>

\* The field of the login holds the present password in the form of the settings.
AccountNext ==
    \/ \E m \in {"login", "register", "password"} : ShowForm(m)
    \/ \E f \in Fields :
          \E t \in Text(IF f = "identifier" /\ mode # "password" THEN Names
                        ELSE IF f = "name" THEN {"name"} ELSE Words) : Type(f, t)
    \/ Register \/ ChangePassword \/ LogIn \/ LogOut

\* The password one has typed twice, and nothing but it and its trimmed form,
\* opens the account.  Excepted is the registration with blanks around the
\* password: it is trimmed there (dto/http/auth.ts:150) and not at the login.
WhatWasTypedOpens ==
    \A n \in Names : accounts[n] # NoText =>
        /\ ~(told[n].by = "register" /\ told[n].text.dressed) => Opens(n, told[n].text)
        /\ \A t \in Text(Words) : Opens(n, t) => Trimmed(t) = Trimmed(told[n].text)
=============================================================================
