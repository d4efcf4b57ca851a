----------------------------- MODULE PagesProofs -----------------------------
(***************************************************************************)
(* Proofs about the machines of MCPages, for any users, rooms, queries,    *)
(* persons, chats and bounds.                                              *)
(*                                                                         *)
(* The machines share no variable, so that a step of the page is a step of *)
(* one of them or leaves it alone (OneMachineMoves).  Each has its own     *)
(* inductive invariant, which says what the requests on their way can      *)
(* still bring: the answer to what is asked now, or one that the page will *)
(* drop.  A lemma ...Init and a lemma ...Step say that it holds, a lemma   *)
(* ...Is or ...Are what follows from it, and the theorems at the end of    *)
(* each part put the machines together.                                    *)
(*                                                                         *)
(* The last part is about Presence, the server's side of who is online,    *)
(* for any sockets and any settings.  The counter in the cache is only an  *)
(* estimate, so the argument never says what it is: it says that every     *)
(* step that raises it adds a connection to Members, or finds one there,   *)
(* and that whoever is gone leaves an entry no younger than his absence.   *)
(***************************************************************************)
EXTENDS MCPages, Presence, FiniteSetTheorems, WellFoundedInduction, TLAPS

-----------------------------------------------------------------------------
(* Sign-in: types                                                           *)

Accounts == {"none"} \cup Users
Verdicts == [ok : BOOLEAN, user : Accounts, code : {"none", "required", "401", "400", "lost"}]
Calls == [kind : {"startup", "login", "confirm", "logout", "update", "entry"}, who : Accounts,
          page : BOOLEAN, alone : BOOLEAN, answer : Verdicts, stage : {"csrf", "sent", "answered"}]
Auths == [user : Accounts, loading : BOOLEAN, token : Accounts]
Modals == [open : BOOLEAN, submitting : BOOLEAN]

\* The calls under way: each is typed, and whoever signs in is somebody.
CallsOK(f) == \A c \in DOMAIN f : f[c] \in Calls /\ (f[c].kind = "login" => f[c].who \in Users)

SignInInv ==
    /\ session \in Accounts /\ challenge \in {"none"} \cup Guarded /\ route \in Sign!Paths
    /\ auth \in Auths /\ modal \in Modals
    /\ calls = [c \in DOMAIN calls |-> calls[c]] /\ CallsOK(calls)
    /\ DOMAIN calls \subseteq 1..called /\ called \in 1..MaxCalls
    /\ inStep \in BOOLEAN

LEMMA SignInInit == ASSUME Sign!SignInAssumption, Sign!Init PROVE SignInInv
<1>1. Sign!Unanswered \in Verdicts
  BY DEF Sign!Unanswered, Verdicts, Accounts
<1>2. [kind |-> "startup", who |-> "none", page |-> TRUE, alone |-> TRUE,
       answer |-> Sign!Unanswered, stage |-> "csrf"] \in Calls
  BY <1>1 DEF Calls, Accounts
<1>3. CallsOK(calls) /\ DOMAIN calls = {1} /\ calls = [c \in DOMAIN calls |-> calls[c]]
  BY <1>2 DEF Sign!Init, CallsOK
<1>4. auth \in Auths /\ modal \in Modals
  BY DEF Sign!Init, Auths, Modals, Sign!Fresh, Sign!Closed, Accounts
<1>5. MaxCalls \in Nat /\ 1 <= MaxCalls
  <2>1. MaxCalls \in Nat /\ MaxCalls # 0
    BY Zenon DEF Sign!SignInAssumption
  <2> QED BY <2>1
<1>6. DOMAIN calls \subseteq 1..called /\ called \in 1..MaxCalls
  BY <1>3, <1>5 DEF Sign!Init
<1>7. route \in Sign!Paths /\ session \in Accounts /\ challenge = "none" /\ inStep = FALSE
  BY DEF Sign!Init, Sign!Paths, Accounts
<1> QED BY <1>3, <1>4, <1>6, <1>7 DEF SignInInv

\* The call that is made, and the others that are no longer alone.
LEMMA NewCallIs ==
  ASSUME NEW kind \in {"startup", "login", "confirm", "logout", "update", "entry"},
         NEW who \in Accounts, kind = "login" => who \in Users
  PROVE  /\ Sign!NewCall(kind, who) \in Calls
         /\ Sign!NewCall(kind, who).kind = "login" => Sign!NewCall(kind, who).who \in Users
<1> DEFINE alone == (DOMAIN calls = {})
           stage == IF kind \in {"logout", "entry"} THEN "sent" ELSE "csrf"
<1>1. alone \in BOOLEAN
  BY Zenon
<1>2. Sign!Unanswered \in Verdicts /\ stage \in {"csrf", "sent", "answered"}
  BY DEF Sign!Unanswered, Verdicts, Accounts
<1>3. Sign!NewCall(kind, who) = [kind |-> kind, who |-> who, page |-> TRUE, alone |-> alone,
                            answer |-> Sign!Unanswered, stage |-> stage]
  BY DEF Sign!NewCall
<1> HIDE DEF alone, stage
<1> QED BY <1>1, <1>2, <1>3 DEF Calls

LEMMA NotAlone ==
  ASSUME NEW one \in Calls
  PROVE  /\ [one EXCEPT !.alone = FALSE] \in Calls
         /\ [one EXCEPT !.alone = FALSE].kind = one.kind
         /\ [one EXCEPT !.alone = FALSE].who = one.who
BY DEF Calls

LEMMA OneMoreCall ==
  ASSUME SignInInv, Sign!SignInAssumption, called < MaxCalls, NEW one \in Calls,
         one.kind = "login" => one.who \in Users
  PROVE  /\ CallsOK(Sign!With(one)) /\ DOMAIN Sign!With(one) \subseteq 1..(called + 1)
         /\ Sign!With(one) = [c \in DOMAIN Sign!With(one) |-> Sign!With(one)[c]]
         /\ called + 1 \in 1..MaxCalls
<1>1. called \in Nat /\ MaxCalls \in Nat /\ DOMAIN calls \subseteq 1..called
  <2>1. MaxCalls \in Nat
    BY DEF Sign!SignInAssumption
  <2> QED BY <2>1 DEF SignInInv
<1>2. \A i \in DOMAIN calls : i # called + 1
  BY <1>1
<1>3. \A i \in DOMAIN calls :
         /\ [calls[i] EXCEPT !.alone = FALSE] \in Calls
         /\ [calls[i] EXCEPT !.alone = FALSE].kind = "login" =>
               [calls[i] EXCEPT !.alone = FALSE].who \in Users
  BY NotAlone DEF SignInInv, CallsOK
<1>4. DOMAIN Sign!With(one) = DOMAIN calls \cup {called + 1}
  BY DEF Sign!With
<1>5. Sign!With(one)[called + 1] = one
  BY DEF Sign!With
<1>6. \A i \in DOMAIN calls : Sign!With(one)[i] = [calls[i] EXCEPT !.alone = FALSE]
  BY <1>2 DEF Sign!With
<1>7. CallsOK(Sign!With(one))
  BY <1>3, <1>4, <1>5, <1>6 DEF CallsOK
<1>8. Sign!With(one) = [c \in DOMAIN Sign!With(one) |-> Sign!With(one)[c]]
  BY DEF Sign!With
<1> QED BY <1>1, <1>4, <1>7, <1>8 DEF SignInInv

LEMMA FewerCalls ==
  ASSUME SignInInv, NEW c PROVE
         /\ CallsOK(Sign!Without(c)) /\ DOMAIN Sign!Without(c) \subseteq 1..called
         /\ Sign!Without(c) = [i \in DOMAIN Sign!Without(c) |-> Sign!Without(c)[i]]
BY DEF SignInInv, CallsOK, Sign!Without

\* A step of one call: its stage, its answer.
LEMMA CallMoves ==
  ASSUME SignInInv, NEW c \in DOMAIN calls, NEW stage \in {"csrf", "sent", "answered"},
         NEW answer \in Verdicts,
         calls' \in {[calls EXCEPT ![c].stage = stage],
                     [calls EXCEPT ![c].stage = stage, ![c].answer = answer]}
  PROVE  /\ CallsOK(calls') /\ DOMAIN calls' = DOMAIN calls
         /\ calls' = [i \in DOMAIN calls' |-> calls'[i]]
<1>1. calls[c] \in Calls /\ (calls[c].kind = "login" => calls[c].who \in Users)
  BY DEF SignInInv, CallsOK
<1>2. /\ DOMAIN calls' = DOMAIN calls /\ \A i \in DOMAIN calls : i # c => calls'[i] = calls[i]
      /\ calls' = [i \in DOMAIN calls' |-> calls'[i]]
  OBVIOUS
<1>3. /\ calls'[c] \in Calls /\ calls'[c].kind = calls[c].kind /\ calls'[c].who = calls[c].who
  BY <1>1 DEF Calls
<1> QED BY <1>1, <1>2, <1>3 DEF SignInInv, CallsOK

\* What a step leaves of the page, when its calls stay as they must.
CallsStay == /\ CallsOK(calls') /\ DOMAIN calls' \subseteq 1..called' /\ called' \in 1..MaxCalls
             /\ calls' = [c \in DOMAIN calls' |-> calls'[c]]

LEMMA NothingMade ==
  ASSUME SignInInv, UNCHANGED <<calls, called>> PROVE CallsStay
BY DEF SignInInv, CallsStay, CallsOK

LEMMA OneMade ==
  ASSUME SignInInv, Sign!SignInAssumption,
         NEW kind \in {"startup", "login", "confirm", "logout", "update", "entry"},
         NEW who \in Accounts, kind = "login" => who \in Users,
         called < MaxCalls, called' = called + 1, calls' = Sign!With(Sign!NewCall(kind, who))
  PROVE  CallsStay
BY NewCallIs, OneMoreCall DEF CallsStay

LEMMA OneLess ==
  ASSUME SignInInv, NEW c, calls' = Sign!Without(c), called' = called PROVE CallsStay
BY FewerCalls DEF CallsStay, SignInInv

LEMMA OneMoves ==
  ASSUME SignInInv, NEW c \in DOMAIN calls, NEW stage \in {"csrf", "sent", "answered"},
         NEW answer \in Verdicts,
         calls' \in {[calls EXCEPT ![c].stage = stage],
                     [calls EXCEPT ![c].stage = stage, ![c].answer = answer]},
         called' = called
  PROVE  CallsStay
BY CallMoves DEF CallsStay, SignInInv

LEMMA AfterAnswer ==
  ASSUME SignInInv, NEW one \in Calls, one.kind = "login" => one.who \in Users
  PROVE  /\ Sign!AuthAfter(one) \in Auths /\ Sign!ModalAfter(one) \in Modals /\ Sign!PathAfter(one) \in Sign!Paths
         /\ Sign!Learns(one) \in BOOLEAN
<1>1. /\ auth \in Auths /\ modal \in Modals /\ route \in Sign!Paths
      /\ one.answer.user \in Accounts /\ one.answer.ok \in BOOLEAN
  BY DEF SignInInv, Calls, Verdicts
<1>2. /\ Sign!SignedOut \in Auths /\ Sign!SignedIn(one.answer.user) \in Auths
      /\ [auth EXCEPT !.loading = FALSE] \in Auths /\ [auth EXCEPT !.user = one.answer.user] \in Auths
  BY <1>1 DEF Sign!SignedOut, Sign!SignedIn, Auths, Accounts
<1>3. Sign!AuthAfter(one) \in Auths
  <2> HIDE DEF Auths
  <2> QED BY <1>1, <1>2 DEF Sign!AuthAfter
<1>4. Sign!PathAfter(one) \in Sign!Paths
  BY <1>1 DEF Sign!PathAfter, Sign!Paths
<1>5. Sign!ModalAfter(one) \in Modals
  <2> DEFINE left == (modal.open /\ ~one.answer.ok)
  <2>1. left \in BOOLEAN
    BY Zenon
  <2>2. [open |-> left, submitting |-> FALSE] \in Modals /\ [modal EXCEPT !.open = TRUE] \in Modals
    <3> HIDE DEF left
    <3> QED BY <1>1, <2>1 DEF Modals
  <2> QED BY <1>1, <2>2 DEF Sign!ModalAfter
<1>6. Sign!Learns(one) \in BOOLEAN
  BY Zenon DEF Sign!Learns
<1> QED BY <1>3, <1>4, <1>5, <1>6

LEMMA SignInStep == ASSUME Sign!SignInAssumption, SignInInv, Sign!Next \/ UNCHANGED signInVars PROVE SignInInv'
<1>0. /\ session \in Accounts /\ challenge \in {"none"} \cup Guarded /\ route \in Sign!Paths
      /\ auth \in Auths /\ modal \in Modals /\ inStep \in BOOLEAN
      /\ called \in Nat /\ Guarded \subseteq Users
  <2>1. Guarded \subseteq Users
    BY DEF Sign!SignInAssumption
  <2> QED BY <2>1 DEF SignInInv
<1>a. /\ Sign!Fresh \in Auths /\ Sign!Closed \in Modals
  BY DEF Sign!Fresh, Sign!Closed, Auths, Modals, Accounts
<1>1. ASSUME NEW who \in Users, Sign!SubmitForm(who) PROVE SignInInv'
  <2>1. CallsStay
    BY <1>1, OneMade DEF Sign!SubmitForm, Sign!Make, Accounts
  <2> QED BY <1>0, <1>1, <2>1 DEF Sign!SubmitForm, Sign!Make, CallsStay, SignInInv
<1>2. CASE Sign!SubmitCode
  <2>1. CallsStay
    BY <1>2, OneMade DEF Sign!SubmitCode, Sign!Make, Accounts
  <2>2. modal' \in Modals
    BY <1>0, <1>2 DEF Sign!SubmitCode, Modals
  <2> QED BY <1>0, <1>2, <2>1, <2>2 DEF Sign!SubmitCode, Sign!Make, CallsStay, SignInInv
<1>3. CASE Sign!CloseModal
  <2>1. CallsStay
    BY <1>3, NothingMade DEF Sign!CloseModal
  <2>2. modal' \in Modals
    BY <1>0, <1>3 DEF Sign!CloseModal, Modals
  <2> QED BY <1>0, <1>3, <2>1, <2>2 DEF Sign!CloseModal, CallsStay, SignInInv
<1>4. CASE Sign!Logout
  <2>1. CallsStay
    BY <1>4, OneMade DEF Sign!Logout, Sign!Make, Accounts
  <2> QED BY <1>0, <1>4, <2>1 DEF Sign!Logout, Sign!Make, CallsStay, SignInInv
<1>5. CASE Sign!SaveProfile
  <2>1. auth.user \in Accounts
    BY <1>0 DEF Auths
  <2>2. CallsStay
    BY <1>5, <2>1, OneMade DEF Sign!SaveProfile, Sign!Make
  <2> QED BY <1>0, <1>5, <2>2 DEF Sign!SaveProfile, Sign!Make, CallsStay, SignInInv
<1>6. CASE Sign!Enter
  <2>1. CallsStay
    BY <1>6, OneMade DEF Sign!Enter, Sign!Make, Accounts
  <2> QED BY <1>0, <1>6, <2>1 DEF Sign!Enter, Sign!Make, CallsStay, SignInInv
<1>7. ASSUME NEW next \in Sign!Paths, Sign!Navigate(next) PROVE SignInInv'
  <2>1. CASE next = "/"
    <3> DEFINE off(i) == [calls[i] EXCEPT !.page = (calls[i].page /\ calls[i].kind = "entry")]
    <3>1. ASSUME NEW i \in DOMAIN calls
          PROVE  off(i) \in Calls /\ (off(i).kind = "login" => off(i).who \in Users)
      <4> DEFINE p == (calls[i].page /\ calls[i].kind = "entry")
                 one == [calls[i] EXCEPT !.page = p]
      <4>1. p \in BOOLEAN
        BY Zenon
      <4>2. calls[i] \in Calls /\ (calls[i].kind = "login" => calls[i].who \in Users)
        BY DEF SignInInv, CallsOK
      <4>3. one \in Calls /\ (one.kind = "login" => one.who \in Users)
        <5> HIDE DEF p
        <5> QED BY <4>1, <4>2 DEF Calls
      <4>4. off(i) = one
        OBVIOUS
      <4> HIDE DEF off, one
      <4> QED BY <4>3, <4>4
    <3>2. calls' = Sign!Orphaned /\ called' = called
      BY <1>7, <2>1 DEF Sign!Navigate
    <3>3. CallsOK(calls') /\ DOMAIN calls' = DOMAIN calls /\ calls' = [c \in DOMAIN calls' |-> calls'[c]]
      <4>1. \A i \in DOMAIN calls : Sign!Orphaned[i] = off(i)
        BY DEF Sign!Orphaned
      <4>2. DOMAIN Sign!Orphaned = DOMAIN calls /\ Sign!Orphaned = [c \in DOMAIN Sign!Orphaned |-> Sign!Orphaned[c]]
        BY DEF Sign!Orphaned
      <4> HIDE DEF off
      <4> QED BY <3>1, <3>2, <4>1, <4>2 DEF CallsOK
    <3>4. CallsStay
      BY <3>2, <3>3 DEF CallsStay, SignInInv
    <3>5. auth' = Sign!Fresh /\ modal' = Sign!Closed /\ route' = next /\ UNCHANGED <<inStep, session, challenge>>
      BY <1>7, <2>1 DEF Sign!Navigate
    <3> QED BY <1>0, <1>a, <1>7, <3>4, <3>5 DEF CallsStay, SignInInv
  <2>2. CASE next # "/" /\ route = "/"
    <3>1. Sign!Remount /\ route' = next /\ UNCHANGED <<session, challenge>>
      BY <1>7, <2>2 DEF Sign!Navigate, Sign!Arrive
    <3>2. CallsStay
      BY <3>1, OneMade DEF Sign!Remount, Accounts
    <3> QED BY <1>0, <1>a, <1>7, <3>1, <3>2 DEF Sign!Remount, CallsStay, SignInInv
  <2>3. CASE next # "/" /\ route # "/"
    <3>1. route' = next /\ UNCHANGED <<session, challenge, calls, called, inStep, auth, modal>>
      BY <1>7, <2>3 DEF Sign!Navigate, Sign!Arrive
    <3>2. CallsStay
      BY <3>1, NothingMade
    <3> QED BY <1>0, <1>7, <3>1, <3>2 DEF CallsStay, SignInInv
  <2> QED BY <2>1, <2>2, <2>3
<1>8. ASSUME NEW c \in DOMAIN calls, Sign!CsrfArrives(c) PROVE SignInInv'
  <2>1. Sign!Unanswered \in Verdicts
    BY DEF Sign!Unanswered, Verdicts, Accounts
  <2>2. CallsStay
    BY <1>8, <2>1, OneMoves DEF Sign!CsrfArrives
  <2> QED BY <1>0, <1>8, <2>2 DEF Sign!CsrfArrives, CallsStay, SignInInv
<1>9. ASSUME NEW c \in DOMAIN calls, Sign!CsrfFails(c) PROVE SignInInv'
  <2>1. Sign!Unanswered \in Verdicts
    BY DEF Sign!Unanswered, Verdicts, Accounts
  <2>2. CallsStay
    <3>1. CASE calls[c].kind = "startup"
      BY <1>9, <2>1, <3>1, OneMoves DEF Sign!CsrfFails
    <3>2. CASE calls[c].kind # "startup"
      BY <1>9, <3>2, OneLess DEF Sign!CsrfFails
    <3> QED BY <3>1, <3>2
  <2>3. modal' \in Modals
    BY <1>0, <1>9 DEF Sign!CsrfFails, Modals
  <2> QED BY <1>0, <1>9, <2>2, <2>3 DEF Sign!CsrfFails, CallsStay, SignInInv
<1>10. ASSUME NEW c \in DOMAIN calls, Sign!Handled(c) PROVE SignInInv'
  <2>1. calls[c] \in Calls /\ (calls[c].kind = "login" => calls[c].who \in Users)
    BY DEF SignInInv, CallsOK
  <2>2. PICK somebody \in Accounts, code \in {"none", "required", "401"}, ok \in BOOLEAN :
           Sign!Answered(c, somebody, code, ok)
    BY <1>0, <1>10, <2>1 DEF Sign!Handled, Calls, Accounts
  <2>3. [ok |-> ok, user |-> somebody, code |-> code] \in Verdicts
    BY DEF Verdicts
  <2>4. CallsStay
    BY <1>10, <2>2, <2>3, OneMoves DEF Sign!Answered, Sign!Handled
  <2>5. session' \in Accounts /\ challenge' \in {"none"} \cup Guarded
    BY <1>0, <1>10, <2>1 DEF Sign!Handled, Calls, Accounts
  <2>6. UNCHANGED <<route, auth, modal, called, inStep>>
    BY <1>10 DEF Sign!Handled
  <2> QED BY <1>0, <2>4, <2>5, <2>6 DEF CallsStay, SignInInv
<1>11. ASSUME NEW c \in DOMAIN calls, Sign!Refused(c) PROVE SignInInv'
  <2>1. [ok |-> FALSE, user |-> "none", code |-> "400"] \in Verdicts
    BY DEF Verdicts, Accounts
  <2>2. CallsStay
    BY <1>11, <2>1, OneMoves DEF Sign!Refused, Sign!Answered
  <2> QED BY <1>0, <1>11, <2>2 DEF Sign!Refused, CallsStay, SignInInv
<1>12. ASSUME NEW c \in DOMAIN calls, Sign!Lost(c) PROVE SignInInv'
  <2>1. [ok |-> FALSE, user |-> "none", code |-> "lost"] \in Verdicts
    BY DEF Verdicts, Accounts
  <2>2. CallsStay
    BY <1>12, <2>1, OneMoves DEF Sign!Lost
  <2> QED BY <1>0, <1>12, <2>2 DEF Sign!Lost, CallsStay, SignInInv
<1>13. ASSUME NEW c \in DOMAIN calls, Sign!AnswerArrives(c) PROVE SignInInv'
  <2>1. calls[c] \in Calls /\ (calls[c].kind = "login" => calls[c].who \in Users)
    BY DEF SignInInv, CallsOK
  <2>2. /\ Sign!AuthAfter(calls[c]) \in Auths /\ Sign!ModalAfter(calls[c]) \in Modals
        /\ Sign!PathAfter(calls[c]) \in Sign!Paths /\ Sign!Learns(calls[c]) \in BOOLEAN
    BY <2>1, AfterAnswer
  <2>3. route' = Sign!PathAfter(calls[c]) /\ UNCHANGED <<session, challenge>>
    BY <1>13 DEF Sign!AnswerArrives
  <2>4. CASE calls[c].page /\ route # "/"
    <3>1. /\ calls' = Sign!Without(c) /\ called' = called /\ auth' = Sign!AuthAfter(calls[c])
          /\ modal' = Sign!ModalAfter(calls[c]) /\ inStep' = Sign!Learns(calls[c])
      BY <1>13, <2>4 DEF Sign!AnswerArrives
    <3>2. CallsStay
      BY <3>1, OneLess
    <3> QED BY <1>0, <2>2, <2>3, <3>1, <3>2 DEF CallsStay, SignInInv
  <2>5. CASE ~(calls[c].page /\ route # "/") /\ route = "/" /\ route' # "/"
    <3> DEFINE sole == (DOMAIN calls = {c})
               new == [Sign!NewCall("startup", "none") EXCEPT !.alone = sole]
               rest == [i \in (DOMAIN calls \ {c}) \cup {called + 1} |->
                          IF i = called + 1 THEN new ELSE [calls[i] EXCEPT !.alone = FALSE]]
    <3>1. /\ called < MaxCalls /\ called' = called + 1 /\ calls' = rest
          /\ auth' = Sign!Fresh /\ modal' = Sign!Closed /\ inStep' = FALSE
      BY <1>13, <2>5 DEF Sign!AnswerArrives
    <3>2. sole \in BOOLEAN
      BY Zenon
    <3> HIDE DEF sole
    <3>3. Sign!NewCall("startup", "none") \in Calls /\ Sign!NewCall("startup", "none").kind = "startup"
      <4>1. Sign!NewCall("startup", "none") \in Calls
        BY NewCallIs DEF Accounts
      <4> QED BY <4>1 DEF Sign!NewCall
    <3>4. new \in Calls /\ new.kind = "startup"
      BY <3>2, <3>3 DEF Calls
    <3> HIDE DEF new
    <3>5. \A i \in DOMAIN calls :
            /\ [calls[i] EXCEPT !.alone = FALSE] \in Calls
            /\ [calls[i] EXCEPT !.alone = FALSE].kind = "login" =>
                  [calls[i] EXCEPT !.alone = FALSE].who \in Users
      BY NotAlone DEF SignInInv, CallsOK
    <3>6. /\ DOMAIN rest = (DOMAIN calls \ {c}) \cup {called + 1} /\ rest[called + 1] = new
          /\ \A i \in DOMAIN calls \ {c} : i # called + 1 => rest[i] = [calls[i] EXCEPT !.alone = FALSE]
          /\ rest = [i \in DOMAIN rest |-> rest[i]]
      OBVIOUS
    <3> HIDE DEF rest
    <3>7. CallsOK(rest)
      BY <3>4, <3>5, <3>6 DEF CallsOK
    <3>8. DOMAIN rest \subseteq 1..(called + 1) /\ called + 1 \in 1..MaxCalls
      <4>1. MaxCalls \in Nat
        BY DEF Sign!SignInAssumption
      <4>2. DOMAIN calls \subseteq 1..called
        BY DEF SignInInv
      <4> QED BY <1>0, <3>1, <3>6, <4>1, <4>2
    <3>9. CallsStay
      BY <3>1, <3>6, <3>7, <3>8 DEF CallsStay
    <3> QED BY <1>0, <1>a, <2>2, <2>3, <3>1, <3>9 DEF CallsStay, SignInInv
  <2>6. CASE ~(calls[c].page /\ route # "/") /\ ~(route = "/" /\ route' # "/")
    <3>1. calls' = Sign!Without(c) /\ inStep' = FALSE /\ UNCHANGED <<called, auth, modal>>
      BY <1>13, <2>6 DEF Sign!AnswerArrives
    <3>2. CallsStay
      BY <3>1, OneLess
    <3> QED BY <1>0, <2>2, <2>3, <3>1, <3>2 DEF CallsStay, SignInInv
  <2> QED BY <2>4, <2>5, <2>6
<1>14. CASE Sign!SessionEnds
  <2>1. \A i \in DOMAIN calls :
          /\ [calls[i] EXCEPT !.alone = FALSE] \in Calls
          /\ [calls[i] EXCEPT !.alone = FALSE].kind = "login" =>
                [calls[i] EXCEPT !.alone = FALSE].who \in Users
    BY NotAlone DEF SignInInv, CallsOK
  <2>2. /\ DOMAIN calls' = DOMAIN calls /\ calls' = [i \in DOMAIN calls' |-> calls'[i]]
        /\ \A i \in DOMAIN calls : calls'[i] = [calls[i] EXCEPT !.alone = FALSE]
        /\ UNCHANGED <<challenge, route, auth, modal, called>> /\ session' = "none" /\ inStep' = FALSE
    BY <1>14 DEF Sign!SessionEnds
  <2>3. CallsOK(calls')
    BY <2>1, <2>2 DEF CallsOK
  <2> QED BY <1>0, <2>2, <2>3 DEF SignInInv, Accounts
<1>15. CASE UNCHANGED signInVars
  BY <1>15 DEF signInVars, SignInInv, CallsOK
<1> QED
  BY <1>1, <1>2, <1>3, <1>4, <1>5, <1>6, <1>7, <1>8, <1>9, <1>10, <1>11, <1>12, <1>13, <1>14,
     <1>15 DEF Sign!Next

-----------------------------------------------------------------------------
(* Sign-in: the page is in step with the session                            *)

\* The page shows what the server's session says.
Matching == auth = IF session = "none" THEN Sign!SignedOut ELSE Sign!SignedIn(session)

\* What an answer that was not lost says of the session.
TrueAnswer(one) ==
  /\ one.kind = "startup" => one.answer.user = session
  /\ one.kind \in {"login", "confirm"} /\ one.answer.ok /\ one.answer.code = "none" =>
        one.answer.user = session /\ session # "none"
  /\ one.kind = "logout" => session = "none"
  /\ one.kind = "update" /\ one.answer.ok => one.answer.user = session /\ session # "none"
  /\ one.answer.code = "401" => one.kind = "update" /\ ~one.answer.ok /\ session = "none"

\* The answers after which the page shows the session whatever it showed before.
Sets(one) ==
  \/ one.kind \in {"startup", "logout"}
  \/ one.kind \in {"login", "confirm"} /\ one.answer.ok /\ one.answer.code = "none"

Calm == \A c \in DOMAIN calls : calls[c].stage # "answered"

\* A call that runs alone is the only one, and its answer is true; a page that has
\* learned the session shows it, until an answer comes that changes what it shows.
StepInv ==
  /\ SignInInv
  /\ \A c \in DOMAIN calls : calls[c].alone =>
        /\ DOMAIN calls = {c}
        /\ calls[c].stage = "answered" /\ calls[c].answer.code # "lost" => TrueAnswer(calls[c])
  /\ inStep /\ route # "/" /\ Calm => Matching
  /\ \A c \in DOMAIN calls :
        inStep /\ route # "/" /\ calls[c].alone /\ calls[c].stage = "answered"
          /\ calls[c].answer.code # "lost" => Matching \/ Sets(calls[c])

LEMMA StepInit == ASSUME Sign!SignInAssumption, Sign!Init PROVE StepInv
<1>1. SignInInv
  BY SignInInit
<1>2. DOMAIN calls = {1} /\ calls[1].stage = "csrf" /\ inStep = FALSE
  BY DEF Sign!Init
<1> QED BY <1>1, <1>2 DEF StepInv

\* One more call, and the page as it was: nothing is learned.
LEMMA MadeKeeps ==
  ASSUME StepInv, SignInInv', Sign!SignInAssumption,
         NEW kind \in {"startup", "login", "confirm", "logout", "update", "entry"}, NEW who \in Accounts,
         kind = "login" => who \in Users,
         called' = called + 1, calls' = Sign!With(Sign!NewCall(kind, who)), session' = session,
         inStep' => inStep /\ UNCHANGED <<route, auth>>
  PROVE  StepInv'
<1> DEFINE one == Sign!NewCall(kind, who)
<1>1. /\ one.stage \in {"csrf", "sent"} /\ one.alone = (DOMAIN calls = {})
  BY DEF Sign!NewCall
<1> HIDE DEF one
<1>2. called \in Nat /\ DOMAIN calls \subseteq 1..called
  BY DEF StepInv, SignInInv
<1>3. /\ DOMAIN calls' = DOMAIN calls \cup {called + 1} /\ calls'[called + 1] = one
  BY DEF Sign!With, one
<1>4. ASSUME NEW i \in DOMAIN calls
      PROVE  i # called + 1 /\ calls'[i].stage = calls[i].stage /\ calls'[i].alone = FALSE
  <2>1. i # called + 1
    BY <1>2
  <2>2. calls[i] \in Calls
    BY DEF StepInv, SignInInv, CallsOK
  <2>3. calls'[i] = [calls[i] EXCEPT !.alone = FALSE]
    BY <2>1 DEF Sign!With
  <2> QED BY <2>1, <2>2, <2>3 DEF Calls
<1>5. ASSUME NEW i \in DOMAIN calls', calls'[i].alone
      PROVE  DOMAIN calls' = {i} /\ calls'[i].stage # "answered"
  BY <1>1, <1>3, <1>4, <1>5
<1>6. Calm' => Calm
  BY <1>3, <1>4 DEF Calm
<1>7. inStep' /\ route' # "/" /\ Calm' => Matching'
  BY <1>6 DEF StepInv, Matching
<1> QED BY <1>5, <1>7 DEF StepInv

\* One call less, and nothing known of the session, or a call that was not answered.
LEMMA LessKeeps ==
  ASSUME StepInv, SignInInv', NEW c \in DOMAIN calls, calls' = Sign!Without(c), session' = session,
         inStep' => Matching' \/ (inStep /\ UNCHANGED <<route, auth>> /\ calls[c].stage # "answered")
  PROVE  StepInv'
<1>1. DOMAIN calls' = DOMAIN calls \ {c} /\ \A i \in DOMAIN calls' : calls'[i] = calls[i]
  BY DEF Sign!Without
<1>2. \A i \in DOMAIN calls' : ~calls'[i].alone
  BY <1>1 DEF StepInv
<1>3. inStep' /\ route' # "/" /\ Calm' => Matching'
  BY <1>1 DEF StepInv, Matching, Calm
<1> QED BY <1>2, <1>3 DEF StepInv

\* A step of one call.
LEMMA MovedKeeps ==
  ASSUME StepInv, SignInInv', NEW c \in DOMAIN calls, UNCHANGED <<route, auth, inStep>>,
         DOMAIN calls' = DOMAIN calls, \A i \in DOMAIN calls : i # c => calls'[i] = calls[i],
         calls'[c].alone = calls[c].alone,
         \/ session' = session /\ calls[c].stage # "answered" /\ calls'[c].stage # "answered"
         \/ calls'[c].stage = "answered" /\ calls'[c].answer.code = "lost"
         \/ /\ calls[c].stage # "answered" /\ calls'[c].stage = "answered"
            /\ TrueAnswer(calls[c])' /\ (session' = session \/ Sets(calls[c])')
  PROVE  StepInv'
<1>1. ASSUME NEW i \in DOMAIN calls', calls'[i].alone
      PROVE  /\ i = c /\ DOMAIN calls' = {i} /\ calls[c].alone
             /\ calls[c].stage # "answered" => Calm
  BY <1>1 DEF StepInv, Calm
<1>2. ASSUME NEW i \in DOMAIN calls', calls'[i].alone, calls'[i].stage = "answered",
             calls'[i].answer.code # "lost"
      PROVE  /\ TrueAnswer(calls[i])'
             /\ inStep' /\ route' # "/" => Matching' \/ Sets(calls[i])'
  <2>1. i = c /\ calls[c].stage # "answered" /\ TrueAnswer(calls[c])' /\ (session' = session \/ Sets(calls[c])')
    BY <1>1, <1>2
  <2>2. inStep /\ route # "/" => Matching
    BY <1>1, <1>2, <2>1 DEF StepInv
  <2>3. session' = session /\ Matching => Matching'
    BY DEF Matching
  <2> QED BY <2>1, <2>2, <2>3
<1>3. inStep' /\ route' # "/" /\ Calm' => Matching'
  <2>1. Calm' => session' = session /\ Calm
    BY DEF Calm
  <2> QED BY <2>1 DEF StepInv, Matching
<1> QED BY <1>1, <1>2, <1>3 DEF StepInv

\* An answer that is learned from makes the page show the session.
LEMMA LearnedMatches ==
  ASSUME StepInv, NEW c \in DOMAIN calls, calls[c].stage = "answered", route # "/",
         Sign!Learns(calls[c]), auth' = Sign!AuthAfter(calls[c]), session' = session
  PROVE  Matching'
<1> DEFINE one == calls[c]
<1>1. one \in Calls /\ one.alone /\ one.answer.code # "lost" /\ TrueAnswer(one)
  BY DEF StepInv, SignInInv, CallsOK, Sign!Learns
<1>2. inStep => Matching \/ Sets(one)
  BY <1>1 DEF StepInv
<1>3. /\ inStep \/ Sets(one) \/ one.answer.code = "401"
  BY DEF Sign!Learns, Sets
<1> HIDE DEF one
<1>4. auth' = Sign!AuthAfter(one)
  BY DEF one
<1>5. CASE one.kind = "startup"
  BY <1>1, <1>4, <1>5 DEF Sign!AuthAfter, TrueAnswer, Matching
<1>6. CASE one.kind = "logout"
  BY <1>1, <1>4, <1>6 DEF Sign!AuthAfter, TrueAnswer, Matching
<1>7. CASE one.kind \in {"login", "confirm"} /\ one.answer.ok /\ one.answer.code = "none"
  BY <1>1, <1>4, <1>7 DEF Sign!AuthAfter, TrueAnswer, Matching
<1>8. CASE one.answer.code = "401"
  BY <1>1, <1>4, <1>8 DEF Sign!AuthAfter, TrueAnswer, Matching
<1>9. CASE ~Sets(one) /\ one.answer.code # "401"
  <2>1. Matching
    BY <1>2, <1>3, <1>9
  <2>2. /\ session # "none" => [auth EXCEPT !.user = session] = auth
        /\ [auth EXCEPT !.loading = FALSE] = auth
    <3>1. auth \in Auths /\ auth.loading = FALSE /\ (session # "none" => auth.user = session)
      BY <2>1 DEF Matching, Sign!SignedIn, Sign!SignedOut, StepInv, SignInInv
    <3>2. ASSUME NEW a \in Auths, NEW somebody, a.user = somebody
          PROVE  [a EXCEPT !.user = somebody] = a
      BY <3>2 DEF Auths
    <3>3. ASSUME NEW a \in Auths, a.loading = FALSE PROVE [a EXCEPT !.loading = FALSE] = a
      BY <3>3 DEF Auths
    <3> QED BY <3>1, <3>2, <3>3
  <2>3. one.kind \in {"login", "confirm", "update", "entry"}
    BY <1>1, <1>9 DEF Sets, Calls
  <2>4. one.kind = "update" /\ one.answer.ok => one.answer.user = session /\ session # "none"
    BY <1>1 DEF TrueAnswer
  <2>5. auth' = auth
    <3>1. CASE one.kind = "entry"
      BY <1>4, <3>1 DEF Sign!AuthAfter
    <3>2. CASE one.kind = "update"
      BY <1>4, <1>9, <2>2, <2>4, <3>2 DEF Sign!AuthAfter
    <3>3. CASE one.kind \in {"login", "confirm"}
      BY <1>4, <1>9, <2>2, <3>3 DEF Sign!AuthAfter, Sets
    <3> QED BY <2>3, <3>1, <3>2, <3>3
  <2> QED BY <2>1, <2>5 DEF Matching
<1> QED BY <1>3, <1>5, <1>6, <1>7, <1>8, <1>9 DEF Sets

LEMMA StepStep == ASSUME Sign!SignInAssumption, StepInv, Sign!Next \/ UNCHANGED signInVars PROVE StepInv'
<1>0. SignInInv /\ SignInInv'
  BY SignInStep DEF StepInv
<1>a. auth.user \in Accounts
  BY <1>0 DEF SignInInv, Auths
<1>b. ASSUME NEW c \in DOMAIN calls
      PROVE  calls[c] \in Calls /\ (calls[c].kind = "login" => calls[c].who \in Users)
  BY <1>0 DEF SignInInv, CallsOK
<1>1. ASSUME NEW who \in Users, Sign!SubmitForm(who) PROVE StepInv'
  BY <1>0, <1>1, MadeKeeps DEF Sign!SubmitForm, Sign!Make, Accounts
<1>2. CASE Sign!SubmitCode
  BY <1>0, <1>2, MadeKeeps DEF Sign!SubmitCode, Sign!Make, Accounts
<1>3. CASE Sign!CloseModal
  BY <1>0, <1>3 DEF Sign!CloseModal, StepInv, Calm, Matching, TrueAnswer, Sets
<1>4. CASE Sign!Logout
  BY <1>0, <1>4, MadeKeeps DEF Sign!Logout, Sign!Make, Accounts
<1>5. CASE Sign!SaveProfile
  BY <1>0, <1>a, <1>5, MadeKeeps DEF Sign!SaveProfile, Sign!Make
<1>6. CASE Sign!Enter
  BY <1>0, <1>6, MadeKeeps DEF Sign!Enter, Sign!Make, Accounts
<1>7. ASSUME NEW next \in Sign!Paths, Sign!Navigate(next) PROVE StepInv'
  <2>1. CASE next = "/"
    <3>1. DOMAIN calls' = DOMAIN calls /\ route' = "/" /\ session' = session
      BY <1>7, <2>1 DEF Sign!Navigate, Sign!Orphaned
    <3>2. ASSUME NEW i \in DOMAIN calls
          PROVE  /\ calls'[i].alone = calls[i].alone /\ calls'[i].stage = calls[i].stage
                 /\ calls'[i].kind = calls[i].kind /\ calls'[i].answer = calls[i].answer
      <4> DEFINE p == (calls[i].page /\ calls[i].kind = "entry")
      <4>1. calls'[i] = [calls[i] EXCEPT !.page = p]
        BY <1>7, <2>1 DEF Sign!Navigate, Sign!Orphaned
      <4> HIDE DEF p
      <4> QED BY <1>b, <4>1 DEF Calls
    <3>3. \A i \in DOMAIN calls : TrueAnswer(calls[i]) => TrueAnswer(calls[i])'
      BY <3>1, <3>2 DEF TrueAnswer
    <3> QED BY <1>0, <3>1, <3>2, <3>3 DEF StepInv
  <2>2. CASE next # "/" /\ route = "/"
    <3>1. Sign!Remount /\ UNCHANGED session
      BY <1>7, <2>2 DEF Sign!Navigate, Sign!Arrive
    <3> QED BY <1>0, <3>1, MadeKeeps DEF Sign!Remount, Accounts
  <2>3. CASE next # "/" /\ route # "/"
    <3>1. UNCHANGED <<session, calls, inStep, auth>>
      BY <1>7, <2>3 DEF Sign!Navigate, Sign!Arrive
    <3> QED BY <1>0, <2>3, <3>1 DEF StepInv, Calm, Matching, TrueAnswer, Sets
  <2> QED BY <2>1, <2>2, <2>3
<1>8. ASSUME NEW c \in DOMAIN calls, Sign!CsrfArrives(c) PROVE StepInv'
  <2>1. /\ calls[c].stage = "csrf" /\ calls' = [calls EXCEPT ![c].stage = "sent"]
        /\ UNCHANGED <<session, route, auth, inStep>>
    BY <1>8 DEF Sign!CsrfArrives
  <2>2. calls'[c].alone = calls[c].alone /\ calls'[c].stage = "sent"
    BY <1>b, <2>1 DEF Calls
  <2> QED BY <1>0, <2>1, <2>2, MovedKeeps
<1>9. ASSUME NEW c \in DOMAIN calls, Sign!CsrfFails(c) PROVE StepInv'
  <2>1. calls[c].stage = "csrf" /\ UNCHANGED <<session, route, auth, inStep>>
    BY <1>9 DEF Sign!CsrfFails
  <2>2. CASE calls[c].kind = "startup"
    <3>1. calls' = [calls EXCEPT ![c].stage = "sent"]
      BY <1>9, <2>2 DEF Sign!CsrfFails
    <3>2. calls'[c].alone = calls[c].alone /\ calls'[c].stage = "sent"
      BY <1>b, <3>1 DEF Calls
    <3> QED BY <1>0, <2>1, <3>1, <3>2, MovedKeeps
  <2>3. CASE calls[c].kind # "startup"
    <3>1. calls' = Sign!Without(c)
      BY <1>9, <2>3 DEF Sign!CsrfFails
    <3> QED BY <1>0, <2>1, <3>1, LessKeeps
  <2> QED BY <2>2, <2>3
<1>c. ASSUME NEW c \in DOMAIN calls, NEW answer,
             calls' = [calls EXCEPT ![c].stage = "answered", ![c].answer = answer]
      PROVE  /\ DOMAIN calls' = DOMAIN calls /\ \A i \in DOMAIN calls : i # c => calls'[i] = calls[i]
             /\ calls'[c].alone = calls[c].alone /\ calls'[c].stage = "answered"
             /\ calls'[c].kind = calls[c].kind /\ calls'[c].answer = answer
  BY <1>b, <1>c DEF Calls
<1>10. ASSUME NEW c \in DOMAIN calls, Sign!Handled(c) PROVE StepInv'
  <2> DEFINE one == calls[c]
  <2>1. /\ one.stage = "sent" /\ UNCHANGED <<route, auth, inStep>>
        /\ session \in Accounts /\ challenge \in Accounts /\ "none" \notin Users
    BY <1>0, <1>10 DEF Sign!Handled, SignInInv, Accounts, Sign!SignInAssumption
  <2> DEFINE Good == TrueAnswer(calls[c])' /\ (session' = session \/ Sets(calls[c])')
             Moved == /\ DOMAIN calls' = DOMAIN calls /\ \A i \in DOMAIN calls : i # c => calls'[i] = calls[i]
                      /\ calls'[c].alone = calls[c].alone /\ calls'[c].stage = "answered"
                      /\ calls'[c].kind = calls[c].kind
  <2>2. ASSUME one.kind \in {"startup", "entry"}, session' = session, Sign!Answered(c, session, "none", TRUE)
        PROVE  Good /\ Moved
    <3>1. Moved /\ calls'[c].answer = [ok |-> TRUE, user |-> session, code |-> "none"]
      BY <1>c, <2>2 DEF Sign!Answered
    <3> QED BY <1>b, <2>1, <2>2, <3>1 DEF TrueAnswer, Sets
  <2>3. ASSUME one.kind = "login", session' = session, Sign!Answered(c, "none", "required", TRUE)
        PROVE  Good /\ Moved
    <3>1. Moved /\ calls'[c].answer = [ok |-> TRUE, user |-> "none", code |-> "required"]
      BY <1>c, <2>3 DEF Sign!Answered
    <3> QED BY <1>b, <2>1, <2>3, <3>1 DEF TrueAnswer, Sets
  <2>4. ASSUME one.kind = "login", session' = one.who, Sign!Answered(c, one.who, "none", TRUE)
        PROVE  Good /\ Moved
    <3>1. Moved /\ calls'[c].answer = [ok |-> TRUE, user |-> one.who, code |-> "none"]
      BY <1>c, <2>4 DEF Sign!Answered
    <3> QED BY <1>b, <2>1, <2>4, <3>1 DEF TrueAnswer, Sets
  <2>5. ASSUME one.kind = "confirm", challenge # "none", session' = challenge, Sign!Answered(c, challenge, "none", TRUE)
        PROVE  Good /\ Moved
    <3>1. Moved /\ calls'[c].answer = [ok |-> TRUE, user |-> challenge, code |-> "none"]
      BY <1>c, <2>5 DEF Sign!Answered
    <3> QED BY <1>b, <2>1, <2>5, <3>1 DEF TrueAnswer, Sets
  <2>6. ASSUME one.kind = "logout", session' = "none", Sign!Answered(c, "none", "none", TRUE)
        PROVE  Good /\ Moved
    <3>1. Moved /\ calls'[c].answer = [ok |-> TRUE, user |-> "none", code |-> "none"]
      BY <1>c, <2>6 DEF Sign!Answered
    <3> QED BY <1>b, <2>1, <2>6, <3>1 DEF TrueAnswer, Sets
  <2>7. ASSUME one.kind = "update", session # "none", session' = session, Sign!Answered(c, session, "none", TRUE)
        PROVE  Good /\ Moved
    <3>1. Moved /\ calls'[c].answer = [ok |-> TRUE, user |-> session, code |-> "none"]
      BY <1>c, <2>7 DEF Sign!Answered
    <3> QED BY <1>b, <2>1, <2>7, <3>1 DEF TrueAnswer, Sets
  <2>8. ASSUME one.kind = "update", session = "none", session' = session, Sign!Answered(c, "none", "401", FALSE)
        PROVE  Good /\ Moved
    <3>1. Moved /\ calls'[c].answer = [ok |-> FALSE, user |-> "none", code |-> "401"]
      BY <1>c, <2>8 DEF Sign!Answered
    <3> QED BY <1>b, <2>1, <2>8, <3>1 DEF TrueAnswer, Sets
  <2>9. Good /\ Moved
    <3> HIDE DEF Good, Moved
    <3> QED BY <1>10, <2>2, <2>3, <2>4, <2>5, <2>6, <2>7, <2>8 DEF Sign!Handled
  <2> QED BY <1>0, <2>1, <2>9, MovedKeeps
<1>11. ASSUME NEW c \in DOMAIN calls, Sign!Refused(c) PROVE StepInv'
  <2> DEFINE answer == [ok |-> FALSE, user |-> "none", code |-> "400"]
  <2>1. /\ calls[c].stage = "sent" /\ calls[c].kind \in {"login", "confirm", "update"}
        /\ calls' = [calls EXCEPT ![c].stage = "answered", ![c].answer = answer]
        /\ UNCHANGED <<session, route, auth, inStep>>
    BY <1>11 DEF Sign!Refused, Sign!Answered
  <2>2. calls'[c].kind = calls[c].kind /\ calls'[c].answer = answer
    BY <1>c, <2>1
  <2>3. TrueAnswer(calls[c])'
    BY <2>1, <2>2 DEF TrueAnswer
  <2> HIDE DEF answer
  <2> QED BY <1>0, <1>c, <2>1, <2>3, MovedKeeps
<1>12. ASSUME NEW c \in DOMAIN calls, Sign!Lost(c) PROVE StepInv'
  <2> DEFINE answer == [ok |-> FALSE, user |-> "none", code |-> "lost"]
  <2>1. /\ calls' = [calls EXCEPT ![c].stage = "answered", ![c].answer = answer]
        /\ UNCHANGED <<session, route, auth, inStep>>
    BY <1>12 DEF Sign!Lost
  <2>2. answer.code = "lost"
    OBVIOUS
  <2> HIDE DEF answer
  <2>3. /\ DOMAIN calls' = DOMAIN calls /\ \A i \in DOMAIN calls : i # c => calls'[i] = calls[i]
        /\ calls'[c].alone = calls[c].alone /\ calls'[c].stage = "answered"
        /\ calls'[c].answer.code = "lost"
    BY <1>c, <2>1, <2>2
  <2> QED BY <1>0, <2>1, <2>3, MovedKeeps
<1>13. ASSUME NEW c \in DOMAIN calls, Sign!AnswerArrives(c) PROVE StepInv'
  <2>0. calls[c].stage = "answered" /\ session' = session /\ called \in Nat /\ DOMAIN calls \subseteq 1..called
    BY <1>0, <1>13 DEF Sign!AnswerArrives, SignInInv
  <2>1. CASE calls[c].page /\ route # "/"
    <3>1. /\ calls' = Sign!Without(c) /\ auth' = Sign!AuthAfter(calls[c]) /\ inStep' = Sign!Learns(calls[c])
      BY <1>13, <2>1 DEF Sign!AnswerArrives
    <3>2. inStep' => Matching'
      BY <2>0, <2>1, <3>1, LearnedMatches
    <3> QED BY <1>0, <2>0, <3>1, <3>2, LessKeeps
  <2>2. CASE ~(calls[c].page /\ route # "/") /\ route = "/" /\ route' # "/"
    <3> DEFINE sole == (DOMAIN calls = {c})
               new == [Sign!NewCall("startup", "none") EXCEPT !.alone = sole]
               rest == [i \in (DOMAIN calls \ {c}) \cup {called + 1} |->
                          IF i = called + 1 THEN new ELSE [calls[i] EXCEPT !.alone = FALSE]]
    <3>1. calls' = rest /\ inStep' = FALSE
      BY <1>13, <2>2 DEF Sign!AnswerArrives
    <3>2. new.stage = "csrf" /\ new.alone = sole
      <4> HIDE DEF sole
      <4> QED BY DEF Sign!NewCall
    <3>3. DOMAIN calls' = (DOMAIN calls \ {c}) \cup {called + 1} /\ calls'[called + 1] = new
      BY <3>1
    <3>4. ASSUME NEW i \in DOMAIN calls \ {c} PROVE calls'[i].alone = FALSE
      <4>1. i # called + 1
        BY <2>0
      <4>2. calls'[i] = [calls[i] EXCEPT !.alone = FALSE]
        BY <3>1, <4>1
      <4> QED BY <1>b, <4>2 DEF Calls
    <3>5. ASSUME NEW i \in DOMAIN calls', calls'[i].alone
          PROVE  DOMAIN calls' = {i} /\ calls'[i].stage # "answered"
      BY <3>2, <3>3, <3>4, <3>5
    <3> HIDE DEF rest, new
    <3> QED BY <1>0, <3>1, <3>5 DEF StepInv
  <2>3. CASE ~(calls[c].page /\ route # "/") /\ ~(route = "/" /\ route' # "/")
    <3>1. calls' = Sign!Without(c) /\ inStep' = FALSE
      BY <1>13, <2>3 DEF Sign!AnswerArrives
    <3> QED BY <1>0, <2>0, <3>1, LessKeeps
  <2> QED BY <2>1, <2>2, <2>3
<1>14. CASE Sign!SessionEnds
  <2>1. inStep' = FALSE /\ DOMAIN calls' = DOMAIN calls
        /\ \A i \in DOMAIN calls : calls'[i] = [calls[i] EXCEPT !.alone = FALSE]
    BY <1>14 DEF Sign!SessionEnds
  <2>2. \A i \in DOMAIN calls : calls'[i].alone = FALSE
    BY <1>b, <2>1 DEF Calls
  <2> QED BY <1>0, <2>1, <2>2 DEF StepInv
<1>15. CASE UNCHANGED signInVars
  BY <1>0, <1>15 DEF signInVars, StepInv, Calm, Matching, TrueAnswer, Sets
<1> QED
  BY <1>1, <1>2, <1>3, <1>4, <1>5, <1>6, <1>7, <1>8, <1>9, <1>10, <1>11, <1>12, <1>13, <1>14,
     <1>15 DEF Sign!Next

LEMMA StepIs == ASSUME StepInv PROVE Sign!InStep
BY DEF StepInv, Sign!InStep, Calm, Matching

-----------------------------------------------------------------------------
(* What was typed and what opens an account                                 *)

Texts == Sign!Text(Names \cup Words \cup {"name"})
Records == [text : Texts, by : {"nobody", "register", "change"}]

\* The server keeps what was last typed twice, trimmed by a registration.
AccountInv ==
  /\ typed \in [Sign!Fields -> Texts]
  /\ accounts \in [Names -> Texts] /\ toldOf \in [Names -> Records]
  /\ \A n \in Names : accounts[n] # Sign!NoText =>
        accounts[n] = IF toldOf[n].by = "register" THEN Sign!Trimmed(toldOf[n].text) ELSE toldOf[n].text

LEMMA TextsAre ==
  /\ Sign!NoText \in Texts
  /\ \A t \in Texts : Sign!Trimmed(t) \in Texts
  /\ \A cores : cores \subseteq Names \cup Words \cup {"name"} => Sign!Text(cores) \subseteq Texts
<1>1. ASSUME NEW t \in Texts PROVE Sign!Trimmed(t) \in Texts
  BY DEF Texts, Sign!Text, Sign!Trimmed
<1>2. ASSUME NEW cores, cores \subseteq Names \cup Words \cup {"name"} PROVE Sign!Text(cores) \subseteq Texts
  BY <1>2 DEF Texts, Sign!Text
<1>3. Sign!NoText \in Texts
  BY DEF Texts, Sign!Text, Sign!NoText
<1> QED BY <1>1, <1>2, <1>3

LEMMA AccountInit == ASSUME Sign!AccountInit PROVE AccountInv
<1>1. Sign!NobodyTold \in Records
  BY TextsAre DEF Sign!NobodyTold, Records
<1> QED BY <1>1, TextsAre DEF Sign!AccountInit, AccountInv

LEMMA AccountStep == ASSUME AccountInv, Sign!AccountNext \/ UNCHANGED accountVars PROVE AccountInv'
<1>1. ASSUME NEW m, Sign!ShowForm(m) PROVE AccountInv'
  BY <1>1, TextsAre DEF Sign!ShowForm, AccountInv
<1>2. ASSUME NEW f \in Sign!Fields,
             NEW t \in Sign!Text(IF f = "identifier" /\ form # "password" THEN Names
                                 ELSE IF f = "name" THEN {"name"} ELSE Words),
             Sign!Type(f, t)
      PROVE  AccountInv'
  <2>1. t \in Texts
    BY TextsAre
  <2> QED BY <1>2, <2>1 DEF Sign!Type, AccountInv
<1>3. ASSUME NEW n, NEW password \in Texts, NEW written \in Records,
             UNCHANGED typed \/ typed' = [f \in Sign!Fields |-> Sign!NoText],
             accounts' = [accounts EXCEPT ![n] = password], toldOf' = [toldOf EXCEPT ![n] = written],
             password = IF written.by = "register" THEN Sign!Trimmed(written.text) ELSE written.text
      PROVE  AccountInv'
  <2>1. typed' \in [Sign!Fields -> Texts]
    BY <1>3, TextsAre DEF AccountInv
  <2>2. accounts' \in [Names -> Texts] /\ toldOf' \in [Names -> Records]
    BY <1>3 DEF AccountInv
  <2>3. ASSUME NEW m \in Names, accounts'[m] # Sign!NoText
        PROVE  accounts'[m] = IF toldOf'[m].by = "register" THEN Sign!Trimmed(toldOf'[m].text)
                              ELSE toldOf'[m].text
    <3>1. CASE m = n
      <4>1. accounts'[m] = password /\ toldOf'[m] = written
        BY <1>3, <3>1 DEF AccountInv
      <4> QED BY <1>3, <4>1
    <3>2. CASE m # n
      <4>1. accounts'[m] = accounts[m] /\ toldOf'[m] = toldOf[m]
        BY <1>3, <3>2 DEF AccountInv
      <4> QED BY <2>3, <4>1 DEF AccountInv
    <3> QED BY <3>1, <3>2
  <2> QED BY <2>1, <2>2, <2>3 DEF AccountInv
<1>4. \A f \in {"identifier", "password", "confirm"} : typed[f] \in Texts
  BY DEF AccountInv, Sign!Fields
<1>5. CASE Sign!Register
  <2> DEFINE written == [text |-> typed["password"], by |-> "register"]
  <2>1. written \in Records /\ written.by = "register" /\ written.text = typed["password"]
    BY <1>4 DEF Records
  <2>2. Sign!Trimmed(typed["password"]) \in Texts
    BY <1>4, TextsAre
  <2>3. /\ accounts' = [accounts EXCEPT ![typed["identifier"].core] = Sign!Trimmed(typed["password"])]
        /\ toldOf' = [toldOf EXCEPT ![typed["identifier"].core] = written] /\ UNCHANGED typed
    BY <1>5 DEF Sign!Register, Sign!RegisteredPassword
  <2> HIDE DEF written
  <2> QED BY <1>3, <2>1, <2>2, <2>3
<1>6. CASE Sign!ChangePassword
  <2> DEFINE written == [text |-> typed["confirm"], by |-> "change"]
  <2>1. written \in Records /\ written.by = "change" /\ written.text = typed["confirm"]
    BY <1>4 DEF Records
  <2>2. /\ accounts' = [accounts EXCEPT ![owner] = typed["password"]]
        /\ toldOf' = [toldOf EXCEPT ![owner] = written] /\ typed' = [f \in Sign!Fields |-> Sign!NoText]
        /\ typed["password"] = typed["confirm"]
    BY <1>6 DEF Sign!ChangePassword
  <2> HIDE DEF written
  <2> QED BY <1>3, <1>4, <2>1, <2>2
<1>7. CASE Sign!LogIn
  BY <1>7 DEF Sign!LogIn, AccountInv
<1>8. CASE Sign!LogOut
  BY <1>8, TextsAre DEF Sign!LogOut, AccountInv
<1>9. CASE UNCHANGED accountVars
  BY <1>9 DEF accountVars, AccountInv
<1> QED BY <1>1, <1>2, <1>5, <1>6, <1>7, <1>8, <1>9 DEF Sign!AccountNext

LEMMA AccountIs == ASSUME AccountInv PROVE Sign!WhatWasTypedOpens
<1> SUFFICES ASSUME NEW n \in Names, accounts[n] # Sign!NoText
             PROVE  /\ ~(toldOf[n].by = "register" /\ toldOf[n].text.dressed) => Sign!Opens(n, toldOf[n].text)
                    /\ \A t \in Sign!Text(Words) : Sign!Opens(n, t) => Sign!Trimmed(t) = Sign!Trimmed(toldOf[n].text)
  BY DEF Sign!WhatWasTypedOpens
<1> DEFINE text == toldOf[n].text
<1>1. /\ text \in Texts
      /\ accounts[n] = IF toldOf[n].by = "register" THEN Sign!Trimmed(text) ELSE text
  BY DEF AccountInv, Records
<1> HIDE DEF text
<1>2. Sign!Trimmed(Sign!Trimmed(text)) = Sign!Trimmed(text)
  BY <1>1 DEF Texts, Sign!Text, Sign!Trimmed
<1>3. ~text.dressed => Sign!Trimmed(text) = text
  BY <1>1 DEF Texts, Sign!Text, Sign!Trimmed
<1>4. ~(toldOf[n].by = "register" /\ text.dressed) => Sign!Opens(n, text)
  BY <1>1, <1>3 DEF Sign!Opens, Sign!LoginPassword
<1>5. \A t \in Sign!Text(Words) : Sign!Opens(n, t) => Sign!Trimmed(t) = Sign!Trimmed(text)
  BY <1>1, <1>2 DEF Sign!Opens, Sign!LoginPassword
<1> QED BY <1>4, <1>5 DEF text

-----------------------------------------------------------------------------
(* The two-factor section: what each request under way can still say        *)

Tries == [id : Nat, kind : {"read", "begin", "confirm", "disable"}, state : {"sent", "answered"},
          reply : {"none", "refused", "on", "off"}]
Shows == security = IF enabled THEN "on" ELSE "off"

\* One key is asked for at a time, and its answer names the key the server holds
\* until it holds none; while answers come in order the section is behind by the one
\* that is under way at most.
SecurityInv ==
  /\ tries \subseteq Tries /\ enabled \in BOOLEAN /\ preparing \in BOOLEAN
  /\ \A t \in tries : t.state = "sent" => t.reply = "none"
  /\ \A s, t \in tries : s.kind = "begin" /\ t.kind = "begin" => s = t
  /\ \A t \in tries : t.kind = "begin" => preparing
  /\ \A t \in tries : t.kind = "begin" /\ t.state = "answered" /\ t.reply # "refused" =>
        enabled \/ key = t.id \/ key = 0
  /\ Own!CodeFitsTheKey
  /\ securityKnown => \A s, t \in tries : s = t
  /\ securityKnown /\ tries = {} => Shows
  /\ securityKnown => \A t \in tries :
        CASE t.state = "sent" -> t.kind = "read" \/ Shows
          [] OTHER -> IF t.reply = "refused" \/ t.kind = "begin" THEN Shows
                      ELSE t.reply = IF enabled THEN "on" ELSE "off"

LEMMA SecurityInit == ASSUME Own!Init PROVE SecurityInv
<1> DEFINE one == [id |-> 1, kind |-> "read", state |-> "sent", reply |-> "none"]
<1>1. one \in Tries /\ one.kind = "read" /\ one.state = "sent" /\ one.reply = "none"
  BY DEF Tries
<1>2. tries = {one} /\ dialog = "none" /\ enabled \in BOOLEAN /\ preparing = FALSE
  BY DEF Own!Init
<1> HIDE DEF one
<1> QED BY <1>1, <1>2 DEF SecurityInv, Own!CodeFitsTheKey

\* One more request.
LEMMA AskKeeps ==
  ASSUME SecurityInv, NEW kind \in {"begin", "confirm", "disable"}, tried \in Nat, Own!Ask(kind),
         UNCHANGED <<security, enabled, key>>, preparing' \in BOOLEAN,
         kind = "begin" => ~preparing /\ preparing',
         kind # "begin" => ~preparing /\ UNCHANGED <<preparing, setup>> /\ dialog' = dialog
  PROVE  SecurityInv'
<1> DEFINE one == [id |-> tried + 1, kind |-> kind, state |-> "sent", reply |-> "none"]
<1>1. one \in Tries /\ one.kind = kind /\ one.state = "sent" /\ one.reply = "none"
  BY DEF Tries
<1>2. tries' = tries \cup {one} /\ securityKnown' = (securityKnown /\ tries = {})
  BY DEF Own!Ask
<1> HIDE DEF one
<1>3. \A t \in tries : t.kind # "begin"
  BY DEF SecurityInv
<1>4. Own!CodeFitsTheKey'
  BY DEF SecurityInv, Own!CodeFitsTheKey
<1>5. securityKnown' => tries' = {one} /\ Shows /\ Shows'
  BY <1>2 DEF SecurityInv, Shows
<1> QED BY <1>1, <1>2, <1>3, <1>4, <1>5 DEF SecurityInv

LEMMA SecurityStep ==
  ASSUME SecurityInv, tried \in Nat, Own!SecurityNext \/ UNCHANGED securityVars
  PROVE  SecurityInv'
<1>1. CASE Own!OpenTwoFactor
  <2>1. CASE security = "on"
    <3>1. dialog' = "disable" /\ UNCHANGED <<preparing, tries, securityKnown, security, enabled, key>>
      BY <1>1, <2>1 DEF Own!OpenTwoFactor
    <3> QED BY <3>1 DEF SecurityInv, Own!CodeFitsTheKey, Shows
  <2>2. CASE security # "on"
    BY <1>1, <2>2, AskKeeps DEF Own!OpenTwoFactor
  <2> QED BY <2>1, <2>2
<1>2. CASE Own!CloseTwoFactor
  BY <1>2 DEF Own!CloseTwoFactor, SecurityInv, Own!CodeFitsTheKey, Shows
<1>3. CASE Own!SubmitCode
  <2>1. PICK kind \in {"confirm", "disable"} : Own!Ask(kind)
    BY <1>3 DEF Own!SubmitCode
  <2>2. ~preparing /\ UNCHANGED <<security, dialog, setup, preparing, enabled, key>> /\ preparing' \in BOOLEAN
    BY <1>3 DEF Own!SubmitCode, SecurityInv
  <2> QED BY <2>1, <2>2, AskKeeps
<1>4. ASSUME NEW t \in tries, NEW right \in BOOLEAN, Own!Handled(t, right) PROVE SecurityInv'
  <2> DEFINE reply == IF \/ t.kind \in {"begin", "confirm"} /\ enabled
                         \/ t.kind = "confirm" /\ ~(right /\ key # 0)
                         \/ t.kind = "disable" /\ enabled /\ ~right
                      THEN "refused" ELSE IF enabled' THEN "on" ELSE "off"
             one == [t EXCEPT !.state = "answered", !.reply = reply]
  <2>1. t \in Tries /\ t.state = "sent" /\ tries' = (tries \ {t}) \cup {one}
    BY <1>4 DEF Own!Handled, SecurityInv
  <2>2. reply \in {"refused", "on", "off"}
    OBVIOUS
  <2>3. /\ one \in Tries /\ one.kind = t.kind /\ one.state = "answered" /\ one.reply = reply
        /\ one.id = t.id
    <3> HIDE DEF reply
    <3> QED BY <2>1, <2>2 DEF Tries
  <2> HIDE DEF one
  <2>4. UNCHANGED <<security, dialog, setup, preparing, securityKnown>>
    BY <1>4 DEF Own!Handled
  <2>5. /\ enabled' \in BOOLEAN
        /\ t.kind = "begin" => enabled' = enabled /\ key' = IF enabled THEN key ELSE t.id
        /\ t.kind # "begin" => key' = key \/ key' = 0
        /\ enabled /\ ~enabled' => key' = 0
        /\ reply = "refused" => enabled' = enabled /\ key' = key
        /\ t.kind = "read" => enabled' = enabled
    BY <1>4, <2>1 DEF Own!Handled, SecurityInv, Tries
  <2>6. reply # "refused" => reply = IF enabled' THEN "on" ELSE "off"
    OBVIOUS
  <2>7. t.kind = "begin" /\ reply # "refused" => ~enabled
    OBVIOUS
  <2>8. t.kind = "read" => reply # "refused"
    OBVIOUS
  <2> HIDE DEF reply
  <2>9. Own!CodeFitsTheKey'
    <3>1. CASE t.kind = "begin"
      BY <2>4, <3>1 DEF SecurityInv, Own!CodeFitsTheKey
    <3>2. CASE t.kind # "begin"
      BY <2>4, <2>5, <3>2 DEF SecurityInv, Own!CodeFitsTheKey
    <3> QED BY <3>1, <3>2
  <2>10. ASSUME NEW s \in tries', s.kind = "begin", s.state = "answered", s.reply # "refused"
         PROVE  enabled' \/ key' = s.id \/ key' = 0
    <3>1. CASE s = one
      BY <2>3, <2>5, <2>7, <2>10, <3>1
    <3>2. CASE s # one
      <4>1. s \in tries /\ s # t /\ t.kind # "begin"
        BY <2>1, <2>10, <3>2 DEF SecurityInv
      <4> QED BY <2>5, <2>10, <4>1 DEF SecurityInv
    <3> QED BY <3>1, <3>2
  <2>11. \A r, s \in tries' : r.kind = "begin" /\ s.kind = "begin" => r = s
    BY <2>1, <2>3 DEF SecurityInv
  <2>12. \A s \in tries' : s.kind = "begin" => preparing'
    BY <2>1, <2>3, <2>4 DEF SecurityInv
  <2>13. securityKnown' => tries' = {one}
    BY <2>1, <2>4 DEF SecurityInv
  <2>14. securityKnown' =>
           IF one.reply = "refused" \/ one.kind = "begin" THEN Shows'
           ELSE one.reply = IF enabled' THEN "on" ELSE "off"
    <3> SUFFICES ASSUME securityKnown' PROVE IF one.reply = "refused" \/ one.kind = "begin" THEN Shows'
                                             ELSE one.reply = IF enabled' THEN "on" ELSE "off"
      OBVIOUS
    <3>1. t.kind = "read" \/ Shows
      BY <2>1, <2>4 DEF SecurityInv
    <3>2. CASE one.reply = "refused" \/ one.kind = "begin"
      <4>1. Shows /\ enabled' = enabled
        BY <2>3, <2>5, <2>8, <3>1, <3>2
      <4> QED BY <2>4, <3>2, <4>1 DEF Shows
    <3>3. CASE ~(one.reply = "refused" \/ one.kind = "begin")
      BY <2>3, <2>6, <3>3
    <3> QED BY <3>2, <3>3
  <2>15. tries' \subseteq Tries /\ preparing' \in BOOLEAN /\ tries' # {}
    BY <2>1, <2>3, <2>4 DEF SecurityInv
  <2>16. \A s \in tries' : s.state = "sent" => s.reply = "none"
    BY <2>1, <2>3 DEF SecurityInv
  <2> QED BY <2>3, <2>5, <2>9, <2>10, <2>11, <2>12, <2>13, <2>14, <2>15, <2>16 DEF SecurityInv
<1>5. ASSUME NEW t \in tries, Own!Arrives(t) PROVE SecurityInv'
  <2>1. /\ t \in Tries /\ t.state = "answered" /\ t.reply # "refused" /\ tries' = tries \ {t}
        /\ UNCHANGED <<enabled, key, securityKnown>>
    BY <1>5 DEF Own!Arrives, SecurityInv
  <2>2. CASE t.kind = "begin"
    <3>1. setup' = t.id /\ preparing' = FALSE /\ UNCHANGED <<security, dialog>>
      BY <1>5, <2>2 DEF Own!Arrives
    <3>2. \A s \in tries' : s.kind # "begin"
      BY <2>1, <2>2 DEF SecurityInv
    <3>3. Own!CodeFitsTheKey'
      BY <2>1, <2>2, <3>1 DEF SecurityInv, Own!CodeFitsTheKey
    <3>4. securityKnown' => tries' = {} /\ Shows'
      BY <2>1, <2>2, <3>1 DEF SecurityInv, Shows
    <3> QED BY <2>1, <3>1, <3>2, <3>3, <3>4 DEF SecurityInv
  <2>3. CASE t.kind # "begin"
    <3>1. security' = t.reply /\ (dialog' = "none" \/ dialog' = dialog) /\ UNCHANGED <<setup, preparing>>
      BY <1>5, <2>3 DEF Own!Arrives
    <3>2. Own!CodeFitsTheKey'
      BY <2>1, <3>1 DEF SecurityInv, Own!CodeFitsTheKey
    <3>3. securityKnown' => tries' = {} /\ Shows'
      BY <2>1, <2>3, <3>1 DEF SecurityInv, Shows
    <3> QED BY <2>1, <3>1, <3>2, <3>3 DEF SecurityInv
  <2> QED BY <2>2, <2>3
<1>6. ASSUME NEW t \in tries, Own!TryFails(t) PROVE SecurityInv'
  <2>1. /\ t \in Tries /\ tries' = tries \ {t} /\ UNCHANGED <<security, setup, enabled, key>>
        /\ securityKnown' = (securityKnown /\ t.reply = "refused")
    BY <1>6 DEF Own!TryFails, SecurityInv
  <2>2. IF t.kind = "begin" THEN dialog' = "none" /\ preparing' = FALSE ELSE UNCHANGED <<dialog, preparing>>
    BY <1>6 DEF Own!TryFails
  <2>3. Own!CodeFitsTheKey'
    BY <2>1, <2>2 DEF SecurityInv, Own!CodeFitsTheKey
  <2>4. securityKnown' => tries' = {} /\ Shows'
    <3> SUFFICES ASSUME securityKnown' PROVE tries' = {} /\ Shows'
      OBVIOUS
    <3>1. securityKnown /\ t.reply = "refused" /\ tries = {t}
      BY <2>1 DEF SecurityInv
    <3>2. t.state = "answered"
      BY <2>1, <3>1 DEF SecurityInv, Tries
    <3>3. Shows
      BY <3>1, <3>2 DEF SecurityInv
    <3> QED BY <2>1, <3>1, <3>3 DEF Shows
  <2>5. preparing' \in BOOLEAN /\ \A s \in tries' : s.kind = "begin" => preparing'
    BY <2>1, <2>2 DEF SecurityInv
  <2>6. /\ tries' \subseteq Tries /\ enabled' \in BOOLEAN
        /\ \A s \in tries' : s.state = "sent" => s.reply = "none"
        /\ \A r, s \in tries' : r.kind = "begin" /\ s.kind = "begin" => r = s
        /\ \A s \in tries' : s.kind = "begin" /\ s.state = "answered" /\ s.reply # "refused" =>
              enabled' \/ key' = s.id \/ key' = 0
    BY <2>1 DEF SecurityInv
  <2> QED BY <2>3, <2>4, <2>5, <2>6 DEF SecurityInv
<1>7. CASE UNCHANGED securityVars
  BY <1>7 DEF securityVars, SecurityInv, Own!CodeFitsTheKey, Shows
<1> QED BY <1>1, <1>2, <1>3, <1>4, <1>5, <1>6, <1>7 DEF Own!SecurityNext

LEMMA SecurityIs == ASSUME SecurityInv PROVE Own!CodeFitsTheKey /\ Own!SecurityIsShown
BY DEF SecurityInv, Own!SecurityIsShown, Shows

-----------------------------------------------------------------------------
(* Who is online: the socket's user, and the guest's session                *)

\* One request for a guest session is awaited at most, and it is awaited while it is
\* needed and was not refused.
Awaited == {a \in asks : a.active}
OnlineInv ==
  /\ ready \in BOOLEAN /\ guest \in BOOLEAN /\ \A a \in asks : "active" \in DOMAIN a
  /\ link # "none" => link = Online!Identity(user, ready, guest)
  /\ Online!Needed(user, ready, guest) => refused \/ \E a \in Awaited : Awaited = {a}

LEMMA OnlineInit == ASSUME Online!OnlineInit PROVE OnlineInv
BY DEF Online!OnlineInit, Online!None, Online!Needed, OnlineInv

LEMMA RenderKeeps ==
  ASSUME OnlineInv, NEW u, NEW r \in BOOLEAN, NEW g \in BOOLEAN, NEW others, others \subseteq asks,
         Online!Render(u, r, g, others),
         u # user \/ r # ready \/ g
  PROVE  OnlineInv'
<1> DEFINE new == u # user
           had == IF new THEN FALSE ELSE g
           again == Online!Needed(u, r, had) /\ (new \/ ~Online!Needed(user, ready, guest))
           number == CHOOSE i \in 1..MaxAsks : \A a \in others : a.id # i
           one == [id |-> number, active |-> TRUE]
<1>1. had \in BOOLEAN
  BY Zenon
<1>2. user' = u /\ ready' = r /\ guest' = had /\ link' = IF link = Online!Identity(u, r, had) THEN link ELSE Online!None
  BY DEF Online!Render
<1>3. Online!Needed(u, r, had) => again
  BY DEF Online!Needed
<1>4. again => asks' = {[a EXCEPT !.active = @ /\ Online!Needed(u, r, had) /\ ~again] : a \in others} \cup {one}
  BY DEF Online!Render
<1>5. one.active = TRUE /\ "active" \in DOMAIN one
  OBVIOUS
<1>9. asks' = {[a EXCEPT !.active = @ /\ Online!Needed(u, r, had) /\ ~again] : a \in others}
              \cup (IF again THEN {one} ELSE {})
  BY DEF Online!Render
<1> HIDE DEF one, number, again
<1>10. \A a \in asks' : "active" \in DOMAIN a
  BY <1>5, <1>9 DEF OnlineInv
<1>6. ASSUME Online!Needed(u, r, had) PROVE Awaited' = {one}
  <2>1. \A a \in others : [a EXCEPT !.active = @ /\ Online!Needed(u, r, had) /\ ~again].active = FALSE
    BY <1>3, <1>6 DEF OnlineInv
  <2> QED BY <1>3, <1>4, <1>5, <1>6, <2>1 DEF Awaited
<1>7. Online!Needed(user', ready', guest') => \E a \in Awaited' : Awaited' = {a}
  BY <1>2, <1>6
<1>8. link' # "none" => link' = Online!Identity(user', ready', guest')
  BY <1>2 DEF Online!None
<1> QED BY <1>1, <1>2, <1>7, <1>8, <1>10 DEF OnlineInv

LEMMA OnlineStep ==
  ASSUME OnlineInv, Online!OnlineNext \/ UNCHANGED onlineVars
  PROVE  OnlineInv'
<1>1. ASSUME NEW u \in Users \cup {"none"}, Online!UserBecomes(u) PROVE OnlineInv'
  <2>1. u # user /\ Online!Render(u, ready, guest, asks)
    BY <1>1 DEF Online!UserBecomes
  <2> QED BY <2>1, RenderKeeps DEF OnlineInv
<1>2. ASSUME NEW r \in BOOLEAN, Online!ReadyBecomes(r) PROVE OnlineInv'
  <2>1. r # ready /\ Online!Render(user, r, guest, asks)
    BY <1>2 DEF Online!ReadyBecomes
  <2> QED BY <2>1, RenderKeeps DEF OnlineInv
<1>3. ASSUME NEW a \in asks, Online!GuestSession(a) PROVE OnlineInv'
  <2>1. CASE a.active
    <3>1. Online!Render(user, ready, TRUE, asks \ {a}) /\ asks \ {a} \subseteq asks
      BY <1>3, <2>1 DEF Online!GuestSession
    <3> QED BY <3>1, RenderKeeps DEF OnlineInv
  <2>2. CASE ~a.active
    <3>1. asks' = asks \ {a} /\ UNCHANGED <<user, ready, guest, link, refused>>
      BY <1>3, <2>2 DEF Online!GuestSession
    <3>2. Awaited' = Awaited
      BY <2>2, <3>1 DEF Awaited
    <3> QED BY <3>1, <3>2 DEF OnlineInv
  <2> QED BY <2>1, <2>2
<1>4. ASSUME NEW a \in asks, Online!GuestRefused(a) PROVE OnlineInv'
  <2>1. /\ asks' = asks \ {a} /\ UNCHANGED <<user, ready, guest, link>>
        /\ refused' = (refused \/ a.active)
    BY <1>4 DEF Online!GuestRefused
  <2>2. CASE a.active
    BY <2>1, <2>2 DEF OnlineInv
  <2>3. CASE ~a.active
    <3>1. Awaited' = Awaited
      BY <2>1, <2>3 DEF Awaited
    <3> QED BY <2>1, <2>3, <3>1 DEF OnlineInv
  <2> QED BY <2>2, <2>3
<1>5. CASE Online!Connect
  BY <1>5 DEF Online!Connect, OnlineInv, Awaited
<1>6. ASSUME Online!FaceChanges \/ Online!Drop \/ UNCHANGED onlineVars PROVE OnlineInv'
  BY <1>6 DEF Online!FaceChanges, Online!Drop, Online!None, OnlineInv, Awaited, onlineVars
<1>7. ASSUME NEW names \in SUBSET Users, NEW age \in 0..MaxFaces, NEW n \in {0, 1},
             Online!Frame(names, age, n)
      PROVE  OnlineInv'
  BY <1>7 DEF Online!Frame, OnlineInv, Awaited
<1> QED BY <1>1, <1>2, <1>3, <1>4, <1>5, <1>6, <1>7 DEF Online!OnlineNext, Online!None

LEMMA OnlineIs == ASSUME OnlineInv PROVE Online!GuestIsConnecting /\ Online!ListIsOfTheUser
<1>1. Online!GuestIsConnecting
  <2>1. (\E a \in Awaited : Awaited = {a}) => Cardinality(Awaited) = 1
    BY FS_Singleton
  <2>2. Online!Needed(user, ready, guest) => refused \/ Cardinality(Awaited) = 1
    BY <2>1 DEF OnlineInv
  <2>3. Awaited = {a \in asks : a.active}
    BY DEF Awaited
  <2> QED BY <2>2, <2>3 DEF Online!GuestIsConnecting, Online!Cardinality, Cardinality
<1>2. user = Online!None => DOMAIN Online!VisibleOnline = {}
  BY DEF Online!VisibleOnline, Online!None
<1>3. user \in DOMAIN Online!VisibleOnline => Online!VisibleOnline[user] = face
  BY DEF Online!VisibleOnline, Online!None
<1>4. link # Online!None => link = Online!Identity(user, ready, guest)
  BY DEF OnlineInv, Online!None
<1> QED BY <1>1, <1>2, <1>3, <1>4 DEF Online!ListIsOfTheUser

-----------------------------------------------------------------------------
(* One machine moves                                                        *)

\* A step of the page is a step of one machine: to each of them it is a step of its own
\* or nothing.
LEMMA OneMachineMoves ==
  ASSUME [MCNext]_allVars
  PROVE  /\ Sign!Next \/ UNCHANGED signInVars
         /\ Sign!AccountNext \/ UNCHANGED accountVars
         /\ Copies!Next \/ UNCHANGED cacheVars
         /\ Lookups!Next \/ UNCHANGED lookupVars
         /\ Group!Next \/ UNCHANGED groupVars
         /\ Own!SecurityNext \/ UNCHANGED securityVars
         /\ Others!FriendsNext \/ Others!PanelNext \/ UNCHANGED relationVars
         /\ Others!ChatNext \/ UNCHANGED chatVars
         /\ Online!OnlineNext \/ UNCHANGED onlineVars
         /\ Frame!FrameNext \/ UNCHANGED frameVars
         /\ Frame!ListNext \/ UNCHANGED listVars
<1>1. CASE MCNext
  BY <1>1 DEF MCNext
<1>2. CASE UNCHANGED allVars
  BY <1>2 DEF allVars
<1> QED BY <1>1, <1>2

-----------------------------------------------------------------------------
(* Who is signed in                                                         *)

SessionInv ==
  /\ StepInv /\ AccountInv /\ SecurityInv /\ OnlineInv
  /\ tried \in Nat

LEMMA SessionInit == MCInit => SessionInv
<1> SUFFICES ASSUME MCInit PROVE SessionInv
  OBVIOUS
<1>1. Sign!Init /\ Sign!AccountInit /\ Own!Init /\ Online!OnlineInit
  BY DEF MCInit
<1>2. tried \in Nat
  BY <1>1 DEF Own!Init
<1> QED BY <1>1, <1>2, SignInConstants, StepInit, AccountInit, SecurityInit, OnlineInit DEF SessionInv

LEMMA SessionStep == SessionInv /\ [MCNext]_allVars => SessionInv'
<1> SUFFICES ASSUME SessionInv, [MCNext]_allVars PROVE SessionInv'
  OBVIOUS
<1>1. StepInv' /\ AccountInv'
  BY SignInConstants, OneMachineMoves, StepStep, AccountStep DEF SessionInv
<1>2. SecurityInv' /\ OnlineInv'
  BY OneMachineMoves, SecurityStep, OnlineStep DEF SessionInv
<1>3. tried' \in Nat
  <2>1. tried' \in {tried, tried + 1}
    <3>1. Own!SecurityNext \/ UNCHANGED securityVars
      BY OneMachineMoves
    <3> QED
      BY <3>1 DEF securityVars, Own!SecurityNext, Own!OpenTwoFactor, Own!CloseTwoFactor,
                  Own!SubmitCode, Own!Ask, Own!Handled, Own!Arrives, Own!TryFails
  <2> QED BY <2>1 DEF SessionInv
<1> QED BY <1>1, <1>2, <1>3 DEF SessionInv

\* Whatever order sign-in, its second factor, logout, profile and start-up answer in, the
\* page shows the session once nothing is under way; what was typed last opens the account;
\* a code is submitted for the key the server holds, or for none; the socket is connected
\* as the user or guest of the page, and a guest has his session or awaits one answer.
THEOREM SessionTheorem == MCSpec => []SessionHolds
<1>1. SessionInv => SessionHolds
  BY StepIs, AccountIs, SecurityIs, OnlineIs DEF SessionInv, SessionHolds
<1> QED BY <1>1, SessionInit, SessionStep, PTL DEF MCSpec

-----------------------------------------------------------------------------
(* Steps                                                                    *)

Fields == {"of", "seen"}

\* The relation the panel shows once it has come is of the person shown, and what is
\* still loaded is; a drawer is open on a narrow screen, a panel shows something.
StepsInv ==
  /\ run # <<>> => Fields \subseteq DOMAIN run /\ run.of = person
  /\ ~reloading => foreign \/ relation.of = person
  /\ drawer => mobile
  /\ panel \in [open : BOOLEAN, content : {"none", "group", "profile"}]
  /\ panel.open => panel.content # "none"

LEMMA StepsInit == MCInit => StepsInv
<1> SUFFICES ASSUME MCInit PROVE StepsInv
  OBVIOUS
<1>1. Others!RelationInit /\ Frame!FrameInit
  BY DEF MCInit
<1>2. run = <<>> /\ relation.of = person /\ drawer = FALSE
  BY <1>1 DEF Others!RelationInit, Others!None, Frame!FrameInit
<1>3. panel \in [open : BOOLEAN, content : {"none", "group", "profile"}] /\ ~panel.open
  BY <1>1 DEF Frame!FrameInit, Frame!Closed, Frame!None
<1> QED BY <1>2, <1>3 DEF StepsInv

\* Who is loaded stays who is loaded, whatever else becomes known of him.
LEMMA BecomesKeeps ==
  ASSUME StepsInv, NEW p, NEW state, Others!Becomes(p, state), person' = person
  PROVE  run' # <<>> => Fields \subseteq DOMAIN run' /\ run'.of = person'
<1>1. CASE run # <<>> /\ run.of = p
  <2>1. run' = [run EXCEPT !.seen = @ \cup {state}]
    BY <1>1 DEF Others!Becomes, Others!None
  <2> QED BY <1>1, <2>1 DEF StepsInv, Fields
<1>2. CASE ~(run # <<>> /\ run.of = p)
  BY <1>2 DEF Others!Becomes, Others!None, StepsInv
<1> QED BY <1>1, <1>2

LEMMA RelationMoves ==
  ASSUME StepsInv, Others!FriendsNext \/ Others!PanelNext \/ UNCHANGED relationVars
  PROVE  /\ run' # <<>> => Fields \subseteq DOMAIN run' /\ run'.of = person'
         /\ ~reloading' => foreign' \/ relation'.of = person'
         /\ action = <<>> /\ action' # <<>> => foreign \/ action'.target = person
<1> DEFINE Goal == /\ run' # <<>> => Fields \subseteq DOMAIN run' /\ run'.of = person'
                   /\ ~reloading' => foreign' \/ relation'.of = person'
                   /\ action = <<>> /\ action' # <<>> => foreign \/ action'.target = person
<1>1. ASSUME NEW p \in Persons, Others!TheyAct(p) PROVE Goal
  <2>1. \E state \in Others!Theirs(rel[p]) : Others!Becomes(p, state)
    BY <1>1 DEF Others!TheyAct
  <2>2. UNCHANGED <<person, relation, reloading, foreign>> /\ (action = <<>> => action' = action)
    BY <1>1 DEF Others!TheyAct, Others!None
  <2>3. run' # <<>> => Fields \subseteq DOMAIN run' /\ run'.of = person'
    BY <2>1, <2>2, BecomesKeeps
  <2> QED BY <2>2, <2>3 DEF StepsInv
<1>2. ASSUME NEW p \in Persons, NEW k \in Others!Kinds, Others!FriendAct(p, k) PROVE Goal
  BY <1>2 DEF Others!FriendAct, Others!panelVars, StepsInv
<1>3. ASSUME NEW l \in asked, NEW lost \in BOOLEAN, Others!FriendsAnswer(l, lost) PROVE Goal
  BY <1>3 DEF Others!FriendsAnswer, Others!panelVars, StepsInv
<1>4. ASSUME NEW p \in Persons, Others!Subject(p) PROVE Goal
  BY <1>4 DEF Others!Subject, StepsInv, Fields
<1>5. CASE Others!RunAnswers
  <2>1. PICK state : relation' = [state |-> state, of |-> run.of]
    BY <1>5 DEF Others!RunAnswers
  <2>2. run # <<>> /\ run' = <<>> /\ UNCHANGED <<person, action>>
    BY <1>5 DEF Others!RunAnswers, Others!None
  <2> QED BY <2>1, <2>2 DEF StepsInv
<1>6. ASSUME NEW k \in Others!Kinds, Others!Act(k) PROVE Goal
  <2>1. ~reloading /\ UNCHANGED <<person, relation, reloading, run, foreign>>
    BY <1>6 DEF Others!Act
  <2>2. action'.target = IF k \in {"send", "block"} THEN person ELSE relation.of
    BY <1>6 DEF Others!Act
  <2> QED BY <2>1, <2>2 DEF StepsInv
<1>7. CASE Others!Worked
  <2>1. UNCHANGED <<person, relation, foreign>> /\ action # <<>>
    BY <1>7 DEF Others!Worked, Others!None
  <2>2. CASE Others!Outcome(action.kind, rel[action.target]) = "refused"
    BY <1>7, <2>1, <2>2 DEF Others!Worked, StepsInv
  <2>3. CASE Others!Outcome(action.kind, rel[action.target]) # "refused"
    <3>1. \E state : Others!Becomes(action.target, state)
      BY <1>7, <2>3 DEF Others!Worked
    <3>2. reloading' = TRUE
      BY <1>7, <2>3 DEF Others!Worked
    <3> QED BY <2>1, <3>1, <3>2, BecomesKeeps
  <2> QED BY <2>2, <2>3
<1>8. CASE Others!ReloadAnswers
  <2>1. PICK state : relation' = [state |-> state, of |-> action.of]
    BY <1>8 DEF Others!ReloadAnswers
  <2>2. action' = <<>> /\ foreign' = (action.of # person) /\ UNCHANGED <<person, run>>
    BY <1>8 DEF Others!ReloadAnswers, Others!None
  <2> QED BY <2>1, <2>2 DEF StepsInv
<1>9. CASE UNCHANGED relationVars
  BY <1>9 DEF relationVars, StepsInv
<1> QED BY <1>1, <1>2, <1>3, <1>4, <1>5, <1>6, <1>7, <1>8, <1>9
        DEF Others!FriendsNext, Others!PanelNext

LEMMA FrameStays ==
  ASSUME StepsInv, Frame!FrameNext \/ UNCHANGED frameVars
  PROVE  /\ drawer' => mobile'
         /\ panel' \in [open : BOOLEAN, content : {"none", "group", "profile"}]
         /\ panel'.open => panel'.content # "none"
         /\ place' # place => ~drawer'
         /\ panel.open => panel'.content # "none"
<1> DEFINE Panels == [open : BOOLEAN, content : {"none", "group", "profile"}]
           Goal == /\ drawer' => mobile'
                   /\ panel' \in Panels
                   /\ panel'.open => panel'.content # "none"
                   /\ place' # place => ~drawer'
                   /\ panel.open => panel'.content # "none"
<1>1. CASE Frame!Resize \/ Frame!OpenDrawer \/ Frame!CloseDrawer \/ Frame!Draw \/ UNCHANGED frameVars
  BY <1>1 DEF Frame!Resize, Frame!OpenDrawer, Frame!CloseDrawer, Frame!Draw, frameVars, StepsInv
<1>2. ASSUME NEW p \in Pages, Frame!GoTo(p) PROVE Goal
  BY <1>2 DEF Frame!GoTo, StepsInv
<1>3. CASE Frame!HeaderButton
  BY <1>2, <1>3 DEF Frame!HeaderButton, StepsInv
<1>4. ASSUME NEW c \in {"group", "profile"}, Frame!OpenPanel(c) PROVE Goal
  BY <1>4 DEF Frame!OpenPanel, StepsInv
<1>5. CASE Frame!ClosePanel
  <2>1. panel' = [panel EXCEPT !.open = FALSE] /\ UNCHANGED <<mobile, drawer, place>>
    BY <1>5 DEF Frame!ClosePanel
  <2> QED BY <2>1 DEF StepsInv
<1>6. CASE Frame!TransitionEnds
  <2>1. UNCHANGED <<mobile, drawer, place>> /\ panel' = IF ~drawn.open /\ ~panel.open THEN Frame!Closed ELSE panel
    BY <1>6 DEF Frame!TransitionEnds
  <2>2. Frame!Closed \in Panels /\ ~Frame!Closed.open
    BY DEF Frame!Closed, Frame!None
  <2> HIDE DEF Panels
  <2> QED BY <2>1, <2>2 DEF StepsInv, Panels
<1> QED BY <1>1, <1>2, <1>3, <1>4, <1>5, <1>6 DEF Frame!FrameNext

\* In every step: an action of the profile panel is about the person it shows at the click,
\* unless an earlier action's own reload came last; a drawer is open on narrow screens only
\* and closes with every change of the address; the end of an older slide does not take
\* away the panel opened since.
THEOREM StepsTheorem == MCSpec => StepsHold
<1>1. StepsInv /\ [MCNext]_allVars => StepsInv'
  BY OneMachineMoves, RelationMoves, FrameStays DEF StepsInv
<1>2. StepsInv /\ [MCNext]_allVars =>
        [action = <<>> /\ action' # <<>> => foreign \/ action'.target = person]_(Others!relationVars)
  BY OneMachineMoves, RelationMoves
<1>3. StepsInv /\ [MCNext]_allVars =>
        [/\ drawer' => mobile'
         /\ place' # place => ~drawer'
         /\ panel.open => panel'.content # "none"]_(Frame!frameVars)
  BY OneMachineMoves, FrameStays
<1> QED BY <1>1, <1>2, <1>3, StepsInit, PTL
        DEF MCSpec, StepsHold, Others!ActsOnTheShown, Frame!FrameMoves, Others!None, Frame!None

-----------------------------------------------------------------------------
(* Lookups while one types, and the list of groups                          *)

Askable == Subjects \cup {"none"}
Held == [key : Askable, data : {"none", "found", "failed"}]
Requests == [kind : Lookups!Kinds, id : Nat \ {0}, key : Askable]

\* The request whose answer is wanted carries what is asked for now; with none wanted
\* and none to be sent the answer held is that of the question.
LookupsInv ==
  /\ question \in [Lookups!Kinds -> Askable] /\ timer \in [Lookups!Kinds -> BOOLEAN]
  /\ live \in [Lookups!Kinds -> Nat] /\ spinning \in [Lookups!Kinds -> BOOLEAN]
  /\ held \in [Lookups!Kinds -> Held] /\ requests \subseteq Requests /\ asking \in Nat
  /\ \A r \in requests : r.id <= asking
  /\ \A r \in requests : r.id = live[r.kind] => r.key = question[r.kind]
  /\ \A k \in Lookups!Kinds : ~timer[k] /\ live[k] = 0 => held[k].key = question[k]
  /\ \A k \in Lookups!Kinds : spinning[k] => timer[k] \/ live[k] # 0
  /\ held["readers"].key \in {question["readers"], "none"}

LEMMA LookupsInit == ASSUME Lookups!Init PROVE LookupsInv
<1>1. Lookups!Nothing \in Held /\ Lookups!Nothing.key = "none"
  BY DEF Lookups!Nothing, Held, Askable
<1>2. "readers" \in Lookups!Kinds
  BY DEF Lookups!Kinds
<1> QED BY <1>1, <1>2 DEF Lookups!Init, LookupsInv, Askable

\* The request that is made carries the question, and is the one that is wanted.
LEMMA RequestKeeps ==
  ASSUME LookupsInv, NEW k \in Lookups!Kinds, Lookups!Request(k, question'[k]),
         question' \in [Lookups!Kinds -> Askable],
         \A i \in Lookups!Kinds \ {k} : question'[i] = question[i]
  PROVE  /\ requests' \subseteq Requests /\ asking' \in Nat /\ live' \in [Lookups!Kinds -> Nat]
         /\ \A r \in requests' : r.id <= asking'
         /\ \A r \in requests' : r.id = live'[r.kind] => r.key = question'[r.kind]
         /\ live'[k] # 0 /\ \A i \in Lookups!Kinds \ {k} : live'[i] = live[i]
<1> DEFINE one == [kind |-> k, id |-> asking + 1, key |-> question'[k]]
<1>1. /\ asking' = asking + 1 /\ requests' = requests \cup {one}
      /\ live' = [live EXCEPT ![k] = asking + 1]
  BY DEF Lookups!Request
<1>2. asking \in Nat /\ requests \subseteq Requests
  BY DEF LookupsInv
<1>3. one \in Requests /\ one.kind = k /\ one.id = asking + 1 /\ one.key = question'[k]
  BY <1>2 DEF Requests
<1> HIDE DEF one
<1>4. live' \in [Lookups!Kinds -> Nat] /\ live'[k] = asking + 1
      /\ \A i \in Lookups!Kinds \ {k} : live'[i] = live[i]
  BY <1>1, <1>2 DEF LookupsInv
<1>5. \A r \in requests' : r.id <= asking'
  <2>1. \A r \in requests : r.id <= asking /\ r.id \in Nat
    BY DEF LookupsInv, Requests
  <2> QED BY <1>1, <1>2, <1>3, <2>1
<1>6. ASSUME NEW r \in requests', r.id = live'[r.kind] PROVE r.key = question'[r.kind]
  <2>1. CASE r = one
    BY <1>3, <2>1
  <2>2. CASE r # one
    <3>1. r \in requests /\ r.id <= asking /\ r.id \in Nat /\ r.kind \in Lookups!Kinds
      BY <1>1, <2>2 DEF LookupsInv, Requests
    <3>2. r.kind # k
      BY <1>2, <1>4, <1>6, <3>1
    <3> QED BY <1>4, <1>6, <3>1, <3>2 DEF LookupsInv
  <2> QED BY <2>1, <2>2
<1> QED BY <1>1, <1>2, <1>3, <1>4, <1>5, <1>6

LEMMA LookupsStep ==
  ASSUME LookupsInv, Lookups!Next \/ UNCHANGED lookupVars
  PROVE  LookupsInv'
<1>k. "readers" \in Lookups!Kinds /\ Lookups!Debounced \subseteq Lookups!Kinds /\ Lookups!Keyed \subseteq Lookups!Kinds
      /\ "readers" \notin Lookups!Debounced /\ "readers" \notin Lookups!Keyed
  BY DEF Lookups!Kinds, Lookups!Debounced, Lookups!Keyed
<1>n. Lookups!Nothing \in Held /\ Lookups!Nothing.key = "none"
  BY DEF Lookups!Nothing, Held, Askable
<1>1. ASSUME NEW k \in Lookups!Debounced, NEW q \in Askable, Lookups!Types(k, q) PROVE LookupsInv'
  <2>1. /\ question' = [question EXCEPT ![k] = q] /\ live' = [live EXCEPT ![k] = 0]
        /\ timer' = [timer EXCEPT ![k] = q # "none"]
        /\ spinning' = [spinning EXCEPT ![k] = @ /\ k = "global" /\ q # "none"]
        /\ held' = [held EXCEPT ![k] = IF q = "none" THEN Lookups!Nothing ELSE @]
        /\ UNCHANGED <<requests, asking>>
    BY <1>1 DEF Lookups!Types
  <2>2. question' \in [Lookups!Kinds -> Askable] /\ live' \in [Lookups!Kinds -> Nat]
    BY <1>k, <2>1 DEF LookupsInv
  <2>3. timer' \in [Lookups!Kinds -> BOOLEAN]
    BY <1>k, <2>1 DEF LookupsInv
  <2>4. spinning' \in [Lookups!Kinds -> BOOLEAN]
    <3> DEFINE b == spinning[k] /\ k = "global" /\ q # "none"
    <3>1. b \in BOOLEAN
      BY <1>k DEF LookupsInv
    <3>2. spinning' = [spinning EXCEPT ![k] = b]
      BY <2>1
    <3> HIDE DEF b
    <3> QED BY <3>1, <3>2 DEF LookupsInv
  <2>5. held' \in [Lookups!Kinds -> Held]
    BY <1>k, <1>n, <2>1 DEF LookupsInv
  <2>6. \A r \in requests' : r.id = live'[r.kind] => r.key = question'[r.kind]
    BY <1>k, <2>1 DEF LookupsInv, Requests
  <2>7. \A i \in Lookups!Kinds : ~timer'[i] /\ live'[i] = 0 => held'[i].key = question'[i]
    BY <1>k, <1>n, <2>1 DEF LookupsInv
  <2>8. \A i \in Lookups!Kinds : spinning'[i] => timer'[i] \/ live'[i] # 0
    BY <1>k, <2>1 DEF LookupsInv
  <2>9. held'["readers"].key \in {question'["readers"], "none"}
    BY <1>k, <2>1 DEF LookupsInv
  <2> QED BY <2>1, <2>2, <2>3, <2>4, <2>5, <2>6, <2>7, <2>8, <2>9 DEF LookupsInv
<1>2. ASSUME NEW k \in Lookups!Debounced, Lookups!DebounceEnds(k) PROVE LookupsInv'
  <2>1. /\ timer' = [timer EXCEPT ![k] = FALSE] /\ Lookups!Request(k, question'[k])
        /\ spinning' = [spinning EXCEPT ![k] = TRUE] /\ UNCHANGED <<question, held>>
    BY <1>2 DEF Lookups!DebounceEnds
  <2>2. /\ requests' \subseteq Requests /\ asking' \in Nat /\ live' \in [Lookups!Kinds -> Nat]
        /\ \A r \in requests' : r.id <= asking'
        /\ \A r \in requests' : r.id = live'[r.kind] => r.key = question'[r.kind]
        /\ live'[k] # 0 /\ \A i \in Lookups!Kinds \ {k} : live'[i] = live[i]
    <3>1. question' \in [Lookups!Kinds -> Askable] /\ \A i \in Lookups!Kinds \ {k} : question'[i] = question[i]
      BY <2>1 DEF LookupsInv
    <3> QED BY <1>k, <2>1, <3>1, RequestKeeps
  <2>3. timer' \in [Lookups!Kinds -> BOOLEAN] /\ spinning' \in [Lookups!Kinds -> BOOLEAN]
    BY <2>1 DEF LookupsInv
  <2>4. /\ \A i \in Lookups!Kinds : ~timer'[i] /\ live'[i] = 0 => held'[i].key = question'[i]
        /\ \A i \in Lookups!Kinds : spinning'[i] => timer'[i] \/ live'[i] # 0
    BY <2>1, <2>2 DEF LookupsInv
  <2> QED BY <2>1, <2>2, <2>3, <2>4 DEF LookupsInv
<1>3. ASSUME NEW s \in Subjects, Lookups!OpenReaders(s) PROVE LookupsInv'
  <2>1. /\ question' = [question EXCEPT !["readers"] = s] /\ Lookups!Request("readers", question'["readers"])
        /\ spinning' = [spinning EXCEPT !["readers"] = TRUE] /\ timer' = timer
        /\ held' = [held EXCEPT !["readers"] = Lookups!Nothing]
    BY <1>3, <1>k DEF Lookups!OpenReaders, LookupsInv
  <2>2. question' \in [Lookups!Kinds -> Askable]
        /\ \A i \in Lookups!Kinds \ {"readers"} : question'[i] = question[i]
    BY <1>k, <2>1 DEF LookupsInv, Askable
  <2>3. /\ requests' \subseteq Requests /\ asking' \in Nat /\ live' \in [Lookups!Kinds -> Nat]
        /\ \A r \in requests' : r.id <= asking'
        /\ \A r \in requests' : r.id = live'[r.kind] => r.key = question'[r.kind]
        /\ live'["readers"] # 0 /\ \A i \in Lookups!Kinds \ {"readers"} : live'[i] = live[i]
    BY <1>k, <2>1, <2>2, RequestKeeps
  <2>4. spinning' \in [Lookups!Kinds -> BOOLEAN] /\ held' \in [Lookups!Kinds -> Held]
    BY <1>n, <2>1 DEF LookupsInv
  <2>5. /\ \A i \in Lookups!Kinds : ~timer'[i] /\ live'[i] = 0 => held'[i].key = question'[i]
        /\ \A i \in Lookups!Kinds : spinning'[i] => timer'[i] \/ live'[i] # 0
    BY <2>1, <2>2, <2>3 DEF LookupsInv
  <2>6. held'["readers"].key = "none"
    BY <1>k, <1>n, <2>1 DEF LookupsInv
  <2> QED BY <2>1, <2>2, <2>3, <2>4, <2>5, <2>6 DEF LookupsInv
<1>4. CASE Lookups!CloseReaders
  <2>1. /\ question' = [question EXCEPT !["readers"] = "none"] /\ live' = [live EXCEPT !["readers"] = 0]
        /\ spinning' = [spinning EXCEPT !["readers"] = FALSE]
        /\ held' = [held EXCEPT !["readers"] = Lookups!Nothing] /\ UNCHANGED <<timer, requests, asking>>
    BY <1>4 DEF Lookups!CloseReaders
  <2>2. /\ question' \in [Lookups!Kinds -> Askable] /\ live' \in [Lookups!Kinds -> Nat]
        /\ spinning' \in [Lookups!Kinds -> BOOLEAN]
    BY <2>1 DEF LookupsInv, Askable
  <2>3. held' \in [Lookups!Kinds -> Held]
    BY <1>n, <2>1 DEF LookupsInv
  <2>4. \A r \in requests' : r.id = live'[r.kind] => r.key = question'[r.kind]
    BY <2>1 DEF LookupsInv, Requests
  <2>5. /\ \A i \in Lookups!Kinds : ~timer'[i] /\ live'[i] = 0 => held'[i].key = question'[i]
        /\ \A i \in Lookups!Kinds : spinning'[i] => timer'[i] \/ live'[i] # 0
    BY <1>n, <2>1 DEF LookupsInv
  <2>6. held'["readers"].key = "none"
    BY <1>k, <1>n, <2>1 DEF LookupsInv
  <2> QED BY <2>1, <2>2, <2>3, <2>4, <2>5, <2>6 DEF LookupsInv
<1>5. ASSUME NEW k \in Lookups!Keyed, NEW s \in Subjects, Lookups!Follow(k, s) PROVE LookupsInv'
  <2>1. /\ question' = [question EXCEPT ![k] = s] /\ Lookups!Request(k, question'[k])
        /\ UNCHANGED <<timer, spinning, held>>
    BY <1>5, <1>k DEF Lookups!Follow, LookupsInv
  <2>2. question' \in [Lookups!Kinds -> Askable]
        /\ \A i \in Lookups!Kinds \ {k} : question'[i] = question[i]
    BY <1>k, <2>1 DEF LookupsInv, Askable
  <2>3. /\ requests' \subseteq Requests /\ asking' \in Nat /\ live' \in [Lookups!Kinds -> Nat]
        /\ \A r \in requests' : r.id <= asking'
        /\ \A r \in requests' : r.id = live'[r.kind] => r.key = question'[r.kind]
        /\ live'[k] # 0 /\ \A i \in Lookups!Kinds \ {k} : live'[i] = live[i]
    BY <1>k, <2>1, <2>2, RequestKeeps
  <2>4. /\ \A i \in Lookups!Kinds : ~timer'[i] /\ live'[i] = 0 => held'[i].key = question'[i]
        /\ \A i \in Lookups!Kinds : spinning'[i] => timer'[i] \/ live'[i] # 0
    BY <2>1, <2>2, <2>3 DEF LookupsInv
  <2>5. question'["readers"] = question["readers"]
    BY <1>k, <2>2
  <2> QED BY <2>1, <2>2, <2>3, <2>4, <2>5 DEF LookupsInv
<1>6. ASSUME NEW r \in requests, NEW data \in {"found", "failed"}, Lookups!Arrives(r, data) PROVE LookupsInv'
  <2>0. /\ r \in Requests /\ r.kind \in Lookups!Kinds /\ requests' = requests \ {r}
        /\ UNCHANGED <<question, timer, asking>>
    BY <1>6 DEF Lookups!Arrives, LookupsInv, Requests
  <2>1. CASE r.id = live[r.kind]
    <3> DEFINE got == [key |-> r.key, data |-> data]
    <3>1. got \in Held /\ got.key = question[r.kind]
      BY <2>0, <2>1 DEF LookupsInv, Requests, Held
    <3>2. /\ live' = [live EXCEPT ![r.kind] = 0] /\ held' = [held EXCEPT ![r.kind] = got]
          /\ spinning' = [spinning EXCEPT ![r.kind] = FALSE]
      BY <1>6, <2>1 DEF Lookups!Arrives
    <3> HIDE DEF got
    <3>3. /\ live' \in [Lookups!Kinds -> Nat] /\ held' \in [Lookups!Kinds -> Held]
          /\ spinning' \in [Lookups!Kinds -> BOOLEAN]
      BY <3>1, <3>2 DEF LookupsInv
    <3>4. \A s \in requests' : s.id = live'[s.kind] => s.key = question'[s.kind]
      BY <2>0, <3>2 DEF LookupsInv, Requests
    <3>5. /\ \A i \in Lookups!Kinds : ~timer'[i] /\ live'[i] = 0 => held'[i].key = question'[i]
          /\ \A i \in Lookups!Kinds : spinning'[i] => timer'[i] \/ live'[i] # 0
      BY <2>0, <3>1, <3>2 DEF LookupsInv
    <3>6. held'["readers"].key \in {question'["readers"], "none"}
      BY <1>k, <2>0, <3>1, <3>2 DEF LookupsInv
    <3> QED BY <2>0, <3>3, <3>4, <3>5, <3>6 DEF LookupsInv
  <2>2. CASE r.id # live[r.kind]
    <3>1. live' = live /\ held' = held /\ spinning' = spinning
      BY <1>6, <2>0, <2>2 DEF Lookups!Arrives, LookupsInv
    <3> QED BY <2>0, <3>1 DEF LookupsInv
  <2> QED BY <2>1, <2>2
<1>7. CASE UNCHANGED lookupVars
  BY <1>7 DEF lookupVars, LookupsInv
<1> QED BY <1>1, <1>2, <1>3, <1>4, <1>5, <1>6, <1>7 DEF Lookups!Next, Askable

LEMMA LookupsAre ==
  ASSUME LookupsInv PROVE Lookups!AnswersTheQuestion /\ Lookups!SpinnerIsHonest
<1>k. "readers" \in Lookups!Kinds /\ \A k \in Lookups!Kinds : k \in Lookups!Debounced \cup Lookups!Keyed \cup {"readers"}
      /\ (k \in Lookups!Keyed => k \notin Lookups!Debounced)
  BY DEF Lookups!Kinds, Lookups!Debounced, Lookups!Keyed
<1>n. Lookups!Nothing.key = "none"
  BY DEF Lookups!Nothing
<1>1. Lookups!AnswersTheQuestion
  BY <1>k, <1>n DEF Lookups!AnswersTheQuestion, Lookups!Pending, Lookups!Visible, LookupsInv
<1>2. Lookups!SpinnerIsHonest
  BY <1>k, <1>n DEF Lookups!SpinnerIsHonest, Lookups!Spinning, Lookups!Pending, Lookups!Visible, LookupsInv
<1> QED BY <1>1, <1>2

\* The list says that it is loading while a fetch is under way only.
LEMMA ListStep ==
  ASSUME Frame!ListStopsLoading, Frame!ListNext \/ UNCHANGED listVars
  PROVE  Frame!ListStopsLoading'
BY DEF Frame!ListStopsLoading, Frame!ListNext, Frame!Fetch, Frame!ServerChanges, Frame!Fetched, listVars

-----------------------------------------------------------------------------
(* The copies of the service worker                                         *)

Copy == [user : Users \cup {"none"}, version : Nat, late : BOOLEAN]
Fetches == [key : Keys, epoch : Nat, answered : BOOLEAN, copy : Copy]
Messages == [key : {"roomMessages", "directChats", "userProfile", "selfProfile", "clearUserCaches"},
             version : [Keys -> Nat]]

Clearing == \E m \in messages : m.key = "clearUserCaches"
\* A copy of k that nothing was dropped behind: it has what the page was told of, and is of
\* the page's user unless the session is changing or everything is still to be cleared.
Current(k, c) ==
  /\ c.version >= told[k]
  /\ Clearing \/ cookie # cachedFor \/ c.user = cachedFor

CacheInv ==
  /\ cookie \in Users \cup {"none"} /\ messages \subseteq Messages
  /\ version \in [Keys -> Nat] /\ told \in [Keys -> Nat] /\ epoch \in [Keys -> Nat]
  /\ cache \in [Keys -> Copy] /\ \A i \in DOMAIN fetches : fetches[i] \in Fetches
  /\ \A k \in Keys : told[k] <= version[k]
  /\ \A m \in messages : \A k \in Keys : m.version[k] <= version[k]
  /\ \A k \in Keys : cache[k] = Copies!None \/ cache[k].late \/ Current(k, cache[k])
  /\ \A i \in DOMAIN fetches :
        /\ fetches[i].epoch <= epoch[fetches[i].key]
        /\ fetches[i].answered /\ fetches[i].epoch = epoch[fetches[i].key] =>
              Current(fetches[i].key, fetches[i].copy)

LEMMA NoneIsCopy == Copies!None \in Copy
BY DEF Copies!None, Copy

LEMMA CacheInit == ASSUME Copies!Init PROVE CacheInv
<1>1. /\ version = [k \in Keys |-> 0] /\ told = version /\ epoch = version
      /\ cache = [k \in Keys |-> Copies!None] /\ DOMAIN fetches = {} /\ messages = {}
      /\ cookie \in Users \cup {"none"}
  BY DEF Copies!Init
<1> QED BY <1>1, NoneIsCopy DEF CacheInv

\* Fewer or other requests and copies, with the page and the server where they were.
LEMMA CopiesKeep ==
  ASSUME CacheInv, UNCHANGED <<cookie, cachedFor, version, told, epoch, messages>>,
         cache' \in [Keys -> Copy], \A i \in DOMAIN fetches' : fetches'[i] \in Fetches,
         \A k \in Keys : cache'[k] = cache[k] \/ cache'[k] = Copies!None
                         \/ cache'[k].late \/ Current(k, cache'[k]),
         \A i \in DOMAIN fetches' :
            \/ i \in DOMAIN fetches /\ fetches'[i] = fetches[i]
            \/ /\ fetches'[i].epoch <= epoch[fetches'[i].key]
               /\ fetches'[i].answered /\ fetches'[i].epoch = epoch[fetches'[i].key] =>
                     Current(fetches'[i].key, fetches'[i].copy)
  PROVE  CacheInv'
BY DEF CacheInv, Current, Clearing

LEMMA CacheStep ==
  ASSUME CacheInv, Copies!CacheAssumption, Copies!Next \/ UNCHANGED cacheVars
  PROVE  CacheInv'
<1>t. /\ cookie \in Users \cup {"none"} /\ cache \in [Keys -> Copy] /\ epoch \in [Keys -> Nat]
      /\ \A i \in DOMAIN fetches : fetches[i] \in Fetches
  BY DEF CacheInv
<1>1. ASSUME NEW k \in Keys, Copies!Load(k) PROVE CacheInv'
  <2> DEFINE one == [key |-> k, epoch |-> epoch[k], answered |-> FALSE, copy |-> Copies!None]
  <2>1. one \in Fetches /\ one.key = k /\ one.epoch = epoch[k] /\ one.answered = FALSE
    BY <1>t, NoneIsCopy DEF Fetches
  <2>2. /\ fetches' = [i \in DOMAIN fetches \cup {requested + 1} |->
                         IF i \in DOMAIN fetches THEN fetches[i] ELSE one]
        /\ UNCHANGED <<cookie, cachedFor, version, told, cache, epoch, messages>>
    BY <1>1 DEF Copies!Load, Copies!Fetch
  <2> HIDE DEF one
  <2>3. \A i \in DOMAIN fetches' : fetches'[i] = one \/ (i \in DOMAIN fetches /\ fetches'[i] = fetches[i])
    BY <2>2
  <2>4. one.epoch <= epoch[one.key]
    BY <1>t, <2>1
  <2> QED BY <1>t, <2>1, <2>2, <2>3, <2>4, CopiesKeep
<1>2. ASSUME NEW k \in Keys, Copies!FiveSecondsPass(k) PROVE CacheInv'
  BY <1>t, <1>2, CopiesKeep DEF Copies!FiveSecondsPass
<1>3. ASSUME NEW k \in Keys, Copies!Expire(k) PROVE CacheInv'
  BY <1>t, <1>3, NoneIsCopy, CopiesKeep DEF Copies!Expire
<1>4. ASSUME NEW i \in DOMAIN fetches, Copies!Answer(i) PROVE CacheInv'
  <2> DEFINE f == fetches[i]
             got == [Copies!None EXCEPT !.user = cookie, !.version = version[f.key]]
             one == [f EXCEPT !.answered = TRUE, !.copy = got]
  <2>1. f \in Fetches /\ f.epoch <= epoch[f.key] /\ version[f.key] \in Nat /\ told[f.key] <= version[f.key]
    BY DEF CacheInv, Fetches
  <2>2. got \in Copy /\ got.user = cookie /\ got.version = version[f.key]
    BY <1>t, <2>1, NoneIsCopy DEF Copy
  <2>3. /\ fetches' = [fetches EXCEPT ![i] = one]
        /\ UNCHANGED <<cookie, cachedFor, version, told, cache, epoch, messages>>
    BY <1>4 DEF Copies!Answer
  <2> HIDE DEF got, f
  <2>4. one \in Fetches /\ one.key = f.key /\ one.epoch = f.epoch /\ one.copy = got
    BY <2>1, <2>2 DEF Fetches
  <2>5. Current(one.key, one.copy) /\ one.epoch <= epoch[one.key]
    BY <2>1, <2>2, <2>4 DEF Current
  <2> HIDE DEF one
  <2>6. DOMAIN fetches' = DOMAIN fetches /\ fetches'[i] = one
        /\ \A j \in DOMAIN fetches : j # i => fetches'[j] = fetches[j]
    BY <2>3
  <2> QED BY <1>t, <2>3, <2>4, <2>5, <2>6, CopiesKeep
<1>5. ASSUME NEW i \in DOMAIN fetches, Copies!Store(i) PROVE CacheInv'
  <2> DEFINE f == fetches[i]
             behind == f.epoch # epoch[f.key]
             got == [f.copy EXCEPT !.late = behind]
  <2>1. f \in Fetches /\ f.answered /\ (~behind => Current(f.key, f.copy))
    BY <1>5 DEF CacheInv, Copies!Store
  <2>2. /\ cache' = [cache EXCEPT ![f.key] = got]
        /\ fetches' = [j \in DOMAIN fetches \ {i} |-> fetches[j]]
        /\ UNCHANGED <<cookie, cachedFor, version, told, epoch, messages>>
    BY <1>5 DEF Copies!Store
  <2>3. behind \in BOOLEAN
    OBVIOUS
  <2> HIDE DEF behind, f
  <2>4. got \in Copy /\ got.user = f.copy.user /\ got.version = f.copy.version /\ got.late = behind
    BY <2>1, <2>3 DEF Fetches, Copy
  <2> HIDE DEF got
  <2>5. got.late \/ Current(f.key, got)
    BY <2>1, <2>4 DEF Current
  <2>6. cache' \in [Keys -> Copy] /\ \A k \in Keys : cache'[k] = cache[k] \/ (k = f.key /\ cache'[k] = got)
    BY <1>t, <2>1, <2>2, <2>4 DEF Fetches
  <2>7. \A j \in DOMAIN fetches' : j \in DOMAIN fetches /\ fetches'[j] = fetches[j]
    BY <2>2
  <2> QED BY <1>t, <2>2, <2>5, <2>6, <2>7, CopiesKeep
<1>6. ASSUME NEW i \in DOMAIN fetches, Copies!Fail(i) PROVE CacheInv'
  <2>1. \A j \in DOMAIN fetches' : j \in DOMAIN fetches /\ fetches'[j] = fetches[j]
    BY <1>6 DEF Copies!Fail
  <2>2. UNCHANGED <<cookie, cachedFor, version, told, cache, epoch, messages>>
    BY <1>6 DEF Copies!Fail
  <2> QED BY <1>t, <2>1, <2>2, CopiesKeep
<1>7. ASSUME NEW c \in Copies!Changes, Copies!Change(c) PROVE CacheInv'
  <2> DEFINE news == {[key |-> m, version |-> version'] : m \in Copies!Drops(c)}
  <2>1. /\ version' = [k \in Keys |-> IF k \in Copies!Outdates(c) THEN version[k] + 1 ELSE version[k]]
        /\ messages' = messages \cup news /\ UNCHANGED <<cookie, cachedFor, told, cache, epoch, fetches>>
    BY <1>7 DEF Copies!Change
  <2>2. version' \in [Keys -> Nat] /\ \A k \in Keys : version[k] <= version'[k]
    BY <2>1 DEF CacheInv
  <2>3. Copies!Drops(c) \subseteq {"roomMessages", "directChats", "userProfile", "selfProfile"}
    BY DEF Copies!Drops
  <2>4. news \subseteq Messages /\ \A m \in news : m.version = version'
    BY <2>2, <2>3 DEF Messages
  <2> HIDE DEF news
  <2>5. messages' \subseteq Messages
    BY <2>1, <2>4 DEF CacheInv
  <2>6. \A m \in messages' : \A k \in Keys : m.version[k] <= version'[k]
    <3>1. \A m \in messages : \A k \in Keys : m.version[k] \in Nat /\ m.version[k] <= version[k] /\ version[k] \in Nat
      BY DEF CacheInv, Messages
    <3> QED BY <2>1, <2>2, <2>4, <3>1
  <2>7. \A k \in Keys : told[k] <= version'[k]
    BY <2>2 DEF CacheInv
  <2>8. Clearing => Clearing'
    BY <2>1 DEF Clearing
  <2> QED BY <2>1, <2>2, <2>5, <2>6, <2>7, <2>8 DEF CacheInv, Current
<1>8. ASSUME NEW u \in Users \cup {"none"}, Copies!SessionChanges(u) PROVE CacheInv'
  <2>1. cookie' = u /\ cachedFor = cookie /\ u # cookie
        /\ UNCHANGED <<cachedFor, version, told, cache, epoch, fetches, messages>>
    BY <1>8 DEF Copies!SessionChanges
  <2> QED BY <2>1 DEF CacheInv, Current, Clearing
<1>9. CASE Copies!PageLearns
  <2> DEFINE new == [key |-> "clearUserCaches", version |-> version]
  <2>1. messages' = messages \cup {new} /\ UNCHANGED <<cookie, version, told, cache, epoch, fetches>>
    BY <1>9 DEF Copies!PageLearns
  <2>2. new \in Messages /\ new.key = "clearUserCaches" /\ new.version = version
    BY DEF Messages, CacheInv
  <2> HIDE DEF new
  <2>3. Clearing'
    BY <2>1, <2>2 DEF Clearing
  <2>4. \A m \in messages' : \A k \in Keys : m.version[k] <= version'[k]
    BY <2>1, <2>2 DEF CacheInv
  <2> QED BY <2>1, <2>2, <2>3, <2>4 DEF CacheInv, Current
<1>10. ASSUME NEW m \in messages, Copies!WorkerHandles(m) PROVE CacheInv'
  <2> DEFINE dropped == Copies!Matching(m.key)
             meant == IF m.key = "roomMessages" THEN {"messages", "older"} ELSE dropped
  <2>1. /\ messages' = messages \ {m}
        /\ cache' = [k \in Keys |-> IF k \in dropped THEN Copies!None ELSE cache[k]]
        /\ epoch' = [k \in Keys |-> IF k \in dropped THEN epoch[k] + 1 ELSE epoch[k]]
        /\ told' = [k \in Keys |-> IF k \in meant /\ m.version[k] > told[k] THEN m.version[k] ELSE told[k]]
        /\ UNCHANGED <<cookie, cachedFor, version, fetches>>
    BY <1>10 DEF Copies!WorkerHandles
  <2>2. meant = dropped /\ (m.key = "clearUserCaches" => Keys \subseteq dropped)
    BY DEF Copies!Matching, Copies!CacheAssumption
  <2> HIDE DEF dropped, meant
  <2>3. m \in Messages /\ \A k \in Keys : m.version[k] \in Nat /\ m.version[k] <= version[k]
    BY DEF CacheInv, Messages
  <2>4. /\ cache' \in [Keys -> Copy] /\ epoch' \in [Keys -> Nat] /\ told' \in [Keys -> Nat]
        /\ \A k \in Keys : told'[k] <= version'[k]
    BY <2>1, <2>3, NoneIsCopy DEF CacheInv
  <2>5. \A k \in Keys : /\ k \in dropped => cache'[k] = Copies!None /\ epoch'[k] = epoch[k] + 1
                        /\ k \notin dropped => cache'[k] = cache[k] /\ epoch'[k] = epoch[k]
                                               /\ told'[k] = told[k]
    BY <2>1, <2>2
  <2>6. ASSUME NEW k \in Keys, NEW c, k \notin dropped, Current(k, c) PROVE Current(k, c)'
    <3>1. m.key # "clearUserCaches"
      BY <2>2, <2>6
    <3>2. Clearing => Clearing'
      BY <2>1, <3>1 DEF Clearing
    <3> QED BY <2>1, <2>5, <2>6, <3>2 DEF Current
  <2>7. \A k \in Keys : cache'[k] = Copies!None \/ cache'[k].late \/ Current(k, cache[k])'
    BY <2>5, <2>6 DEF CacheInv
  <2>8. ASSUME NEW i \in DOMAIN fetches
        PROVE  (/\ fetches[i].epoch <= epoch[fetches[i].key]
                /\ fetches[i].answered /\ fetches[i].epoch = epoch[fetches[i].key] =>
                      Current(fetches[i].key, fetches[i].copy))'
    <3>1. /\ fetches'[i] = fetches[i] /\ fetches[i].key \in Keys /\ fetches[i].epoch \in Nat
          /\ epoch[fetches[i].key] \in Nat /\ fetches[i].epoch <= epoch[fetches[i].key]
      BY <2>1 DEF CacheInv, Fetches
    <3>2. CASE fetches[i].key \in dropped
      BY <2>5, <3>1, <3>2
    <3>3. CASE fetches[i].key \notin dropped
      BY <2>1, <2>5, <2>6, <3>1, <3>3 DEF CacheInv
    <3> QED BY <3>2, <3>3
  <2>9. messages' \subseteq Messages /\ \A n \in messages' : \A k \in Keys : n.version[k] <= version'[k]
    BY <2>1 DEF CacheInv
  <2> QED BY <2>1, <2>4, <2>7, <2>8, <2>9 DEF CacheInv
<1>11. CASE UNCHANGED cacheVars
  BY <1>11 DEF cacheVars, CacheInv, Current, Clearing
<1> QED BY <1>1, <1>2, <1>3, <1>4, <1>5, <1>6, <1>7, <1>8, <1>9, <1>10, <1>11 DEF Copies!Next

LEMMA CopiesAre == ASSUME CacheInv PROVE Copies!CopiesAreCurrent
BY DEF CacheInv, Current, Clearing, Copies!CopiesAreCurrent

-----------------------------------------------------------------------------
(* The group panel                                                          *)

Labels == {"room", "stage"}

\* A spinner turns for a load of the group; while one room only is loaded and acted upon
\* the panel has it, or its group is on the way.
PanelInv ==
  /\ \A l \in baseLoads \cup actions : Labels \subseteq DOMAIN l
  /\ "room" \in DOMAIN edits
  /\ baseLoading => \E l \in baseLoads : l.stage # "alone"
  /\ apart => /\ \A l \in baseLoads \cup actions : l.room = room
              /\ (group = room /\ edits.room = room) \/ \E l \in baseLoads : l.stage = "base"

LEMMA PanelInit == ASSUME Group!Init PROVE PanelInv
<1> DEFINE one == [id |-> 1, room |-> room, manages |-> FALSE, stage |-> "base", by |-> 0]
<1>1. baseLoads = {one} /\ actions = {} /\ edits = [room |-> "none", touched |-> FALSE]
  BY DEF Group!Init
<1>2. Labels \subseteq DOMAIN one /\ one.stage = "base" /\ one.room = room
  BY DEF Labels
<1> HIDE DEF one
<1> QED BY <1>1, <1>2 DEF PanelInv

\* One more load, of the room r.
LEMMA StartKeeps ==
  ASSUME PanelInv, NEW r, NEW manages, NEW stage \in {"base", "alone"}, NEW by,
         baseLoads' = baseLoads \cup {Group!NewLoad(r, manages, stage, by)},
         apart' => apart /\ (\A l \in baseLoads : l.room = r) /\ r = room,
         \A a \in actions' : a \in actions \/ (Labels \subseteq DOMAIN a /\ a.room = r),
         UNCHANGED <<room, edits>>, group' \in {group, r},
         stage = "base" \/ baseLoading' = baseLoading
  PROVE  PanelInv'
<1> DEFINE one == Group!NewLoad(r, manages, stage, by)
<1>1. Labels \subseteq DOMAIN one /\ one.room = r /\ one.stage = stage
  BY DEF Group!NewLoad, Labels
<1> HIDE DEF one
<1>2. baseLoads' = baseLoads \cup {one}
  BY DEF one
<1>3. \A l \in baseLoads' \cup actions' : Labels \subseteq DOMAIN l
  BY <1>1, <1>2 DEF PanelInv
<1>4. baseLoading' => \E l \in baseLoads' : l.stage # "alone"
  BY <1>1, <1>2 DEF PanelInv
<1>5. ASSUME apart'
      PROVE  /\ \A l \in baseLoads' \cup actions' : l.room = room'
             /\ (group' = room' /\ edits'.room = room') \/ \E l \in baseLoads' : l.stage = "base"
  BY <1>1, <1>2, <1>5 DEF PanelInv
<1> QED BY <1>3, <1>4, <1>5 DEF PanelInv

\* A load is over; the action that awaited it may be, too.
LEMMA EndedKeeps ==
  ASSUME PanelInv, NEW l \in baseLoads, Group!Ended(l), room' = room, "room" \in DOMAIN edits',
         apart' => /\ apart
                   /\ \/ group' = room /\ edits'.room = room
                      \/ l.stage # "base" /\ UNCHANGED <<group, edits>>
  PROVE  PanelInv'
<1>1. /\ baseLoads' = baseLoads \ {l} /\ actions' \subseteq actions
      /\ baseLoading' = IF l.stage = "alone" THEN baseLoading ELSE FALSE
  BY DEF Group!Ended
<1>2. baseLoading' => \E k \in baseLoads' : k.stage # "alone"
  BY <1>1 DEF PanelInv
<1>3. \A k \in baseLoads' \cup actions' : Labels \subseteq DOMAIN k
  BY <1>1 DEF PanelInv
<1>4. ASSUME apart'
      PROVE  /\ \A k \in baseLoads' \cup actions' : k.room = room'
             /\ (group' = room' /\ edits'.room = room') \/ \E k \in baseLoads' : k.stage = "base"
  BY <1>1, <1>4 DEF PanelInv
<1> QED BY <1>2, <1>3, <1>4 DEF PanelInv

LEMMA PanelStep ==
  ASSUME PanelInv, Group!Next \/ UNCHANGED groupVars
  PROVE  PanelInv'
<1>1. ASSUME NEW r \in Rooms, Group!OpenAnother(r) PROVE PanelInv'
  <2> DEFINE one == Group!NewLoad(r, Group!Manages(perms), "base", 0)
  <2>1. Labels \subseteq DOMAIN one /\ one.room = r /\ one.stage = "base"
    BY DEF Group!NewLoad, Labels
  <2>2. /\ room' = r /\ baseLoads' = baseLoads \cup {one} /\ UNCHANGED <<group, edits, actions>>
        /\ apart' = (actions = {} /\ \A l \in baseLoads : l.room = r)
    BY <1>1 DEF Group!OpenAnother
  <2> HIDE DEF one
  <2> QED BY <2>1, <2>2 DEF PanelInv
<1>2. ASSUME NEW r \in permsAsked, NEW ok \in BOOLEAN, Group!PermsArrive(r, ok) PROVE PanelInv'
  <2>1. UNCHANGED <<room, group, edits, actions>>
    BY <1>2 DEF Group!PermsArrive
  <2>2. CASE Group!Manages(perms') = Group!Manages(perms)
    <3>1. UNCHANGED <<baseLoads, apart, baseLoading>>
      BY <1>2, <2>2 DEF Group!PermsArrive
    <3> QED BY <2>1, <3>1 DEF PanelInv
  <2>3. CASE Group!Manages(perms') # Group!Manages(perms)
    <3>1. Group!Start(Group!NewLoad(room, Group!Manages(perms'), "base", 0), baseLoads)
      BY <1>2, <2>3 DEF Group!PermsArrive
    <3>2. Group!NewLoad(room, Group!Manages(perms'), "base", 0).room = room
      BY DEF Group!NewLoad
    <3>3. /\ baseLoads' = baseLoads \cup {Group!NewLoad(room, Group!Manages(perms'), "base", 0)}
          /\ apart' = (apart /\ \A l \in baseLoads : l.room = room)
      BY <3>1, <3>2 DEF Group!Start
    <3>4. \A a \in actions' : a \in actions
      BY <2>1
    <3> QED BY <2>1, <3>3, <3>4, StartKeeps
  <2> QED BY <2>2, <2>3
<1>3. ASSUME NEW l \in baseLoads, Group!BaseArrives(l) PROVE PanelInv'
  <2> DEFINE filled == [room |-> l.room, touched |-> FALSE]
             one == [l EXCEPT !.stage = "roles"]
  <2>1. /\ l.stage = "base" /\ group' = l.room /\ edits' = filled /\ UNCHANGED <<room, apart>>
    BY <1>3 DEF Group!BaseArrives
  <2>2. filled.room = l.room /\ "room" \in DOMAIN filled
    OBVIOUS
  <2>3. Labels \subseteq DOMAIN one /\ one.room = l.room /\ one.stage = "roles"
    BY DEF PanelInv, Labels
  <2> HIDE DEF filled, one
  <2>4. CASE l.manages
    <3>1. baseLoads' = (baseLoads \ {l}) \cup {one} /\ UNCHANGED <<actions, baseLoading>>
      BY <1>3, <2>4 DEF Group!BaseArrives, one
    <3>2. \A k \in baseLoads' \cup actions' : Labels \subseteq DOMAIN k
      BY <2>3, <3>1 DEF PanelInv
    <3>3. \E k \in baseLoads' : k.stage # "alone"
      BY <2>3, <3>1
    <3>4. ASSUME apart'
          PROVE  (\A k \in baseLoads' \cup actions' : k.room = room') /\ group' = room' /\ edits'.room = room'
      BY <2>1, <2>2, <2>3, <3>1, <3>4 DEF PanelInv
    <3> QED BY <2>1, <2>2, <3>2, <3>3, <3>4 DEF PanelInv
  <2>5. CASE ~l.manages
    <3>1. Group!Ended(l)
      BY <1>3, <2>5 DEF Group!BaseArrives
    <3>2. apart' => apart /\ group' = room /\ edits'.room = room
      BY <2>1, <2>2 DEF PanelInv
    <3> QED BY <2>1, <2>2, <3>1, <3>2, EndedKeeps
  <2> QED BY <2>4, <2>5
<1>4. ASSUME NEW l \in baseLoads, Group!BaseFails(l) PROVE PanelInv'
  <2>1. Group!Ended(l) /\ apart' = FALSE /\ UNCHANGED <<room, group, edits>>
    BY <1>4 DEF Group!BaseFails
  <2> QED BY <2>1, EndedKeeps DEF PanelInv
<1>5. ASSUME NEW l \in baseLoads, NEW ok \in BOOLEAN, Group!RolesArrive(l, ok) PROVE PanelInv'
  <2>1. Group!Ended(l) /\ l.stage # "base" /\ UNCHANGED <<room, group, edits, apart>>
    BY <1>5 DEF Group!RolesArrive
  <2> QED BY <2>1, EndedKeeps DEF PanelInv
<1>6. ASSUME Group!Touch \/ Group!ApplyCrop PROVE PanelInv'
  <2>1. edits' = [edits EXCEPT !.touched = TRUE] /\ UNCHANGED <<room, group, baseLoading, baseLoads, actions, apart>>
    BY <1>6 DEF Group!Touch, Group!ApplyCrop
  <2>2. edits'.room = edits.room /\ "room" \in DOMAIN edits'
    BY <2>1 DEF PanelInv
  <2> QED BY <2>1, <2>2 DEF PanelInv
<1>7. ASSUME Group!PickImage \/ Group!CancelCrop \/ UNCHANGED groupVars PROVE PanelInv'
  BY <1>7 DEF Group!PickImage, Group!CancelCrop, groupVars, PanelInv
<1>8. ASSUME NEW name \in Group!ActNames, Group!Act(name) PROVE PanelInv'
  <2> DEFINE one == [id |-> acted + 1, name |-> name, room |-> room,
                     from |-> edits.room, manages |-> Group!Manages(perms), stage |-> "sent"]
  <2>1. Labels \subseteq DOMAIN one /\ one.room = room
    BY DEF Labels
  <2>2. actions' = actions \cup {one} /\ UNCHANGED <<room, group, edits, baseLoading, baseLoads, apart>>
    BY <1>8 DEF Group!Act
  <2> HIDE DEF one
  <2> QED BY <2>1, <2>2 DEF PanelInv
<1>9. ASSUME NEW a \in actions, Group!ActDone(a) PROVE PanelInv'
  <2> DEFINE one == [a EXCEPT !.stage = "loading"]
  <2>1. Labels \subseteq DOMAIN one /\ one.room = a.room
    BY DEF PanelInv, Labels
  <2>2. /\ actions' = (actions \ {a}) \cup {one} /\ UNCHANGED <<room, edits>> /\ group' \in {group, a.room}
    BY <1>9 DEF Group!ActDone
  <2> HIDE DEF one
  <2>3. \A k \in actions' : k \in actions \/ (Labels \subseteq DOMAIN k /\ k.room = a.room)
    BY <2>1, <2>2
  <2> DEFINE stage == IF a.name = "roles" THEN "alone" ELSE "base"
             manages == IF a.name = "roles" THEN TRUE ELSE a.manages
  <2>4. /\ Group!Start(Group!NewLoad(a.room, manages, stage, a.id), baseLoads)
        /\ stage \in {"base", "alone"} /\ (stage = "base" \/ baseLoading' = baseLoading)
    <3>1. CASE a.name = "roles"
      BY <1>9, <3>1 DEF Group!ActDone
    <3>2. CASE a.name # "roles"
      BY <1>9, <3>2 DEF Group!ActDone
    <3> QED BY <3>1, <3>2
  <2> HIDE DEF stage, manages
  <2>5. Group!NewLoad(a.room, manages, stage, a.id).room = a.room
    BY DEF Group!NewLoad
  <2>6. /\ baseLoads' = baseLoads \cup {Group!NewLoad(a.room, manages, stage, a.id)}
        /\ apart' = (apart /\ \A l \in baseLoads : l.room = a.room)
    BY <2>4, <2>5 DEF Group!Start
  <2>7. apart' => apart /\ (\A l \in baseLoads : l.room = a.room) /\ a.room = room
    BY <2>6 DEF PanelInv
  <2> QED BY <2>2, <2>3, <2>4, <2>6, <2>7, StartKeeps
<1>10. ASSUME NEW a \in actions, Group!ActFails(a) PROVE PanelInv'
  BY <1>10 DEF Group!ActFails, PanelInv
<1> QED
  BY <1>1, <1>2, <1>3, <1>4, <1>5, <1>6, <1>7, <1>8, <1>9, <1>10 DEF Group!Next

LEMMA PanelIs == ASSUME PanelInv PROVE Group!ShowsItsRoom /\ Group!SpinnerEnds
BY DEF PanelInv, Group!ShowsItsRoom, Group!SpinnerEnds

-----------------------------------------------------------------------------
(* The friends page: what a reload sees of those acted upon                 *)

Orders == [mine : SUBSET Persons, crossed : BOOLEAN, theirs : SUBSET Persons]
Settled == order.mine \ order.theirs

LEMMA OneAnswer == \A x : Others!Answers({x}) = {x}
<1>1. \A x : Others!Cardinality({x}) = 1
  <2>1. \A x : Cardinality({x}) = 1
    BY FS_Singleton
  <2> QED BY <2>1 DEF Others!Cardinality, Cardinality
<1> QED BY <1>1 DEF Others!Answers

\* Every load on its way sees those I acted upon last as the server has them; with none
\* on its way the page does.
RelationInv ==
  /\ order \in Orders /\ DOMAIN rel = Persons
  /\ \A l \in asked : "seen" \in DOMAIN l /\ DOMAIN l.seen = Persons
  /\ machine # "friends" => order.mine = {}
  /\ ~order.crossed => \A p \in Settled : /\ \A l \in asked : l.seen[p] = {rel[p]}
                                          /\ asked = {} => friends[p] = rel[p]

LEMMA RelationInit == ASSUME Others!RelationInit PROVE RelationInv
<1>1. /\ order = [mine |-> {}, crossed |-> FALSE, theirs |-> {}] /\ asked = {}
      /\ rel \in [Persons -> {"none", "incoming", "friend"}]
  BY DEF Others!RelationInit
<1>2. order \in Orders /\ order.mine = {}
  BY <1>1 DEF Orders
<1> QED BY <1>1, <1>2 DEF RelationInv, Settled

\* The new state of p reaches every load, and nobody else's changes.
LEMMA WidenedKeeps ==
  ASSUME RelationInv, NEW p, NEW state, NEW l \in asked
  PROVE  /\ "seen" \in DOMAIN Others!Widened(l, p, state) /\ DOMAIN Others!Widened(l, p, state).seen = Persons
         /\ \A q \in Persons \ {p} : Others!Widened(l, p, state).seen[q] = l.seen[q]
<1> DEFINE wide == [l.seen EXCEPT ![p] = @ \cup {state}]
<1>1. Others!Widened(l, p, state) = [l EXCEPT !.seen = wide]
  BY DEF Others!Widened
<1>2. DOMAIN wide = Persons /\ \A q \in Persons \ {p} : wide[q] = l.seen[q]
  BY DEF RelationInv
<1> HIDE DEF wide
<1>3. "seen" \in DOMAIN Others!Widened(l, p, state) /\ Others!Widened(l, p, state).seen = wide
  BY <1>1 DEF RelationInv
<1> QED BY <1>2, <1>3

LEMMA TheyKeep ==
  ASSUME RelationInv, NEW p \in Persons, Others!TheyAct(p), machine' = machine
  PROVE  RelationInv'
<1>1. PICK state \in Others!Theirs(rel[p]) : Others!Becomes(p, state)
  BY DEF Others!TheyAct
<1>2. /\ rel' = [rel EXCEPT ![p] = state] /\ asked' = {Others!Widened(l, p, state) : l \in asked}
      /\ order' = [order EXCEPT !.theirs = @ \cup {p}] /\ UNCHANGED friends
  BY <1>1 DEF Others!TheyAct, Others!Becomes
<1>3. order' \in Orders /\ order'.mine = order.mine /\ order'.crossed = order.crossed
      /\ order'.theirs = order.theirs \cup {p}
  BY <1>2 DEF RelationInv, Orders
<1>4. Settled' = Settled \ {p} /\ Settled \subseteq Persons
  BY <1>3 DEF Settled, RelationInv, Orders
<1>5. \A l \in asked' : "seen" \in DOMAIN l /\ DOMAIN l.seen = Persons
  BY <1>2, WidenedKeeps
<1>6. ASSUME ~order'.crossed, NEW q \in Settled'
      PROVE  /\ \A l \in asked' : l.seen[q] = {rel'[q]}
             /\ asked' = {} => friends'[q] = rel'[q]
  <2>1. q \in Settled /\ q # p /\ q \in Persons /\ rel'[q] = rel[q]
    BY <1>2, <1>4, <1>6 DEF RelationInv
  <2> QED BY <1>2, <1>3, <1>6, <2>1, WidenedKeeps DEF RelationInv
<1> QED BY <1>2, <1>3, <1>5, <1>6 DEF RelationInv

LEMMA FriendsStep ==
  ASSUME RelationInv, Others!FriendsNext, machine = "friends", machine' = machine
  PROVE  RelationInv'
<1>1. ASSUME NEW p \in Persons, Others!TheyAct(p) PROVE RelationInv'
  BY <1>1, TheyKeep
<1>2. ASSUME NEW p \in Persons, NEW k \in Others!Kinds, Others!FriendAct(p, k) PROVE RelationInv'
  <2> DEFINE state == Others!Outcome(k, rel[p])
  <2>1. CASE state # "refused"
    <3> DEFINE now == [q \in Persons |-> {rel'[q]}]
               one == [id |-> loads + 1, seen |-> now]
               others == {Others!Widened(l, p, state) : l \in asked}
               cross == asked # {}
    <3>1. /\ rel' = [rel EXCEPT ![p] = state] /\ asked' = others \cup {one} /\ UNCHANGED friends
      BY <1>2, <2>1 DEF Others!FriendAct, Others!Reload
    <3>2. order' = [order EXCEPT !.mine = @ \cup {p}, !.theirs = @ \ {p}, !.crossed = cross]
      BY <1>2, <2>1 DEF Others!FriendAct
    <3>3. cross \in BOOLEAN /\ (~cross => asked = {})
      OBVIOUS
    <3>4. "seen" \in DOMAIN one /\ one.seen = now /\ DOMAIN now = Persons
          /\ \A q \in Persons : now[q] = {rel'[q]}
      OBVIOUS
    <3> HIDE DEF now, one, cross
    <3>5. order' \in Orders /\ order'.crossed = cross
      BY <3>2, <3>3 DEF RelationInv, Orders
    <3>6. \A l \in others : "seen" \in DOMAIN l /\ DOMAIN l.seen = Persons
      <4> HIDE DEF state
      <4> QED BY WidenedKeeps
    <3>7. ~cross => asked' = {one}
      BY <3>1, <3>3
    <3> HIDE DEF others, state
    <3>8. DOMAIN rel' = Persons /\ Settled' \subseteq Persons
      BY <3>1, <3>5 DEF RelationInv, Settled, Orders
    <3> QED BY <3>1, <3>4, <3>5, <3>6, <3>7, <3>8 DEF RelationInv
  <2>2. CASE state = "refused" /\ k = "send"
    <3> DEFINE now == [q \in Persons |-> {rel[q]}]
               one == [id |-> loads + 1, seen |-> now]
    <3>1. asked' = asked \cup {one} /\ UNCHANGED <<rel, order, friends>>
      BY <1>2, <2>2 DEF Others!FriendAct, Others!Reload
    <3>2. "seen" \in DOMAIN one /\ one.seen = now /\ DOMAIN now = Persons
          /\ \A q \in Persons : now[q] = {rel[q]}
      OBVIOUS
    <3> HIDE DEF now, one
    <3>3. Settled' = Settled /\ Settled \subseteq Persons
      BY <3>1 DEF Settled, RelationInv, Orders
    <3> QED BY <3>1, <3>2, <3>3 DEF RelationInv
  <2>3. CASE state = "refused" /\ k # "send"
    <3>1. UNCHANGED <<rel, asked, order, friends>>
      BY <1>2, <2>3 DEF Others!FriendAct
    <3> QED BY <3>1 DEF RelationInv, Settled
  <2> QED BY <2>1, <2>2, <2>3
<1>3. ASSUME NEW l \in asked, NEW lost \in BOOLEAN, Others!FriendsAnswer(l, lost) PROVE RelationInv'
  <2>1. asked' = asked \ {l} /\ UNCHANGED rel
    BY <1>3 DEF Others!FriendsAnswer
  <2>2. CASE lost
    <3>1. order' = [order EXCEPT !.crossed = TRUE]
      BY <1>3, <2>2 DEF Others!FriendsAnswer
    <3>2. order' \in Orders /\ order'.crossed /\ order'.mine = order.mine
      BY <3>1 DEF RelationInv, Orders
    <3> QED BY <2>1, <3>2 DEF RelationInv
  <2>3. CASE ~lost
    <3>1. UNCHANGED order /\ \A p \in Persons : friends'[p] \in Others!Answers(l.seen[p])
      BY <1>3, <2>3 DEF Others!FriendsAnswer
    <3>2. Settled' = Settled /\ Settled \subseteq Persons
      BY <3>1 DEF Settled, RelationInv, Orders
    <3>3. ASSUME ~order.crossed, NEW p \in Settled PROVE friends'[p] = rel[p]
      <4>1. l.seen[p] = {rel[p]}
        BY <3>3 DEF RelationInv
      <4>2. friends'[p] \in Others!Answers({rel[p]})
        BY <3>1, <3>2, <4>1
      <4> QED BY <4>2, OneAnswer
    <3> QED BY <2>1, <3>1, <3>2, <3>3 DEF RelationInv
  <2> QED BY <2>2, <2>3
<1> QED BY <1>1, <1>2, <1>3 DEF Others!FriendsNext

\* The panel of a profile is another page: nothing of it is in the order kept here.
LEMMA PanelPageStep ==
  ASSUME RelationInv, Others!PanelNext, machine # "friends", machine' = machine
  PROVE  RelationInv'
<1>1. order.mine = {}
  BY DEF RelationInv
<1>2. ASSUME NEW p \in Persons, Others!TheyAct(p) PROVE RelationInv'
  BY <1>2, TheyKeep
<1>3. CASE Others!Worked
  <2>1. UNCHANGED order
    BY <1>3 DEF Others!Worked
  <2>2. CASE UNCHANGED <<rel, asked>>
    BY <1>1, <2>1, <2>2 DEF RelationInv, Settled
  <2>3. CASE \E state : Others!Becomes(action.target, state)
    <3>1. PICK state : Others!Becomes(action.target, state)
      BY <2>3
    <3>2. /\ asked' = {Others!Widened(l, action.target, state) : l \in asked}
          /\ rel' = [rel EXCEPT ![action.target] = state]
      BY <3>1 DEF Others!Becomes
    <3>3. \A l \in asked' : "seen" \in DOMAIN l /\ DOMAIN l.seen = Persons
      BY <3>2, WidenedKeeps
    <3> QED BY <1>1, <2>1, <3>2, <3>3 DEF RelationInv, Settled
  <2> QED BY <1>3, <2>2, <2>3 DEF Others!Worked
<1>4. ASSUME UNCHANGED <<rel, asked, order>> PROVE RelationInv'
  BY <1>1, <1>4 DEF RelationInv, Settled
<1>5. ASSUME NEW p \in Persons, Others!Subject(p) PROVE UNCHANGED <<rel, asked, order>>
  BY <1>5 DEF Others!Subject, Others!friendVars
<1>6. ASSUME NEW k \in Others!Kinds, Others!Act(k) PROVE UNCHANGED <<rel, asked, order>>
  BY <1>6 DEF Others!Act, Others!friendVars
<1>7. ASSUME Others!RunAnswers \/ Others!ReloadAnswers PROVE UNCHANGED <<rel, asked, order>>
  BY <1>7 DEF Others!RunAnswers, Others!ReloadAnswers, Others!friendVars
<1> QED BY <1>2, <1>3, <1>4, <1>5, <1>6, <1>7 DEF Others!PanelNext

LEMMA RelationStep == ASSUME RelationInv, [MCNext]_allVars PROVE RelationInv'
<1>1. machine' = machine
  BY DEF MCNext, allVars
<1>2. \/ machine = "friends" /\ Others!FriendsNext
      \/ machine # "friends" /\ Others!PanelNext
      \/ UNCHANGED relationVars
  BY DEF MCNext, allVars
<1>3. CASE UNCHANGED relationVars
  BY <1>1, <1>3 DEF relationVars, RelationInv, Settled
<1> QED BY <1>1, <1>2, <1>3, FriendsStep, PanelPageStep

LEMMA RelationIs == ASSUME RelationInv PROVE Others!MyActionIsShown
BY DEF RelationInv, Settled, Others!MyActionIsShown

-----------------------------------------------------------------------------
(* The panel of a personal chat: its files, a page at a time                *)

Items == [chat : Chats, id : Nat]
Olds == [before : Nat, more : BOOLEAN]
Asks == [chat : Chats, before : Nat \ {0}]

\* The files held are a run of numbers of files the server has, down to the one the next
\* page is asked before; what is asked is asked of the chat they are of.
FilesInv ==
  /\ chat \in Chats /\ server \in [Chats -> Nat] /\ files \in Seq(Items) /\ older \in Olds
  /\ mixed \in BOOLEAN /\ (more = <<>> \/ more \in Asks)
  /\ \A i \in DOMAIN files : files[i].id <= server[files[i].chat]
  /\ ~mixed =>
       /\ \A i \in DOMAIN files : /\ first = {} => files[i].chat = chat
                                  /\ i > 1 => files[i].id = files[i - 1].id - 1
       /\ older.before # 0 => files # <<>> /\ files[Len(files)].id = older.before
       /\ more # <<>> => /\ more.before = older.before
                         /\ more.chat = files[Len(files)].chat
                         /\ first = {} => more.chat = chat

LEMMA FilesInit == ASSUME Others!PeopleAssumption, Others!ChatInit PROVE FilesInv
<1>1. /\ chat \in Chats /\ server \in [Chats -> 0..MaxFiles] /\ files = <<>> /\ more = <<>>
      /\ older = [before |-> 0, more |-> FALSE] /\ mixed = FALSE
  BY DEF Others!ChatInit, Others!None
<1>2. server \in [Chats -> Nat]
  BY <1>1 DEF Others!PeopleAssumption
<1>3. older \in Olds /\ older.before = 0
  BY <1>1 DEF Olds
<1>4. files \in Seq(Items) /\ DOMAIN files = {}
  BY <1>1
<1> QED BY <1>1, <1>2, <1>3, <1>4 DEF FilesInv

LEMMA LeastOf ==
  ASSUME NEW a \in Int, NEW b \in Int
  PROVE  Others!Min({a, b}) = IF a <= b THEN a ELSE b
BY DEF Others!Min

\* A page: a run of numbers that begins below the one it is asked before.
PageFits(c, before) ==
  LET page == Others!Page(c, before)
      named == Others!Named(c, page.files)
  IN  /\ named \in Seq(Items) /\ Len(named) = Len(page.files) /\ DOMAIN named = 1..Len(named)
      /\ page.more \in BOOLEAN /\ page.files \in Seq(Nat)
      /\ \A i \in 1..Len(named) :
           /\ named[i].chat = c /\ named[i].id = page.files[i] /\ page.files[i] # 0
           /\ page.files[i] <= server[c]
           /\ i > 1 => page.files[i] = page.files[i - 1] - 1
           /\ i = 1 /\ before <= server[c] + 1 => page.files[i] = before - 1

LEMMA PageIs ==
  ASSUME Others!PeopleAssumption, FilesInv, NEW c \in Chats, NEW before \in Nat \ {0}
  PROVE  PageFits(c, before)
<1> DEFINE latest == Others!Min({server[c], before - 1})
           count == Others!Min({latest, PageSize})
           ids == [i \in 1..count |-> latest + 1 - i]
           page == Others!Page(c, before)
           named == Others!Named(c, page.files)
<1>1. server[c] \in Nat /\ PageSize \in Nat
  BY DEF FilesInv, Others!PeopleAssumption
<1>2. latest = IF server[c] <= before - 1 THEN server[c] ELSE before - 1
  BY <1>1, LeastOf
<1>3. latest \in Nat /\ latest <= server[c] /\ (before <= server[c] + 1 => latest = before - 1)
  BY <1>1, <1>2
<1>4. page.files = ids /\ page.more = (latest > PageSize)
  BY DEF Others!Page
<1> HIDE DEF latest, page
<1>5. count \in Nat /\ count <= latest
  <2>1. count = IF latest <= PageSize THEN latest ELSE PageSize
    BY <1>1, <1>3, LeastOf
  <2> QED BY <1>1, <1>3, <2>1
<1> HIDE DEF count
<1>6. ids \in Seq(Nat) /\ Len(ids) = count /\ DOMAIN ids = 1..count
  <2>1. \A i \in 1..count : latest + 1 - i \in Nat
    BY <1>3, <1>5
  <2> QED BY <1>5, <2>1
<1>7. named = [i \in 1..count |-> [chat |-> c, id |-> ids[i]]]
  BY <1>4, <1>6 DEF Others!Named
<1>8. \A i \in 1..count : /\ named[i] \in Items /\ named[i].chat = c /\ named[i].id = ids[i]
                          /\ ids[i] = latest + 1 - i
  <2>1. \A i \in 1..count : ids[i] = latest + 1 - i
    OBVIOUS
  <2> HIDE DEF ids, named
  <2> SUFFICES ASSUME NEW i \in 1..count
               PROVE  named[i] \in Items /\ named[i].chat = c /\ named[i].id = ids[i]
    BY <2>1
  <2>2. ids[i] \in Nat
    BY <1>6
  <2>3. named[i] = [chat |-> c, id |-> ids[i]]
    BY <1>7
  <2> QED BY <2>2, <2>3 DEF Items
<1>9. named \in Seq(Items) /\ Len(named) = count /\ DOMAIN named = 1..count
  BY <1>5, <1>7, <1>8
<1>10. page.more \in BOOLEAN
  BY <1>1, <1>3, <1>4
<1> HIDE DEF named, ids
<1>11. \A i \in 1..count :
          /\ ids[i] # 0 /\ ids[i] <= server[c]
          /\ i > 1 => ids[i] = ids[i - 1] - 1
          /\ i = 1 /\ before <= server[c] + 1 => ids[i] = before - 1
  <2> SUFFICES ASSUME NEW i \in 1..count
               PROVE  /\ ids[i] # 0 /\ ids[i] <= server[c]
                      /\ i > 1 => ids[i] = ids[i - 1] - 1
                      /\ i = 1 /\ before <= server[c] + 1 => ids[i] = before - 1
    OBVIOUS
  <2>1. ids[i] = latest + 1 - i
    BY <1>8
  <2>2. i > 1 => i - 1 \in 1..count
    BY <1>5
  <2>3. i > 1 => ids[i - 1] = latest + 1 - (i - 1)
    BY <1>8, <2>2
  <2> QED BY <1>1, <1>3, <1>5, <2>1, <2>3
<1>12. /\ named \in Seq(Items) /\ Len(named) = Len(page.files) /\ DOMAIN named = 1..Len(named)
       /\ page.more \in BOOLEAN /\ page.files \in Seq(Nat)
  BY <1>4, <1>6, <1>9, <1>10
<1>13. \A i \in 1..Len(named) :
          /\ named[i].chat = c /\ named[i].id = page.files[i] /\ page.files[i] # 0
          /\ page.files[i] <= server[c]
          /\ i > 1 => page.files[i] = page.files[i - 1] - 1
          /\ i = 1 /\ before <= server[c] + 1 => page.files[i] = before - 1
  BY <1>4, <1>8, <1>9, <1>11
<1> QED BY <1>12, <1>13 DEF page, named, PageFits

\* Two runs one after the other.
LEMMA JoinIs ==
  ASSUME NEW S, NEW s \in Seq(S), NEW t \in Seq(S)
  PROVE  /\ s \o t \in Seq(S) /\ Len(s \o t) = Len(s) + Len(t)
         /\ \A i \in 1..Len(s) : (s \o t)[i] = s[i]
         /\ \A i \in DOMAIN (s \o t) :
               i \in 1..Len(s) \/ (i - Len(s) \in 1..Len(t) /\ (s \o t)[i] = t[i - Len(s)])
OBVIOUS

LEMMA FilesStep ==
  ASSUME Others!PeopleAssumption, FilesInv, Others!ChatNext \/ UNCHANGED chatVars
  PROVE  FilesInv'
<1>t. /\ chat \in Chats /\ server \in [Chats -> Nat] /\ files \in Seq(Items) /\ older \in Olds
      /\ mixed \in BOOLEAN /\ (more = <<>> \/ more \in Asks)
      /\ \A i \in DOMAIN files : files[i].id <= server[files[i].chat]
  BY DEF FilesInv
<1>1. ASSUME NEW c \in Chats, Others!Show(c) PROVE FilesInv'
  BY <1>1 DEF Others!Show, FilesInv
<1>2. ASSUME NEW c \in Chats, Others!FileArrives(c) PROVE FilesInv'
  <2>1. server' = [server EXCEPT ![c] = @ + 1] /\ UNCHANGED <<chat, files, older, first, more, mixed>>
    BY <1>2 DEF Others!FileArrives
  <2>2. server' \in [Chats -> Nat] /\ \A d \in Chats : server[d] <= server'[d] /\ server[d] \in Nat
    BY <1>t, <2>1
  <2>3. \A i \in DOMAIN files' : files'[i].id <= server'[files'[i].chat]
    <3>1. \A i \in DOMAIN files : files[i].id \in Nat /\ files[i].chat \in Chats
      <4>1. \A i \in DOMAIN files : files[i] \in Items
        BY <1>t
      <4>2. \A x \in Items : x.id \in Nat /\ x.chat \in Chats
        BY DEF Items
      <4> QED BY <4>1, <4>2
    <3> QED BY <1>t, <2>1, <2>2, <3>1
  <2> QED BY <2>1, <2>2, <2>3 DEF FilesInv
<1>3. ASSUME NEW c \in Chats, NEW lost \in BOOLEAN, Others!FirstPage(c, lost) PROVE FilesInv'
  <2> DEFINE page == Others!Page(c, MaxFiles + 1)
             named == Others!Named(c, page.files)
             rest == page.more /\ ~lost
             oldest == IF lost THEN 0 ELSE Others!Oldest(page.files, 0)
  <2>1. /\ first' = first \ {c} /\ files' = IF lost THEN <<>> ELSE named
        /\ older' = [before |-> oldest, more |-> rest]
        /\ mixed' = (mixed \/ c # chat \/ more # <<>>) /\ UNCHANGED <<chat, server, more>>
    BY <1>3 DEF Others!FirstPage, Others!None
  <2>2. /\ named \in Seq(Items) /\ Len(named) = Len(page.files) /\ DOMAIN named = 1..Len(named)
        /\ page.more \in BOOLEAN /\ page.files \in Seq(Nat)
        /\ \A i \in 1..Len(named) :
              /\ named[i].chat = c /\ named[i].id = page.files[i] /\ page.files[i] # 0
              /\ page.files[i] <= server[c]
              /\ i > 1 => page.files[i] = page.files[i - 1] - 1
    <3>1. MaxFiles + 1 \in Nat \ {0}
      BY DEF Others!PeopleAssumption
    <3>2. PageFits(c, MaxFiles + 1)
      BY <3>1, PageIs
    <3> QED BY <3>2 DEF PageFits
  <2> HIDE DEF page, named
  <2>3. rest \in BOOLEAN /\ oldest \in Nat
        /\ (oldest # 0 => ~lost /\ named # <<>> /\ named[Len(named)].id = oldest)
    BY <2>2 DEF Others!Oldest
  <2> HIDE DEF rest, oldest
  <2>4. older' \in Olds /\ older'.before = oldest
    BY <2>1, <2>3 DEF Olds
  <2>5. /\ files' \in Seq(Items)
        /\ \A i \in DOMAIN files' : files'[i].chat = c
        /\ \A i \in DOMAIN files' : files'[i].id <= server'[files'[i].chat]
        /\ \A i \in DOMAIN files' : i > 1 => files'[i].id = files'[i - 1].id - 1
    <3>1. CASE lost
      BY <2>1, <3>1
    <3>2. CASE ~lost
      <4>1. files' = named
        BY <2>1, <3>2
      <4>2. \A i \in 1..Len(named) : i > 1 => i - 1 \in 1..Len(named)
        BY <2>2
      <4> QED BY <2>1, <2>2, <4>1, <4>2
    <3> QED BY <3>1, <3>2
  <2>6. older'.before # 0 => files' # <<>> /\ files'[Len(files')].id = older'.before
    BY <2>1, <2>3, <2>4
  <2>7. mixed' \in BOOLEAN /\ (~mixed' => c = chat /\ more = <<>>)
    BY <1>t, <2>1
  <2>8. ~mixed' => \A i \in DOMAIN files' : first' = {} => files'[i].chat = chat'
    BY <2>1, <2>5, <2>7, Zenon
  <2>9. more = more' /\ (~mixed' => more' = <<>>)
    BY <2>1, <2>7
  <2> QED BY <1>t, <2>1, <2>4, <2>5, <2>6, <2>7, <2>8, <2>9 DEF FilesInv
<1>4. CASE Others!AskMore
  <2> DEFINE one == [chat |-> chat, before |-> older.before]
  <2>1. /\ older.before # 0 /\ more' = one /\ mixed' = (mixed \/ first # {})
        /\ UNCHANGED <<chat, files, server, older, first>>
    BY <1>4 DEF Others!AskMore
  <2>2. one \in Asks /\ one.chat = chat /\ one.before = older.before
    BY <1>t, <2>1 DEF Asks, Olds
  <2> HIDE DEF one
  <2>3. mixed' \in BOOLEAN /\ (~mixed' => ~mixed /\ first = {})
    BY <1>t, <2>1
  <2>4. ~mixed' => files # <<>> /\ files[Len(files)].chat = chat
    <3>1. ~mixed' => files # <<>> /\ \A i \in DOMAIN files : files[i].chat = chat
      BY <2>1, <2>3 DEF FilesInv
    <3>2. files # <<>> => Len(files) \in DOMAIN files
      BY <1>t
    <3> QED BY <3>1, <3>2
  <2> QED BY <2>1, <2>2, <2>3, <2>4 DEF FilesInv
<1>5. ASSUME NEW lost \in BOOLEAN, Others!MorePage(lost) PROVE FilesInv'
  <2>1. more \in Asks /\ more # <<>> /\ more' = <<>> /\ UNCHANGED <<chat, server, first>>
        /\ mixed' = (mixed \/ more.chat # chat)
    BY <1>5, <1>t DEF Others!MorePage, Others!None
  <2>2. mixed' \in BOOLEAN /\ (~mixed' => ~mixed /\ more.chat = chat)
    BY <1>t, <2>1
  <2>3. CASE lost
    <3>1. older' = [older EXCEPT !.more = FALSE] /\ UNCHANGED files
      BY <1>5, <2>3 DEF Others!MorePage
    <3>2. older' \in Olds /\ older'.before = older.before
      BY <1>t, <3>1 DEF Olds
    <3> QED BY <2>1, <2>2, <3>1, <3>2 DEF FilesInv
  <2>4. CASE ~lost
    <3> DEFINE page == Others!Page(more.chat, more.before)
               named == Others!Named(more.chat, page.files)
               oldest == Others!Oldest(page.files, 0)
    <3>1. files' = files \o named /\ older' = [before |-> oldest, more |-> page.more]
      BY <1>5, <2>4 DEF Others!MorePage
    <3>2. /\ named \in Seq(Items) /\ Len(named) = Len(page.files) /\ DOMAIN named = 1..Len(named)
          /\ page.more \in BOOLEAN /\ page.files \in Seq(Nat)
          /\ \A i \in 1..Len(named) :
                /\ named[i].chat = more.chat /\ named[i].id = page.files[i] /\ page.files[i] # 0
                /\ page.files[i] <= server[more.chat]
                /\ i > 1 => page.files[i] = page.files[i - 1] - 1
                /\ i = 1 /\ more.before <= server[more.chat] + 1 => page.files[i] = more.before - 1
      <4>1. more.chat \in Chats /\ more.before \in Nat \ {0}
        BY <2>1 DEF Asks
      <4>2. PageFits(more.chat, more.before)
        BY <4>1, PageIs
      <4> QED BY <4>2 DEF PageFits
    <3> HIDE DEF page, named
    <3>3. oldest \in Nat /\ (oldest # 0 => named # <<>> /\ named[Len(named)].id = oldest)
      BY <3>2 DEF Others!Oldest
    <3> HIDE DEF oldest
    <3>4. older' \in Olds /\ older'.before = oldest
      BY <3>1, <3>2, <3>3 DEF Olds
    <3>5. /\ files' \in Seq(Items) /\ Len(files') = Len(files) + Len(named)
          /\ \A i \in 1..Len(files) : files'[i] = files[i]
          /\ \A i \in DOMAIN files' :
                i \in 1..Len(files) \/ (i - Len(files) \in 1..Len(named) /\ files'[i] = named[i - Len(files)])
      <4>1. files \in Seq(Items) /\ named \in Seq(Items) /\ files' = files \o named
        BY <1>t, <3>1, <3>2
      <4> QED BY <4>1, JoinIs
    <3>6. Len(files) \in Nat /\ DOMAIN files = 1..Len(files) /\ Len(named) \in Nat
          /\ DOMAIN files' = 1..(Len(files) + Len(named))
      BY <1>t, <3>2, <3>5
    <3>7. ASSUME NEW i \in DOMAIN files' PROVE files'[i].id <= server'[files'[i].chat]
      <4>1. CASE i \in 1..Len(files)
        BY <1>t, <2>1, <3>5, <3>6, <4>1
      <4>2. CASE i - Len(files) \in 1..Len(named) /\ files'[i] = named[i - Len(files)]
        BY <2>1, <3>2, <4>2
      <4> QED BY <3>5, <4>1, <4>2
    <3>8. older'.before # 0 => files' # <<>> /\ files'[Len(files')].id = older'.before
      <4> SUFFICES ASSUME oldest # 0 PROVE files' # <<>> /\ files'[Len(files')].id = oldest
        BY <3>4
      <4>1. named # <<>> /\ Len(named) > 0 /\ named[Len(named)].id = oldest
        BY <3>2, <3>3
      <4>2. Len(files') \in DOMAIN files' /\ Len(files') \notin 1..Len(files)
            /\ Len(files') - Len(files) = Len(named)
        BY <3>5, <3>6, <4>1
      <4>3. files'[Len(files')] = named[Len(named)]
        BY <3>5, <4>2
      <4> QED BY <3>5, <4>1, <4>2, <4>3
    <3>9. ASSUME ~mixed', first' = {}, NEW i \in DOMAIN files' PROVE files'[i].chat = chat'
      <4>1. ~mixed /\ first = {} /\ more.chat = chat
        BY <2>1, <2>2, <3>9
      <4>2. CASE i \in 1..Len(files)
        BY <2>1, <3>5, <3>6, <4>1, <4>2 DEF FilesInv
      <4>3. CASE i - Len(files) \in 1..Len(named) /\ files'[i] = named[i - Len(files)]
        BY <2>1, <3>2, <4>1, <4>3
      <4> QED BY <3>5, <4>2, <4>3
    <3>10. ASSUME ~mixed', NEW i \in DOMAIN files', i > 1 PROVE files'[i].id = files'[i - 1].id - 1
      <4>1. CASE i \in 1..Len(files)
        BY <1>t, <2>2, <3>5, <3>10, <4>1 DEF FilesInv
      <4>2. CASE i = Len(files) + 1 /\ i \notin 1..Len(files)
        <5>1. 1 \in 1..Len(named) /\ files'[i] = named[1] /\ files # <<>>
          BY <1>t, <3>2, <3>5, <3>6, <3>10, <4>2
        <5>2. files[Len(files)].id = more.before /\ files[Len(files)].chat = more.chat
          BY <2>1, <2>2, <3>10, <5>1, <1>t DEF FilesInv, Asks
        <5>3. more.before <= server[more.chat] /\ server[more.chat] \in Nat /\ more.before \in Nat
          <6>1. Len(files) \in DOMAIN files
            BY <1>t, <5>1
          <6>2. more.chat \in Chats /\ more.before \in Nat
            BY <2>1 DEF Asks
          <6> QED BY <1>t, <5>2, <6>1, <6>2
        <5>4. named[1].id = more.before - 1
          BY <3>2, <5>1, <5>3
        <5>5. files'[i - 1] = files[Len(files)]
          BY <1>t, <3>5, <3>10, <4>2
        <5> QED BY <5>1, <5>2, <5>4, <5>5
      <4>3. CASE i > Len(files) + 1
        <5>0. i \in Nat /\ i <= Len(files) + Len(named) /\ i - 1 \in DOMAIN files'
          BY <3>6, <4>3
        <5>1. /\ i - Len(files) \in 1..Len(named) /\ files'[i] = named[i - Len(files)]
              /\ i - 1 - Len(files) \in 1..Len(named) /\ i - Len(files) > 1
          <6>1. i \notin 1..Len(files)
            BY <3>6, <4>3, <5>0
          <6> QED BY <3>5, <3>6, <4>3, <5>0, <6>1
        <5>2. files'[i - 1] = named[i - 1 - Len(files)]
          <6>1. i - 1 \notin 1..Len(files)
            BY <3>6, <4>3, <5>0
          <6> QED BY <3>5, <5>0, <6>1
        <5>3. (i - Len(files)) - 1 = i - 1 - Len(files)
          BY <1>t, <3>5
        <5> QED BY <3>2, <5>1, <5>2, <5>3
      <4> QED BY <1>t, <3>5, <4>1, <4>2, <4>3
    <3> QED BY <1>t, <2>1, <2>2, <3>4, <3>5, <3>7, <3>8, <3>9, <3>10 DEF FilesInv
  <2> QED BY <2>3, <2>4
<1>6. CASE UNCHANGED chatVars
  BY <1>6 DEF chatVars, FilesInv
<1> QED BY <1>1, <1>2, <1>3, <1>4, <1>5, <1>6 DEF Others!ChatNext

LEMMA FilesAre == ASSUME FilesInv PROVE Others!FilesAreTheChats
BY DEF FilesInv, Others!FilesAreTheChats

-----------------------------------------------------------------------------
(* What is shown answers what is asked                                      *)

AnswersInv ==
  /\ CacheInv /\ LookupsInv /\ PanelInv /\ RelationInv /\ FilesInv
  /\ Frame!ListStopsLoading

LEMMA AnswersInit == MCInit => AnswersInv
<1> SUFFICES ASSUME MCInit PROVE AnswersInv
  OBVIOUS
<1>1. /\ Copies!Init /\ Lookups!Init /\ Group!Init /\ Others!RelationInit /\ Others!ChatInit
      /\ Frame!ListInit
  BY DEF MCInit
<1>2. Frame!ListStopsLoading
  BY <1>1 DEF Frame!ListInit, Frame!ListStopsLoading
<1> QED BY <1>1, <1>2, PeopleConstants, CacheInit, LookupsInit, PanelInit, RelationInit, FilesInit DEF AnswersInv

LEMMA AnswersStep == AnswersInv /\ [MCNext]_allVars => AnswersInv'
<1> SUFFICES ASSUME AnswersInv, [MCNext]_allVars PROVE AnswersInv'
  OBVIOUS
<1>1. CacheInv' /\ LookupsInv'
  BY OneMachineMoves, CacheConstants, CacheStep, LookupsStep DEF AnswersInv
<1>2. PanelInv' /\ RelationInv'
  BY OneMachineMoves, PanelStep, RelationStep DEF AnswersInv
<1>3. FilesInv' /\ Frame!ListStopsLoading'
  BY OneMachineMoves, PeopleConstants, FilesStep, ListStep DEF AnswersInv
<1> QED BY <1>1, <1>2, <1>3 DEF AnswersInv

\* However late and in whatever order answers come, the copies of the worker, the lookups,
\* the group panel, the friends page, the files of a chat and the list of groups show what
\* is asked for now.
THEOREM AnswersTheorem == MCSpec => []AnswersAreCurrent
<1>1. AnswersInv => AnswersAreCurrent
  BY CopiesAre, LookupsAre, PanelIs, RelationIs, FilesAre DEF AnswersInv, AnswersAreCurrent
<1> QED BY <1>1, AnswersInit, AnswersStep, PTL DEF MCSpec

-----------------------------------------------------------------------------
(* Images: those of the group panel and of the settings                     *)

\* An image is shown, waits in the crop dialog, or has been revoked.
ImagesInv ==
  /\ urls \in Nat /\ preview \in 0..urls /\ pending \in 0..urls
  /\ pending # 0 => preview # pending
  /\ Group!ImagesAreKept

LEMMA ImagesInit == ASSUME Group!Init PROVE ImagesInv
BY DEF Group!Init, ImagesInv, Group!ImagesAreKept

\* What an action does with the images: nothing, or one of four things.
LEMMA ImagesMove ==
  ASSUME Group!Next
  PROVE  \/ UNCHANGED <<urls, preview, pending, revoked>>
         \/ revoked' = Group!Revoke({preview, pending}) /\ preview' = 0 /\ pending' = 0 /\ urls' = urls
         \/ /\ urls' = urls + 1 /\ pending' = urls + 1 /\ revoked' = Group!Revoke({pending})
            /\ preview' = preview
         \/ /\ pending # 0 /\ pending' = 0 /\ revoked' = Group!Revoke({pending})
            /\ UNCHANGED <<urls, preview>>
         \/ /\ pending # 0 /\ preview' = pending /\ pending' = 0 /\ revoked' = Group!Revoke({preview})
            /\ urls' = urls
<1> DEFINE Still == UNCHANGED <<urls, preview, pending, revoked>>
           Dropped == revoked' = Group!Revoke({preview, pending}) /\ preview' = 0 /\ pending' = 0 /\ urls' = urls
<1>1. ASSUME NEW r, Group!OpenAnother(r) PROVE Still
  BY <1>1 DEF Group!OpenAnother
<1>2. ASSUME NEW r, NEW ok, Group!PermsArrive(r, ok) PROVE Still
  BY <1>2 DEF Group!PermsArrive
<1>3. ASSUME NEW l, Group!BaseArrives(l) PROVE Dropped
  BY <1>3 DEF Group!BaseArrives
<1>4. ASSUME NEW l, Group!BaseFails(l) PROVE Still
  BY <1>4 DEF Group!BaseFails
<1>5. ASSUME NEW l, NEW ok, Group!RolesArrive(l, ok) PROVE Still
  BY <1>5 DEF Group!RolesArrive
<1>6. ASSUME NEW name, Group!Act(name) PROVE Still
  BY <1>6 DEF Group!Act
<1>7. ASSUME NEW a, Group!ActDone(a) PROVE Still \/ Dropped
  BY <1>7 DEF Group!ActDone
<1>8. ASSUME NEW a, Group!ActFails(a) PROVE Still
  BY <1>8 DEF Group!ActFails
<1>9. CASE Group!Touch
  BY <1>9 DEF Group!Touch
<1>10. CASE Group!PickImage
  BY <1>10 DEF Group!PickImage
<1>11. CASE Group!CancelCrop
  BY <1>11 DEF Group!CancelCrop
<1>12. CASE Group!ApplyCrop
  BY <1>12 DEF Group!ApplyCrop
<1> QED BY <1>1, <1>2, <1>3, <1>4, <1>5, <1>6, <1>7, <1>8, <1>9, <1>10, <1>11, <1>12 DEF Group!Next

LEMMA ImagesStep == ASSUME ImagesInv, Group!Next \/ UNCHANGED groupVars PROVE ImagesInv'
<1> USE DEF ImagesInv, Group!ImagesAreKept, Group!Revoke
<1>1. CASE UNCHANGED groupVars
  BY <1>1 DEF groupVars
<1>2. CASE UNCHANGED <<urls, preview, pending, revoked>>
  BY <1>2
<1>3. CASE revoked' = Group!Revoke({preview, pending}) /\ preview' = 0 /\ pending' = 0 /\ urls' = urls
  BY <1>3
<1>4. CASE /\ urls' = urls + 1 /\ pending' = urls + 1 /\ revoked' = Group!Revoke({pending})
           /\ preview' = preview
  BY <1>4
<1>5. CASE /\ pending # 0 /\ pending' = 0 /\ revoked' = Group!Revoke({pending})
           /\ UNCHANGED <<urls, preview>>
  BY <1>5
<1>6. CASE /\ pending # 0 /\ preview' = pending /\ pending' = 0 /\ revoked' = Group!Revoke({preview})
           /\ urls' = urls
  BY <1>6
<1> QED BY <1>1, <1>2, <1>3, <1>4, <1>5, <1>6, ImagesMove

Crops == [source : {"none", "upload", "existing"}, image : Nat]

\* The image of the crop dialog is not the one shown when it was chosen from a file; what a
\* save under way has is the file, or a later file is known to be.
AvatarInv ==
  /\ images \in Nat /\ pictured \in 0..images /\ freed \subseteq 1..images
  /\ crop \in Crops /\ crop.image <= images
  /\ crop.source = "upload" => crop.image # 0 /\ crop.image # pictured
  /\ saving.on => file = saving.image \/ file \in overtaken
  /\ Own!AvatarIsKept

LEMMA AvatarInit == ASSUME Own!Init PROVE AvatarInv
<1>1. /\ images = 0 /\ freed = {} /\ file = 0 /\ pictured = 0 /\ crop = Own!NoCrop
      /\ saving = Own!NoSave
  BY DEF Own!Init
<1>2. Own!NoCrop \in Crops /\ Own!NoCrop.image = 0 /\ Own!NoCrop.source = "none" /\ ~Own!NoSave.on
  BY DEF Own!NoCrop, Own!NoSave, Crops
<1> QED BY <1>1, <1>2 DEF AvatarInv, Own!AvatarIsKept

LEMMA AvatarStep == ASSUME AvatarInv, Own!AvatarNext \/ UNCHANGED avatarVars PROVE AvatarInv'
<1> USE DEF AvatarInv, Own!AvatarIsKept
<1>a. Own!NoCrop \in Crops /\ Own!NoCrop.image = 0 /\ Own!NoCrop.source = "none" /\ ~Own!NoSave.on
  BY DEF Own!NoCrop, Own!NoSave, Crops
<1>1. CASE Own!PickImage
  <2>1. crop' \in Crops /\ crop'.source = "upload" /\ crop'.image = images + 1
    BY <1>1 DEF Own!PickImage, Crops
  <2>2. freed' \in {freed, freed \cup ({crop.image} \ {0})}
    BY <1>1 DEF Own!PickImage, Own!Freed
  <2>3. pictured \notin freed'
    BY <1>1 DEF Own!PickImage, Own!Freed
  <2>4. images' = images + 1 /\ UNCHANGED <<file, pictured, saving, uploaded, overtaken>>
    BY <1>1 DEF Own!PickImage
  <2>5. freed' \subseteq 1..images
    BY <2>2 DEF Crops
  <2>6. {pictured', crop'.image} \cap freed' = {}
    <3>1. images + 1 \notin 1..images
      OBVIOUS
    <3> QED BY <2>1, <2>3, <2>4, <2>5, <3>1
  <2>7. crop'.image # 0 /\ crop'.image # pictured' /\ freed' \subseteq 1..images'
    BY <2>1, <2>4, <2>5
  <2>8. pictured' \in {0, file'} \cup uploaded' \cup overtaken'
    BY <2>4
  <2>9. images' \in Nat /\ pictured' \in 0..images' /\ crop'.image <= images'
    BY <2>1, <2>4
  <2>10. saving'.on => file' = saving'.image \/ file' \in overtaken'
    BY <2>4
  <2> QED BY <2>1, <2>6, <2>7, <2>8, <2>9, <2>10
<1>2. CASE Own!CropShown
  <2>1. crop' \in Crops /\ crop'.source = "existing" /\ crop'.image = pictured
    BY <1>2 DEF Own!CropShown, Crops
  <2> QED BY <1>2, <2>1 DEF Own!CropShown
<1>3. CASE Own!CloseCrop
  <2>1. freed' \subseteq 1..images /\ pictured \notin freed' /\ 0 \notin freed'
    <3>1. freed \subseteq 1..images /\ pictured \notin freed /\ 0 \notin 1..images
      OBVIOUS
    <3>2. CASE crop.source = "upload"
      <4>1. freed' = freed \cup ({crop.image} \ {0})
        BY <1>3, <3>2 DEF Own!CloseCrop, Own!Freed
      <4>2. crop.image \in 1..images /\ crop.image # pictured
        BY <3>2 DEF Crops
      <4> QED BY <3>1, <4>1, <4>2
    <3>3. CASE crop.source # "upload"
      BY <1>3, <3>1, <3>3 DEF Own!CloseCrop
    <3> QED BY <3>2, <3>3
  <2>2. crop' = Own!NoCrop /\ UNCHANGED <<images, file, pictured, saving, uploaded, overtaken>>
    BY <1>3 DEF Own!CloseCrop
  <2>3. {pictured', crop'.image} \cap freed' = {}
    BY <1>a, <2>1, <2>2
  <2>4. crop' \in Crops /\ crop'.image <= images' /\ crop'.source # "upload"
    BY <1>a, <2>2
  <2>5. saving'.on => file' = saving'.image \/ file' \in overtaken'
    BY <2>2
  <2>6. pictured' \in {0, file'} \cup uploaded' \cup overtaken'
    BY <2>2
  <2>7. images' \in Nat /\ pictured' \in 0..images' /\ freed' \subseteq 1..images'
    BY <2>1, <2>2
  <2> QED BY <2>3, <2>4, <2>5, <2>6, <2>7
<1>4. CASE Own!ApplyCrop
  <2>1. CASE crop.source = "upload"
    <3>1. freed' = freed \cup ({pictured} \ {0}) /\ file' = crop.image /\ pictured' = crop.image
      BY <1>4, <2>1 DEF Own!ApplyCrop, Own!Freed
    <3>2. overtaken \subseteq overtaken' /\ (saving.on => crop.image \in overtaken')
      BY <1>4, <2>1 DEF Own!ApplyCrop
    <3>3. crop' = Own!NoCrop /\ UNCHANGED <<images, saving, uploaded>>
      BY <1>4 DEF Own!ApplyCrop
    <3> QED BY <1>a, <2>1, <3>1, <3>2, <3>3 DEF Crops
  <2>2. CASE crop.source # "upload"
    <3>1. crop' = Own!NoCrop /\ UNCHANGED <<images, file, pictured, freed, saving, uploaded, overtaken>>
      BY <1>4, <2>2 DEF Own!ApplyCrop
    <3> HIDE DEF Own!NoCrop
    <3>2. crop' \in Crops /\ crop'.image = 0 /\ crop'.source # "upload"
      BY <1>a, <3>1
    <3>3. freed \subseteq 1..images /\ 0 \notin 1..images /\ pictured \notin freed
      OBVIOUS
    <3> QED BY <3>1, <3>2, <3>3
  <2> QED BY <2>1, <2>2
<1>5. CASE Own!Type
  BY <1>5 DEF Own!Type
<1>6. CASE Own!Save
  <2>1. saving'.image = file /\ UNCHANGED <<images, freed, file, pictured, crop, uploaded, overtaken>>
    BY <1>6 DEF Own!Save
  <2> QED BY <2>1
<1>7. CASE Own!Saved
  <2>1. ~saving'.on /\ uploaded' = uploaded \cup ({saving.image} \ {0}) /\ file' = 0
        /\ UNCHANGED <<images, overtaken>>
    BY <1>7, <1>a DEF Own!Saved
  <2>2. CASE saving.text
    <3>1. crop' = Own!NoCrop /\ pictured' = 0 /\ freed' = freed \cup ({pictured} \ {0})
      BY <1>7, <2>2 DEF Own!Saved, Own!Freed
    <3> QED BY <1>a, <2>1, <3>1
  <2>3. CASE ~saving.text
    <3>1. UNCHANGED <<crop, pictured, freed>>
      BY <1>7, <2>3 DEF Own!Saved
    <3>2. pictured \in {0, file} \cup uploaded \cup overtaken /\ (file = saving.image \/ file \in overtaken)
      BY <1>7 DEF Own!Saved
    <3> QED BY <2>1, <3>1, <3>2
  <2> QED BY <2>2, <2>3
<1>8. CASE Own!SaveFails
  BY <1>8, <1>a DEF Own!SaveFails
<1>9. CASE UNCHANGED avatarVars
  BY <1>9 DEF avatarVars
<1> QED BY <1>1, <1>2, <1>3, <1>4, <1>5, <1>6, <1>7, <1>8, <1>9 DEF Own!AvatarNext

-----------------------------------------------------------------------------
(* Addresses, the logo, the border                                          *)

\* What a reference is normalised to is normalised already, and no word of the program's own.
LEMMA NormalIs ==
  ASSUME NEW r \in [at : BOOLEAN, body : Frame!Bodies]
  PROVE  \/ Frame!Normalized(r) = [at |-> FALSE, body |-> "public"] /\ ~r.at
         \/ Frame!Normalized(r) = [at |-> TRUE, body |-> "public"]
         \/ Frame!Normalized(r) = [at |-> TRUE, body |-> "settings"]
         \/ Frame!Normalized(r) = [at |-> TRUE, body |-> "anna"]
         \/ Frame!Normalized(r) \in [at : {FALSE}, body : {"", "user id", "group id"}]
         \/ Frame!Normalized(r) \in [at : BOOLEAN, body : {"x"}]
<1> USE DEF Frame!Lower, Frame!IsHandle, Frame!Formatted
<1>1. r.at \in BOOLEAN /\ r = [at |-> r.at, body |-> r.body]
  OBVIOUS
<1>2. CASE r.body \in {"Public", "public"}
  BY <1>1, <1>2 DEF Frame!Normalized
<1>3. CASE r.body \in {"Settings", "settings"}
  BY <1>1, <1>3 DEF Frame!Normalized
<1>4. CASE r.body \in {"Anna", "anna"}
  BY <1>1, <1>4 DEF Frame!Normalized
<1>5. CASE r.body \in {"", "user id", "group id"}
  BY <1>1, <1>5 DEF Frame!Normalized
<1>6. CASE r.body = "x"
  BY <1>1, <1>6 DEF Frame!Normalized
<1> QED BY <1>2, <1>3, <1>4, <1>5, <1>6 DEF Frame!Bodies

LEMMA NormalStays ==
  ASSUME NEW t,
         \/ t \in [at : BOOLEAN, body : {"public", "x"}]
         \/ t \in [at : {TRUE}, body : {"settings", "anna"}]
         \/ t \in [at : {FALSE}, body : {"", "user id", "group id"}]
  PROVE  Frame!Normalized(t) = t /\ Frame!Parsed(t) = t
<1>1. t = [at |-> t.at, body |-> t.body] /\ t.at \in BOOLEAN
  OBVIOUS
<1>2. Frame!Normalized(t) = t
  BY <1>1 DEF Frame!Normalized, Frame!Lower, Frame!IsHandle, Frame!Formatted
<1>3. ~Frame!IsReserved(t)
  BY DEF Frame!IsReserved, Frame!Lower
<1> QED BY <1>2, <1>3 DEF Frame!Parsed

LEMMA AddressIs == ASSUME raw \in [at : BOOLEAN, body : Frame!Bodies] PROVE Frame!AddressLeadsBack
<1> DEFINE target == Frame!Normalized(raw)
<1>1. \/ target \in [at : BOOLEAN, body : {"public", "x"}]
      \/ target \in [at : {TRUE}, body : {"settings", "anna"}]
      \/ target \in [at : {FALSE}, body : {"", "user id", "group id"}]
  <2>1. /\ [at |-> FALSE, body |-> "public"] \in [at : BOOLEAN, body : {"public", "x"}]
        /\ [at |-> TRUE, body |-> "public"] \in [at : BOOLEAN, body : {"public", "x"}]
        /\ [at |-> TRUE, body |-> "settings"] \in [at : {TRUE}, body : {"settings", "anna"}]
        /\ [at |-> TRUE, body |-> "anna"] \in [at : {TRUE}, body : {"settings", "anna"}]
        /\ [at : BOOLEAN, body : {"x"}] \subseteq [at : BOOLEAN, body : {"public", "x"}]
    OBVIOUS
  <2> QED BY <2>1, NormalIs
<1>2. raw.at => target # [at |-> FALSE, body |-> "public"]
  <2>1. ASSUME raw.at, target = [at |-> FALSE, body |-> "public"] PROVE FALSE
    <3>1. ~target.at /\ target.body = "public"
      BY <2>1
    <3> HIDE DEF target
    <3>2. \/ target = [at |-> FALSE, body |-> "public"] /\ ~raw.at
          \/ target.at
          \/ target.body \in {"", "user id", "group id"}
          \/ target.body = "x"
      <4> USE DEF target
      <4>1. \A b : [at |-> TRUE, body |-> b].at
        OBVIOUS
      <4>2. /\ \A t \in [at : {FALSE}, body : {"", "user id", "group id"}] : t.body \in {"", "user id", "group id"}
            /\ \A t \in [at : BOOLEAN, body : {"x"}] : t.body = "x"
        OBVIOUS
      <4> HIDE DEF target
      <4>3. \/ target = [at |-> FALSE, body |-> "public"] /\ ~raw.at
            \/ target = [at |-> TRUE, body |-> "public"]
            \/ target = [at |-> TRUE, body |-> "settings"]
            \/ target = [at |-> TRUE, body |-> "anna"]
            \/ target \in [at : {FALSE}, body : {"", "user id", "group id"}]
            \/ target \in [at : BOOLEAN, body : {"x"}]
        BY NormalIs DEF target
      <4> QED BY <4>1, <4>2, <4>3
    <3> QED BY <2>1, <3>1, <3>2
  <2> QED BY <2>1
<1> HIDE DEF target
<1>3. Frame!Normalized(target) = target /\ Frame!Parsed(target) = target
  BY <1>1, NormalStays
<1> USE DEF target
<1> QED BY <1>2, <1>3 DEF Frame!AddressLeadsBack, Frame!Built

\* The chat that was opened last is listed and stored, and is the one open if any is.
MemoryInv ==
  /\ home \in known \cup {"friends"}
  /\ last # "none" => last \in known /\ stored = last /\ home = last
  /\ path \in known /\ last # "none" => last = path

LEMMA MemoryInit == ASSUME Frame!MemoryInit PROVE MemoryInv
BY DEF Frame!MemoryInit, Frame!None, MemoryInv

LEMMA MemoryStep == ASSUME MemoryInv, Frame!MemoryNext \/ UNCHANGED Frame!memoryVars PROVE MemoryInv'
<1> USE DEF MemoryInv, Frame!Render, Frame!Leads, Frame!Forgets, Frame!None
<1>1. ASSUME NEW a, Frame!Visit(a) PROVE MemoryInv'
  BY <1>1 DEF Frame!Visit
<1>2. ASSUME NEW peers, Frame!InboxChanges(peers) PROVE MemoryInv'
  BY <1>2 DEF Frame!InboxChanges
<1>3. CASE Frame!Resolved
  BY <1>3 DEF Frame!Resolved
<1>4. CASE Frame!ClickLogo
  BY <1>1, <1>4 DEF Frame!ClickLogo
<1>5. CASE Frame!Reload
  BY <1>5 DEF Frame!Reload
<1>6. CASE UNCHANGED Frame!memoryVars
  BY <1>6 DEF Frame!memoryVars
<1> QED BY <1>1, <1>2, <1>3, <1>4, <1>5, <1>6 DEF Frame!MemoryNext

\* The border has at most one set of listeners, and the cursor tells of it.
BorderInv ==
  /\ mounted \in BOOLEAN /\ (~mounted => listeners = 0)
  /\ (listeners = 0 /\ cursor = FALSE) \/ (listeners = 1 /\ cursor = TRUE)

LEMMA BorderInit == ASSUME Frame!BorderInit PROVE BorderInv
BY DEF Frame!BorderInit, BorderInv

LEMMA BorderStep == ASSUME BorderInv, Frame!BorderNext \/ UNCHANGED Frame!borderVars PROVE BorderInv'
<1> USE DEF BorderInv
<1>1. CASE Frame!Mount
  BY <1>1 DEF Frame!Mount
<1>2. CASE Frame!Unmount
  <2>1. listeners' = 0
    <3>1. CASE listeners = 0
      BY <1>2, <3>1 DEF Frame!Unmount
    <3>2. CASE listeners = 1
      BY <1>2, <3>2 DEF Frame!Unmount
    <3> QED BY <3>1, <3>2
  <2> QED BY <1>2, <2>1 DEF Frame!Unmount
<1>3. CASE Frame!StopDrag
  BY <1>3 DEF Frame!StopDrag
<1>4. ASSUME NEW x, Frame!StartDrag(x) PROVE BorderInv'
  BY <1>4 DEF Frame!StartDrag
<1>5. ASSUME NEW x, Frame!DragTo(x) PROVE BorderInv'
  BY <1>5 DEF Frame!DragTo
<1>6. CASE UNCHANGED Frame!borderVars
  BY <1>6 DEF Frame!borderVars
<1> QED BY <1>1, <1>2, <1>3, <1>4, <1>5, <1>6 DEF Frame!BorderNext

LEMMA BorderIs == ASSUME BorderInv PROVE Frame!OneDragAtATime
<1>1. CASE listeners = 0 /\ cursor = FALSE
  BY <1>1 DEF Frame!OneDragAtATime
<1>2. CASE listeners = 1 /\ cursor = TRUE
  BY <1>2 DEF Frame!OneDragAtATime, BorderInv
<1> QED BY <1>1, <1>2 DEF BorderInv

-----------------------------------------------------------------------------
(* The portrait and the menu stay on the screen                             *)

LEMMA BoundIs ==
  ASSUME Others!PeopleAssumption, NEW z \in Nat
  PROVE  Others!Bound(z) \in Nat
<1>1. Base * z \in Nat
  BY DEF Others!PeopleAssumption
<1>2. \A x \in Int : Others!Max({0, x}) = IF x > 0 THEN x ELSE 0
  BY DEF Others!Max
<1>3. ((Base * z - Window) \div 2) \in Int
  BY <1>1 DEF Others!PeopleAssumption
<1> QED BY <1>2, <1>3 DEF Others!Bound

LEMMA ClampIs ==
  ASSUME Others!PeopleAssumption, NEW z \in Nat, NEW x \in Int
  PROVE  Others!ClampPan(x, z) \in -Others!Bound(z)..Others!Bound(z)
BY BoundIs DEF Others!ClampPan

\* While every handler has seen the zoom as it is, the portrait is within its bounds.
PortraitInv ==
  /\ zoom \in Nat /\ pan \in Int /\ prompt \in BOOLEAN
  /\ pull = <<>> \/ pull[1] \in [at : Int, pan : Int]
  /\ portrait \in [zoom : Nat, pan : Int]
  /\ Others!PortraitIsOnScreen

LEMMA PortraitInit == ASSUME Others!PeopleAssumption, Others!ZoomInit PROVE PortraitInv
<1>1. Others!Bound(1) \in Nat
  BY BoundIs
<1> QED BY <1>1 DEF Others!ZoomInit, Others!None, PortraitInv, Others!PortraitIsOnScreen

LEMMA PortraitStep ==
  ASSUME Others!PeopleAssumption, PortraitInv, Others!ZoomNext \/ UNCHANGED zoomVars
  PROVE  PortraitInv'
<1> USE DEF PortraitInv, Others!None
<1>1. ASSUME NEW z \in Int, NEW moved \in Int, Others!ZoomTo(z, moved) PROVE PortraitInv'
  <2>1. zoom' = Others!ClampZoom(z) /\ zoom' \in Nat
    BY <1>1 DEF Others!ZoomTo, Others!ClampZoom, Others!PeopleAssumption
  <2>2. pan' \in -Others!Bound(zoom')..Others!Bound(zoom')
    <3>1. 0 \in -Others!Bound(zoom')..Others!Bound(zoom')
      BY <2>1, BoundIs
    <3>2. pan + moved \in Int
      OBVIOUS
    <3>3. Others!ClampPan(pan + moved, zoom') \in -Others!Bound(zoom')..Others!Bound(zoom')
      BY <2>1, <3>2, ClampIs
    <3> QED BY <1>1, <3>1, <3>3 DEF Others!ZoomTo
  <2>3. Others!Bound(zoom') \in Nat /\ pan' \in Int
    BY <2>1, <2>2, BoundIs
  <2>4. prompt' \in BOOLEAN /\ UNCHANGED <<pull, portrait>>
    BY <1>1 DEF Others!ZoomTo
  <2> QED BY <2>1, <2>2, <2>3, <2>4 DEF Others!PortraitIsOnScreen
<1>2. ASSUME NEW x \in Points, Others!Hold(x) PROVE PortraitInv'
  <2>1. pull' = <<[at |-> x, pan |-> portrait.pan]>> /\ x \in Int
    BY <1>2 DEF Others!Hold, Others!PeopleAssumption
  <2>2. pull'[1] \in [at : Int, pan : Int]
    BY <2>1
  <2> QED BY <1>2, <2>2 DEF Others!Hold, Others!PortraitIsOnScreen
<1>3. ASSUME NEW x \in Points, Others!DragTo(x) PROVE PortraitInv'
  <2>1. pull[1].pan + x - pull[1].at \in Int
    BY <1>3 DEF Others!DragTo, Others!PeopleAssumption
  <2>2. pan' \in -Others!Bound(portrait.zoom)..Others!Bound(portrait.zoom)
    BY <1>3, <2>1, ClampIs DEF Others!DragTo
  <2>3. Others!Bound(portrait.zoom) \in Nat
    BY BoundIs
  <2>4. /\ prompt' \in BOOLEAN /\ UNCHANGED <<zoom, pull, portrait>>
        /\ prompt' => portrait.zoom = zoom
    BY <1>3 DEF Others!DragTo
  <2> QED BY <2>2, <2>3, <2>4 DEF Others!PortraitIsOnScreen
<1>4. CASE Others!LetGo
  BY <1>4 DEF Others!LetGo, Others!PortraitIsOnScreen
<1>5. CASE Others!Rendered
  BY <1>5 DEF Others!Rendered, Others!PortraitIsOnScreen
<1>6. CASE Others!Reopen
  <2>1. Others!Bound(1) \in Nat
    BY BoundIs
  <2> QED BY <1>6, <2>1 DEF Others!Reopen, Others!PortraitIsOnScreen
<1>7. CASE UNCHANGED zoomVars
  BY <1>7 DEF zoomVars, Others!PortraitIsOnScreen
<1>8. \A x \in Points : x \in Int /\ -x \in Int
  BY DEF Others!PeopleAssumption
<1>9. \A z \in 0..MaxZoom + 1 : z \in Int
  OBVIOUS
<1> QED BY <1>1, <1>2, <1>3, <1>4, <1>5, <1>6, <1>7, <1>8, <1>9 DEF Others!ZoomNext

LEMMA LeastIs ==
  ASSUME Online!OnlineAssumption
  PROVE  Online!Least \in Sizes /\ \A t \in Sizes : Online!Least <= t
<1>1. \E s \in Sizes : \A t \in Sizes : s <= t
  <2>1. PICK s \in Sizes : \A t \in Sizes : ~(<<t, s>> \in OpToRel(<, Nat))
    BY NatLessThanWellFounded, WFMin DEF Online!OnlineAssumption
  <2>2. ASSUME NEW t \in Sizes PROVE s <= t
    <3>1. s \in Nat /\ t \in Nat
      BY DEF Online!OnlineAssumption
    <3>2. CASE t < s
      <4>1. <<t, s>> \in OpToRel(<, Nat)
        BY <3>1, <3>2 DEF OpToRel
      <4> QED BY <2>1, <4>1
    <3> QED BY <3>1, <3>2
  <2> QED BY <2>2
<1> QED BY <1>1 DEF Online!Least

Menus == [open : BOOLEAN, point : Nat, size : Nat, place : Nat, rows : BOOLEAN, profile : BOOLEAN]
\* A place at which a menu of the least size is on a screen of this length.
Fits(top, window) ==
  top >= Gap /\ (Online!Least + 2 * Gap <= window => top + Online!Least <= window - Gap)

\* The menu has a place for the least size whatever came since: taller rows were only
\* placed higher.
MenuInv ==
  /\ view \in Nat /\ menu \in Menus
  /\ menu.open => /\ menu.size >= Online!Least /\ (~menu.rows => menu.size = Online!Least)
                  /\ Fits(menu.place, view)

LEMMA PlacedFits ==
  ASSUME Online!OnlineAssumption, NEW point \in Nat, NEW size \in Nat, NEW window \in Nat,
         size >= Online!Least
  PROVE  Online!Placed(point, size, window) \in Nat /\ Fits(Online!Placed(point, size, window), window)
<1>1. Gap \in Nat /\ Online!Least \in Nat
  BY LeastIs DEF Online!OnlineAssumption
<1> QED BY <1>1 DEF Online!Placed, Fits

LEMMA MenuInit == ASSUME Online!OnlineAssumption, Online!MenuInit PROVE MenuInv
<1>1. Online!Closed \in Menus /\ ~Online!Closed.open
  BY DEF Online!Closed, Menus
<1> QED BY <1>1 DEF Online!MenuInit, Online!OnlineAssumption, MenuInv

LEMMA MenuStep ==
  ASSUME Online!OnlineAssumption, MenuInv, Online!MenuNext \/ UNCHANGED menuVars
  PROVE  MenuInv'
<1>a. Online!Least \in Nat /\ \A t \in Sizes : t \in Nat /\ Online!Least <= t
  BY LeastIs DEF Online!OnlineAssumption
<1>1. ASSUME NEW point \in 0..view, Online!OpenMenu(point) PROVE MenuInv'
  <2>1. point \in Nat /\ view \in Nat /\ view' = view
    BY <1>1 DEF MenuInv, Online!OpenMenu
  <2>2. menu' = [open |-> TRUE, point |-> point, size |-> Online!Least, rows |-> FALSE, profile |-> FALSE,
                 place |-> menu'.place]
    BY <1>1 DEF Online!OpenMenu
  <2>3. menu'.place \in Nat /\ Fits(menu'.place, view)
    <3>1. CASE menu.open /\ menu.point = point
      <4>1. menu'.place = menu.place
        BY <1>1, <3>1 DEF Online!OpenMenu
      <4> QED BY <3>1, <4>1 DEF MenuInv, Menus
    <3>2. CASE ~(menu.open /\ menu.point = point)
      <4>1. menu'.place = Online!Placed(point, Online!Least, view)
        BY <1>1, <3>2 DEF Online!OpenMenu
      <4> QED BY <1>a, <2>1, <4>1, PlacedFits
    <3> QED BY <3>1, <3>2
  <2>4. /\ menu' \in Menus /\ menu'.size = Online!Least /\ menu'.size >= Online!Least
        /\ Fits(menu'.place, view)
    <3> DEFINE top == menu'.place
    <3>1. /\ top \in Nat
          /\ menu' = [open |-> TRUE, point |-> point, size |-> Online!Least, rows |-> FALSE, profile |-> FALSE,
                      place |-> top]
      BY <2>2, <2>3
    <3> HIDE DEF top
    <3>2. menu' \in Menus /\ menu'.size = Online!Least
      BY <1>a, <2>1, <3>1 DEF Menus
    <3> QED BY <1>a, <2>3, <3>2
  <2> QED BY <2>1, <2>4 DEF MenuInv, Fits
<1>2. ASSUME NEW size \in Sizes, Online!RowsCome(size) PROVE MenuInv'
  <2>1. menu' = [[menu EXCEPT !.rows = TRUE] EXCEPT !.size = size] /\ view' = view
    BY <1>2 DEF Online!RowsCome
  <2>2. menu' \in Menus /\ menu'.rows /\ menu'.size = size /\ menu'.place = menu.place /\ menu'.open = menu.open
    BY <1>a, <2>1 DEF MenuInv, Menus
  <2> QED BY <1>a, <2>1, <2>2 DEF MenuInv
<1>3. ASSUME NEW window \in Views, Online!WindowChanges(window) PROVE MenuInv'
  <2>1. window \in Nat /\ view' = window
    BY <1>3 DEF Online!OnlineAssumption, Online!WindowChanges
  <2>2. CASE menu.open
    <3>1. menu' = [menu EXCEPT !.place = Online!Placed(menu.point, menu.size, window)]
      BY <1>3, <2>2 DEF Online!WindowChanges
    <3>2. /\ Online!Placed(menu.point, menu.size, window) \in Nat
          /\ Fits(Online!Placed(menu.point, menu.size, window), window)
      BY <2>1, <2>2, PlacedFits DEF MenuInv, Menus
    <3>3. /\ menu' \in Menus /\ menu'.open = menu.open /\ menu'.size = menu.size
          /\ menu'.rows = menu.rows /\ menu'.place = Online!Placed(menu.point, menu.size, window)
      BY <3>1, <3>2 DEF MenuInv, Menus
    <3> QED BY <2>1, <3>2, <3>3 DEF MenuInv
  <2>3. CASE ~menu.open
    BY <1>3, <2>1, <2>3 DEF MenuInv, Online!WindowChanges
  <2> QED BY <2>2, <2>3
<1>4. CASE Online!DismissMenu
  BY <1>4 DEF Online!DismissMenu, Online!Closed, MenuInv, Menus
<1>5. ASSUME NEW linked \in BOOLEAN, Online!OpenReader(linked) PROVE MenuInv'
  <2>1. [Online!Closed EXCEPT !.profile = TRUE] \in Menus /\ ~[Online!Closed EXCEPT !.profile = TRUE].open
    BY DEF Online!Closed, Menus
  <2> QED BY <1>5, <2>1 DEF Online!OpenReader, MenuInv
<1>6. CASE UNCHANGED menuVars
  BY <1>6 DEF menuVars, MenuInv
<1> QED BY <1>1, <1>2, <1>3, <1>4, <1>5, <1>6 DEF Online!MenuNext

LEMMA MenuIs == ASSUME Online!OnlineAssumption, MenuInv PROVE Online!MenuIsOnScreen
<1>1. Online!Least \in Nat /\ Gap \in Nat
  BY LeastIs DEF Online!OnlineAssumption
<1> QED BY <1>1 DEF MenuInv, Menus, Fits, Online!MenuIsOnScreen

-----------------------------------------------------------------------------
(* What is chosen is kept and what is opened is on the screen               *)

KeptInv ==
  /\ ImagesInv /\ AvatarInv /\ MemoryInv /\ BorderInv /\ PortraitInv /\ MenuInv
  /\ raw \in [at : BOOLEAN, body : Frame!Bodies]

\* The machines that OneMachineMoves leaves out.
LEMMA MachinesMove ==
  ASSUME [MCNext]_allVars
  PROVE  /\ Own!AvatarNext \/ UNCHANGED avatarVars
         /\ Frame!MemoryNext \/ UNCHANGED Frame!memoryVars
         /\ Frame!BorderNext \/ UNCHANGED Frame!borderVars
         /\ Others!ZoomNext \/ UNCHANGED zoomVars
         /\ Online!MenuNext \/ UNCHANGED menuVars
         /\ raw' = raw
<1>1. CASE MCNext
  BY <1>1 DEF MCNext, memoryVars, borderVars, Frame!memoryVars, Frame!borderVars
<1>2. CASE UNCHANGED allVars
  BY <1>2 DEF allVars, memoryVars, borderVars, Frame!memoryVars, Frame!borderVars
<1> QED BY <1>1, <1>2

LEMMA KeptInit == MCInit => KeptInv
<1> SUFFICES ASSUME MCInit PROVE KeptInv
  OBVIOUS
<1>1. /\ Group!Init /\ Own!Init /\ Frame!MemoryInit /\ Frame!BorderInit /\ Others!ZoomInit
      /\ Online!MenuInit /\ Frame!AddressInit
  BY DEF MCInit
<1>2. raw \in [at : BOOLEAN, body : Frame!Bodies]
  BY <1>1 DEF Frame!AddressInit
<1> QED BY <1>1, <1>2, PeopleConstants, OnlineConstants, ImagesInit, AvatarInit, MemoryInit, BorderInit,
           PortraitInit, MenuInit DEF KeptInv

LEMMA KeptStep == KeptInv /\ [MCNext]_allVars => KeptInv'
<1> SUFFICES ASSUME KeptInv, [MCNext]_allVars PROVE KeptInv'
  OBVIOUS
<1>1. ImagesInv' /\ AvatarInv'
  BY OneMachineMoves, MachinesMove, ImagesStep, AvatarStep DEF KeptInv
<1>2. MemoryInv' /\ BorderInv'
  BY MachinesMove, MemoryStep, BorderStep DEF KeptInv
<1>3. PortraitInv' /\ MenuInv'
  BY MachinesMove, PeopleConstants, OnlineConstants, PortraitStep, MenuStep DEF KeptInv
<1> QED BY <1>1, <1>2, <1>3, MachinesMove DEF KeptInv

\* An image that was chosen is shown or waits until it is replaced, and then it is revoked
\* (GroupInfoPanel.tsx, SettingsContent.tsx); an address built for a chat is understood as
\* that chat, and the logo leads to the personal chat opened last; the portrait stays within
\* its bounds, the menu of readers on the screen, and one drag at a time moves the border.
THEOREM KeptTheorem == MCSpec => []ChosenIsKept
<1>1. KeptInv => ChosenIsKept
  <2> SUFFICES ASSUME KeptInv PROVE ChosenIsKept
    OBVIOUS
  <2>1. Group!ImagesAreKept /\ Own!AvatarIsKept
    BY DEF KeptInv, ImagesInv, AvatarInv
  <2>2. Frame!AddressLeadsBack
    BY AddressIs DEF KeptInv
  <2>3. Frame!LogoLeadsToTheLast
    BY DEF KeptInv, MemoryInv, Frame!LogoLeadsToTheLast, Frame!None
  <2>4. Others!PortraitIsOnScreen /\ Frame!OneDragAtATime
    BY BorderIs DEF KeptInv, PortraitInv
  <2>5. Online!MenuIsOnScreen
    BY OnlineConstants, MenuIs DEF KeptInv
  <2> QED BY <2>1, <2>2, <2>3, <2>4, <2>5 DEF ChosenIsKept
<1> QED BY <1>1, KeptInit, KeptStep, PTL DEF MCSpec

\* Both together: what a page shows is of what is asked now, however late answers come, and
\* what was chosen, dragged or opened on it stays (the handlers named at the two theorems).
THEOREM PagesTheorem == MCSpec => []PagesHold
<1>1. AnswersAreCurrent /\ ChosenIsKept => PagesHold
  BY DEF PagesHold
<1> QED BY <1>1, AnswersTheorem, KeptTheorem, PTL

-----------------------------------------------------------------------------
(* Presence: who is online, on the server                                  *)

(* An entry that is not there counts nobody.                               *)
AbsentIsEmpty == ~entry.there => entry.count = 0 /\ entry.grace = 0

(* The bound on the counter leaves room for those who are joining.         *)
RoomToJoin == entry.count + Cardinality(Joining) <= MaxCount

(* What a user who is gone left behind is at least as old as his absence   *)
(* (or too old for its age to be told).                                    *)
EntryIsOld == Nobody /\ entry.there => entry.seen >= gone \/ entry.seen = TTL + 1

(* The grace he has left and the time he is gone make up the Grace.        *)
GraceRunsOut == Nobody /\ entry.there => entry.grace = 0 \/ entry.grace + gone <= Grace

IInv == /\ TypeOK /\ AbsentIsEmpty /\ RoomToJoin
        /\ CountIsCovered /\ EntryIsOld /\ GraceRunsOut

-----------------------------------------------------------------------------
LEMMA Numbers ==
  /\ TTL \in Nat /\ Grace \in Nat /\ TouchInterval \in Nat /\ IdleTimeout \in Nat
  /\ PingGap \in Nat /\ MaxCount \in Nat
BY PresenceAssumption

LEMMA Finite ==
  /\ IsFiniteSet(Conns) /\ Cardinality(Conns) \in Nat
  /\ IsFiniteSet(Members) /\ Cardinality(Members) \in Nat
  /\ IsFiniteSet(Joining) /\ Cardinality(Joining) \in Nat
<1>1. IsFiniteSet(Conns)
  BY PresenceAssumption
<1>2. Members \in SUBSET Conns /\ Joining \in SUBSET Conns
  BY DEF Members, Joining
<1>3. IsFiniteSet(Members) /\ IsFiniteSet(Joining)
  BY <1>1, <1>2, FS_Subset
<1> QED BY <1>1, <1>3, FS_CardinalityType

(* A connection that can be seen counts.                                   *)
LEMMA SomeMember == ASSUME NEW c \in Members PROVE Cardinality(Members) >= 1
<1>1. Cardinality(Members) # 0
  BY Finite, FS_EmptySet
<1> QED BY <1>1, Finite

(* While one connection is not joining, there is room for one more.        *)
LEMMA OneLessJoining ==
  ASSUME NEW c \in Conns, conn[c] # "joining"
  PROVE  Cardinality(Joining) + 1 <= MaxCount
<1>1. Joining \in SUBSET (Conns \ {c})
  BY DEF Joining
<1>2. IsFiniteSet(Conns \ {c}) /\ Cardinality(Conns \ {c}) = Cardinality(Conns) - 1
  BY Finite, FS_RemoveElement
<1>3. Cardinality(Joining) <= Cardinality(Conns \ {c})
  BY <1>1, <1>2, FS_Subset
<1> QED BY <1>2, <1>3, Finite, Numbers, PresenceAssumption

(* What a connection's change of state does to the two sets.               *)
LEMMA Moved ==
  ASSUME TypeOK, NEW c \in Conns, NEW s \in ConnStates, conn' = [conn EXCEPT ![c] = s]
  PROVE  /\ Members' = IF s \in {"joined", "open", "leaving"} THEN Members \union {c}
                                                             ELSE Members \ {c}
         /\ Joining' = IF s = "joining" THEN Joining \union {c} ELSE Joining \ {c}
         /\ s # "closed" => ~Nobody'
BY DEF TypeOK, Members, Joining, Nobody

LEMMA SameSets ==
  ASSUME UNCHANGED conn
  PROVE  Members' = Members /\ Joining' = Joining /\ (Nobody' <=> Nobody)
BY DEF Members, Joining, Nobody

Entries == [there : BOOLEAN, count : 0..MaxCount, seen : 0..(TTL + 1), grace : 0..Grace]

LEMMA EntryFields ==
  /\ \A n \in 0..MaxCount, g \in 0..Grace :
       /\ Entry(n, g) \in Entries
       /\ Entry(n, g).there /\ Entry(n, g).count = n
       /\ Entry(n, g).seen = 0 /\ Entry(n, g).grace = g
  /\ Absent \in Entries
  /\ ~Absent.there /\ Absent.count = 0 /\ Absent.grace = 0
BY Numbers DEF Entry, Absent, Entries

LEMMA InitIInv == Init => IInv
<1> SUFFICES ASSUME Init PROVE IInv OBVIOUS
<1>1. Joining = {} /\ Members = {}
  BY DEF Init, Joining, Members
<1>2. Cardinality(Joining) = 0 /\ Cardinality(Members) = 0
  BY <1>1, FS_EmptySet
<1>3. TypeOK
  BY Numbers DEF Init, TypeOK, Absent, ConnStates
<1> QED
  BY <1>2, <1>3, Numbers
  DEF Init, IInv, AbsentIsEmpty, RoomToJoin, CountIsCovered, EntryIsOld, GraceRunsOut,
      Absent

-----------------------------------------------------------------------------
(* Type correctness, the empty entry and the room for those joining.       *)
Basis == TypeOK /\ AbsentIsEmpty /\ RoomToJoin

LEMMA BasisAccept == ASSUME Basis, NEW c \in Conns, Accept(c) PROVE Basis'
<1>1. Joining' = Joining \union {c} /\ c \notin Joining
  BY Moved DEF Accept, Basis, ConnStates, Joining
<1>2. Cardinality(Joining') = Cardinality(Joining) + 1
  BY <1>1, Finite, FS_AddElement
<1>3. RoomToJoin'
  BY <1>2, Finite, Numbers DEF Accept, RoomToJoin, Basis, TypeOK
<1>4. TypeOK' /\ AbsentIsEmpty'
  BY Numbers DEF Accept, Basis, TypeOK, AbsentIsEmpty, ConnStates
<1> QED BY <1>3, <1>4 DEF Basis

(* Whoever moves to another state than "joining" leaves Joining as it is   *)
(* or takes himself out.                                                   *)
LEMMA NotJoining ==
  ASSUME TypeOK, NEW c \in Conns, NEW s \in ConnStates \ {"joining"},
         conn' = [conn EXCEPT ![c] = s]
  PROVE  Cardinality(Joining') = IF conn[c] = "joining" THEN Cardinality(Joining) - 1
                                                        ELSE Cardinality(Joining)
<1>1. Joining' = Joining \ {c} /\ (c \in Joining <=> conn[c] = "joining")
  BY Moved DEF Joining
<1> QED BY <1>1, Finite, FS_RemoveElement

LEMMA BasisJoin == ASSUME Basis, NEW c \in Conns, Join(c) PROVE Basis'
<1>1. Cardinality(Joining') = Cardinality(Joining) - 1
  BY NotJoining DEF Join, Basis, ConnStates
<1>2. c \in Joining
  BY DEF Join, Joining
<1>3. Cardinality(Joining) # 0
  BY <1>2, Finite, FS_EmptySet
<1>4. entry.count + 1 \in 0..MaxCount /\ entry'.count = entry.count + 1
  <2>1. entry.count \in Nat /\ entry.count + Cardinality(Joining) <= MaxCount
    BY Numbers DEF Basis, RoomToJoin, TypeOK
  <2>2. Cardinality(Joining) \in Nat /\ Cardinality(Joining) >= 1
    BY <1>3, Finite
  <2>3. entry'.count = entry.count + 1
    BY DEF Join, Add, Entry
  <2> QED BY <2>1, <2>2, <2>3, Numbers
<1>5. RoomToJoin'
  BY <1>1, <1>4, Finite, Numbers DEF RoomToJoin, Basis, TypeOK
<1>6. TypeOK'
  BY <1>4, Numbers DEF Join, Add, Entry, Basis, TypeOK, ConnStates
<1>7. AbsentIsEmpty'
  BY DEF AbsentIsEmpty, Join, Add, Entry
<1> QED BY <1>5, <1>6, <1>7 DEF Basis

LEMMA RoomKept ==
  ASSUME Basis, entry' \in Entries, entry'.count <= entry.count,
         Cardinality(Joining') = Cardinality(Joining)
  PROVE  RoomToJoin'
<1>1. /\ entry'.count \in Nat /\ entry.count \in Nat /\ MaxCount \in Nat
      /\ Cardinality(Joining) \in Nat
  BY Finite, Numbers DEF Basis, TypeOK, Entries
<1>2. entry.count + Cardinality(Joining) <= MaxCount
  BY DEF Basis, RoomToJoin
<1>3. entry'.count + Cardinality(Joining) <= MaxCount
  BY <1>1, <1>2
<1> QED BY <1>3 DEF RoomToJoin

LEMMA BasisLeave == ASSUME Basis, NEW c \in Conns, Leave(c) PROVE Basis'
<1>1. Cardinality(Joining') = Cardinality(Joining)
  BY NotJoining DEF Leave, Basis, ConnStates
<1>2. /\ entry' \in Entries
      /\ entry'.count <= entry.count
      /\ AbsentIsEmpty'
  <2>1. entry.count \in 0..MaxCount /\ entry.grace \in 0..Grace
    BY DEF Basis, TypeOK
  <2>2. /\ 0 \in 0..(TTL + 1) /\ 0 \in 0..Grace /\ 0 \in 0..MaxCount /\ Grace \in 0..Grace
        /\ entry.count > 1 => entry.count - 1 \in 0..MaxCount
    BY <2>1, Numbers
  <2>3. CASE UNCHANGED entry
    BY <2>1, <2>3, Numbers DEF Basis, TypeOK, AbsentIsEmpty, Entries
  <2>4. CASE entry' = Absent
    BY <2>1, <2>4, EntryFields, Numbers DEF AbsentIsEmpty
  <2>5. CASE entry' = Entry(0, Grace)
    BY <2>1, <2>2, <2>5, EntryFields, Numbers DEF AbsentIsEmpty
  <2>6. CASE entry.count > 1 /\ entry' = Entry(entry.count - 1, 0)
    BY <2>1, <2>2, <2>6, EntryFields, Numbers DEF AbsentIsEmpty
  <2> QED BY <2>3, <2>4, <2>5, <2>6 DEF Leave, Remove
<1>3. RoomToJoin'
  BY <1>1, <1>2, RoomKept
<1>4. TypeOK'
  BY <1>2, Numbers DEF Leave, Basis, TypeOK, ConnStates, Entries
<1> QED BY <1>2, <1>3, <1>4 DEF Basis

LEMMA BasisPing == ASSUME Basis, NEW c \in Conns, Ping(c) PROVE Basis'
<1> USE DEF Basis
<1>1. Joining' = Joining
  BY SameSets DEF Ping
<1>2. /\ entry' \in Entries
      /\ entry'.count = entry.count \/ entry'.count = 1
      /\ AbsentIsEmpty'
  <2>1. 1 \in 0..MaxCount
    BY OneLessJoining, Finite, Numbers DEF Ping
  <2>2. 0 \in 0..(TTL + 1) /\ 0 \in 0..Grace /\ entry.count \in 0..MaxCount
    BY Numbers DEF TypeOK
  <2>3. CASE UNCHANGED entry
    BY <2>3 DEF TypeOK, AbsentIsEmpty, Entries
  <2>4. CASE entry' = Entry(1, 0)
    BY <2>1, <2>2, <2>4, EntryFields DEF AbsentIsEmpty
  <2>5. CASE entry' = Entry(entry.count, 0)
    BY <2>2, <2>5, EntryFields DEF AbsentIsEmpty
  <2> QED BY <2>3, <2>4, <2>5 DEF Ping, Touch
<1>3. RoomToJoin'
  BY <1>1, <1>2, OneLessJoining, Finite, Numbers DEF RoomToJoin, TypeOK, Ping
<1>4. missing' \in 0..(TouchInterval + PingGap + 1)
  BY Numbers DEF Ping, TypeOK
<1>5. quiet' \in [Conns -> 0..(IdleTimeout + 1)] /\ untouched' \in [Conns -> 0..TouchInterval]
  BY Numbers DEF Ping, TypeOK
<1> QED BY <1>2, <1>3, <1>4, <1>5 DEF Ping, TypeOK, Entries

LEMMA BasisTick == ASSUME Basis, Tick PROVE Basis'
<1> USE DEF Basis
<1>1. Joining' = Joining
  BY SameSets DEF Tick
<1>2. \A n, cap \in Nat : n \in 0..cap => Longer(n, cap) \in 0..cap /\ Less(n) \in 0..cap
  BY DEF Longer, Less
<1>3. /\ entry' \in Entries
      /\ entry'.count = entry.count /\ entry'.there = entry.there
      /\ entry.grace = 0 => entry'.grace = 0
  BY <1>2, Numbers DEF Tick, TypeOK, Longer, Less, Entries
<1>4. AbsentIsEmpty' /\ RoomToJoin'
  BY <1>1, <1>3 DEF AbsentIsEmpty, RoomToJoin
<1>5. quiet' \in [Conns -> 0..(IdleTimeout + 1)] /\ untouched' \in [Conns -> 0..TouchInterval]
  BY <1>2, Numbers DEF Tick, TypeOK, Longer, Less
<1>6. gone' \in 0..(TTL + Grace + 1) /\ missing' \in 0..(TouchInterval + PingGap + 1)
  BY Numbers DEF Tick, TypeOK, Longer
<1> QED BY <1>3, <1>4, <1>5, <1>6 DEF Tick, TypeOK, Entries

LEMMA BasisClean ==
  ASSUME Basis, Clean
  PROVE  /\ entry' \in Entries
         /\ entry'.count <= entry.count /\ AbsentIsEmpty'
BY Numbers DEF Basis, Clean, TypeOK, Absent, AbsentIsEmpty, Entries

LEMMA BasisStep == Basis /\ [Next]_vars => Basis'
<1> SUFFICES ASSUME Basis, [Next]_vars PROVE Basis' OBVIOUS
<1>1. ASSUME NEW c \in Conns, Reject(c) PROVE Basis'
  <2>1. Cardinality(Joining') = Cardinality(Joining)
    BY <1>1, NotJoining DEF Reject, Basis, ConnStates
  <2> QED BY <1>1, <2>1, Numbers DEF Basis, Reject, Lapse, TypeOK, ConnStates, AbsentIsEmpty, RoomToJoin
<1>2. ASSUME NEW c \in Conns, Doze(c) PROVE Basis'
  BY <1>2, SameSets DEF Basis, Doze, Lapse, TypeOK, AbsentIsEmpty, RoomToJoin
<1>3. ASSUME NEW c \in Conns, NEW nice \in BOOLEAN, Close(c, nice) PROVE Basis'
  <2>1. Cardinality(Joining') = Cardinality(Joining)
    BY <1>3, NotJoining DEF Close, Basis, ConnStates
  <2> QED BY <1>3, <2>1, Numbers
  DEF Basis, Close, TypeOK, ConnStates, AbsentIsEmpty, RoomToJoin, history
<1>4. ASSUME NEW c \in Conns, Announce(c) PROVE Basis'
  <2>1. Cardinality(Joining') = Cardinality(Joining)
    BY <1>4, NotJoining DEF Announce, Basis, ConnStates
  <2>2. RoomToJoin'
    BY <1>4, <2>1, BasisClean, RoomKept DEF Announce
  <2> QED BY <1>4, <2>2, BasisClean, Numbers DEF Announce, Basis, TypeOK, ConnStates, Entries
<1>5. CASE Broadcast
  <2>1. Joining' = Joining
    BY <1>5, SameSets DEF Broadcast, sockets
  <2>2. RoomToJoin'
    BY <1>5, <2>1, BasisClean, RoomKept DEF Broadcast
  <2> QED BY <1>5, <2>2, BasisClean, Numbers DEF Broadcast, Basis, TypeOK, sockets, history, Entries
<1>6. CASE Crash
  <2>1. Joining' = {}
    BY <1>6 DEF Crash, Joining
  <2>2. RoomToJoin'
    BY <1>6, <2>1, FS_EmptySet, Numbers DEF Crash, RoomToJoin, Basis, TypeOK
  <2> QED BY <1>6, <2>2, Numbers DEF Crash, Basis, TypeOK, AbsentIsEmpty, ConnStates
<1>7. CASE UNCHANGED vars
  BY <1>7, SameSets DEF Basis, TypeOK, AbsentIsEmpty, RoomToJoin, vars, sockets, history
<1>8. ASSUME NEW c \in Conns, IdleWatchdog(c) PROVE Basis'
  BY <1>3, <1>8 DEF IdleWatchdog
<1> QED
  BY <1>1, <1>2, <1>3, <1>4, <1>5, <1>6, <1>7, <1>8, BasisAccept, BasisJoin, BasisLeave,
     BasisPing, BasisTick DEF Next

-----------------------------------------------------------------------------
(* The counter is covered by connections.                                  *)
LEMMA MembersMove ==
  ASSUME TypeOK, NEW c \in Conns, NEW s \in ConnStates, conn' = [conn EXCEPT ![c] = s]
  PROVE  /\ s \in {"joined", "open", "leaving"} =>
              Cardinality(Members') = IF c \in Members THEN Cardinality(Members)
                                                       ELSE Cardinality(Members) + 1
         /\ s \notin {"joined", "open", "leaving"} =>
              Cardinality(Members') = IF c \in Members THEN Cardinality(Members) - 1
                                                       ELSE Cardinality(Members)
<1>1. CASE s \in {"joined", "open", "leaving"}
  <2>1. Members' = Members \union {c}
    BY <1>1, Moved
  <2> QED BY <1>1, <2>1, Finite, FS_AddElement
<1>2. CASE s \notin {"joined", "open", "leaving"}
  <2>1. Members' = Members \ {c}
    BY <1>2, Moved
  <2> QED BY <1>2, <2>1, Finite, FS_RemoveElement
<1> QED BY <1>1, <1>2

LEMMA CoverLeave ==
  ASSUME Basis, trouble # "crash", CountIsCovered, NEW c \in Conns, Leave(c)
  PROVE  entry'.count <= Cardinality(Members')
<1>1. Cardinality(Members') = IF c \in Members THEN Cardinality(Members) - 1
                                               ELSE Cardinality(Members)
  BY MembersMove DEF Leave, Basis, ConnStates
<1>2. Cardinality(Members) \in Nat /\ (c \in Members => Cardinality(Members) >= 1)
  BY Finite, SomeMember
<1>3. entry.count \in Nat /\ entry.count <= Cardinality(Members)
  BY Numbers DEF Basis, TypeOK, CountIsCovered
<1>4. CASE UNCHANGED entry /\ ~entry.there
  BY <1>1, <1>2, <1>4 DEF Basis, AbsentIsEmpty
<1>5. CASE entry'.count = 0
  BY <1>1, <1>2, <1>5
<1>6. CASE entry.count > 1 /\ entry'.count = entry.count - 1
  BY <1>1, <1>2, <1>3, <1>6
<1>7. Absent.count = 0 /\ Entry(0, Grace).count = 0
      /\ Entry(entry.count - 1, 0).count = entry.count - 1
  BY DEF Absent, Entry
<1> QED BY <1>4, <1>5, <1>6, <1>7 DEF Leave, Remove

(* Who has not crashed now had not before.                                 *)
LEMMA NoCrashYet ==
  ASSUME [Next]_vars, trouble' # "crash"
  PROVE  trouble # "crash" /\ ~Crash
<1>1. ~Crash
  BY DEF Crash
<1>2. trouble' = trouble \/ Lapse
  BY <1>1 DEF Next, vars, history, Accept, Reject, Join, Ping, Doze, IdleWatchdog,
              Close, Leave, Announce, Broadcast, Tick
<1> QED BY <1>1, <1>2 DEF Lapse

LEMMA CoverStep == Basis /\ CountIsCovered /\ [Next]_vars => CountIsCovered'
<1> SUFFICES ASSUME Basis, CountIsCovered, [Next]_vars, trouble' # "crash"
             PROVE  entry'.count <= Cardinality(Members')
  BY Finite DEF CountIsCovered
<1>0. /\ entry.count \in Nat /\ Cardinality(Members) \in Nat
      /\ entry.count <= Cardinality(Members)
  BY Finite, Numbers, NoCrashYet DEF Basis, TypeOK, CountIsCovered
<1>1. ASSUME NEW c \in Conns, Accept(c) \/ Reject(c)
      PROVE  entry'.count <= Cardinality(Members')
  <2>1. c \notin Members
    BY <1>1 DEF Accept, Reject, Members
  <2>2. Cardinality(Members') = Cardinality(Members)
    BY <1>1, <2>1, MembersMove DEF Accept, Reject, Basis, ConnStates
  <2> QED BY <1>0, <1>1, <2>2 DEF Accept, Reject
<1>2. ASSUME NEW c \in Conns, Join(c) PROVE entry'.count <= Cardinality(Members')
  <2>1. c \notin Members
    BY <1>2 DEF Join, Members
  <2>2. Cardinality(Members') = Cardinality(Members) + 1
    BY <1>2, <2>1, MembersMove DEF Join, Basis, ConnStates
  <2>3. entry'.count = entry.count + 1
    BY <1>2 DEF Join, Add, Entry
  <2> QED BY <1>0, <2>2, <2>3
<1>3. ASSUME NEW c \in Conns, Ping(c) PROVE entry'.count <= Cardinality(Members')
  <2>1. Members' = Members
    BY <1>3, SameSets DEF Ping
  <2>2. Cardinality(Members) >= 1
    BY <1>3, SomeMember DEF Ping, Members
  <2>3. entry'.count = 1 \/ entry'.count = entry.count
    BY <1>3 DEF Ping, Touch, Entry
  <2> QED BY <1>0, <2>1, <2>2, <2>3
<1>4. ASSUME NEW c \in Conns, NEW nice \in BOOLEAN, Close(c, nice)
      PROVE  entry'.count <= Cardinality(Members')
  <2>1. c \in Members
    BY <1>4 DEF Close, Members
  <2>2. Cardinality(Members') = Cardinality(Members)
    BY <1>4, <2>1, MembersMove DEF Close, Basis, ConnStates
  <2> QED BY <1>0, <1>4, <2>2 DEF Close
<1>5. ASSUME Clean PROVE entry'.count \in Nat /\ entry'.count <= entry.count
  BY <1>0, <1>5 DEF Clean, Absent
<1>6. ASSUME NEW c \in Conns, Announce(c) PROVE entry'.count <= Cardinality(Members')
  <2>1. Cardinality(Members') = Cardinality(Members)
    <3>1. CASE conn[c] = "joined"
      <4>1. c \in Members /\ conn' = [conn EXCEPT ![c] = "open"]
        BY <1>6, <3>1 DEF Announce, Members
      <4> QED BY <4>1, MembersMove DEF Basis, ConnStates
    <3>2. CASE conn[c] = "left"
      <4>1. c \notin Members /\ conn' = [conn EXCEPT ![c] = "closed"]
        BY <1>6, <3>2 DEF Announce, Members
      <4> QED BY <4>1, MembersMove DEF Basis, ConnStates
    <3> QED BY <1>6, <3>1, <3>2 DEF Announce
  <2> QED BY <1>0, <1>5, <1>6, <2>1 DEF Announce
<1>7. CASE Broadcast
  <2>1. Members' = Members
    BY <1>7, SameSets DEF Broadcast, sockets
  <2> QED BY <1>0, <1>5, <1>7, <2>1 DEF Broadcast
<1>8. CASE Tick
  <2>1. Members' = Members /\ entry'.count = entry.count
    BY <1>8, SameSets DEF Tick
  <2> QED BY <1>0, <2>1
<1>9. ASSUME NEW c \in Conns, Doze(c) PROVE entry'.count <= Cardinality(Members')
  BY <1>0, <1>9, SameSets DEF Doze
<1>10. CASE UNCHANGED vars
  BY <1>0, <1>10, SameSets DEF vars, sockets
<1>11. ASSUME NEW c \in Conns, IdleWatchdog(c) PROVE entry'.count <= Cardinality(Members')
  BY <1>4, <1>11 DEF IdleWatchdog
<1> QED
  BY <1>1, <1>2, <1>3, <1>4, <1>6, <1>7, <1>8, <1>9, <1>10, <1>11, CoverLeave,
     NoCrashYet
  DEF Next

-----------------------------------------------------------------------------
(* Who is gone is forgotten.                                               *)
Fades == EntryIsOld /\ GraceRunsOut

LEMMA FadesStep == Basis /\ Fades /\ [Next]_vars => Fades'
<1> SUFFICES ASSUME Basis, Fades, [Next]_vars PROVE Fades' OBVIOUS
<1>0. /\ entry \in Entries /\ gone \in Nat
      /\ entry.grace \in Nat /\ entry.grace <= Grace /\ entry.seen \in Nat /\ entry.seen <= TTL + 1
  BY Numbers DEF Basis, TypeOK, Entries
<1>1. ASSUME NEW c \in Conns, NEW s \in ConnStates \ {"closed"}, conn' = [conn EXCEPT ![c] = s]
      PROVE  Fades'
  BY <1>1, Moved DEF Fades, EntryIsOld, GraceRunsOut, Basis
<1>2. ASSUME gone' = 0, entry' \in Entries PROVE Fades'
  <2>1. entry'.seen \in Nat /\ entry'.grace \in Nat /\ entry'.grace <= Grace
    BY <1>2, Numbers DEF Entries
  <2> QED BY <1>2, <2>1, Numbers DEF Fades, EntryIsOld, GraceRunsOut
<1>3. ASSUME NEW c \in Conns,
             \/ Accept(c) \/ Reject(c) \/ Join(c) \/ Leave(c) \/ IdleWatchdog(c)
             \/ \E nice \in BOOLEAN : Close(c, nice)
      PROVE  Fades'
  BY <1>1, <1>3 DEF Accept, Reject, Join, Leave, IdleWatchdog, Close, ConnStates
<1>4. ASSUME NEW c \in Conns, Ping(c) \/ Doze(c) PROVE Fades'
  <2>1. ~Nobody'
    BY <1>4, SameSets DEF Ping, Doze, Nobody
  <2> QED BY <2>1 DEF Fades, EntryIsOld, GraceRunsOut
<1>5. ASSUME NEW c \in Conns, Announce(c) PROVE Fades'
  BY <1>2, <1>5, BasisClean DEF Announce
<1>6. CASE Broadcast
  <2>1. gone' = gone /\ (Nobody' <=> Nobody)
    BY <1>6, SameSets DEF Broadcast, sockets, history
  <2>2. CASE UNCHANGED entry
    BY <2>1, <2>2 DEF Fades, EntryIsOld, GraceRunsOut
  <2>3. CASE entry' = Absent
    BY <2>3, EntryFields DEF Fades, EntryIsOld, GraceRunsOut
  <2> QED BY <1>6, <2>2, <2>3 DEF Broadcast, Clean
<1>7. CASE Crash
  BY <1>0, <1>2, <1>7 DEF Crash
<1>8. CASE Tick
  <2> SUFFICES ASSUME Nobody, entry.there
               PROVE  /\ entry'.seen >= gone' \/ entry'.seen = TTL + 1
                      /\ entry'.grace = 0 \/ entry'.grace + gone' <= Grace
    BY <1>8, SameSets DEF Tick, Fades, EntryIsOld, GraceRunsOut
  <2>1. gone' = gone + 1 \/ (gone' = gone /\ gone = TTL + Grace + 1)
    <3>1. gone <= TTL + Grace + 1
      BY Numbers DEF Basis, TypeOK
    <3> QED BY <1>0, <1>8, <3>1, Numbers DEF Tick, Longer
  <2>2. entry'.seen = (IF entry.seen < TTL + 1 THEN entry.seen + 1 ELSE entry.seen)
        /\ entry'.grace = (IF entry.grace > 0 THEN entry.grace - 1 ELSE 0)
    BY <1>8 DEF Tick, Longer, Less
  <2>3. /\ entry.seen >= gone \/ entry.seen = TTL + 1
        /\ entry.grace = 0 \/ entry.grace + gone <= Grace
    BY DEF Fades, EntryIsOld, GraceRunsOut
  <2> QED BY <1>0, <2>1, <2>2, <2>3, Numbers
<1>9. CASE UNCHANGED vars
  BY <1>9, SameSets DEF Fades, EntryIsOld, GraceRunsOut, vars, sockets, history
<1> QED
  BY <1>3, <1>4, <1>5, <1>6, <1>7, <1>8, <1>9 DEF Next

-----------------------------------------------------------------------------
LEMMA IInvStep == IInv /\ [Next]_vars => IInv'
BY BasisStep, CoverStep, FadesStep DEF IInv, Basis, Fades

LEMMA SpecIInv == Spec => []IInv
<1>1. Init => IInv
  BY InitIInv
<1>2. IInv /\ [Next]_vars => IInv'
  BY IInvStep
<1> QED BY <1>1, <1>2, PTL DEF Spec

(* Every variable of Presence stays in its range, whatever the sockets of  *)
(* a user do to the entry in the cache.                                    *)
THEOREM TypeCorrect == Spec => []TypeOK
<1>1. IInv => TypeOK
  BY DEF IInv
<1> QED BY <1>1, SpecIInv, PTL

(* While the server lives, the counter in the cache never exceeds the      *)
(* connections there are to subtract from it.                              *)
THEOREM CounterIsCovered == Spec => []CountIsCovered
<1>1. IInv => CountIsCovered
  BY DEF IInv
<1> QED BY <1>1, SpecIInv, PTL

(* A user whose connections are all closed is off the list when his grace  *)
(* is over: nobody keeps him counted.                                      *)
THEOREM GraceEnds == Spec => []GoneAfterGrace
<1>1. IInv => GoneAfterGrace
  <2> SUFFICES ASSUME IInv, trouble # "crash", Nobody, Alive PROVE gone < Grace
    BY DEF GoneAfterGrace
  <2>1. Members = {}
    BY DEF Nobody, Members
  <2>2. entry.count = 0
    <3>1. Cardinality(Members) = 0
      BY <2>1, FS_EmptySet
    <3> QED BY <3>1, Numbers DEF IInv, CountIsCovered, TypeOK
  <2>3. entry.there /\ entry.grace > 0 /\ entry.grace + gone <= Grace
    BY <2>2, Numbers DEF Alive, IInv, TypeOK, GraceRunsOut
  <2>4. gone \in Nat /\ entry.grace \in Nat
    BY Numbers DEF IInv, TypeOK
  <2> QED BY <2>3, <2>4, Numbers
<1> QED BY <1>1, SpecIInv, PTL

(* Crashes or not, nobody is shown for longer than the TTL after his last  *)
(* connection ended.                                                       *)
THEOREM TTLEnds == Spec => []GoneAfterTTL
<1>1. IInv => GoneAfterTTL
  <2> SUFFICES ASSUME IInv, Nobody, Alive PROVE gone <= TTL
    BY DEF GoneAfterTTL
  <2>1. entry.there /\ entry.seen <= TTL
    BY DEF Alive
  <2>2. entry.seen >= gone \/ entry.seen = TTL + 1
    BY <2>1 DEF IInv, EntryIsOld
  <2>3. gone \in Nat /\ entry.seen \in Nat
    BY Numbers DEF IInv, TypeOK
  <2> QED BY <2>1, <2>2, <2>3, Numbers
<1> QED BY <1>1, SpecIInv, PTL

(* Who is gone leaves the list in time, whatever his connections did.      *)
THEOREM NobodyIsKept == Spec => []NobodyStaysOnline
  BY CounterIsCovered, GraceEnds, TTLEnds, PTL DEF NobodyStaysOnline

-----------------------------------------------------------------------------
(* Who is connected is shown.  Until a refusal, a sleep or a crash the     *)
(* counter is exact, because no entry with members ever expires: the last  *)
(* touch of each of them is recent enough.                                 *)
Recent(c) ==
  \/ entry.seen = 0
  \/ untouched[c] > 0 /\ entry.seen + untouched[c] <= TouchInterval
  \/ untouched[c] = 0 /\ quiet[c] > 0 /\ entry.seen < TouchInterval + quiet[c]

Exact ==
  trouble = "none" /\ TouchesKeepUp =>
    /\ entry.count = Cardinality(Members)
    /\ \A c \in Conns :
         /\ conn[c] # "rejected"
         /\ c \in Members \union Joining => awake[c] /\ quiet[c] <= PingGap
    /\ \A c \in Members : Recent(c)

(* A user is missing no longer than the last touch of each of his          *)
(* connections is ago, as far as its clock still tells.                    *)
MissingSinceTouch ==
  \A c \in Members :
    /\ untouched[c] > 0 => missing + untouched[c] <= TouchInterval
    /\ untouched[c] = 0 /\ quiet[c] <= IdleTimeout => missing <= TouchInterval + quiet[c]

SInv == IInv /\ Exact /\ MissingSinceTouch /\ BackWithNextTouch

LEMMA Clocks ==
  ASSUME TypeOK
  PROVE  /\ entry.seen \in Nat /\ entry.count \in Nat /\ missing \in Nat
         /\ \A c \in Conns : quiet[c] \in Nat /\ untouched[c] \in Nat
                             /\ untouched[c] <= TouchInterval
BY Numbers DEF TypeOK

LEMMA MembersAreAlive ==
  ASSUME Basis, Exact, trouble = "none", TouchesKeepUp, Members # {}
  PROVE  Alive /\ entry.count >= 1
<1>1. PICK c \in Members : TRUE
  OBVIOUS
<1>2. c \in Conns /\ Recent(c) /\ quiet[c] <= PingGap
  BY <1>1 DEF Exact, Members
<1>3. entry.count >= 1
  BY <1>1, SomeMember DEF Exact
<1>4. entry.there
  BY <1>3 DEF Basis, AbsentIsEmpty
<1>5. entry.seen <= TTL
  <2>1. /\ entry.seen \in Nat /\ quiet[c] \in Nat /\ untouched[c] \in Nat
    BY <1>2, Clocks DEF Basis
  <2>2. TouchInterval + PingGap <= TTL + 1
    BY DEF TouchesKeepUp
  <2> QED BY <1>2, <2>1, <2>2, Numbers DEF Recent
<1> QED BY <1>3, <1>4, <1>5, Clocks DEF Alive, Basis

LEMMA NoTroubleYet ==
  ASSUME [Next]_vars, trouble' = "none"
  PROVE  /\ trouble = "none" /\ ~Crash
         /\ \A c \in Conns : ~Reject(c) /\ ~Doze(c)
<1>1. ~Crash /\ \A c \in Conns : ~Reject(c) /\ ~Doze(c)
  BY DEF Crash, Reject, Doze, Lapse
<1>2. trouble' = trouble
  BY <1>1 DEF Next, vars, history, Accept, Join, Ping, IdleWatchdog,
              Close, Leave, Announce, Broadcast, Tick
<1> QED BY <1>1, <1>2

(* The parts of Exact after a step.                                        *)
Awaken == \A c \in Conns :
            /\ conn[c] # "rejected"
            /\ c \in Members \union Joining => awake[c] /\ quiet[c] <= PingGap

LEMMA ExactStep == Basis /\ Exact /\ [Next]_vars => Exact'
<1> SUFFICES ASSUME Basis, Exact, [Next]_vars, trouble' = "none", TouchesKeepUp
             PROVE  /\ entry'.count = Cardinality(Members')
                    /\ Awaken'
                    /\ \A c \in Members' : Recent(c)'
  BY DEF Exact, Awaken, TouchesKeepUp
<1>0. /\ trouble = "none" /\ ~Crash
      /\ \A c \in Conns : ~Reject(c) /\ ~Doze(c)
  BY NoTroubleYet
<1>a. /\ entry.count = Cardinality(Members)
      /\ Awaken
      /\ \A c \in Members : Recent(c)
  BY <1>0 DEF Exact, Awaken
<1>b. TypeOK /\ Cardinality(Members) \in Nat
  BY Finite DEF Basis
<1>1. ASSUME NEW c \in Conns, Accept(c)
      PROVE  /\ entry'.count = Cardinality(Members') /\ Awaken'
             /\ \A d \in Members' : Recent(d)'
  <2>1. Members' = Members /\ c \notin Members
    BY <1>1, <1>b, Moved DEF Accept, ConnStates, Members
  <2>2. \A d \in Members : Recent(d)'
    BY <1>1, <1>a, <1>b, <2>1 DEF Accept, Recent, Members, TypeOK
  <2>3. Awaken'
    BY <1>1, <1>a, <1>b, Numbers DEF Accept, Awaken, Members, Joining, TypeOK
  <2> QED BY <1>1, <1>a, <2>1, <2>2, <2>3 DEF Accept
<1>2. ASSUME NEW c \in Conns, Join(c)
      PROVE  /\ entry'.count = Cardinality(Members') /\ Awaken'
             /\ \A d \in Members' : Recent(d)'
  <2>1. c \notin Members
    BY <1>2 DEF Join, Members
  <2>2. Cardinality(Members') = Cardinality(Members) + 1
    BY <1>2, <1>b, <2>1, MembersMove DEF Join, ConnStates
  <2>3. entry'.count = entry.count + 1 /\ entry'.seen = 0
    BY <1>2 DEF Join, Add, Entry
  <2>4. Awaken'
    BY <1>2, <1>a, <1>b DEF Join, Awaken, Members, Joining, TypeOK
  <2> QED BY <1>a, <2>2, <2>3, <2>4 DEF Recent
<1>3. ASSUME NEW c \in Conns, Ping(c)
      PROVE  /\ entry'.count = Cardinality(Members') /\ Awaken'
             /\ \A d \in Members' : Recent(d)'
  <2>1. Members' = Members /\ Joining' = Joining /\ c \in Members
    BY <1>3, SameSets DEF Ping, Members
  <2>2. Awaken'
    BY <1>3, <1>a, <1>b, <2>1, Numbers DEF Ping, Awaken, TypeOK
  <2>3. entry.there /\ entry.count >= 1
    BY <1>0, <2>1, MembersAreAlive DEF Alive
  <2>4. CASE untouched[c] = 0
    <3>1. entry' = Entry(entry.count, 0)
      BY <1>3, <2>3, <2>4 DEF Ping, Touch
    <3>2. entry'.count = entry.count /\ entry'.seen = 0
      BY <3>1 DEF Entry
    <3> QED BY <1>a, <2>1, <2>2, <3>2 DEF Recent
  <2>5. CASE untouched[c] # 0
    <3>1. UNCHANGED <<entry, untouched>> /\ untouched[c] > 0
      BY <1>3, <1>b, <2>5, Clocks DEF Ping
    <3>2. \A d \in Conns : quiet'[d] = IF d = c THEN 0 ELSE quiet[d]
      BY <1>3, <1>b DEF Ping, TypeOK
    <3>3. \A d \in Members : Recent(d)'
      BY <1>a, <3>1, <3>2 DEF Recent, Members
    <3> QED BY <1>a, <2>1, <2>2, <3>1, <3>3
  <2> QED BY <2>4, <2>5
<1>4. ASSUME NEW c \in Conns, NEW nice \in BOOLEAN, Close(c, nice)
      PROVE  /\ entry'.count = Cardinality(Members') /\ Awaken'
             /\ \A d \in Members' : Recent(d)'
  <2>1. Members' = Members /\ Joining' = Joining
    BY <1>4, <1>b DEF Close, Members, Joining, TypeOK
  <2>2. Awaken'
    BY <1>4, <1>a, <1>b, <2>1 DEF Close, Awaken, TypeOK
  <2> QED BY <1>4, <1>a, <2>1, <2>2 DEF Close, Recent
<1>5. ASSUME NEW c \in Conns, IdleWatchdog(c)
      PROVE  /\ entry'.count = Cardinality(Members') /\ Awaken'
             /\ \A d \in Members' : Recent(d)'
  BY <1>4, <1>5 DEF IdleWatchdog
<1>6. ASSUME NEW c \in Conns, Leave(c)
      PROVE  /\ entry'.count = Cardinality(Members') /\ Awaken'
             /\ \A d \in Members' : Recent(d)'
  <2>1. conn[c] = "leaving" /\ c \in Members
    BY <1>6, <1>a DEF Leave, Awaken, Members
  <2>2. Cardinality(Members') = Cardinality(Members) - 1
    BY <1>6, <1>b, <2>1, MembersMove DEF Leave, ConnStates
  <2>3. Awaken'
    BY <1>6, <1>a, <1>b DEF Leave, Awaken, Members, Joining, TypeOK
  <2>4. entry.there /\ entry.count >= 1
    BY <1>0, <2>1, MembersAreAlive DEF Alive
  <2>5. CASE entry.count = 1 /\ entry'.count = 0
    <3>1. Cardinality(Members') = 0
      BY <1>a, <2>2, <2>5
    <3>2. Members' = {}
      <4>1. Members' = Members \ {c}
        BY <1>6, <1>b, Moved DEF Leave, ConnStates
      <4>2. IsFiniteSet(Members')
        BY <4>1, Finite, FS_RemoveElement
      <4> QED BY <3>1, <4>2, FS_EmptySet
    <3> QED BY <2>3, <2>5, <3>1, <3>2
  <2>6. CASE entry.count > 1 /\ entry'.count = entry.count - 1 /\ entry'.seen = 0
    BY <1>a, <1>b, <2>2, <2>3, <2>6 DEF Recent
  <2>7. \/ entry.count <= 1 /\ entry'.count = 0
        \/ entry.count > 1 /\ entry'.count = entry.count - 1 /\ entry'.seen = 0
    BY <1>6, <2>4 DEF Leave, Remove, Absent, Entry
  <2> QED BY <1>a, <1>b, <2>4, <2>5, <2>6, <2>7
<1>7. ASSUME Clean
      PROVE  /\ entry'.count = Cardinality(Members)
             /\ Members # {} => UNCHANGED entry
  <2>1. CASE Members # {}
    BY <1>0, <1>7, <1>a, <2>1, MembersAreAlive DEF Clean
  <2>2. CASE Members = {}
    <3>1. entry.count = 0
      BY <1>a, <2>2, FS_EmptySet
    <3> QED BY <1>7, <1>a, <2>2, <3>1 DEF Clean, Absent
  <2> QED BY <2>1, <2>2
<1>8. ASSUME NEW c \in Conns, Announce(c)
      PROVE  /\ entry'.count = Cardinality(Members') /\ Awaken'
             /\ \A d \in Members' : Recent(d)'
  <2>1. Members' = Members /\ Joining' = Joining
    BY <1>8, <1>b DEF Announce, Members, Joining, TypeOK
  <2>2. Awaken'
    BY <1>8, <1>a, <1>b, <2>1 DEF Announce, Awaken, TypeOK
  <2> QED BY <1>7, <1>8, <1>a, <2>1, <2>2 DEF Announce, Recent
<1>9. CASE Broadcast
  <2>1. Members' = Members /\ Joining' = Joining
    BY <1>9, SameSets DEF Broadcast, sockets
  <2>2. Awaken'
    BY <1>9, <1>a, <2>1 DEF Broadcast, Awaken, sockets
  <2> QED BY <1>7, <1>9, <1>a, <2>1, <2>2 DEF Broadcast, Recent, sockets
<1>10. CASE Tick
  <2>1. Members' = Members /\ Joining' = Joining /\ entry'.count = entry.count
    BY <1>10, SameSets DEF Tick
  <2>2. ASSUME NEW c \in Conns, c \in Members \union Joining
        PROVE  /\ conn[c] = "open" /\ awake[c] /\ quiet[c] < PingGap
               /\ quiet'[c] = quiet[c] + 1
    <3>1. conn[c] = "open" /\ awake[c]
      BY <1>10, <1>a, <2>2 DEF Tick, Awaken, Members, Joining
    <3>2. quiet[c] < PingGap
      BY <1>10, <3>1 DEF Tick
    <3>3. quiet'[c] = Longer(quiet[c], IdleTimeout + 1)
      BY <1>10 DEF Tick
    <3> QED BY <1>b, <3>1, <3>2, <3>3, Clocks, Numbers, PresenceAssumption DEF Longer
  <2>3. Awaken'
    <3>1. \A c \in Conns : c \in Members \union Joining => awake'[c] /\ quiet'[c] <= PingGap
      BY <1>10, <1>b, <2>2, Clocks, Numbers DEF Tick
    <3> QED BY <1>10, <1>a, <2>1, <3>1 DEF Tick, Awaken
  <2>4. ASSUME NEW c \in Members PROVE Recent(c)'
    <3>1. c \in Conns /\ quiet'[c] = quiet[c] + 1
      BY <2>2 DEF Members
    <3>2. untouched'[c] = IF untouched[c] > 0 THEN untouched[c] - 1 ELSE 0
      BY <1>10, <3>1 DEF Tick, Less
    <3>3. entry'.seen \in Nat /\ entry'.seen <= entry.seen + 1
      BY <1>10, <1>b, Clocks, Numbers DEF Tick, Longer
    <3>4. /\ entry.seen \in Nat /\ quiet[c] \in Nat /\ untouched[c] \in Nat
          /\ untouched[c] <= TouchInterval /\ TouchInterval > 0
      BY <1>b, <3>1, Clocks DEF TouchesKeepUp
    <3>5. Recent(c)
      BY <1>a
    <3> QED BY <3>1, <3>2, <3>3, <3>4, <3>5, Numbers DEF Recent
  <2> QED BY <1>a, <2>1, <2>3, <2>4
<1>11. CASE UNCHANGED vars
  BY <1>11, <1>a, SameSets DEF vars, sockets, Awaken, Recent
<1> QED
  BY <1>0, <1>1, <1>2, <1>3, <1>4, <1>5, <1>6, <1>8, <1>9, <1>10, <1>11 DEF Next

-----------------------------------------------------------------------------
Back == MissingSinceTouch /\ BackWithNextTouch

LEMMA BackStep == Basis /\ Back /\ [Next]_vars => Back'
<1> SUFFICES ASSUME Basis, Back, [Next]_vars PROVE Back' OBVIOUS
<1>0. /\ TypeOK /\ missing \in Nat /\ missing <= TouchInterval + PingGap
  BY Clocks DEF Basis, Back, BackWithNextTouch
<1>a. \A c \in Members :
        /\ untouched[c] > 0 => missing + untouched[c] <= TouchInterval
        /\ untouched[c] = 0 /\ quiet[c] <= IdleTimeout => missing <= TouchInterval + quiet[c]
  BY DEF Back, MissingSinceTouch
<1>1. ASSUME Members' \subseteq Members, UNCHANGED missing,
             \A c \in Members' : untouched'[c] = untouched[c] /\ quiet'[c] = quiet[c]
      PROVE  Back'
  BY <1>0, <1>1, <1>a DEF Back, MissingSinceTouch, BackWithNextTouch
<1>2. ASSUME missing' = 0, quiet' \in [Conns -> Nat], untouched' \in [Conns -> 0..TouchInterval]
      PROVE  Back'
  BY <1>2, Numbers DEF Back, MissingSinceTouch, BackWithNextTouch, Members
<1>3. ASSUME NEW c \in Conns,
             Accept(c) \/ Reject(c) \/ Doze(c) \/ Leave(c) \/ Announce(c)
               \/ \E nice \in BOOLEAN : Close(c, nice)
      PROVE  Back'
  <2>1. Members' \subseteq Members /\ UNCHANGED missing
    BY <1>0, <1>3
    DEF Accept, Reject, Doze, Leave, Announce, Close, Members, TypeOK, history
  <2>2. \A d \in Members' : untouched'[d] = untouched[d] /\ quiet'[d] = quiet[d]
    BY <1>0, <1>3
    DEF Accept, Reject, Doze, Leave, Announce, Close, Members, TypeOK
  <2> QED BY <1>1, <2>1, <2>2
<1>4. ASSUME NEW c \in Conns, Join(c) PROVE Back'
  <2>1. quiet \in [Conns -> Nat] /\ untouched \in [Conns -> 0..TouchInterval]
    BY <1>0, Numbers DEF TypeOK
  <2> QED BY <1>2, <1>4, <2>1 DEF Join
<1>5. ASSUME NEW c \in Conns, Ping(c) PROVE Back'
  <2>1. Members' = Members
    BY <1>5, SameSets DEF Ping
  <2>2. CASE untouched[c] = 0
    <3>1. ~Unseen'
      BY <1>0, <1>5, <2>2, Numbers DEF Ping, Touch, Entry, Unseen, Alive, TypeOK
    <3>2. missing' = 0
      BY <1>5, <2>2, <3>1 DEF Ping
    <3>3. quiet' \in [Conns -> Nat] /\ untouched' \in [Conns -> 0..TouchInterval]
      BY <1>0, <1>5, Numbers DEF Ping, TypeOK
    <3> QED BY <1>2, <3>2, <3>3
  <2>3. CASE untouched[c] # 0
    <3>1. UNCHANGED <<missing, untouched>> /\ untouched[c] > 0
      BY <1>0, <1>5, <2>3, Clocks DEF Ping
    <3>2. \A d \in Conns : quiet'[d] = IF d = c THEN 0 ELSE quiet[d]
      BY <1>0, <1>5 DEF Ping, TypeOK
    <3> QED BY <1>0, <1>a, <2>1, <3>1, <3>2
            DEF Back, MissingSinceTouch, BackWithNextTouch, Members
  <2> QED BY <2>2, <2>3
<1>6. CASE Tick
  <2>1. Members' = Members
    BY <1>6, SameSets DEF Tick
  <2>2. /\ missing' \in Nat /\ missing' <= missing + 1
        /\ missing' = 0 \/ Waiting
    BY <1>0, <1>6, Numbers DEF Tick, Longer
  <2>3. ASSUME NEW c \in Members
        PROVE  /\ untouched'[c] > 0 => missing' + untouched'[c] <= TouchInterval
               /\ untouched'[c] = 0 /\ quiet'[c] <= IdleTimeout =>
                    missing' <= TouchInterval + quiet'[c]
    <3>1. c \in Conns
      BY DEF Members
    <3>2. /\ untouched'[c] = (IF untouched[c] > 0 THEN untouched[c] - 1 ELSE 0)
          /\ quiet'[c] = (IF quiet[c] < IdleTimeout + 1 THEN quiet[c] + 1 ELSE quiet[c])
      BY <1>6, <3>1 DEF Tick, Less, Longer
    <3>3. untouched[c] \in Nat /\ quiet[c] \in Nat /\ untouched[c] <= TouchInterval
      BY <1>0, <3>1, Clocks
    <3>4. /\ untouched[c] > 0 => missing + untouched[c] <= TouchInterval
          /\ untouched[c] = 0 /\ quiet[c] <= IdleTimeout => missing <= TouchInterval + quiet[c]
      BY <1>a
    <3> QED BY <1>0, <2>2, <3>2, <3>3, <3>4, Numbers
  <2>4. missing' <= TouchInterval + PingGap
    <3>1. CASE Waiting
      <4>1. PICK c \in Conns : conn[c] = "open" /\ awake[c]
        BY <3>1 DEF Waiting
      <4>2. c \in Members /\ quiet[c] < PingGap
        BY <1>6, <4>1 DEF Tick, Members
      <4>3. quiet[c] \in Nat /\ untouched[c] \in Nat /\ quiet[c] <= IdleTimeout
        BY <1>0, <4>2, Clocks, Numbers, PresenceAssumption
      <4>4. /\ untouched[c] > 0 => missing + untouched[c] <= TouchInterval
            /\ untouched[c] = 0 => missing <= TouchInterval + quiet[c]
        BY <1>a, <4>2, <4>3
      <4> QED BY <1>0, <2>2, <4>2, <4>3, <4>4, Numbers
    <3>2. CASE ~Waiting
      BY <2>2, <3>2, Numbers
    <3> QED BY <3>1, <3>2
  <2> QED BY <2>1, <2>3, <2>4 DEF Back, MissingSinceTouch, BackWithNextTouch
<1>7. CASE Broadcast \/ UNCHANGED vars
  <2>1. Members' = Members /\ UNCHANGED <<missing, untouched, quiet>>
    BY <1>7, SameSets DEF Broadcast, vars, sockets, history
  <2> QED BY <1>1, <2>1
<1>8. CASE Crash
  <2>1. missing' = 0 /\ Members' = {}
    BY <1>8 DEF Crash, Members
  <2> QED BY <2>1, Numbers DEF Back, MissingSinceTouch, BackWithNextTouch
<1>9. ASSUME NEW c \in Conns, IdleWatchdog(c) PROVE Back'
  BY <1>3, <1>9 DEF IdleWatchdog
<1> QED BY <1>3, <1>4, <1>5, <1>6, <1>7, <1>8, <1>9 DEF Next

LEMMA SpecSInv == Spec => []SInv
<1>1. Init => SInv
  <2> SUFFICES ASSUME Init PROVE Exact /\ Back
    BY InitIInv DEF SInv, Back
  <2>1. Members = {} /\ Joining = {}
    BY DEF Init, Members, Joining
  <2>2. Cardinality(Members) = 0
    BY <2>1, FS_EmptySet
  <2> QED BY <2>1, <2>2, Numbers
          DEF Init, Exact, Back, MissingSinceTouch, BackWithNextTouch, Absent
<1>2. SInv /\ [Next]_vars => SInv'
  BY IInvStep, ExactStep, BackStep DEF SInv, IInv, Basis, Back
<1> QED BY <1>1, <1>2, PTL DEF Spec

(* A connected user whose client pings is in the list, and after a refusal,*)
(* a sleep or a crash he is back with the next touch: for any sockets, and *)
(* any settings for which the touches keep up with the TTL.                *)
THEOREM ConnectedStaysShown == Spec => []ConnectedIsShown
<1>1. SInv => ConnectedIsShown
  <2> SUFFICES ASSUME SInv PROVE ConnectedIsOnline
    BY DEF SInv, ConnectedIsShown
  <2> SUFFICES ASSUME trouble = "none", TouchesKeepUp, NEW c \in Conns, conn[c] = "open"
               PROVE  Alive
    BY DEF ConnectedIsOnline
  <2>1. Members # {}
    BY DEF Members
  <2> QED BY <2>1, MembersAreAlive DEF SInv, IInv, Basis
<1> QED BY <1>1, SpecSInv, PTL
=============================================================================
