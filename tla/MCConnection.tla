---------------------------- MODULE MCConnection ----------------------------
(***************************************************************************)
(* One run over six machines of the browser that end what they begin: the  *)
(* reconnecting socket with the room it is bound to, the composer, one      *)
(* upload call, the notices, the line of those who type, and the session   *)
(* of the page.  They share no state; the machine chosen at the start is   *)
(* the one that moves, and only its fairness counts.                       *)
(***************************************************************************)
EXTENDS ReconnectingSocket

CONSTANTS Size, ChunkSize, MaxRecovery, Messages, Files, TooBig, Limit, Superuser,
          MaxUploads, MaxVisible, MaxToasts, MaxVisits, MaxChanges,
          Me, Others, Days, MaxMessages, MaxFrames, MaxReads,
          Users, Guarded, MaxCalls, Names, Words

VARIABLES machine, phase, file, start, attempt, retryable, sessions, known,
          aborted, call, stray, removing, open, stored, posted,
          draft, replyTo, editing, queued, fresh, progress, abortRef, uploads,
          online, notice, dragging,
          toasts, leaving, made, network, problem, view, visit, changes,
          messages, divider, reached, sent, receipts, typing, swept, names, frames,
          session, challenge, path, auth, modal, calls, asked, inStep,
          mode, typed, accounts, told, owner

\* Two files: two chunks, the second shorter than the first, and one chunk.
TwoFiles == <<3, 1>>

Upload == INSTANCE AttachmentUpload
Composer == INSTANCE MessageComposer
Notices == INSTANCE RoomNotices WITH removing <- leaving
Screen == INSTANCE RoomScreen WITH known <- swept
Page == INSTANCE SignIn WITH made <- asked

ASSUME UploadConstants == Upload!UploadAssumption
ASSUME ComposerConstants == Composer!ComposerAssumption
ASSUME NoticesConstants == Notices!NoticesAssumption
ASSUME ScreenConstants == Screen!ScreenAssumption
ASSUME PageConstants == Page!SignInAssumption

uploadVars == <<phase, file, start, attempt, retryable, sessions, known,
                aborted, call, stray, removing, open, stored, posted>>
composerVars == <<draft, replyTo, editing, queued, fresh, progress, abortRef,
                  uploads, online, notice, dragging>>
noticeVars == <<toasts, leaving, made, network, problem, view, visit, changes>>
screenVars == <<messages, divider, reached, sent, receipts, typing, swept, names, frames>>
pageVars == <<session, challenge, path, auth, modal, calls, asked, inStep>>
accountVars == <<mode, typed, accounts, told, owner>>
allVars == <<machine, vars, uploadVars, composerVars, noticeVars, screenVars, pageVars, accountVars>>

\* A machine that is not chosen rests where none of its fair steps is possible,
\* so that its fairness asks for nothing.
SocketIsGone ==
    /\ mounted = FALSE /\ url = "none" /\ onLine = TRUE /\ netEvent = "none"
    /\ client = [NewClient EXCEPT !.startup = FALSE] /\ conn = NoConn
    /\ room = "none" /\ shown = "none" /\ rendered = "idle" /\ binding = "none"
UploadIsOver ==
    /\ phase = "failed" /\ file = 1 /\ start = 0 /\ attempt = 0
    /\ retryable = FALSE /\ sessions = {} /\ known = [f \in DOMAIN Size |-> 0]
    /\ aborted = FALSE /\ call = Upload!NoCall /\ stray = {} /\ removing = {}
    /\ open = {} /\ stored = [f \in DOMAIN Size |-> <<>>] /\ posted = 0
PageIsLeft ==
    /\ session = "none" /\ challenge = "none" /\ path = "/"
    /\ auth = Page!SignedOut /\ modal = Page!Closed
    /\ calls = [c \in {} |-> "none"] /\ asked = 1 /\ inStep = FALSE

MCInit ==
    /\ machine \in {"socket", "upload", "composer", "notices", "typing", "page"}
    /\ IF machine = "socket" THEN Init ELSE SocketIsGone
    /\ IF machine = "upload" THEN Upload!Init ELSE UploadIsOver
    /\ IF machine = "page" THEN Page!Init ELSE PageIsLeft
    /\ Composer!Init /\ Notices!Init /\ Screen!Init /\ Page!AccountInit

MCNext ==
    /\ UNCHANGED machine
    /\ IF machine = "socket" THEN Next ELSE UNCHANGED vars
    /\ IF machine = "upload" THEN Upload!Next ELSE UNCHANGED uploadVars
    /\ IF machine = "composer" THEN Composer!Next ELSE UNCHANGED composerVars
    /\ IF machine = "notices" THEN Notices!Next ELSE UNCHANGED noticeVars
    /\ IF machine = "typing" THEN Screen!TypingNext ELSE UNCHANGED screenVars
    /\ IF machine = "page" THEN Page!Next ELSE UNCHANGED pageVars
    /\ UNCHANGED accountVars

MCFairness == /\ Fairness /\ Upload!Fairness /\ Notices!Fairness /\ Screen!Fairness
              /\ Page!Fairness

MCSpec == MCInit /\ [][MCNext]_allVars /\ MCFairness

TypesOK ==
    /\ TypeOK /\ Upload!TypeOK /\ Composer!TypeOK
    /\ Notices!NoticesTypeOK /\ Screen!ScreenTypeOK /\ Page!SignInTypeOK

\* The named promises of the components, by the subject.
UploadHolds == Upload!StoredInOrder /\ Upload!NeverAhead
PageIsHonest == Composer!OneMeaning /\ Notices!SaysItOnce /\ Screen!NamesBelong
EverythingEnds == /\ KeepsTrying /\ Upload!CallEnds /\ Notices!NoticesGo
                  /\ Screen!TypingEnds /\ Page!LoadingEnds
=============================================================================
