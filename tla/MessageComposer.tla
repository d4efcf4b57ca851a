--------------------------- MODULE MessageComposer ---------------------------
(***************************************************************************)
(* The composer of a room (useChatRoomPageComposer behind MessageInput and *)
(* useFileDropZone): a draft that is a new message, a reply or an edit,    *)
(* files queued by the picker, the clipboard or a drop, the upload of a    *)
(* message with files with its progress bar and its cancel button, and     *)
(* uploads that end while the user goes on.                                *)
(***************************************************************************)
EXTENDS Naturals, FiniteSets

CONSTANTS Messages,     \* own messages that may be answered or edited
          Files,        \* files the user may attach, each once
          TooBig,       \* those over maxAttachmentSizeBytes
          Limit,        \* maxAttachmentPerMessage
          Superuser,    \* isCurrentUserSuperuser: no limits
          MaxUploads    \* uploads started (bound)

ComposerAssumption ==
    /\ TooBig \subseteq Files /\ IsFiniteSet(Files) /\ Limit \in Nat
    /\ Superuser \in BOOLEAN /\ MaxUploads \in Nat /\ "none" \notin Messages

VARIABLES
    draft,     \* the text: "", "typed", "long" or the message it was taken from
    replyTo,   \* the message answered, or "none"
    editing,   \* editingMessage, or "none"
    queued,    \* queuedFiles
    fresh,     \* files not attached yet
    progress,  \* uploadProgress is shown
    abortRef,  \* the upload of uploadAbortRef, 0 when null
    uploads,   \* what became of each upload
    online,    \* isOnline and status as rendered
    notice,    \* roomError is shown
    dragging   \* the drop zone is highlighted

input == <<draft, replyTo, editing>>
attached == <<queued, fresh>>
transfer == <<progress, abortRef, uploads>>
around == <<online, notice, dragging>>
vars == <<input, attached, transfer, around>>

Texts == {"", "typed", "long"} \cup Messages
NoUpload == [stage |-> "none", files |-> {}]
Live(u) == uploads[u].stage \in {"running", "stopping"}

Init ==
    /\ draft = "" /\ replyTo = "none" /\ editing = "none"
    /\ queued = {} /\ fresh = Files /\ progress = FALSE /\ abortRef = 0
    /\ uploads = [u \in 1..MaxUploads |-> NoUpload]
    /\ online = TRUE /\ notice = FALSE /\ dragging = FALSE

-----------------------------------------------------------------------------
(* The text *)

\* composerControlsDisabled of MessageInput.
Disabled == ~online \/ progress

Types(text) ==
    /\ ~Disabled /\ text # draft /\ draft' = text
    /\ UNCHANGED <<replyTo, editing, attached, transfer, around>>

HandleReply(m) ==
    /\ replyTo' = m /\ editing' = "none"
    /\ UNCHANGED <<draft, attached, transfer, around>>

HandleEdit_Fault(m) ==
    /\ editing' = m /\ draft' = m
    /\ UNCHANGED <<replyTo, attached, transfer, around>>

HandleEdit(m) ==
    /\ editing' = m /\ draft' = m /\ replyTo' = "none"
    /\ UNCHANGED <<attached, transfer, around>>

\* Leaving an edit drops its text, leaving a reply does not.
HandleCancelReply ==
    /\ editing # "none" \/ replyTo # "none"
    /\ replyTo' = "none" /\ editing' = "none"
    /\ draft' = IF editing # "none" THEN "" ELSE draft
    /\ UNCHANGED <<attached, transfer, around>>

-----------------------------------------------------------------------------
(* The files *)

FilesThatFit_Fault(chosen, kept) ==
    kept = IF Superuser THEN chosen ELSE chosen \ TooBig

\* The files of a drop or a choice that fit; the rest is reported.
FilesThatFit(chosen, kept) ==
    LET fine == IF Superuser THEN chosen ELSE chosen \ TooBig
        room == Limit - Cardinality(queued)
    IN  /\ kept \subseteq fine
        /\ IF Superuser \/ Cardinality(fine) <= room THEN kept = fine
           ELSE Cardinality(kept) = room

HandleAttach(chosen) ==
    IF ~Superuser /\ Cardinality(queued) >= Limit
    THEN notice' = TRUE /\ UNCHANGED attached
    ELSE \E kept \in SUBSET chosen :
            /\ FilesThatFit(chosen, kept)
            /\ queued' = queued \cup kept /\ fresh' = fresh \ kept
            /\ notice' = (kept # chosen)

\* The picker and the clipboard are disabled with the composer, the drop zone
\* of the page is not.
Attach(chosen) ==
    /\ ~Disabled /\ HandleAttach(chosen)
    /\ UNCHANGED <<input, transfer, online, dragging>>

DragEnter ==
    /\ ~dragging /\ dragging' = TRUE
    /\ UNCHANGED <<input, attached, transfer, online, notice>>

DragLeave ==
    /\ dragging /\ dragging' = FALSE
    /\ UNCHANGED <<input, attached, transfer, online, notice>>

Drop(chosen) ==
    /\ dragging /\ dragging' = FALSE /\ HandleAttach(chosen)
    /\ UNCHANGED <<input, transfer, online>>

RemoveQueued(gone) ==
    /\ ~progress /\ gone # {} /\ queued' = queued \ gone
    /\ UNCHANGED <<fresh, input, transfer, around>>

-----------------------------------------------------------------------------
(* Sending *)

CanSend == ~Disabled /\ (draft # "" \/ queued # {})

\* What sendMessage refuses before it does anything.
Refuses == draft = "long" \/ (editing # "none" /\ queued # {})

SendRefused ==
    /\ CanSend /\ Refuses /\ notice' = TRUE
    /\ UNCHANGED <<input, attached, transfer, online, dragging>>

\* The edit goes out over HTTP; its failure is reported later.
SendEdit ==
    /\ CanSend /\ ~Refuses /\ editing # "none"
    /\ draft' = "" /\ editing' = "none"
    /\ notice' \in {notice, TRUE}
    /\ UNCHANGED <<replyTo, attached, transfer, online, dragging>>

\* A frame leaves through the socket, unless that has closed meanwhile.
SendText ==
    /\ CanSend /\ ~Refuses /\ editing = "none" /\ queued = {}
    /\ \/ /\ draft' = "" /\ replyTo' = "none" /\ UNCHANGED notice
       \/ /\ notice' = TRUE /\ UNCHANGED <<draft, replyTo>>
    /\ UNCHANGED <<editing, attached, transfer, online, dragging>>

SendFiles(u) ==
    /\ CanSend /\ ~Refuses /\ editing = "none" /\ queued # {}
    /\ uploads[u].stage = "none" /\ \A v \in 1..(u - 1) : uploads[v] # NoUpload
    /\ uploads' = [uploads EXCEPT ![u] = [stage |-> "running",
                                          files |-> queued]]
    /\ abortRef' = u /\ progress' = TRUE
    /\ UNCHANGED <<input, attached, around>>

\* onProgress of a running upload shows the bar again.
Progresses(u) ==
    /\ uploads[u].stage = "running" /\ progress' = TRUE
    /\ UNCHANGED <<input, attached, abortRef, uploads, around>>

\* The message was made: the composer is emptied, then finally.
UploadSucceeds(u) ==
    /\ uploads[u].stage = "running"
    /\ uploads' = [uploads EXCEPT ![u].stage = "posted"]
    /\ draft' = "" /\ replyTo' = "none" /\ queued' = {}
    /\ abortRef' = 0 /\ progress' = FALSE
    /\ UNCHANGED <<editing, fresh, around>>

\* An upload that fails or was cancelled ends when its sessions are removed.
UploadFails(u) ==
    /\ Live(u) /\ uploads' = [uploads EXCEPT ![u].stage = "failed"]
    /\ abortRef' = 0 /\ progress' = FALSE
    /\ notice' = (notice \/ uploads[u].stage = "running")
    /\ UNCHANGED <<input, attached, online, dragging>>

HandleCancelUpload_Fault ==
    /\ progress /\ abortRef' = 0 /\ progress' = FALSE
    /\ UNCHANGED <<input, attached, uploads, around>>

HandleCancelUpload ==
    /\ progress /\ abortRef' = 0 /\ progress' = FALSE
    /\ uploads' = IF abortRef = 0 THEN uploads
                  ELSE [uploads EXCEPT ![abortRef].stage =
                           IF @ = "running" THEN "stopping" ELSE @]
    /\ UNCHANGED <<input, attached, around>>

ConnectionChanges ==
    /\ online' = ~online /\ notice' = online
    /\ UNCHANGED <<input, attached, transfer, dragging>>

-----------------------------------------------------------------------------

Next ==
    \/ \E text \in {"", "typed", "long"} : Types(text)
    \/ \E m \in Messages : HandleReply(m) \/ HandleEdit(m)
    \/ HandleCancelReply
    \/ \E chosen \in (SUBSET fresh) \ {{}} : Attach(chosen) \/ Drop(chosen)
    \/ DragEnter \/ DragLeave
    \/ \E gone \in SUBSET queued : RemoveQueued(gone)
    \/ SendRefused \/ SendEdit \/ SendText
    \/ \E u \in 1..MaxUploads :
          SendFiles(u) \/ Progresses(u) \/ UploadSucceeds(u) \/ UploadFails(u)
    \/ HandleCancelUpload \/ ConnectionChanges

Spec == Init /\ [][Next]_vars

-----------------------------------------------------------------------------
TypeOK ==
    /\ draft \in Texts /\ replyTo \in Messages \cup {"none"}
    /\ editing \in Messages \cup {"none"}
    /\ queued \subseteq Files /\ fresh \subseteq Files
    /\ progress \in BOOLEAN /\ abortRef \in 0..MaxUploads
    /\ \A u \in 1..MaxUploads :
          /\ uploads[u].stage \in {"none", "running", "stopping", "posted",
                                   "failed"}
          /\ uploads[u].files \subseteq Files
    /\ {online, notice, dragging} \subseteq BOOLEAN

(* What is sent has one meaning, and a message has no more files than the  *)
(* limit, whether they were chosen, pasted or dropped, in whatever portions.*)
OneMeaning ==
    /\ replyTo = "none" \/ editing = "none"
    /\ ~Superuser => \A u \in 1..MaxUploads :
          /\ Cardinality(uploads[u].files) <= Limit
          /\ uploads[u].files \cap TooBig = {}

(* The cancel button stops the upload that goes on                         *)
(* (ChatRoomPage.test.tsx:1864 "cancels chunk upload from composer").      *)
CancelStops ==
    [][HandleCancelUpload => \A u \in 1..MaxUploads :
          uploads[u].stage = "running" => uploads'[u].stage = "stopping"]_vars
=============================================================================
