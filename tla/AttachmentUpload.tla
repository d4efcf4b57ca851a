--------------------------- MODULE AttachmentUpload ---------------------------
(***************************************************************************)
(* One call of uploadAttachments: a session per file, the bytes in chunks  *)
(* with a bounded number of recovery attempts, the message made of them,   *)
(* and the removal of the sessions when that fails.  Requests and answers  *)
(* may be lost, a request that the client gave up may reach the server     *)
(* later, timers and the user's cancel button abort what is in flight.     *)
(*                                                                         *)
(* The server's half is modelled from what the client relies on.           *)
(***************************************************************************)
EXTENDS Naturals, Sequences, FiniteSets

CONSTANTS Size,          \* bytes of the files, a sequence
          ChunkSize,     \* bytes of a chunk
          MaxRecovery    \* ATTACHMENT_UPLOAD_MAX_RECOVERY_ATTEMPTS

UploadAssumption ==
    /\ Size \in Seq(Nat \ {0}) /\ Size # <<>>
    /\ ChunkSize \in Nat \ {0} /\ MaxRecovery \in Nat

VARIABLES
    phase,     \* create, chunk, sync, finalize, cleanup, done or failed
    file,      \* the file the loop is at
    start,     \* chunkStartOffset
    attempt,   \* recovery attempts of this chunk
    retryable, \* whether the error of this attempt may be retried
    sessions,  \* files whose session the client knows
    known,     \* receivedBytes of each session
    aborted,   \* uploadController.signal.aborted
    call,      \* the request in flight, NoCall when there is none
    stray,     \* requests the client gave up that are still on their way
    removing,  \* sessions whose removal is not settled
    open,      \* server: files with a session
    stored,    \* server: the bytes of each session
    posted     \* server: messages made of the sessions

client == <<phase, file, start, attempt, retryable, sessions, known, aborted>>
server == <<open, stored, posted>>
vars == <<client, call, stray, removing, server>>

Numbers == DOMAIN Size
NoCall == [kind |-> "none", stage |-> "none"]

-----------------------------------------------------------------------------
(* Requests.  A chunk carries the bytes from..upto and the offset at which *)
(* the server shall append them.                                           *)

Create(f) == [kind |-> "create", stage |-> "sent", file |-> f]

Chunk(f, offset, from) ==
    [kind |-> "chunk", stage |-> "sent", file |-> f, offset |-> offset,
     bytes |-> LET upto == IF from + ChunkSize < Size[f]
                           THEN from + ChunkSize ELSE Size[f]
               IN  [i \in 1..(upto - from) |-> from + i]]

Sync(f) == [kind |-> "sync", stage |-> "sent", file |-> f]

Finalize == [kind |-> "finalize", stage |-> "sent"]

Complete(f) == f \in open /\ Len(stored[f]) = Size[f]

\* What the server does with a request, and whether it answers with success.
Accepts(req) ==
    CASE req.kind = "create"   -> TRUE
      [] req.kind = "chunk"    -> /\ req.file \in open
                                  /\ Len(stored[req.file]) = req.offset
      [] req.kind = "sync"     -> req.file \in open
      [] req.kind = "finalize" -> \A f \in Numbers : Complete(f)

Effect(req) ==
    /\ open' = CASE req.kind = "create"   -> open \cup {req.file}
                 [] req.kind = "finalize" -> {}
                 [] OTHER                 -> open
    /\ stored' = IF req.kind = "chunk"
                 THEN [stored EXCEPT ![req.file] = @ \o req.bytes] ELSE stored
    /\ posted' = posted + (IF req.kind = "finalize" THEN 1 ELSE 0)

-----------------------------------------------------------------------------
(* The control flow of the call *)

NextChunk_Fault(k) ==
    LET left == {f \in Numbers : f >= file /\ k[f] < Size[f]}
    IN  IF left = {}
        THEN /\ phase' = "finalize" /\ call' = Finalize
             /\ UNCHANGED <<file, start, attempt>>
        ELSE LET f == CHOOSE g \in left : \A h \in left : g <= h
             IN  /\ phase' = "chunk" /\ file' = f /\ start' = k[f]
                 /\ attempt' = 0
                 /\ call' = Chunk(f, k[f], IF f = file THEN start ELSE k[f])

\* The next request of the loop over the sessions: the next chunk of the file
\* it is at, of a later one, or the message.
NextChunk(k) ==
    LET left == {f \in Numbers : f >= file /\ k[f] < Size[f]}
    IN  IF left = {}
        THEN /\ phase' = "finalize" /\ call' = Finalize
             /\ UNCHANGED <<file, start, attempt>>
        ELSE LET f == CHOOSE g \in left : \A h \in left : g <= h
             IN  /\ phase' = "chunk" /\ file' = f /\ start' = k[f]
                 /\ attempt' = 0 /\ call' = Chunk(f, k[f], k[f])

\* finally: the sessions the client knows of are removed, unless the message
\* was made.
Throw ==
    /\ removing' = sessions /\ call' = NoCall
    /\ phase' = IF sessions = {} THEN "failed" ELSE "cleanup"
    /\ UNCHANGED <<file, start, attempt>>

Init ==
    /\ phase = "create" /\ file = 1 /\ start = 0 /\ attempt = 0
    /\ retryable = FALSE /\ sessions = {} /\ known = [f \in Numbers |-> 0]
    /\ aborted = FALSE /\ call = Create(1) /\ stray = {} /\ removing = {}
    /\ open = {} /\ stored = [f \in Numbers |-> <<>>] /\ posted = 0

Created ==
    /\ phase = "create" /\ call.stage = "accepted"
    /\ sessions' = sessions \cup {file} /\ UNCHANGED known
    /\ IF file < Len(Size)
       THEN /\ file' = file + 1 /\ call' = Create(file + 1)
            /\ UNCHANGED <<phase, start, attempt>>
       ELSE /\ phase' = "chunk" /\ file' = 1 /\ start' = 0 /\ attempt' = 0
            /\ call' = Chunk(1, 0, 0)
    /\ UNCHANGED <<retryable, aborted, stray, removing, server>>

ChunkFails_Fault ==
    /\ phase = "chunk" /\ call.stage \in {"refused", "broken"}
    /\ IF aborted
       THEN Throw /\ UNCHANGED <<retryable, known>>
       ELSE /\ phase' = "sync" /\ call' = Sync(file)
            /\ retryable' \in BOOLEAN
            /\ known' = [known EXCEPT ![file] =
                             IF call.stage = "broken"
                             THEN @ + Len(call.bytes) ELSE @]
            /\ UNCHANGED <<file, start, attempt, removing>>
    /\ UNCHANGED <<sessions, aborted, stray, server>>

ChunkStored_Fault ==
    /\ phase = "chunk" /\ call.stage = "accepted"
    /\ known' = [known EXCEPT ![file] = start + ChunkSize]
    /\ NextChunk(known')
    /\ UNCHANGED <<retryable, sessions, aborted, stray, removing, server>>

ChunkStored ==
    /\ phase = "chunk" /\ call.stage = "accepted"
    /\ known' = [known EXCEPT ![file] = call.received]
    /\ NextChunk(known')
    /\ UNCHANGED <<retryable, sessions, aborted, stray, removing, server>>

\* A chunk that failed asks the server what it has.  What the server refused,
\* or answered with something that cannot be parsed, may not be tried again.
ChunkFails ==
    /\ phase = "chunk" /\ call.stage \in {"refused", "broken"}
    /\ IF aborted
       THEN Throw /\ UNCHANGED retryable
       ELSE /\ phase' = "sync" /\ call' = Sync(file)
            /\ retryable' \in BOOLEAN
            /\ UNCHANGED <<file, start, attempt, removing>>
    /\ UNCHANGED <<sessions, known, aborted, stray, server>>

RetryOrThrow ==
    IF attempt < MaxRecovery /\ retryable
    THEN /\ phase' = "chunk" /\ attempt' = attempt + 1
         /\ call' = Chunk(file, start, start)
         /\ UNCHANGED <<file, start, removing>>
    ELSE Throw

Synced_Fault ==
    /\ phase = "sync" /\ call.stage \in {"accepted", "refused", "broken"}
    /\ known' = IF call.stage = "accepted"
                THEN [known EXCEPT ![file] = call.received] ELSE known
    /\ IF call.stage # "refused" /\ known'[file] >= start
       THEN NextChunk(known') /\ UNCHANGED removing
       ELSE RetryOrThrow
    /\ UNCHANGED <<retryable, sessions, aborted, stray, server>>

Synced ==
    /\ phase = "sync" /\ call.stage \in {"accepted", "refused", "broken"}
    /\ known' = IF call.stage = "accepted"
                THEN [known EXCEPT ![file] = call.received] ELSE known
    /\ IF call.stage = "accepted" /\ known'[file] > start
       THEN NextChunk(known') /\ UNCHANGED removing
       ELSE RetryOrThrow
    /\ UNCHANGED <<retryable, sessions, aborted, stray, server>>

\* The answer to the finalisation may also be one the client cannot decode.
Finalized ==
    /\ phase = "finalize" /\ call.stage = "accepted"
    /\ phase' \in {"done", "failed"} /\ call' = NoCall
    /\ UNCHANGED <<file, start, attempt, retryable, sessions, known,
                   aborted, stray, removing, server>>

CreateOrFinalizeFails ==
    /\ phase \in {"create", "finalize"}
    /\ call.stage \in {"refused", "broken"}
    /\ Throw /\ UNCHANGED <<retryable, sessions, known, aborted, stray, server>>

\* The cancel button, the timer of a chunk without progress and the timer of
\* a slow finalisation abort what is in flight; the server may still see it.
Abort(when) ==
    /\ when /\ ~aborted /\ phase \notin {"cleanup", "done", "failed"}
    /\ aborted' = TRUE
    /\ call' = IF call.stage = "sent" \/ call.stage = "accepted"
               THEN [call EXCEPT !.stage = "broken"] ELSE call
    /\ stray' = IF call.stage = "sent" THEN stray \cup {call} ELSE stray
    /\ UNCHANGED <<phase, file, start, attempt, retryable, sessions, known,
                   removing, server>>

Cancel == Abort(TRUE)
IdleFires == Abort(phase = "chunk")
ProcessingFires == Abort(phase = "finalize")

\* One removal is settled, for good or bad.
Removed(f) ==
    /\ f \in removing /\ removing' = removing \ {f}
    /\ phase' = IF removing' = {} THEN "failed" ELSE phase
    /\ open' \in {open, open \ {f}}
    /\ UNCHANGED <<file, start, attempt, retryable, sessions, known, aborted,
                   call, stray, stored, posted>>

-----------------------------------------------------------------------------
(* The network and the server *)

\* A request made with an aborted signal fails at once.
ServerAnswers ==
    /\ call.stage = "sent"
    /\ IF aborted
       THEN call' = [call EXCEPT !.stage = "broken"] /\ UNCHANGED server
       ELSE IF Accepts(call)
       THEN /\ Effect(call)
            /\ call' = IF call.kind \in {"chunk", "sync"}
                       THEN [kind |-> call.kind, stage |-> "accepted",
                             received |-> Len(stored'[call.file])]
                       ELSE [call EXCEPT !.stage = "accepted"]
       ELSE call' = [call EXCEPT !.stage = "refused"] /\ UNCHANGED server
    /\ UNCHANGED <<client, stray, removing>>

\* A request, or its answer, is lost: the client sees a network error while
\* the request may still arrive.
CallBreaks ==
    /\ call.stage \in {"sent", "accepted"}
    /\ stray' = IF call.stage = "sent" /\ call.kind # "sync"
                THEN stray \cup {call} ELSE stray
    /\ call' = [call EXCEPT !.stage = "broken"]
    /\ UNCHANGED <<client, removing, server>>

\* The server refuses a request for a reason of its own.
ServerRefuses ==
    /\ call.stage = "sent" /\ call' = [call EXCEPT !.stage = "refused"]
    /\ UNCHANGED <<client, stray, removing, server>>

StrayArrives(req) ==
    /\ req \in stray /\ stray' = stray \ {req}
    /\ IF Accepts(req) THEN Effect(req) ELSE UNCHANGED server
    /\ UNCHANGED <<client, call, removing>>

StrayIsLost(req) ==
    /\ req \in stray /\ stray' = stray \ {req}
    /\ UNCHANGED <<client, call, removing, server>>

-----------------------------------------------------------------------------

Client ==
    \/ Created \/ ChunkStored \/ ChunkFails \/ Synced \/ Finalized
    \/ CreateOrFinalizeFails
    \/ \E f \in Numbers : Removed(f)

Network ==
    \/ ServerAnswers \/ CallBreaks \/ ServerRefuses
    \/ \E req \in stray : StrayArrives(req) \/ StrayIsLost(req)

Next == Client \/ Cancel \/ IdleFires \/ ProcessingFires \/ Network

\* Answers are handled, every request without a timer ends one way or the
\* other (creation, sync and removal have none), and the timers fire.
Fairness ==
    /\ WF_vars(Client) /\ WF_vars(IdleFires) /\ WF_vars(ProcessingFires)
    /\ WF_vars(call.kind \in {"create", "sync"}
                   /\ (ServerAnswers \/ CallBreaks \/ ServerRefuses))
    /\ WF_vars(aborted /\ ServerAnswers)

Spec == Init /\ [][Next]_vars /\ Fairness

-----------------------------------------------------------------------------
TypeOK ==
    /\ phase \in {"create", "chunk", "sync", "finalize", "cleanup", "done",
                  "failed"}
    /\ file \in Numbers /\ start \in 0..Size[file] /\ attempt \in 0..MaxRecovery
    /\ retryable \in BOOLEAN /\ aborted \in BOOLEAN
    /\ \A f \in Numbers : known[f] \in 0..Size[f]
    /\ {sessions, removing, open} \subseteq SUBSET Numbers /\ posted \in Nat
    /\ \A req \in stray \cup {call} :
          req.kind \in {"none", "create", "chunk", "sync", "finalize"}

(* The bytes the server has of a file are its first bytes, in order and    *)
(* each once, whatever was lost, retried or late.                          *)
StoredInOrder ==
    \A f \in Numbers : \A i \in DOMAIN stored[f] : stored[f][i] = i

(* The client never believes that the server has more of a file than it    *)
(* has, so that the message is asked for only when every file is whole.    *)
NeverAhead ==
    posted = 0 /\ phase \in {"chunk", "sync", "finalize"} =>
        \A f \in Numbers : /\ f \in open /\ known[f] <= Len(stored[f])
                         /\ phase = "finalize" => Complete(f)

(* The call ends, and with it the progress bar and the disabled composer.  *)
CallEnds == <>(phase \in {"done", "failed"})
=============================================================================
