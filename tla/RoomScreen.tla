----------------------------- MODULE RoomScreen ------------------------------
(***************************************************************************)
(* What a room shows of what it holds: the timeline with its day labels and *)
(* the divider of the unread, the marks of the user's own messages that     *)
(* somebody has read, and who is typing.  Two machines with no variable in  *)
(* common: the page (messages and receipts) and the typing line.            *)
(***************************************************************************)
EXTENDS Integers, Sequences, SequencesExt, FiniteSets, TLC

CONSTANTS Me, Others, \* who writes and reads
          Days,       \* the days of messages; 0: a date nobody can read
          MaxMessages, MaxFrames, MaxReads \* bounds
ScreenAssumption ==
    Me \notin Others /\ 0 \in Days /\ MaxMessages \in Nat /\ MaxFrames \in Nat /\ MaxReads \in Nat

VARIABLES messages, \* [id, who, day, deleted], by id
          divider,  \* [id, top]: unreadDividerRenderTarget
          reached,  \* how far everybody has read, as the server knows
          sent,     \* receipts on their way
          receipts, \* readReceipts of the page
          typing,   \* typingUsers: when each was last heard, or "none"
          known,    \* typingUsers as the sweeping interval sees it
          names,    \* typingDisplayNames
          frames
pageVars == <<messages, divider, reached, sent, receipts>>
typingVars == <<typing, known, names, frames>>
screenVars == <<pageVars, typingVars>>

Item(type, of) == [type |-> type, of |-> of]

\* buildTimeline, one message at a time.
AddMessage_Fault(a, m) ==
    LET here == ~a.divided /\ divider.id > 0 /\ m.id = divider.id
        divided == IF here /\ ~m.deleted THEN Append(a.items, Item("unread", 0)) ELSE a.items
        labelled == IF m.day \notin {0, a.day} THEN Append(divided, Item("day", m.day)) ELSE divided
    IN  IF m.deleted THEN [a EXCEPT !.divided = @ \/ here, !.items = divided]
        ELSE [items |-> Append(labelled, Item("message", m.id)),
              day |-> IF m.day = 0 THEN a.day ELSE m.day,
              divided |-> a.divided \/ here]
AddMessage(a, m) ==
    LET here == ~a.divided /\ divider.id > 0 /\ m.id = divider.id
        divided == IF here THEN Append(a.items, Item("unread", 0)) ELSE a.items
        labelled == IF m.day \notin {0, a.day} THEN Append(divided, Item("day", m.day)) ELSE divided
    IN  IF m.deleted THEN [a EXCEPT !.divided = @ \/ here, !.items = divided]
        ELSE [items |-> Append(labelled, Item("message", m.id)),
              day |-> IF m.day = 0 THEN a.day ELSE m.day,
              divided |-> a.divided \/ here]
Timeline ==
    FoldLeft(AddMessage, [items |-> IF divider.top THEN <<Item("unread", 0)>> ELSE <<>>,
                          day |-> 0, divided |-> divider.top], messages).items

Author(id) == LET i == CHOOSE j \in DOMAIN messages : messages[j].id = id IN messages[i].who

\* A bubble without avatar and name: it follows one of the same author.
Grouped(i) ==
    /\ i > 1 /\ Timeline[i].type = "message" /\ Timeline[i - 1].type = "message"
    /\ Author(Timeline[i].of) = Author(Timeline[i - 1].of)

MaxReadMessageId_Fault ==
    LET all == {receipts[u] : u \in Others \cup {Me}}
    IN  CHOOSE n \in all \cup {0} : \A k \in all \cup {0} : k =< n
MaxReadMessageId ==
    LET all == {receipts[u] : u \in Others}
    IN  CHOOSE n \in all \cup {0} : \A k \in all \cup {0} : k =< n

MarkedRead == {i \in DOMAIN messages : messages[i].who = Me /\ messages[i].id =< MaxReadMessageId}

PageInit ==
    /\ messages = <<>> /\ divider = [id |-> 0, top |-> FALSE]
    /\ reached = [u \in Others \cup {Me} |-> 0] /\ sent = {}
    /\ receipts = [u \in Others \cup {Me} |-> 0]
TypingInit ==
    /\ typing = [u \in Others |-> "none"] /\ known = typing /\ names = {} /\ frames = 0
Init == PageInit /\ TypingInit

-----------------------------------------------------------------------------
\* The list itself is the subject of ChatTimeline: here it grows and loses messages.
Arrives(who, day) ==
    /\ Len(messages) < MaxMessages
    /\ messages' = Append(messages, [id |-> Len(messages) + 1, who |-> who, day |-> day, deleted |-> FALSE])
    /\ UNCHANGED <<divider, reached, sent, receipts, typingVars>>
Deleted(i) ==
    /\ i \in DOMAIN messages /\ ~messages[i].deleted
    /\ messages' = [messages EXCEPT ![i].deleted = TRUE]
    /\ UNCHANGED <<divider, reached, sent, receipts, typingVars>>

\* The first unread message of the page, or the top when it lies before the page.
Divide(id, top) ==
    /\ id > 0 => ~top
    /\ divider' = [id |-> id, top |-> top]
    /\ UNCHANGED <<messages, reached, sent, receipts, typingVars>>

\* Somebody, this user in another tab too, reads; his receipts may overtake each other.
Reads(u, id) ==
    /\ id \in reached[u] + 1..Len(messages) /\ Cardinality(sent) < MaxReads
    /\ reached' = [reached EXCEPT ![u] = id]
    /\ sent' = sent \cup {[who |-> u, upTo |-> id]}
    /\ UNCHANGED <<messages, divider, receipts, typingVars>>
ReadReceipt(r) ==
    /\ sent' = sent \ {r}
    /\ receipts' = [receipts EXCEPT ![r.who] = r.upTo]
    /\ UNCHANGED <<messages, divider, reached, typingVars>>

TimelineNext ==
    \/ \E u \in Others \cup {Me}, d \in Days : Arrives(u, d)
    \/ \E i \in 1..MaxMessages : Deleted(i)
    \/ \E id \in 0..MaxMessages, top \in BOOLEAN : Divide(id, top)
ReceiptsNext ==
    \/ \E u \in Others \cup {Me} : Arrives(u, 0) \/ \E id \in 1..MaxMessages : Reads(u, id)
    \/ \E r \in sent : ReadReceipt(r)
PageNext == TimelineNext \/ ReceiptsNext

-----------------------------------------------------------------------------
\* A frame of somebody's typing, and the message it leads to.
TypingFrame(u) ==
    /\ frames < MaxFrames /\ frames' = frames + 1
    /\ typing' = [typing EXCEPT ![u] = "fresh"] /\ names' = names \cup {u}
    /\ UNCHANGED <<known, pageVars>>
MessageOf_Fault(u) ==
    /\ typing[u] # "none" /\ typing' = [typing EXCEPT ![u] = "none"]
    /\ UNCHANGED <<names, known, frames, pageVars>>
MessageOf(u) ==
    /\ typing[u] # "none" /\ typing' = [typing EXCEPT ![u] = "none"]
    /\ names' = names \ {u}
    /\ UNCHANGED <<known, frames, pageVars>>

Restart_Fault ==
    /\ known # typing /\ (\E u \in Others : known[u] # "none") /\ known' = typing
    /\ UNCHANGED <<typing, names, frames, pageVars>>
\* The effect of a change restarts the interval, which then sees the new map.
Restart ==
    /\ known # typing /\ known' = typing
    /\ UNCHANGED <<typing, names, frames, pageVars>>

\* TYPING_TIMEOUT_MS after a frame; the interval's copy is never the younger one.
Ages(u) ==
    \/ /\ known[u] = "fresh" /\ known' = [known EXCEPT ![u] = "old"]
       /\ typing' = [typing EXCEPT ![u] = IF @ = "fresh" THEN "old" ELSE @]
       /\ UNCHANGED <<names, frames, pageVars>>
    \/ /\ typing[u] = "fresh" /\ known[u] # "fresh" /\ typing' = [typing EXCEPT ![u] = "old"]
       /\ UNCHANGED <<known, names, frames, pageVars>>

\* Runs while anybody types, as the interval sees it; the names go by its copy.
Sweep_Fault ==
    /\ \E u \in Others : known[u] # "none"
    /\ typing' = [u \in Others |-> IF typing[u] = "old" THEN "none" ELSE typing[u]]
    /\ names' = {u \in names : known[u] # "none"}
    /\ UNCHANGED <<known, frames, pageVars>>
Sweep ==
    /\ \E u \in Others : known[u] # "none"
    /\ typing' = [u \in Others |-> IF typing[u] = "old" THEN "none" ELSE typing[u]]
    /\ names' = {u \in names : known[u] = "fresh"}
    /\ UNCHANGED <<known, frames, pageVars>>

TypingNext ==
    \/ \E u \in Others : TypingFrame(u) \/ MessageOf(u) \/ Ages(u)
    \/ Restart \/ Sweep
Next == PageNext \/ TypingNext

\* The page renders, and its timer and the clock go on.
Fairness ==
    WF_typingVars(Restart) /\ WF_typingVars(Sweep) /\ \A u \in Others : WF_typingVars(Ages(u))
Spec == Init /\ [][Next]_screenVars /\ Fairness

-----------------------------------------------------------------------------
ScreenTypeOK ==
    /\ \A i \in DOMAIN messages : messages[i].id = i /\ messages[i].day \in Days
    /\ receipts \in [Others \cup {Me} -> 0..MaxMessages]
    /\ typing \in [Others -> {"none", "fresh", "old"}] /\ names \subseteq Others

Kept == SelectSeq(messages, LAMBDA m : ~m.deleted)

(***************************************************************************)
(* The timeline shows every message that is not deleted, once and in order, *)
(* each under the label of its own day and no label over nothing; the       *)
(* divider is there once when its message is on the page, deleted or not,   *)
(* with everything older above it and everything newer below (buildTimeline). *)
(***************************************************************************)
TimelineIsWhole ==
    LET t == Timeline
        Places(type) == {i \in DOMAIN t : t[i].type = type}
        Label(i) == {j \in Places("day") : j < i /\ \A k \in Places("day") : k < i => k =< j}
    IN  /\ SelectSeq(t, LAMBDA x : x.type = "message")
             = [i \in DOMAIN Kept |-> Item("message", Kept[i].id)]
        /\ \A i \in Places("message") :
             LET day == messages[t[i].of].day
             IN  day # 0 => \E j \in Label(i) : t[j].of = day
        /\ \A i \in Places("day") : i < Len(t) /\ t[i + 1].type = "message"
        /\ LET n == Cardinality(Places("unread"))
           IN  n = IF divider.top \/ divider.id \in 1..Len(messages) THEN 1 ELSE 0
        /\ \A i \in Places("unread"), j \in Places("message") :
             IF divider.top THEN i < j ELSE (t[j].of < divider.id) <=> (j < i)

(***************************************************************************)
(* The user's own message is marked as read only when somebody else has     *)
(* read it, whatever he reads himself in another tab (maxReadMessageId).    *)
(***************************************************************************)
MarksAreEarned ==
    \A i \in MarkedRead : \E u \in Others : reached[u] >= messages[i].id

(***************************************************************************)
(* No name outlives its owner's typing, although the two maps are swept by  *)
(* different copies of the time (the interval of useChatRoomPageRealtime).  *)
(***************************************************************************)
NamesBelong == \A u \in names : typing[u] # "none"

(***************************************************************************)
(* Somebody who is heard of no more stops being shown as typing, as long as *)
(* frames do not come for ever.                                             *)
(***************************************************************************)
TypingEnds == \A u \in Others : typing[u] # "none" ~> typing[u] = "none"
=============================================================================
