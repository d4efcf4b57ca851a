------------------------------ MODULE ListAnchor ------------------------------
(***************************************************************************)
(* The list of messages keeps its place when its layout changes under the   *)
(* reader: a picture loads, a message comes, is edited or removed            *)
(* (useChatViewportAnchor).  Lengths are whole numbers; a snapshot of what is *)
(* seen is taken at every scroll event and after every change.               *)
(***************************************************************************)
EXTENDS Integers, Sequences, SequencesExt, FiniteSets

CONSTANTS Sizes,      \* heights of a message
          MaxList,    \* bound on the messages of the list
          View,       \* clientHeight
          Threshold   \* bottomThresholdPx
AnchorAssumption == Sizes \subseteq Nat \ {0} /\ MaxList \in Nat /\ View \in Nat \ {0} /\ Threshold \in Nat

VARIABLES list,     \* the messages, [id, size], the oldest first
          scroll,   \* scrollTop
          snapshot, \* [anchor, bottom, atBottom, height]; anchor 0: no message is seen
          prepending \* the page is loading older messages
anchorVars == <<list, scroll, snapshot, prepending>>

-----------------------------------------------------------------------------
\* The sum of the heights: one line after another, without a recursion.
Height(l) == Cardinality(UNION {{i} \X (1..l[i].size) : i \in DOMAIN l})
\* getBoundingClientRect().bottom of a message, from the top of the viewport.
BottomOf(i, l, at) == Height(SubSeq(l, 1, i)) - at
\* The browser keeps scrollTop within the content.
MaxScroll(l) == IF Height(l) > View THEN Height(l) - View ELSE 0
Within(at, l) == IF at < 0 THEN 0 ELSE IF at > MaxScroll(l) THEN MaxScroll(l) ELSE at
GetBottomDistance(l, at) == Height(l) - at - View

\* isMessageVisible, findLowerVisibleMessageAnchor
IsVisible(i, l, at) == BottomOf(i, l, at) > 0 /\ BottomOf(i, l, at) - l[i].size < View
Lowest_Fault(l, at) == {i \in DOMAIN l : IsVisible(i, l, at) /\ \A j \in 1..i - 1 : ~IsVisible(j, l, at)}
Lowest(l, at) == {i \in DOMAIN l : IsVisible(i, l, at) /\ \A j \in i + 1..Len(l) : ~IsVisible(j, l, at)}
CaptureSnapshot(l, at) ==
    LET seen == Lowest(l, at)
        i == CHOOSE j \in seen : TRUE
    IN  [anchor |-> IF seen = {} THEN 0 ELSE l[i].id,
         bottom |-> IF seen = {} THEN 0 ELSE BottomOf(i, l, at),
         atBottom |-> GetBottomDistance(l, at) <= Threshold,
         height |-> Height(l)]

Places(id, l) == {i \in DOMAIN l : l[i].id = id}
ScrollDelta_Fault(l, at) ==
    IF snapshot.atBottom THEN 0
    ELSE LET found == Places(snapshot.anchor, l)
         IN  IF found = {} THEN 0 ELSE BottomOf(CHOOSE i \in found : TRUE, l, at) - snapshot.bottom
\* restoreAfterLayoutChange
ScrollDelta(l, at) ==
    IF snapshot.atBottom THEN Height(l) - snapshot.height
    ELSE LET found == Places(snapshot.anchor, l)
         IN  IF found = {} THEN 0 ELSE BottomOf(CHOOSE i \in found : TRUE, l, at) - snapshot.bottom
Restored(l) ==
    LET at == Within(scroll, l)
    IN  IF prepending THEN at ELSE Within(at + ScrollDelta(l, at), l)

-----------------------------------------------------------------------------
Init ==
    /\ list \in UNION {[1..n -> [id : 1..n, size : Sizes]] : n \in 0..1}
    /\ scroll = MaxScroll(list) /\ snapshot = CaptureSnapshot(list, scroll) /\ prepending = FALSE

\* The reader scrolls, or the page does: the event comes before anything else is laid out.
Scroll(at) ==
    /\ at \in 0..MaxScroll(list) /\ at # scroll /\ scroll' = at
    /\ snapshot' = CaptureSnapshot(list, at)
    /\ UNCHANGED <<list, prepending>>

\* The layout effect and the observers answer a change before it is painted.
Becomes(l) ==
    /\ list' = l /\ scroll' = Restored(l) /\ snapshot' = CaptureSnapshot(l, scroll')
    /\ UNCHANGED prepending
Fresh(l) == CHOOSE n \in 1..Len(l) + 1 : \A i \in DOMAIN l : l[i].id # n
Resized(i, size) == i \in DOMAIN list /\ size # list[i].size /\ Becomes([list EXCEPT ![i].size = size])
Arrives(size) == Len(list) < MaxList /\ Becomes(Append(list, [id |-> Fresh(list), size |-> size]))
Removed(i) == i \in DOMAIN list /\ Becomes(RemoveAt(list, i))
\* An older page: while it is put in, the page keeps the place itself.
Prepend(size) ==
    /\ prepending /\ Len(list) < MaxList
    /\ Becomes(<<[id |-> Fresh(list), size |-> size]>> \o list)
SetPrepending(now) == prepending # now /\ prepending' = now /\ UNCHANGED <<list, scroll, snapshot>>

Next ==
    \/ \E at \in 0..MaxScroll(list) : Scroll(at)
    \/ \E i \in 1..MaxList, size \in Sizes : Resized(i, size)
    \/ \E size \in Sizes : Arrives(size) \/ Prepend(size)
    \/ \E i \in 1..MaxList : Removed(i)
    \/ \E now \in BOOLEAN : SetPrepending(now)
Spec == Init /\ [][Next]_anchorVars

-----------------------------------------------------------------------------
AnchorTypeOK ==
    /\ Len(list) <= MaxList /\ \A i, j \in DOMAIN list : list[i].id = list[j].id => i = j
    /\ scroll \in 0..MaxScroll(list) /\ prepending \in BOOLEAN

\* A change of the layout is not seen to move the list.  Away from the bottom the lowest message
\* that was seen stays where it was, whatever grew, shrank or went above it, as far as the list
\* can be scrolled; near the bottom the distance to it stays while the list grows.
PlaceIsKept ==
    [][list' # list /\ ~prepending =>
         IF GetBottomDistance(list, scroll) <= Threshold
         THEN Height(list') >= Height(list) /\ Height(list) >= View =>
                GetBottomDistance(list', scroll') = GetBottomDistance(list, scroll)
         ELSE \A i \in DOMAIN list : \A j \in DOMAIN list' :
                /\ IsVisible(i, list, scroll) /\ \A k \in i + 1..Len(list) : ~IsVisible(k, list, scroll)
                /\ list'[j].id = list[i].id
                /\ scroll' \notin {0, MaxScroll(list')}
                => BottomOf(j, list', scroll') = BottomOf(i, list, scroll)]_anchorVars
=============================================================================
