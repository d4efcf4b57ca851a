----------------------------- MODULE EmojiText -----------------------------
(***************************************************************************)
(* The text of a draft: shared/customEmojiRichText.ts.  A draft *)
(* is a string of code units in which a custom emoji is a token; the editor *)
(* shows a token as one character, so its offsets ("visual") are not the    *)
(* string's.  Here a token is "open" followed by "close", and a character   *)
(* outside the basic plane is "hi" followed by "lo".                        *)
(***************************************************************************)
EXTENDS Naturals, Sequences, FiniteSets
LOCAL INSTANCE FiniteSetsExt
LOCAL INSTANCE SequencesExt

CONSTANTS Letters,      \* code units that are no part of a token or a pair
          Spaces        \* those of them that are white space
TextAssumption ==
    {"open", "close", "hi", "lo"} \cap Letters = {} /\ Spaces \subseteq Letters

Emoji == <<"open", "close">>
Pair == <<"hi", "lo">>
Characters == {Emoji, Pair} \cup {<<c>> : c \in Letters}

Tokens(v) == {i \in 1..(Len(v) - 1) : SubSeq(v, i, i + 1) = Emoji}
VisualOf(v, raw) == raw - Cardinality({i \in Tokens(v) : i < raw})
DraftLength(v) == VisualOf(v, Len(v))

Clamp(o, v) == Min({o, DraftLength(v)})
RawOffset(v, offset) ==
    CHOOSE raw \in 0..Len(v) : raw \notin Tokens(v) /\ VisualOf(v, raw) = Clamp(offset, v)

\* The visual text: one placeholder for a token.
VisualText(v) ==
    [o \in 1..DraftLength(v) |->
        LET raw == RawOffset(v, o - 1) + 1
        IN IF raw \in Tokens(v) THEN "emoji" ELSE v[raw]]

Replace(v, s, insertion) ==
    LET from == Min({Clamp(s.start, v), Clamp(s.end, v)})
        to == Max({Clamp(s.start, v), Clamp(s.end, v)})
    IN [value |-> SubSeq(v, 1, RawOffset(v, from)) \o insertion
                      \o SubSeq(v, RawOffset(v, to) + 1, Len(v)),
        caret |-> from + DraftLength(insertion)]

PreviousStart(v, o) ==
    LET text == VisualText(v)
    IN CASE o = 0 -> 0
         [] o > 1 /\ SubSeq(text, o - 1, o) = Pair -> o - 2
         [] OTHER -> o - 1
NextEnd_Fault(v, o) == Min({o + 1, DraftLength(v)})
NextEnd(v, o) ==
    LET text == VisualText(v)
    IN CASE o = Len(text) -> o
         [] o + 1 < Len(text) /\ SubSeq(text, o + 1, o + 2) = Pair -> o + 2
         [] OTHER -> o + 1

\* White space, then one emoji or the rest of a word.
WordStart(v, o) ==
    LET text == VisualText(v)
        ends == Max({0} \cup {j \in 1..o : text[j] \notin Spaces})
    IN IF ends > 0 /\ text[ends] = "emoji" THEN ends - 1
       ELSE Max({0} \cup {j \in 1..ends : text[j] \in Spaces \cup {"emoji"}})
WordEnd(v, o) ==
    LET text == VisualText(v)
        stops == {Len(text) + 1}
        begins == Min(stops \cup {j \in (o + 1)..Len(text) : text[j] \notin Spaces})
    IN IF begins <= Len(text) /\ text[begins] = "emoji" THEN begins
       ELSE Min(stops \cup {j \in begins..Len(text) : text[j] \in Spaces \cup {"emoji"}}) - 1

Delete(v, s, direction, granularity) ==
    LET at == Min({Clamp(s.start, v), Clamp(s.end, v)})
        collapsed == at = Max({Clamp(s.start, v), Clamp(s.end, v)})
        backward == [start |-> IF granularity = "word" THEN WordStart(v, at)
                               ELSE PreviousStart(v, at), end |-> at]
        forward == [start |-> at, end |-> IF granularity = "word" THEN WordEnd(v, at)
                                          ELSE NextEnd(v, at)]
    IN CASE ~collapsed -> Replace(v, s, <<>>)
         [] direction = "backward" -> Replace(v, backward, <<>>)
         [] OTHER -> Replace(v, forward, <<>>)

\* The edits of a draft, whatever event asks for them.
Ops == [kind : {"insert"}, text : Characters]
    \cup [kind : {"delete"}, direction : {"backward", "forward"}, granularity : {"character", "word"}]

Result(v, s, op) ==
    IF op.kind = "insert" THEN Replace(v, s, op.text)
    ELSE Delete(v, s, op.direction, op.granularity)

\* The offsets a selection can have: not inside a pair of code units.
Places(v) ==
    {o \in 0..DraftLength(v) :
        ~(0 < o /\ o < DraftLength(v) /\ SubSeq(VisualText(v), o, o + 1) = Pair)}

-----------------------------------------------------------------------------
(* The nodes of the editor: a text, an emoji, a line break, and the sentinel   *)
(* after a line break that ends a text, without which it would not be seen.    *)

TextNode(t) == [kind |-> "text", value |-> t]
MarkNode(kind) == [kind |-> kind, value |-> <<>>]

\* renderTextDraftPart, for the parts of the draft from code unit i on.
Render(v) ==
    LET break(i) == i = Len(v) \/ i + 1 \in Tokens(v)
        from[i \in 1..(Len(v) + 1)] ==
            CASE i > Len(v) -> <<>>
              [] i <= Len(v) /\ i \in Tokens(v) -> <<MarkNode("emoji")>> \o from[i + 2]
              [] i <= Len(v) /\ v[i] = "nl" ->
                    (IF break(i) THEN <<MarkNode("br"), MarkNode("sentinel")>>
                     ELSE <<MarkNode("br")>>) \o from[i + 1]
              [] OTHER ->
                    LET rest == from[i + 1]
                    IN IF rest # <<>> /\ rest[1].kind = "text"
                       THEN <<TextNode(<<v[i]>> \o rest[1].value)>> \o Tail(rest)
                       ELSE <<TextNode(<<v[i]>>)>> \o rest
    IN from[1]

Serialize(nodes) ==
    FlattenSeq([i \in DOMAIN nodes |->
        CASE nodes[i].kind = "text" -> nodes[i].value
          [] nodes[i].kind = "emoji" -> Emoji
          [] nodes[i].kind = "br" -> <<"nl">>
          [] nodes[i].kind = "sentinel" -> <<>>])

NodeLength(node) ==
    CASE node.kind = "text" -> Len(node.value)
      [] node.kind = "sentinel" -> 0
      [] OTHER -> 1
LengthBefore(nodes, i) == FoldSeq(LAMBDA n, sum : NodeLength(n) + sum, 0, SubSeq(nodes, 1, i))

\* A place among the nodes: inside the text at index "node", or before it.
Resolve(nodes, offset) ==
    LET fits == {i \in DOMAIN nodes : /\ nodes[i].kind # "sentinel"
                                      /\ offset <= LengthBefore(nodes, i)}
        i == Min(fits)
        rest == offset - LengthBefore(nodes, i - 1)
    IN IF fits = {} THEN [node |-> Len(nodes) + 1, inside |-> 0]
       ELSE IF nodes[i].kind = "text" THEN [node |-> i, inside |-> rest]
       ELSE [node |-> i + rest, inside |-> 0]
Measured(nodes, place) == LengthBefore(nodes, place.node - 1) + place.inside

\* What the editor renders reads back as the draft, and a selection put into its
\* nodes reads back as the offset it was put at.
TextSurvives(v) ==
    /\ Serialize(Render(v)) = v
    /\ LengthBefore(Render(v), Len(Render(v))) = DraftLength(v)
    /\ \A o \in Places(v) : Measured(Render(v), Resolve(Render(v), o)) = o

-----------------------------------------------------------------------------
\* The reference: a draft as the list of its characters, of which an edit
\* replaces those selected, or takes away the one, or the word, at the caret.
CharactersOf(v) ==
    LET from[i \in 1..(Len(v) + 1)] ==
            IF i > Len(v) THEN <<>>
            ELSE IF i < Len(v) /\ SubSeq(v, i, i + 1) \in {Emoji, Pair}
                 THEN <<SubSeq(v, i, i + 1)>> \o from[i + 2]
                 ELSE <<SubSeq(v, i, i)>> \o from[i + 1]
    IN from[1]
Width(cs) == Len(cs) + Cardinality({i \in DOMAIN cs : cs[i] = Pair})
Blank(c) == \E s \in Spaces : c = <<s>>

\* What a deletion of a word backwards takes: the white space at the caret, and
\* the emoji or the whole word before it.
WordGone(beyond, gone) ==
    \E j \in 0..Len(gone) :
        /\ \A i \in (j + 1)..Len(gone) : Blank(gone[i])
        /\ \/ j = 1 /\ gone[1] = Emoji
           \/ /\ \A i \in 1..j : ~Blank(gone[i]) /\ gone[i] # Emoji
              /\ beyond # <<>> => j > 0 /\ (Blank(Last(beyond)) \/ Last(beyond) = Emoji)

\* What a deletion takes from the characters beside the caret, "far" being the
\* ones that stay, in the order of a backward deletion.
Gone(far, gone, granularity) ==
    IF granularity = "word" THEN WordGone(far, gone)
    ELSE Len(gone) = 1 \/ (gone = <<>> /\ far = <<>>)

\* An edit replaces whole characters, at the selection and nowhere else, and
\* takes away one character, or one word, when nothing is selected.
WholeEdit(draft, sel) ==
    \A op \in Ops :
        LET cs == CharactersOf(draft)
            at(offset) == CHOOSE i \in 0..Len(cs) : Width(SubSeq(cs, 1, i)) = offset
            n == at(Min({sel.start, sel.end}))
            m == at(Max({sel.start, sel.end}))
            left(i) == SubSeq(cs, 1, i)
            right(i) == SubSeq(cs, i + 1, Len(cs))
            value == Result(draft, sel, op).value
            becomes(text) == value = FlattenSeq(text)
        IN CASE op.kind = "insert" -> becomes(left(n) \o <<op.text>> \o right(m))
             [] op.kind = "delete" /\ n # m -> becomes(left(n) \o right(m))
             [] OTHER -> \E i \in 0..Len(cs) :
                   IF op.direction = "backward"
                   THEN i <= n /\ becomes(left(i) \o right(n))
                        /\ Gone(left(i), SubSeq(cs, i + 1, n), op.granularity)
                   ELSE i >= n /\ becomes(left(n) \o right(i))
                        /\ Gone(Reverse(right(i)), Reverse(SubSeq(cs, n + 1, i)), op.granularity)
=============================================================================
