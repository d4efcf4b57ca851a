----------------------------- MODULE DraftEditor -----------------------------
(***************************************************************************)
(* The editor of a draft, widgets/chat/MessageInput.tsx: an element whose   *)
(* nodes React renders from the draft and the browser edits as well.  What  *)
(* the page handles itself it applies to the draft; a native edit is read   *)
(* back from the nodes; a composition is read back when it ends.            *)
(***************************************************************************)
EXTENDS EmojiText
LOCAL INSTANCE FiniteSetsExt

CONSTANT MaxLength     \* code units of a draft
EditorAssumption == TextAssumption /\ MaxLength \in Nat

VARIABLES
    draft,
    sel,        \* the selection of the document, visual offsets
    dom,        \* the draft the editor's nodes serialise to
    controlled, \* controlledInputRef: is it set, and the caret it keeps
    composing,  \* composingRef
    disabled,   \* composerControlsDisabled
    cutOff      \* a composition ended while the editor was disabled
editorVars == <<draft, sel, dom, controlled, composing, disabled, cutOff>>

Caret(v, o) == [start |-> Clamp(o, v), end |-> Clamp(o, v)]

Uncontrolled == [on |-> FALSE, caret |-> 0]

Init ==
    /\ draft = <<>> /\ dom = <<>> /\ sel = [start |-> 0, end |-> 0]
    /\ controlled = Uncontrolled /\ composing = FALSE /\ disabled = FALSE /\ cutOff = FALSE

Select(start, end) ==
    /\ {start, end} \subseteq Places(dom) /\ sel' = [start |-> start, end |-> end]
    /\ UNCHANGED <<draft, dom, controlled, composing, disabled, cutOff>>

\* A keystroke, which is remembered for the input event that may follow, a paste
\* or an emoji of the picker: React renders the new draft,
\* over nodes that a composition cut off has left as they were, or not.
Apply(op, keyed) ==
    /\ op.kind = "insert" \/ keyed
    /\ ~disabled /\ ~composing
    /\ LET next == Result(draft, sel, op)
       IN /\ Len(next.value) <= MaxLength
          /\ draft' = next.value /\ dom' \in {next.value} \cup (IF cutOff THEN {dom} ELSE {})
          /\ sel' = Caret(dom', next.caret)
          /\ controlled' = IF keyed THEN [on |-> TRUE, caret |-> next.caret] ELSE controlled
    /\ cutOff' = (dom' # draft')
    /\ UNCHANGED <<composing, disabled>>

\* The browser edits its nodes itself: a drop, an undo, or an edit the page
\* could not cancel and has applied already.
NativeInput_Fault(op) ==
    /\ ~disabled /\ ~composing
    /\ LET next == Result(dom, sel, op)
       IN /\ Len(next.value) <= MaxLength
          /\ dom' = next.value /\ sel' = Caret(dom', next.caret)
          /\ draft' = IF controlled.on THEN draft ELSE next.value
    /\ controlled' = Uncontrolled /\ cutOff' = (cutOff /\ dom' # draft')
    /\ UNCHANGED <<composing, disabled>>
NativeInput(op) ==
    /\ ~disabled /\ ~composing
    /\ LET next == Result(dom, sel, op)
       IN /\ Len(next.value) <= MaxLength
          /\ IF controlled.on THEN draft' = draft /\ dom' = draft /\ sel' = Caret(draft, controlled.caret)
             ELSE draft' = next.value /\ dom' = next.value /\ sel' = Caret(dom', next.caret)
    /\ controlled' = Uncontrolled /\ cutOff' = (cutOff /\ dom' # draft')
    /\ UNCHANGED <<composing, disabled>>

ControlledExpires ==
    /\ controlled.on /\ controlled' = Uncontrolled
    /\ UNCHANGED <<draft, sel, dom, composing, disabled, cutOff>>

Compose(op) ==
    /\ ~disabled /\ composing' = TRUE
    /\ LET next == Result(dom, sel, op)
       IN /\ Len(next.value) <= MaxLength
          /\ dom' = next.value /\ sel' = Caret(dom', next.caret)
    /\ UNCHANGED <<draft, controlled, disabled, cutOff>>

CompositionEnds ==
    /\ composing /\ composing' = FALSE
    /\ draft' = IF disabled THEN draft ELSE dom
    /\ cutOff' = (dom # draft')
    /\ UNCHANGED <<sel, dom, controlled, disabled>>

\* An upload or the rate limit disables the controls; sending empties the draft.
ToggleControls ==
    /\ disabled' = ~disabled
    /\ UNCHANGED <<draft, sel, dom, controlled, composing, cutOff>>
Send_Fault == \* the caret stays where it was
    /\ ~disabled /\ ~composing /\ draft # <<>> /\ draft' = <<>>
    /\ dom' \in {<<>>} \cup (IF cutOff THEN {dom} ELSE {}) /\ cutOff' = (dom' # draft')
    /\ UNCHANGED <<sel, controlled, composing, disabled>>
Send ==
    /\ ~disabled /\ ~composing /\ draft # <<>> /\ draft' = <<>>
    /\ dom' \in {<<>>} \cup (IF cutOff THEN {dom} ELSE {})
    /\ sel' = Caret(dom', sel.start) /\ cutOff' = (dom' # draft')
    /\ UNCHANGED <<controlled, composing, disabled>>

Next ==
    \/ \E s, e \in 0..DraftLength(dom) : Select(s, e)
    \/ \E op \in Ops, keyed \in BOOLEAN : Apply(op, keyed)
    \/ \E op \in Ops : NativeInput(op) \/ Compose(op)
    \/ ControlledExpires \/ CompositionEnds \/ ToggleControls \/ Send

Spec == Init /\ [][Next]_editorVars

-----------------------------------------------------------------------------
EditorTypeOK ==
    /\ draft \in Seq(Letters \cup {"open", "close", "hi", "lo"}) /\ Len(draft) <= MaxLength
    /\ {sel.start, sel.end} \subseteq 0..DraftLength(dom)
    /\ controlled \in [on : BOOLEAN, caret : 0..MaxLength]
    /\ {composing, disabled, cutOff} \subseteq BOOLEAN

\* Outside a composition the editor shows its draft, whatever the browser has
\* done to its nodes; only a composition that ends while the controls are
\* disabled leaves a text on the screen that is in no draft.
ShowsItsDraft == composing \/ cutOff \/ dom = draft

=============================================================================
