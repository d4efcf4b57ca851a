---------------------------- MODULE PageLookups ----------------------------
(***************************************************************************)
(* The questions a page asks while its user goes on typing, clicking and   *)
(* navigating, each with its own way of dropping the answers that come too *)
(* late: the search in a room (useChatRoomPageHeaderSearch.ts), the global *)
(* search (ConversationListProvider.tsx), the menu of a message's readers  *)
(* (useChatRoomPageComposer.ts), the target of an address                  *)
(* (ChatTargetPage.tsx) and a user's profile (useUserProfile.ts).          *)
(***************************************************************************)
EXTENDS Naturals

CONSTANTS Subjects,    \* what can be asked for: queries, messages, addresses
          MaxRequests  \* requests of one behaviour

LookupsAssumption == "none" \notin Subjects /\ MaxRequests \in Nat

Kinds == {"search", "global", "readers", "target", "profile"}
Debounced == {"search", "global"}
\* These keep the answer with the key it belongs to, and show it by that key.
Keyed == {"target", "profile"}

VARIABLES
    asked,     \* [Kinds -> Subjects \cup {"none"}]
    timer,     \* [Kinds -> BOOLEAN]: a debounce timer runs
    live,      \* [Kinds -> Nat]: the request whose answer is still wanted
    loading,   \* [Kinds -> BOOLEAN]: the spinner's state
    held,      \* [Kinds -> answer]: the answer in the state
    requests,  \* requests under way
    made       \* requests made
lookupVars == <<asked, timer, live, loading, held, requests, made>>

Nothing == [key |-> "none", data |-> "none"]

Init ==
    /\ asked = [k \in Kinds |-> "none"] /\ timer = [k \in Kinds |-> FALSE]
    /\ live = [k \in Kinds |-> 0] /\ loading = timer
    /\ held = [k \in Kinds |-> Nothing]
    /\ requests = {} /\ made = 0

Request(k, key) ==
    /\ made < MaxRequests /\ made' = made + 1
    /\ requests' = requests \cup {[kind |-> k, id |-> made + 1, key |-> key]}
    /\ live' = [live EXCEPT ![k] = made + 1]

\* A query is changed, or the field is emptied: what was under way is given
\* up, the results of the query before stay until the next ones come.
Types(k, q) ==
    /\ k \in Debounced /\ q # asked[k]
    /\ asked' = [asked EXCEPT ![k] = q]
    /\ live' = [live EXCEPT ![k] = 0]
    /\ timer' = [timer EXCEPT ![k] = q # "none"]
    /\ loading' = [loading EXCEPT ![k] = @ /\ k = "global" /\ q # "none"]
    /\ held' = [held EXCEPT ![k] = IF q = "none" THEN Nothing ELSE @]
    /\ UNCHANGED <<requests, made>>

DebounceEnds(k) ==
    /\ timer[k] /\ timer' = [timer EXCEPT ![k] = FALSE]
    /\ Request(k, asked[k])
    /\ loading' = [loading EXCEPT ![k] = TRUE]
    /\ UNCHANGED <<asked, held>>

\* The menu of the readers is opened on a message; opened again, the request
\* before is given up.
OpenReaders(s) ==
    /\ asked' = [asked EXCEPT !["readers"] = s]
    /\ Request("readers", s)
    /\ loading' = [loading EXCEPT !["readers"] = TRUE]
    /\ held' = [held EXCEPT !["readers"] = Nothing]
    /\ UNCHANGED timer

CloseReaders ==
    /\ asked["readers"] # "none"
    /\ asked' = [asked EXCEPT !["readers"] = "none"]
    /\ live' = [live EXCEPT !["readers"] = 0]
    /\ loading' = [loading EXCEPT !["readers"] = FALSE]
    /\ held' = [held EXCEPT !["readers"] = Nothing]
    /\ UNCHANGED <<timer, requests, made>>

\* The address, the signed-in user or the panel's profile changes.
Follow(k, s) ==
    /\ k \in Keyed /\ s # asked[k]
    /\ asked' = [asked EXCEPT ![k] = s]
    /\ Request(k, s)
    /\ UNCHANGED <<timer, loading, held>>

\* An answer or a failure; that of a request given up is ignored.
Arrives_Fault(r, data) ==
    LET wanted == r.kind \in Debounced \/ r.id = live[r.kind] IN
    /\ requests' = requests \ {r}
    /\ live' = [live EXCEPT ![r.kind] = IF wanted THEN 0 ELSE @]
    /\ held' = [held EXCEPT ![r.kind] = IF wanted THEN [key |-> r.key, data |-> data] ELSE @]
    /\ loading' = [loading EXCEPT ![r.kind] = IF wanted THEN FALSE ELSE @]
    /\ UNCHANGED <<asked, timer, made>>
Arrives(r, data) ==
    LET wanted == r.id = live[r.kind] IN
    /\ requests' = requests \ {r}
    /\ live' = [live EXCEPT ![r.kind] = IF wanted THEN 0 ELSE @]
    /\ held' = [held EXCEPT ![r.kind] = IF wanted THEN [key |-> r.key, data |-> data] ELSE @]
    /\ loading' = [loading EXCEPT ![r.kind] = IF wanted THEN FALSE ELSE @]
    /\ UNCHANGED <<asked, timer, made>>

Next ==
    \/ \E k \in Debounced, q \in Subjects \cup {"none"} : Types(k, q)
    \/ \E k \in Debounced : DebounceEnds(k)
    \/ \E s \in Subjects : OpenReaders(s)
    \/ CloseReaders
    \/ \E k \in Keyed, s \in Subjects : Follow(k, s)
    \/ \E r \in requests, data \in {"found", "failed"} : Arrives(r, data)

Spec == Init /\ [][Next]_lookupVars

-----------------------------------------------------------------------------
\* What the page shows.
Pending(k) == timer[k] \/ live[k] # 0
Visible(k) == IF k \in Keyed /\ held[k].key # asked[k] THEN Nothing ELSE held[k]
Spinning(k) == IF k \in Keyed THEN asked[k] # "none" /\ Visible(k) = Nothing ELSE loading[k]

LookupsTypeOK ==
    /\ asked \in [Kinds -> Subjects \cup {"none"}]
    /\ timer \in [Kinds -> BOOLEAN] /\ loading \in [Kinds -> BOOLEAN]
    /\ live \in [Kinds -> 0..MaxRequests] /\ made \in 0..MaxRequests
    /\ \A k \in Kinds : held[k].key \in Subjects \cup {"none"}

\* Whatever order the answers come in, what is shown once nothing is awaited
\* answers the question last asked; the menu of the readers and the two keyed
\* lookups never show another's answer, not even for a moment.
AnswersTheQuestion ==
    \A k \in Kinds :
        /\ ~Pending(k) => Visible(k).key = asked[k]
        /\ k \notin Debounced => Visible(k).key \in {asked[k], "none"}

\* A spinner turns only while the answer it stands for is coming.
SpinnerIsHonest == \A k \in Kinds : Spinning(k) => Pending(k)
=============================================================================
