---------------------------- MODULE ClientCache ----------------------------
(***************************************************************************)
(* The API caches of the service worker (frontend/src/sw.ts), the requests *)
(* of the page that share one answer (controllers/ChatController.ts), and   *)
(* the messages by which the page drops copies (shared/cache/              *)
(* cacheManager.ts).  A copy is known by the user it was answered to and by *)
(* the version of the data in it.                                          *)
(***************************************************************************)
EXTENDS Naturals

CONSTANTS Users,       \* accounts
          Keys,        \* the requests of this instance
          MaxChanges,  \* changes of the data on the server
          MaxFetches,  \* requests sent to the server
          MaxDrops     \* times the copies of a key are dropped before a session changes


\* Requests, by the address the worker sees.  Both pages of the history have
\* one path; a profile is cached under the reference the page asked with.
AllKeys == {"messages", "older", "details", "inbox", "self", "byName", "byAtName"}

CacheAssumption ==
    /\ "none" \notin Users /\ Keys \subseteq AllKeys
    /\ MaxChanges \in Nat /\ MaxFetches \in Nat /\ MaxDrops \in Nat

\* The read operations that the worker keeps copies of; every other request
\* passes it by or is NetworkOnly.
KeysOf(read) ==
    CASE read = "getRoomMessages" -> {"messages", "older"}
      [] read = "getRoomDetails"  -> {"details"}
      [] read = "getDirectChats"  -> {"inbox"}
      [] read = "getUserProfile"  -> {"byName", "byAtName"}
      [] read = "getProfile"      -> {"self"}
      [] OTHER                    -> {}
Reads == {"getRoomMessages", "getRoomDetails", "getDirectChats",
          "getUserProfile", "getProfile"}

NetworkFirst(k) == k \in {"messages", "older"}

\* The answers the page shares among the callers that wait for one.
Shared(k) == k \in {"messages", "older", "details", "inbox"}

\* What a change made through the API makes outdated among the copies.
MessageChanges == {"editMessage", "deleteMessage", "addReaction", "removeReaction"}
ReadingChanges == {"markRead"}
FriendChanges == {"sendFriendRequest", "acceptFriendRequest", "declineFriendRequest",
                  "cancelOutgoingFriendRequest", "removeFriend", "blockUser", "unblockUser"}
GroupChanges == {"updateGroup", "deleteGroup", "joinGroup", "leaveGroup"}
MemberChanges == {"kickMember", "banMember", "unbanMember", "muteMember", "unmuteMember"}
InviteChanges == {"createInvite", "revokeInvite", "joinViaInvite",
                  "approveJoinRequest", "rejectJoinRequest"}
RoleChanges == {"transferOwnership", "createRoomRole", "updateRoomRole", "deleteRoomRole",
                "setMemberRoles", "createRoomOverride", "updateRoomOverride", "deleteRoomOverride"}
PinChanges == {"pinMessage", "unpinMessage"}
Changes == {"sendMessage", "updateProfile"} \cup MessageChanges \cup ReadingChanges
           \cup FriendChanges \cup GroupChanges \cup MemberChanges
           \cup InviteChanges \cup RoleChanges \cup PinChanges

Outdates(change) ==
    CASE change = "sendMessage"    -> {"messages", "older", "inbox"}
      [] change = "updateProfile"  -> {"self", "byName", "byAtName"}
      [] change \in MessageChanges -> {"messages", "older", "inbox"}
      [] change \in ReadingChanges -> {"messages", "inbox"}
      [] change \in GroupChanges \cup MemberChanges \cup InviteChanges -> {"details"}
      [] change \in FriendChanges \cup RoleChanges \cup PinChanges -> {}

\* What the page is told of and drops: a message of the open room or of the
\* inbox by an event, its own profile by the answer.  Nothing else is dropped;
\* no call site of invalidateRoomDetails exists.
Drops(change) ==
    CASE change = "sendMessage"   -> {"roomMessages", "directChats"}
      [] change = "updateProfile" -> {"selfProfile", "userProfile"}
      [] OTHER                    -> {}

\* The worker's side of a message: the entries with the path of the message.
Matching_Fault(m) ==
    CASE m = "roomMessages" -> {"messages"}
      [] m = "directChats"  -> {"inbox"}
      [] m = "userProfile"  -> {"byName"}
      [] m = "selfProfile"  -> {"self"}
      [] m = "clearUserCaches" -> AllKeys
Matching(m) ==
    CASE m = "roomMessages" -> {"messages", "older"}
      [] m = "directChats"  -> {"inbox"}
      [] m = "userProfile"  -> {"byName"}
      [] m = "selfProfile"  -> {"self"}
      [] m = "clearUserCaches" -> AllKeys

VARIABLES
    cookie,    \* the user of the session, as the server knows it
    user,      \* the user the page shows
    version,   \* [Keys -> Nat]: the data on the server
    told,      \* [Keys -> Nat]: the version the page was told of and dropped
    cache,     \* [Keys -> copies \cup {None}]
    epoch,     \* [Keys -> Nat]: how often the copies of a key were dropped
    fetches,   \* the worker's requests to the server, by number
    sent,      \* requests sent
    messages,  \* of the page, on their way to the worker
    waiting    \* keys the page waits for
cacheVars == <<cookie, user, version, told, cache, epoch, fetches, sent, messages, waiting>>

None == [user |-> "none", version |-> 0, late |-> FALSE]

Init ==
    /\ cookie \in Users \cup {"none"} /\ user = cookie
    /\ version = [k \in Keys |-> 0] /\ told = version
    /\ cache = [k \in Keys |-> None] /\ epoch = version
    /\ fetches = [i \in {} |-> None] /\ sent = 0
    /\ messages = {} /\ waiting = {}

Fetch(k) ==
    /\ sent < MaxFetches /\ sent' = sent + 1
    /\ fetches' = [i \in DOMAIN fetches \cup {sent + 1} |->
                     IF i \in DOMAIN fetches THEN fetches[i]
                     ELSE [key |-> k, epoch |-> epoch[k], answered |-> FALSE, copy |-> None]]

\* A request of the page: it waits for an answer that is on its way already,
\* or the worker answers from the cache and asks the server all the same
\* (StaleWhileRevalidate), or asks the server first (NetworkFirst).
Load(k) ==
    /\ user # "none" /\ (Shared(k) => k \notin waiting)
    /\ Fetch(k)
    /\ waiting' = IF ~NetworkFirst(k) /\ cache[k] # None THEN waiting ELSE waiting \cup {k}
    /\ UNCHANGED <<cookie, user, version, told, cache, epoch, messages>>

\* After five seconds NetworkFirst serves the copy there is; the request to
\* the server goes on.
FiveSecondsPass(k) ==
    /\ NetworkFirst(k) /\ k \in waiting /\ cache[k] # None
    /\ waiting' = waiting \ {k}
    /\ UNCHANGED <<cookie, user, version, told, cache, epoch, fetches, sent, messages>>

Answer(i) ==
    /\ ~fetches[i].answered /\ cookie # "none"
    /\ fetches' = [fetches EXCEPT ![i].answered = TRUE,
                       ![i].copy = [None EXCEPT !.user = cookie, !.version = version[fetches[i].key]]]
    /\ UNCHANGED <<cookie, user, version, told, cache, epoch, sent, messages, waiting>>

\* An answer is stored, whatever was dropped while it was on its way.
Store(i) ==
    LET f == fetches[i] IN
    /\ f.answered
    /\ cache' = [cache EXCEPT ![f.key] = [f.copy EXCEPT !.late = f.epoch # epoch[f.key]]]
    /\ waiting' = waiting \ {f.key}
    /\ fetches' = [j \in DOMAIN fetches \ {i} |-> fetches[j]]
    /\ UNCHANGED <<cookie, user, version, told, epoch, sent, messages>>

\* A request fails or is refused (only 0 and 200 are stored).
Fail(i) ==
    /\ fetches' = [j \in DOMAIN fetches \ {i} |-> fetches[j]]
    /\ waiting' = waiting \ {fetches[i].key}
    /\ UNCHANGED <<cookie, user, version, told, cache, epoch, sent, messages>>

\* ExpirationPlugin: an entry is too old, one too many, or the quota is full.
Expire(k) ==
    /\ cache[k] # None /\ cache' = [cache EXCEPT ![k] = None]
    /\ UNCHANGED <<cookie, user, version, told, epoch, fetches, sent, messages, waiting>>

Change(change) ==
    /\ user # "none" /\ Outdates(change) \cap Keys # {}
    /\ \A k \in Keys : version[k] < MaxChanges
    /\ version' = [k \in Keys |-> IF k \in Outdates(change) THEN version[k] + 1 ELSE version[k]]
    /\ messages' = messages \cup {[key |-> m, version |-> version'] : m \in Drops(change)}
    /\ UNCHANGED <<cookie, user, told, cache, epoch, fetches, sent, waiting>>

\* login, logout and the others: the server changes the session, then the
\* page learns it and sends clearUserCaches.
SessionChanges(u) ==
    /\ u # cookie /\ user = cookie /\ cookie' = u
    /\ \A k \in Keys : epoch[k] < MaxDrops
    /\ UNCHANGED <<user, version, told, cache, epoch, fetches, sent, messages, waiting>>
PageLearns ==
    /\ user # cookie /\ user' = cookie
    /\ messages' = messages \cup {[key |-> "clearUserCaches", version |-> version]}
    /\ UNCHANGED <<cookie, version, told, cache, epoch, fetches, sent, waiting>>

WorkerHandles(m) ==
    LET dropped == Matching(m.key)
        meant == IF m.key = "roomMessages" THEN {"messages", "older"} ELSE dropped
    IN
    /\ messages' = messages \ {m}
    /\ cache' = [k \in Keys |-> IF k \in dropped THEN None ELSE cache[k]]
    /\ epoch' = [k \in Keys |-> IF k \in dropped THEN epoch[k] + 1 ELSE epoch[k]]
    /\ told' = [k \in Keys |-> IF k \in meant /\ m.version[k] > told[k] THEN m.version[k] ELSE told[k]]
    /\ UNCHANGED <<cookie, user, version, fetches, sent, waiting>>

Next ==
    \/ \E read \in Reads : \E k \in KeysOf(read) \cap Keys : Load(k)
    \/ \E k \in Keys : FiveSecondsPass(k) \/ Expire(k)
    \/ \E i \in DOMAIN fetches : Answer(i) \/ Store(i) \/ Fail(i)
    \/ \E c \in Changes : Change(c)
    \/ \E u \in Users \cup {"none"} : SessionChanges(u)
    \/ PageLearns
    \/ \E m \in messages : WorkerHandles(m)

Spec == Init /\ [][Next]_cacheVars

-----------------------------------------------------------------------------
CacheTypeOK ==
    /\ cookie \in Users \cup {"none"} /\ user \in Users \cup {"none"}
    /\ version \in [Keys -> 0..MaxChanges] /\ told \in [Keys -> 0..MaxChanges]
    /\ epoch \in [Keys -> Nat]
    /\ \A k \in Keys : cache[k] \in [user : Users \cup {"none"}, version : 0..MaxChanges, late : BOOLEAN]
    /\ DOMAIN fetches \subseteq 1..sent /\ sent \in 0..MaxFetches
    /\ waiting \subseteq Keys

\* Once the worker has handled what the page sent, a copy it keeps was
\* answered to the user of the page and holds every change the page was told
\* of, unless its answer was on its way while copies were dropped.
CopiesAreCurrent ==
    messages = {} /\ user = cookie =>
        \A k \in Keys : cache[k] = None \/ cache[k].late
                        \/ (cache[k].user = user /\ cache[k].version >= told[k])

\* cacheManager.ts:72 "Полностью очищает пользовательские API-кэши ...
\* например после logout": an answer under way survives.
ClearedMeansCleared ==
    messages = {} /\ user = cookie => \A k \in Keys : cache[k] = None \/ cache[k].user = user
=============================================================================
