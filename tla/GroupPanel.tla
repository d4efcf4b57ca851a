----------------------------- MODULE GroupPanel -----------------------------
(***************************************************************************)
(* The panel of a group: widgets/groups/GroupInfoPanel.tsx with the        *)
(* permissions of hooks/useRoomPermissions.ts.  The panel stays mounted     *)
(* when another room's is opened in its place.  It loads the group and its *)
(* members, then the roles if the user may manage them; every action loads *)
(* again; answers are taken in the order they come.  Images chosen for the *)
(* avatar are object URLs that must be revoked, once they are not shown.   *)
(***************************************************************************)
EXTENDS Naturals, FiniteSets

CONSTANTS Rooms,     \* groups
          Managed,   \* groups whose roles and settings the user may manage
          MaxLoads,  \* loads, MaxUrls images and MaxActs actions of one behaviour
          MaxUrls,
          MaxActs

PanelAssumption ==
    /\ "none" \notin Rooms /\ Managed \subseteq Rooms
    /\ MaxLoads \in Nat /\ MaxUrls \in Nat /\ MaxActs \in Nat

VARIABLES
    room,       \* roomId
    perms,      \* the permissions loaded: of which room; "none" while none are
    group,      \* the room whose group and members are held
    edits,      \* the room the fields of the settings were filled from; touched or not
    roles,      \* the room whose roles and overrides are held
    loading, failed,
    loads,      \* loadBase and loadRolesData under way
    asking,     \* permission requests under way
    busy,       \* busyAction
    acts,       \* actions under way
    preview, pending,   \* the avatar's URL in the form; the one in the crop dialog
    urls, revoked,      \* URLs created; those revoked
    started, acted,     \* loads and actions started
    apart       \* since the room was opened no load failed, and none ran, and no
                \* action was under way, of another room
panelVars == <<room, perms, group, edits, roles, loading, failed, loads, asking, busy,
               acts, preview, pending, urls, revoked, started, acted, apart>>

Manages(p) == p \in Managed
Show == ~loading /\ group # "none"

\* A load belongs to the room and the permissions of the render it comes from.
NewLoad(r, manages, stage, by) ==
    [id |-> started + 1, room |-> r, manages |-> manages, stage |-> stage, by |-> by]
Start(load, others) ==
    /\ started < MaxLoads /\ started' = started + 1
    /\ loads' = others \cup {load}
    /\ apart' = (apart /\ \A l \in others : l.room = load.room)

Init ==
    /\ room \in Rooms /\ perms = "none" /\ group = "none"
    /\ edits = [room |-> "none", touched |-> FALSE] /\ roles = "none"
    /\ loading = TRUE /\ failed = FALSE
    /\ loads = {[id |-> 1, room |-> room, manages |-> FALSE, stage |-> "base", by |-> 0]}
    /\ asking = {room} /\ busy = "none" /\ acts = {}
    /\ preview = 0 /\ pending = 0 /\ urls = 0 /\ revoked = {}
    /\ started = 1 /\ acted = 0 /\ apart = TRUE

\* Another room: the effects of both hooks run again.
OpenAnother(r) ==
    /\ r # room /\ room' = r
    /\ asking' = asking \cup {r}
    /\ started < MaxLoads /\ started' = started + 1
    /\ loads' = loads \cup {NewLoad(r, Manages(perms), "base", 0)}
    /\ apart' = (acts = {} /\ \A l \in loads : l.room = r)
    /\ loading' = TRUE /\ failed' = FALSE
    /\ UNCHANGED <<perms, group, edits, roles, busy, acts, preview, pending, urls, revoked, acted>>

\* useRoomPermissions: a change of canManageRoles is a new loadBase, and the
\* effect runs it.
PermsArrive(r, ok) ==
    /\ r \in asking /\ asking' = asking \ {r}
    /\ perms' = IF ok THEN r ELSE "none"
    /\ IF Manages(perms') = Manages(perms)
       THEN UNCHANGED <<loads, started, apart, loading, failed>>
       ELSE /\ Start(NewLoad(room, Manages(perms'), "base", 0), loads)
            /\ loading' = TRUE /\ failed' = FALSE
    /\ UNCHANGED <<room, group, edits, roles, busy, acts, preview, pending, urls, revoked, acted>>

-----------------------------------------------------------------------------
\* The end of a load: the spinner goes, and the action that awaited it ends.
Ended(l) ==
    /\ loads' = loads \ {l}
    /\ loading' = IF l.stage = "alone" THEN loading ELSE FALSE
    /\ acts' = {a \in acts : l.by = 0 \/ a.id # l.by}
    /\ busy' = IF l.by # 0 THEN "none" ELSE busy

Revoke(shown) == revoked \cup (shown \ {0})

\* loadBase fills the fields anew and drops the images that were chosen.
BaseArrives_Fault(l) ==
    /\ l.stage = "base"
    /\ group' = l.room /\ edits' = [room |-> l.room, touched |-> FALSE]
    /\ revoked' = Revoke({pending}) /\ preview' = 0 /\ pending' = 0
    /\ IF l.manages
       THEN /\ loads' = (loads \ {l}) \cup {[l EXCEPT !.stage = "roles"]}
            /\ UNCHANGED <<roles, loading, acts, busy>>
       ELSE roles' = "none" /\ Ended(l)
    /\ UNCHANGED <<room, perms, failed, asking, urls, started, acted, apart>>
BaseArrives(l) ==
    /\ l.stage = "base"
    /\ group' = l.room /\ edits' = [room |-> l.room, touched |-> FALSE]
    /\ revoked' = Revoke({preview, pending}) /\ preview' = 0 /\ pending' = 0
    /\ IF l.manages
       THEN /\ loads' = (loads \ {l}) \cup {[l EXCEPT !.stage = "roles"]}
            /\ UNCHANGED <<roles, loading, acts, busy>>
       ELSE roles' = "none" /\ Ended(l)
    /\ UNCHANGED <<room, perms, failed, asking, urls, started, acted, apart>>

BaseFails(l) ==
    /\ l.stage = "base" /\ failed' = TRUE /\ apart' = FALSE /\ Ended(l)
    /\ UNCHANGED <<room, perms, group, edits, roles, asking, preview, pending, urls, revoked,
                   started, acted>>

\* A failure of the roles counts as an empty list.
RolesArrive(l, ok) ==
    /\ l.stage \in {"roles", "alone"}
    /\ roles' = IF ok THEN l.room ELSE "none"
    /\ Ended(l)
    /\ UNCHANGED <<room, perms, group, edits, failed, asking, preview, pending, urls, revoked,
                   started, acted, apart>>

-----------------------------------------------------------------------------
\* The form.
Touch ==
    /\ Show /\ Manages(perms) /\ edits' = [edits EXCEPT !.touched = TRUE]
    /\ UNCHANGED <<room, perms, group, roles, loading, failed, loads, asking, busy, acts,
                   preview, pending, urls, revoked, started, acted, apart>>

PickImage ==
    /\ Show /\ Manages(perms) /\ urls < MaxUrls
    /\ urls' = urls + 1 /\ pending' = urls + 1 /\ revoked' = Revoke({pending})
    /\ failed' = FALSE
    /\ UNCHANGED <<room, perms, group, edits, roles, loading, loads, asking, busy, acts,
                   preview, started, acted, apart>>

CancelCrop ==
    /\ Show /\ pending # 0 /\ pending' = 0 /\ revoked' = Revoke({pending})
    /\ UNCHANGED <<room, perms, group, edits, roles, loading, failed, loads, asking, busy, acts,
                   preview, urls, started, acted, apart>>

ApplyCrop_Fault ==
    /\ Show /\ pending # 0
    /\ preview' = pending /\ pending' = 0 /\ revoked' = Revoke({pending})
    /\ edits' = [edits EXCEPT !.touched = TRUE]
    /\ UNCHANGED <<room, perms, group, roles, loading, failed, loads, asking, busy, acts,
                   urls, started, acted, apart>>
ApplyCrop ==
    /\ Show /\ pending # 0
    /\ preview' = pending /\ pending' = 0 /\ revoked' = Revoke({preview})
    /\ edits' = [edits EXCEPT !.touched = TRUE]
    /\ UNCHANGED <<room, perms, group, roles, loading, failed, loads, asking, busy, acts,
                   urls, started, acted, apart>>

\* What the buttons require, and what an action loads when it has succeeded.
Offered(name) ==
    CASE name = "save"    -> Manages(perms) /\ edits.touched /\ busy = "none"
      [] name = "remove"  -> Manages(perms) /\ busy # "remove"
      [] name = "roles"   -> Manages(perms) /\ busy = "none"
      [] name = "member"  -> busy = "none"
      [] name = "ban"     -> busy # "ban"
      [] name = "leave"   -> busy # "leave"
ActNames == {"save", "remove", "roles", "member", "ban", "leave"}

Act(name) ==
    /\ Show /\ Offered(name) /\ acted < MaxActs /\ acted' = acted + 1
    /\ acts' = acts \cup {[id |-> acted + 1, name |-> name, room |-> room,
                           from |-> edits.room, manages |-> Manages(perms), stage |-> "sent"]}
    /\ busy' = name /\ failed' = FALSE
    /\ UNCHANGED <<room, perms, group, edits, roles, loading, loads, asking, preview, pending,
                   urls, revoked, started, apart>>

ActDone(a) ==
    /\ a.stage = "sent" /\ a.name # "leave"
    /\ acts' = (acts \ {a}) \cup {[a EXCEPT !.stage = "loading"]}
    /\ IF a.name = "roles"
       THEN /\ Start(NewLoad(a.room, TRUE, "alone", a.id), loads)
            /\ UNCHANGED <<loading, failed>>
       ELSE /\ Start(NewLoad(a.room, a.manages, "base", a.id), loads)
            /\ loading' = TRUE /\ failed' = FALSE
    /\ group' = IF a.name \in {"save", "remove"} THEN a.room ELSE group
    /\ IF a.name = "remove"
       THEN revoked' = Revoke({preview, pending}) /\ preview' = 0 /\ pending' = 0
       ELSE UNCHANGED <<revoked, preview, pending>>
    /\ UNCHANGED <<room, perms, edits, roles, asking, busy, urls, acted>>

ActFails(a) ==
    /\ a.stage = "sent" /\ acts' = acts \ {a}
    /\ busy' = "none" /\ failed' = TRUE
    /\ UNCHANGED <<room, perms, group, edits, roles, loading, loads, asking, preview, pending,
                   urls, revoked, started, acted, apart>>

Next ==
    \/ \E r \in Rooms : OpenAnother(r)
    \/ \E r \in asking, ok \in BOOLEAN : PermsArrive(r, ok)
    \/ \E l \in loads : BaseArrives(l) \/ BaseFails(l) \/ RolesArrive(l, TRUE) \/ RolesArrive(l, FALSE)
    \/ Touch \/ PickImage \/ CancelCrop \/ ApplyCrop
    \/ \E name \in ActNames : Act(name)
    \/ \E a \in acts : ActDone(a) \/ ActFails(a)

Spec == Init /\ [][Next]_panelVars

-----------------------------------------------------------------------------
PanelTypeOK ==
    /\ room \in Rooms /\ {perms, group, edits.room, roles} \subseteq Rooms \cup {"none"}
    /\ loading \in BOOLEAN /\ failed \in BOOLEAN /\ apart \in BOOLEAN
    /\ asking \subseteq Rooms /\ busy \in ActNames \cup {"none"}
    /\ preview \in 0..urls /\ pending \in 0..urls /\ revoked \subseteq 1..urls
    /\ urls \in 0..MaxUrls /\ started \in 0..MaxLoads /\ acted \in 0..MaxActs

\* No image that is shown has been revoked, and every one that is not shown
\* any more has: whatever loads, saves and removals happen between the choice
\* of an image, its crop and the next choice.
ImagesAreKept == revoked = (1..urls) \ {preview, pending}

\* The spinner ends with the loads.
SpinnerEnds == loads = {} => ~loading

\* A panel whose loads all succeeded shows its room and fills its settings
\* from it, unless loads or actions of two rooms overlapped: an answer that
\* arrives late is taken whatever room it is of.
ShowsItsRoom ==
    loads = {} /\ acts = {} /\ apart => group = room /\ edits.room = room
=============================================================================
