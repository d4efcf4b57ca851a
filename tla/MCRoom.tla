------------------------------- MODULE MCRoom -------------------------------
(***************************************************************************)
(* One run over the two machines that fill a room and the list of rooms:   *)
(* the room's timeline, and the inbox of the tab.  They share no state;    *)
(* the machine chosen at the start is the one that moves.                  *)
(***************************************************************************)
EXTENDS Naturals

CONSTANTS History, MaxId, MaxText, MaxWire, MaxMoves, PageSize, Keys,
          OwnMessages, Dialogs, Groups, Skew, MaxTime, MaxEvents, MaxFrames,
          MaxMarks

VARIABLES machine,
          room, texts, wire, frames, joined, list, more, fetch, edit, removal,
          reaction, moves, wanted, drifted,
          now, last, cached, stored, opened, events, commands, connected,
          items, counted, latest, hidden, roomCounts, entries, groups, request,
          effects, activeRef, marks

Timeline == INSTANCE ChatTimeline
Inbox == INSTANCE InboxClient WITH active <- opened, counts <- counted

ASSUME TimelineConstants == Timeline!TimelineAssumption
ASSUME InboxConstants == Inbox!InboxAssumption

timelineVars == <<room, texts, wire, frames, joined, list, more, fetch, edit,
                  removal, reaction, moves, wanted, drifted>>
tabVars == <<now, last, cached, stored, opened, events, commands, connected,
             items, counted, latest, hidden, roomCounts, entries, groups,
             request, effects, activeRef, marks>>

MCInit == machine \in {"timeline", "inbox"} /\ Timeline!Init /\ Inbox!Init

MCNext ==
    /\ UNCHANGED machine
    /\ \/ machine = "timeline" /\ Timeline!Next /\ UNCHANGED tabVars
       \/ machine = "inbox" /\ Inbox!Next /\ UNCHANGED timelineVars

MCSpec == MCInit /\ [][MCNext]_<<machine, timelineVars, tabVars>>

TypesOK == Timeline!TypeOK /\ Inbox!TypeOK

\* The list shows each message once, and of a reader's own clicks the last.
ListHolds == Timeline!ShownOnce /\ Timeline!LastClickWins
\* With nothing under way it is the server's.
Converges == Timeline!Converges
\* The badges neither come back nor stay away.
BadgesHold == Inbox!NoGhostBadge /\ Inbox!NewMessageShows
=============================================================================
