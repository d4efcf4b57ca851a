--------------------------- MODULE MCChatDelivery ---------------------------
(***************************************************************************)
(* What the server ends of what it begins: the deliveries of a connection   *)
(* that sends a few messages and disconnects, and the requests of one user *)
(* on the read state of a room, from two tabs.  The two share no state;     *)
(* the one chosen at the start moves.                                      *)
(***************************************************************************)
EXTENDS ChatDelivery

CONSTANTS Users, Moderators, Workers, Public, SlowCommits, MaxId, MaxTries

VARIABLES machine, status, author, cursor, receipts, req, marked, baseline, nulled, late

Reads == INSTANCE ReadState

readVars == <<status, author, cursor, receipts, req, marked, baseline, nulled, late>>
allVars == <<machine, vars, readVars>>

MCInit == machine \in {"delivery", "requests"} /\ Init /\ Reads!Init
MCNext ==
    /\ UNCHANGED machine
    /\ IF machine = "delivery" THEN Next ELSE UNCHANGED vars
    /\ IF machine = "requests" THEN Reads!Next ELSE UNCHANGED readVars
MCSpec == MCInit /\ [][MCNext]_allVars /\ Fairness
            /\ \A w \in Workers : SF_readVars(machine = "requests" /\ Reads!Serve(w))

\* Every delivery is settled, flush() returns, and the row locks, retries and failed key
\* checks leave no request unanswered.
EverythingEnds == EverythingSettles /\ FlushEnds /\ Reads!RequestsEnd
=============================================================================
