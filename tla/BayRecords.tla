------------------------------ MODULE BayRecords -----------------------------
(***************************************************************************)
(* What the database keeps of one bay: its row, its history and what is    *)
(* read out of them - the overstay alert (jobs/overstay_alert_job.py) and  *)
(* the parking sessions (services/session_derivation_service.py).          *)
(***************************************************************************)
EXTENDS Alerts

CONSTANTS
  Overstay, \* overstay_hours
  MaxRows   \* bound: history rows

ASSUME BayBounds == Overstay \in 0..(Oldest - 1) /\ MaxRows \in Nat

VARIABLES
  believed, \* what the loop's state tracker holds of the bay
  bay,      \* current_state and state_since, which counts only once occupied
  history   \* the bay's rows in the order of changed_at: [state, age, suspect]

bayVars == <<believed, bay, history>>

Resolved == {"FREE", "OCCUPIED"}

BayInit ==
  /\ believed = "UNKNOWN"
  /\ bay = [state |-> "UNKNOWN", since |-> Stamp]
  /\ history = <<>>

\* persist_state_changes
Persists(state) ==
  /\ state # believed
  /\ Len(history) < MaxRows
  /\ believed' = state
  /\ bay' = [state |-> state, since |-> Stamp]
  /\ history' = Inserted(history, [state |-> state, age |-> 0, suspect |-> suspect])

\* The write raises after diff has remembered the change.
LosesChange(state) ==
  /\ state # believed
  /\ believed' = state
  /\ UNCHANGED <<bay, history>>

\* A new loop's tracker is seeded with the row.
LoopIsBuilt == believed' = bay.state /\ UNCHANGED <<bay, history>>

HasOverstayed ==
  bay.state = "OCCUPIED" /\ Age(bay.since) > Overstay

NeedsHistory == IF history = <<>> THEN FALSE ELSE ~Last(history).suspect

\* latest_for_slot
IsTrusted == history # <<>> => ~Last(history).suspect

OverstayJob == HasOverstayed /\ IsTrusted /\ CreateDeduplicated

HistoryKept(window) == Picked(history, {i \in DOMAIN history : Age(history[i]) <= window})

BayOlder ==
  /\ history' = [i \in DOMAIN history |-> Older(history[i])]
  /\ bay' = [bay EXCEPT !.since = Older(@)]
  /\ UNCHANGED believed

-----------------------------------------------------------------------------
(* Parking sessions: derived from the rows of a window, each time asked *)

NoSession == [start |-> 0, end |-> 0, gap |-> FALSE, suspect |-> FALSE]

Opened(acc, row) ==
  [acc EXCEPT !.current = [NoSession EXCEPT !.start = acc.row, !.suspect = row.suspect]]

Marked(acc, row) == [acc EXCEPT !.current.suspect = @ \/ row.suspect]

Closed(acc, row) ==
  [acc EXCEPT !.sessions = Append(@, [Marked(acc, row).current EXCEPT !.end = acc.row]),
              !.current = NoSession]

OpenedAgain(acc, row) == Opened(acc, row)

\* An OCCUPIED row while a session is open: the session goes on.
SeenAgain(acc, row) == Marked(acc, row)

\* One row of _derive_for_one_slot, numbered; current.start = 0: no session is open.
Derive(acc, row) ==
  LET next == [acc EXCEPT !.row = @ + 1]
      open == acc.current.start # 0
  IN CASE row.state = "OCCUPIED" /\ ~open -> Opened(next, row)
       [] row.state = "OCCUPIED" /\ open  -> SeenAgain(next, row)
       [] row.state = "FREE" /\ open      -> Closed(next, row)
       [] row.state = "UNKNOWN" /\ open   -> [Marked(next, row) EXCEPT !.current.gap = TRUE]
       [] OTHER -> next

DeriveSessions(rows) ==
  LET upTo[n \in 0..Len(rows)] ==
        IF n = 0 THEN [row |-> 0, current |-> NoSession, sessions |-> <<>>]
        ELSE Derive(upTo[n - 1], rows[n])
      acc == upTo[Len(rows)]
  IN IF acc.current.start = 0 THEN acc.sessions ELSE Append(acc.sessions, acc.current)

\* build_ordered_range_query: the rows between two dates, resolve_range's or the caller's.
RangeOf(rows, first, last) == SubSeq(rows, first, last)
=============================================================================
