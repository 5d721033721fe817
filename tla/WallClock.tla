------------------------------ MODULE WallClock ------------------------------
(***************************************************************************)
(* The clock rows are stamped with (db/clock_guard.py, db/types.py).  The  *)
(* board has no battery: after a power cut it starts at a date before      *)
(* MIN_PLAUSIBLE_DATE, which ClockSuspectMixin records in the row, until   *)
(* the network sets it right.  A stamp is its age by the clock that wrote  *)
(* it and that mark; all suspect dates precede all others.                 *)
(***************************************************************************)
EXTENDS Integers, SequencesExt, Selection

CONSTANTS
  Oldest,  \* bound: older than this is not told apart
  MaxCuts  \* bound: power cuts that lose the clock in one behaviour

ASSUME OldestIsPositive == Oldest \in Nat \ {0}

\* Two suspect starts may be at the same date: one only, so that ages tell their order.
ASSUME OneCut == MaxCuts \in {0, 1}

VARIABLES
  suspect, \* is_clock_suspect
  cuts

clockVars == <<suspect, cuts>>

Stamps == [age : 0..Oldest, suspect : BOOLEAN]

Stamp == [age |-> 0, suspect |-> suspect]  \* utc_now and the mark

\* How old a stamp looks now: a suspect one ancient, and one from before the cut of the
\* future.
Age(stamp) ==
  IF stamp.suspect = suspect THEN stamp.age
  ELSE IF stamp.suspect THEN Oldest ELSE -1

Older(stamp) == [stamp EXCEPT !.age = IF @ = Oldest THEN Oldest ELSE @ + 1]

\* Where ORDER BY date, id puts a new row.
Inserted(rows, row) ==
  LET earlier == {i \in DOMAIN rows : rows[i].suspect \/ ~row.suspect}
  IN Picked(rows, earlier) \o <<row>> \o Picked(rows, DOMAIN rows \ earlier)

ClockInit == suspect = FALSE /\ cuts = 0

LosesClock == /\ cuts < MaxCuts
              /\ suspect' = TRUE /\ cuts' = cuts + 1

IsSetRight == /\ suspect
              /\ suspect' = FALSE /\ UNCHANGED cuts
=============================================================================
