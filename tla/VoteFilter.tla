----------------------------- MODULE VoteFilter -----------------------------
(***************************************************************************)
(* One slot's vote filter over its lifetime: verdicts arrive one by one    *)
(* (SlotVoteFilter.update) and the filter may be emptied (reset).  Two     *)
(* history variables, which the code does not keep, state what the filter  *)
(* is for: all the verdicts since the last reset, and how many of them had *)
(* been seen at the last change of state.                                  *)
(***************************************************************************)
EXTENDS VoteRule

CONSTANT MaxSeen  \* bound: verdicts between two resets

ASSUME MaxSeenIsNat == MaxSeen \in Nat

VARIABLES
  filter,    \* the SlotVoteFilter
  seen,      \* history: every verdict since the last reset
  flippedAt  \* history: Len(seen) when the state last changed

vars == <<filter, seen, flippedAt>>

TypeOK ==
  /\ filter \in Filters
  /\ Len(filter.votes) <= Window
  /\ seen \in Seq(BOOLEAN)
  /\ flippedAt \in Nat

Init ==
  /\ filter = EmptyFilter
  /\ seen = << >>
  /\ flippedAt = 0

Observe(occupied) ==
  /\ Len(seen) < MaxSeen
  /\ filter' = Update(filter, occupied)
  /\ seen' = Append(seen, occupied)
  /\ flippedAt' = IF filter'.state # filter.state THEN Len(seen') ELSE flippedAt

\* Votes forgotten, state kept.
ResetVotesOnly ==
  /\ filter' = [filter EXCEPT !.votes = << >>]
  /\ seen' = << >>
  /\ flippedAt' = 0

Reset ==
  /\ filter' = EmptyFilter
  /\ seen' = << >>
  /\ flippedAt' = 0

Next == Reset \/ \E occupied \in BOOLEAN : Observe(occupied)

Spec == Init /\ [][Next]_vars

-----------------------------------------------------------------------------
(* The reference: the state after a stream of verdicts is what the latest  *)
(* decisive window of that stream says, windows read straight off the      *)
(* whole stream.                                                           *)

OccupiedInWindow(i) == Cardinality({k \in i - Window + 1 .. i : seen[k]})

FreeInWindow(i) == Window - OccupiedInWindow(i)

DecisiveWindows ==
  {i \in Window..Len(seen) : \/ OccupiedInWindow(i) >= Threshold
                             \/ FreeInWindow(i) >= Threshold}

\* The filter's state is what the most recent decisive window of everything seen
\* since the reset says, UNKNOWN when there was none: the bounded deque and the
\* held state lose nothing (vote_filter.py, SlotVoteFilter.update).
StateIsLastDecisiveVerdict ==
  IF DecisiveWindows = {}
  THEN filter.state = "UNKNOWN"
  ELSE \E i \in DecisiveWindows :
         /\ \A j \in DecisiveWindows : j <= i
         /\ filter.state = IF OccupiedInWindow(i) >= Threshold THEN "OCCUPIED" ELSE "FREE"

\* Two changes of a resolved state are at least 2*Threshold - Window verdicts
\* apart: with the default 4 of 5, three frames have to disagree before what was
\* just reported is withdrawn (the module comment's "never change state on a
\* single disagreeing frame").
FlipsAreFarApart ==
  [][ (filter.state # "UNKNOWN" /\ filter'.state \notin {filter.state, "UNKNOWN"})
        => Len(seen') - flippedAt >= 2 * Threshold - Window ]_vars
=============================================================================
