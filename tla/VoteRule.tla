------------------------------ MODULE VoteRule ------------------------------
(***************************************************************************)
(* The rule by which one slot turns a stream of per-frame verdicts into a  *)
(* state: vision/domain/vote_filter.py, class SlotVoteFilter.  A filter is *)
(* the record [votes, state]; votes is the deque of at most Window         *)
(* verdicts, the oldest first, and TRUE means "a vehicle was in the slot". *)
(***************************************************************************)
EXTENDS Integers, Sequences, FiniteSets

CONSTANTS
  Window,     \* vote_window: how many verdicts are kept
  Threshold   \* vote_threshold: how many of them must agree

\* The constructor of SlotVoteFilter refuses every other pair.
ASSUME VoteConfig == /\ Window \in Nat \ {0}
                     /\ Threshold \in 1..Window

SlotStates == {"UNKNOWN", "FREE", "OCCUPIED"}

Filters == [votes : Seq(BOOLEAN), state : SlotStates]

EmptyFilter == [votes |-> << >>, state |-> "UNKNOWN"]

OccupiedVotes(votes) == Cardinality({i \in 1..Len(votes) : votes[i]})

FreeVotes(votes) == Len(votes) - OccupiedVotes(votes)

\* A deque without a maxlen.
RememberAll(votes, occupied) == Append(votes, occupied)

\* deque(maxlen=Window).append
Remember(votes, occupied) ==
  IF Len(votes) < Window THEN Append(votes, occupied)
                         ELSE Append(Tail(votes), occupied)

\* A filter that asks for one agreeing vote too few.
LaxVerdict(votes, held) ==
  CASE Len(votes) < Window -> held
    [] Len(votes) >= Window /\ OccupiedVotes(votes) >= Threshold - 1 -> "OCCUPIED"
    [] Len(votes) >= Window /\ OccupiedVotes(votes) < Threshold - 1 -> "FREE"

\* What the votes say: no verdict before a full window, and neither side at the
\* threshold holds the state there was.
Verdict(votes, held) ==
  IF Len(votes) < Window THEN held
  ELSE IF OccupiedVotes(votes) >= Threshold THEN "OCCUPIED"
  ELSE IF FreeVotes(votes) >= Threshold THEN "FREE"
  ELSE held

\* SlotVoteFilter.update
Update(filter, occupied) ==
  LET votes == Remember(filter.votes, occupied)
  IN  [votes |-> votes, state |-> Verdict(votes, filter.state)]
=============================================================================
