--------------------------- MODULE VoteRuleProofs ---------------------------
(***************************************************************************)
(* What one verdict can do to the vote counts, for every Window and        *)
(* Threshold the constructor of SlotVoteFilter accepts.                    *)
(***************************************************************************)
EXTENDS VoteRule, FiniteSetTheorems, TLAPS

OccupiedIndices(votes) == {i \in 1..Len(votes) : votes[i]}

\* The vote counts are numbers between 0 and the number of votes, and they add
\* up to it: SlotVoteFilter.update's `sum` and `len - sum`.
LEMMA VoteCounts ==
  ASSUME NEW votes \in Seq(BOOLEAN)
  PROVE  /\ IsFiniteSet(OccupiedIndices(votes))
         /\ OccupiedVotes(votes) = Cardinality(OccupiedIndices(votes))
         /\ OccupiedVotes(votes) \in 0..Len(votes)
         /\ FreeVotes(votes) \in 0..Len(votes)
         /\ OccupiedVotes(votes) + FreeVotes(votes) = Len(votes)
<1>1. Len(votes) \in Nat
  OBVIOUS
<1>2. IsFiniteSet(1..Len(votes)) /\ Cardinality(1..Len(votes)) = Len(votes)
  BY <1>1, FS_Interval
<1>3. OccupiedIndices(votes) \in SUBSET (1..Len(votes))
  BY DEF OccupiedIndices
<1>4. /\ IsFiniteSet(OccupiedIndices(votes))
      /\ Cardinality(OccupiedIndices(votes)) <= Len(votes)
  BY <1>2, <1>3, FS_Subset
<1>5. Cardinality(OccupiedIndices(votes)) \in Nat
  BY <1>4, FS_CardinalityType
<1>6. OccupiedVotes(votes) = Cardinality(OccupiedIndices(votes))
  BY DEF OccupiedVotes, OccupiedIndices
<1> QED
  BY <1>1, <1>4, <1>5, <1>6 DEF FreeVotes

\* The deque stays a sequence of at most Window verdicts and, once full, full.
LEMMA RememberType ==
  ASSUME VoteConfig, NEW votes \in Seq(BOOLEAN), Len(votes) <= Window, NEW occupied \in BOOLEAN
  PROVE  /\ Remember(votes, occupied) \in Seq(BOOLEAN)
         /\ Len(Remember(votes, occupied)) <= Window
         /\ Len(votes) = Window => Len(Remember(votes, occupied)) = Window
         /\ Len(votes) < Window => Len(Remember(votes, occupied)) = Len(votes) + 1
<1>1. CASE Len(votes) < Window
  BY <1>1, VoteConfig DEF Remember, VoteConfig
<1>2. CASE Len(votes) = Window
  <2>1. Tail(votes) \in Seq(BOOLEAN) /\ Len(Tail(votes)) = Window - 1
    BY <1>2, VoteConfig DEF VoteConfig
  <2>2. Remember(votes, occupied) = Append(Tail(votes), occupied)
    BY <1>2, VoteConfig DEF Remember, VoteConfig
  <2>3. /\ Append(Tail(votes), occupied) \in Seq(BOOLEAN)
        /\ Len(Append(Tail(votes), occupied)) = Window - 1 + 1
    BY <2>1
  <2> QED
    BY <1>2, <2>2, <2>3, VoteConfig DEF VoteConfig
<1> QED
  BY <1>1, <1>2, VoteConfig DEF VoteConfig

One(vote) == IF vote THEN 1 ELSE 0

\* A full deque loses its oldest verdict to the new one.
LEMMA FullDequeShifts ==
  ASSUME VoteConfig, NEW votes \in Seq(BOOLEAN), Len(votes) = Window, NEW occupied \in BOOLEAN
  PROVE  OccupiedVotes(Remember(votes, occupied))
           = OccupiedVotes(votes) - One(votes[1]) + One(occupied)
<1> DEFINE next == Remember(votes, occupied)
           old  == OccupiedIndices(votes) \ {1}
           new  == OccupiedIndices(next) \ {Window}
           older == [i \in new |-> i + 1]
           newer == [i \in old |-> i - 1]
<1>1. next \in Seq(BOOLEAN) /\ Len(next) = Window
  BY RememberType, VoteConfig DEF VoteConfig
<1>2. \A i \in 1..(Window - 1) : next[i] = votes[i + 1]
  <2>1. votes # << >> /\ Tail(votes) \in Seq(BOOLEAN) /\ Len(Tail(votes)) = Window - 1
    BY VoteConfig DEF VoteConfig
  <2>2. \A i \in 1..(Window - 1) : Tail(votes)[i] = votes[i + 1]
    BY VoteConfig DEF VoteConfig
  <2>3. next = Append(Tail(votes), occupied)
    BY VoteConfig DEF VoteConfig, Remember
  <2> QED
    BY <2>1, <2>2, <2>3, VoteConfig DEF VoteConfig
<1>3. old = {i \in 2..Window : votes[i]}
  BY VoteConfig DEF VoteConfig, OccupiedIndices
<1>4. new = {i \in 1..(Window - 1) : votes[i + 1]}
  BY <1>1, <1>2, VoteConfig DEF VoteConfig, OccupiedIndices
<1>5. /\ IsFiniteSet(OccupiedIndices(votes))
      /\ OccupiedVotes(votes) = Cardinality(OccupiedIndices(votes))
      /\ OccupiedVotes(votes) \in Nat
  BY VoteCounts
<1>6. /\ IsFiniteSet(OccupiedIndices(next))
      /\ OccupiedVotes(next) = Cardinality(OccupiedIndices(next))
      /\ OccupiedVotes(next) \in Nat
  BY <1>1, VoteCounts
<1>7. /\ IsFiniteSet(old)
      /\ Cardinality(old) \in Nat
      /\ Cardinality(old) = OccupiedVotes(votes) - One(votes[1])
  <2>1. IsFiniteSet(old) /\ Cardinality(old) = IF 1 \in OccupiedIndices(votes)
                                               THEN Cardinality(OccupiedIndices(votes)) - 1
                                               ELSE Cardinality(OccupiedIndices(votes))
    BY <1>5, FS_RemoveElement
  <2>2. Cardinality(old) \in Nat
    BY <2>1, FS_CardinalityType
  <2>3. 1 \in OccupiedIndices(votes) <=> votes[1]
    BY VoteConfig DEF VoteConfig, OccupiedIndices
  <2> QED
    BY <1>5, <2>1, <2>2, <2>3 DEF One
<1>8. /\ IsFiniteSet(new)
      /\ Cardinality(new) \in Nat
      /\ Cardinality(new) = OccupiedVotes(next) - One(occupied)
  <2>1. IsFiniteSet(new) /\ Cardinality(new) = IF Window \in OccupiedIndices(next)
                                               THEN Cardinality(OccupiedIndices(next)) - 1
                                               ELSE Cardinality(OccupiedIndices(next))
    BY <1>6, FS_RemoveElement
  <2>2. Cardinality(new) \in Nat
    BY <2>1, FS_CardinalityType
  <2>3. next[Window] = occupied
    <3>1. Tail(votes) \in Seq(BOOLEAN) /\ Len(Tail(votes)) = Window - 1
      BY VoteConfig DEF VoteConfig
    <3>2. next = Append(Tail(votes), occupied)
      BY VoteConfig DEF VoteConfig, Remember
    <3> QED
      BY <3>1, <3>2, VoteConfig DEF VoteConfig
  <2>4. Window \in OccupiedIndices(next) <=> occupied
    BY <1>1, <2>3, VoteConfig DEF VoteConfig, OccupiedIndices
  <2> QED
    BY <1>6, <2>1, <2>2, <2>4 DEF One
<1>9. Cardinality(old) <= Cardinality(new)
  <2>1. \A i \in old : i \in 2..Window /\ i - 1 \in new
    BY <1>3, <1>4, VoteConfig DEF VoteConfig
  <2>2. newer \in Injection(old, new)
    BY <2>1, VoteConfig DEF VoteConfig, Injection, IsInjective
  <2> QED
    BY <1>8, <2>2, FS_Injection
<1>10. Cardinality(new) <= Cardinality(old)
  <2>1. \A i \in new : i \in 1..(Window - 1) /\ i + 1 \in old
    BY <1>3, <1>4, VoteConfig DEF VoteConfig
  <2>2. older \in Injection(new, old)
    BY <2>1, VoteConfig DEF VoteConfig, Injection, IsInjective
  <2> QED
    BY <1>7, <2>2, FS_Injection
<1> QED
  BY <1>5, <1>6, <1>7, <1>8, <1>9, <1>10 DEF One

\* One verdict moves the count of a full deque by at most one, either way.
LEMMA OneVoteMovesOne ==
  ASSUME VoteConfig, NEW votes \in Seq(BOOLEAN), Len(votes) = Window, NEW occupied \in BOOLEAN
  PROVE  /\ OccupiedVotes(Remember(votes, occupied)) <= OccupiedVotes(votes) + 1
         /\ OccupiedVotes(votes) <= OccupiedVotes(Remember(votes, occupied)) + 1
<1>1. OccupiedVotes(votes) \in Nat
  BY VoteCounts
<1>2. One(votes[1]) \in 0..1 /\ One(occupied) \in 0..1
  BY DEF One
<1> QED
  BY <1>1, <1>2, FullDequeShifts

\* A deque with room counts the new verdict beside the old ones.
LEMMA DequeWithRoomGrows ==
  ASSUME NEW votes \in Seq(BOOLEAN), NEW occupied \in BOOLEAN
  PROVE  OccupiedVotes(Append(votes, occupied)) = OccupiedVotes(votes) + One(occupied)
<1> DEFINE n == Len(votes)
           next == Append(votes, occupied)
<1>1. /\ n \in Nat /\ next \in Seq(BOOLEAN) /\ Len(next) = n + 1 /\ next[n + 1] = occupied
      /\ \A i \in 1..n : next[i] = votes[i]
  OBVIOUS
<1>2. /\ IsFiniteSet(OccupiedIndices(votes)) /\ n + 1 \notin OccupiedIndices(votes)
      /\ OccupiedVotes(votes) = Cardinality(OccupiedIndices(votes))
      /\ OccupiedVotes(next) = Cardinality(OccupiedIndices(next))
  <2>1. n + 1 \notin OccupiedIndices(votes)
    BY <1>1 DEF OccupiedIndices
  <2>2. next \in Seq(BOOLEAN)
    BY <1>1
  <2> HIDE DEF next
  <2> QED
    BY <2>1, <2>2, VoteCounts
<1> HIDE DEF next
<1>3. CASE occupied
  <2>1. OccupiedIndices(next) = OccupiedIndices(votes) \cup {n + 1}
    <3>1. \A i \in 1..n + 1 : i \in 1..n \/ i = n + 1
      BY <1>1
    <3>2. OccupiedIndices(next) = {i \in 1..n + 1 : next[i]}
      BY <1>1 DEF OccupiedIndices
    <3>3. OccupiedIndices(votes) = {i \in 1..n : votes[i]}
      BY DEF OccupiedIndices
    <3>4. n + 1 \in 1..n + 1 /\ \A i \in 1..n : i \in 1..n + 1
      BY <1>1
    <3> HIDE DEF n
    <3> QED
      BY <1>1, <1>3, <3>1, <3>2, <3>3, <3>4
  <2>2. Cardinality(OccupiedIndices(next)) = Cardinality(OccupiedIndices(votes)) + 1
    BY <1>2, <2>1, FS_AddElement
  <2> QED
    BY <1>2, <1>3, <2>2 DEF One, next
<1>4. CASE ~occupied
  <2>1. OccupiedIndices(next) = OccupiedIndices(votes)
    BY <1>1, <1>4 DEF OccupiedIndices
  <2>2. OccupiedVotes(votes) \in Nat
    BY VoteCounts
  <2> QED
    BY <1>2, <1>4, <2>1, <2>2 DEF One, next
<1> QED
  BY <1>3, <1>4

\* A side of the vote gains at most one, and only from a verdict for it.
VotesFor(side, votes) == IF side THEN OccupiedVotes(votes) ELSE FreeVotes(votes)

LEMMA SidesGainFromTheirVotes ==
  ASSUME VoteConfig, NEW votes \in Seq(BOOLEAN), Len(votes) <= Window,
         NEW occupied \in BOOLEAN, NEW side \in BOOLEAN
  PROVE  /\ VotesFor(side, votes) \in Nat
         /\ VotesFor(side, Remember(votes, occupied))
              <= VotesFor(side, votes) + (IF occupied <=> side THEN 1 ELSE 0)
<1> DEFINE next == Remember(votes, occupied)
<1>1. /\ Len(votes) \in Nat /\ OccupiedVotes(votes) \in Nat /\ FreeVotes(votes) \in Nat
      /\ FreeVotes(votes) = Len(votes) - OccupiedVotes(votes)
      /\ FreeVotes(next) = Len(next) - OccupiedVotes(next)
  BY VoteCounts DEF FreeVotes
<1>2. One(votes[1]) \in 0..1 /\ One(occupied) = IF occupied THEN 1 ELSE 0
  BY DEF One
<1>3. CASE Len(votes) < Window
  <2>1. next = Append(votes, occupied) /\ Len(next) = Len(votes) + 1
    BY <1>3 DEF Remember
  <2>2. OccupiedVotes(next) = OccupiedVotes(votes) + One(occupied)
    BY <2>1, DequeWithRoomGrows
  <2> QED
    BY <1>1, <1>2, <2>1, <2>2 DEF VotesFor
<1>4. CASE Len(votes) = Window
  <2>1. Len(next) = Len(votes)
    BY <1>4, RememberType
  <2>2. OccupiedVotes(next) = OccupiedVotes(votes) - One(votes[1]) + One(occupied)
    BY <1>4, FullDequeShifts
  <2> QED
    BY <1>1, <1>2, <2>1, <2>2 DEF VotesFor
<1> QED
  BY <1>1, <1>3, <1>4, VoteConfig DEF VoteConfig
=============================================================================
