-------------------------- MODULE SlotScoringProofs -------------------------
(***************************************************************************)
(* From a frame to the state of a bay, for every Window and Threshold, and *)
(* for every model, frame and limit of rows.  One slot's filter: type      *)
(* correctness, the distance between two changes of state, and that the    *)
(* state is what the latest decisive window says.  The polygons: what the  *)
(* rejects, a scale and the direction of drawing leave as it is, and that  *)
(* ray casting is right.  The frames: of several boxes of one vehicle one  *)
(* is left, and a car is found in the bay it stands in.                    *)
(***************************************************************************)
EXTENDS SlotScoring, VoteRuleProofs, WellFoundedInduction

FramesSinceFlip == Len(seen) - flippedAt

\* A resolved state was resolved on a full window, and since then the votes for
\* the other side can have grown by at most one per verdict.
OtherSideGrowsSlowly ==
  /\ flippedAt <= Len(seen)
  /\ filter.state # "UNKNOWN" => Len(filter.votes) = Window
  /\ filter.state = "FREE" =>
       OccupiedVotes(filter.votes) <= Window - Threshold + FramesSinceFlip
  /\ filter.state = "OCCUPIED" =>
       FreeVotes(filter.votes) <= Window - Threshold + FramesSinceFlip

IInv == TypeOK /\ OtherSideGrowsSlowly

LEMMA InitEstablishes == Init => IInv
BY VoteConfig DEF VoteConfig, Init, IInv, TypeOK, OtherSideGrowsSlowly, EmptyFilter, Filters,
   SlotStates

LEMMA ResetPreserves == IInv /\ Reset => IInv'
BY VoteConfig DEF VoteConfig, Reset, IInv, TypeOK, OtherSideGrowsSlowly, EmptyFilter, Filters,
   SlotStates

\* The facts of one update that both the invariant and the distance rest on.
LEMMA ObserveFacts ==
  ASSUME IInv, NEW occupied \in BOOLEAN, Observe(occupied)
  PROVE  /\ TypeOK'
         /\ Len(seen') = Len(seen) + 1
         /\ filter'.votes = Remember(filter.votes, occupied)
         /\ filter'.state = Verdict(filter'.votes, filter.state)
         /\ OccupiedVotes(filter'.votes) \in Nat
         /\ FreeVotes(filter'.votes) = Len(filter'.votes) - OccupiedVotes(filter'.votes)
         /\ Len(filter.votes) = Window =>
              /\ Len(filter'.votes) = Window
              /\ OccupiedVotes(filter'.votes) <= OccupiedVotes(filter.votes) + 1
              /\ FreeVotes(filter'.votes) <= FreeVotes(filter.votes) + 1
<1> DEFINE votes == Remember(filter.votes, occupied)
<1>1. /\ filter.votes \in Seq(BOOLEAN) /\ Len(filter.votes) <= Window
      /\ filter.state \in SlotStates /\ seen \in Seq(BOOLEAN) /\ flippedAt \in Nat
  BY DEF IInv, TypeOK, Filters
<1>2. /\ votes \in Seq(BOOLEAN) /\ Len(votes) <= Window
      /\ Len(filter.votes) = Window => Len(votes) = Window
  BY <1>1, RememberType, VoteConfig
<1>3. filter' = [votes |-> votes, state |-> Verdict(votes, filter.state)]
  BY DEF Observe, Update
<1>4. Verdict(votes, filter.state) \in SlotStates
  BY <1>1 DEF Verdict, SlotStates
<1>5. seen' = Append(seen, occupied) /\ seen' \in Seq(BOOLEAN) /\ Len(seen') = Len(seen) + 1
  BY <1>1 DEF Observe
<1>6. flippedAt' \in Nat
  BY <1>1, <1>5 DEF Observe
<1>7. TypeOK'
  BY <1>2, <1>3, <1>4, <1>5, <1>6 DEF TypeOK, Filters
<1>8. /\ OccupiedVotes(votes) \in 0..Len(votes)
      /\ OccupiedVotes(votes) + FreeVotes(votes) = Len(votes)
      /\ FreeVotes(votes) \in 0..Len(votes)
  BY <1>2, VoteCounts
<1>9. /\ OccupiedVotes(filter.votes) \in 0..Len(filter.votes)
      /\ FreeVotes(filter.votes) \in 0..Len(filter.votes)
      /\ OccupiedVotes(filter.votes) + FreeVotes(filter.votes) = Len(filter.votes)
  BY <1>1, VoteCounts
<1>10. ASSUME Len(filter.votes) = Window
       PROVE  /\ OccupiedVotes(votes) <= OccupiedVotes(filter.votes) + 1
              /\ FreeVotes(votes) <= FreeVotes(filter.votes) + 1
  <2>1. /\ OccupiedVotes(votes) <= OccupiedVotes(filter.votes) + 1
        /\ OccupiedVotes(filter.votes) <= OccupiedVotes(votes) + 1
    BY <1>1, <1>10, OneVoteMovesOne, VoteConfig
  <2> QED
    BY <1>1, <1>2, <1>8, <1>9, <1>10, <2>1, VoteConfig DEF VoteConfig
<1> QED
  BY <1>2, <1>3, <1>5, <1>7, <1>8, <1>10

LEMMA ObservePreserves ==
  ASSUME IInv, NEW occupied \in BOOLEAN, Observe(occupied)
  PROVE  IInv'
<1>1. /\ flippedAt \in Nat /\ Len(seen) \in Nat /\ flippedAt <= Len(seen)
      /\ filter.votes \in Seq(BOOLEAN) /\ Len(filter.votes) <= Window
      /\ filter.state \in SlotStates
      /\ filter'.votes \in Seq(BOOLEAN) /\ Len(filter'.votes) <= Window
      /\ OccupiedVotes(filter.votes) \in Nat /\ FreeVotes(filter.votes) \in Int
  BY ObserveFacts, VoteCounts DEF IInv, TypeOK, Filters, OtherSideGrowsSlowly
<1>2. Len(seen') = Len(seen) + 1
  BY ObserveFacts
<1>3. flippedAt' = IF filter'.state # filter.state THEN Len(seen') ELSE flippedAt
  BY DEF Observe
<1>4. CASE filter'.state = filter.state
  <2>1. TypeOK' /\ flippedAt' = flippedAt
    BY <1>3, <1>4, ObserveFacts
  <2>2. filter.state # "UNKNOWN" =>
          /\ Len(filter'.votes) = Window
          /\ OccupiedVotes(filter'.votes) <= OccupiedVotes(filter.votes) + 1
          /\ FreeVotes(filter'.votes) <= FreeVotes(filter.votes) + 1
    BY ObserveFacts DEF IInv, OtherSideGrowsSlowly
  <2>3. OccupiedVotes(filter'.votes) \in Int /\ FreeVotes(filter'.votes) \in Int
    BY <1>1, ObserveFacts
  <2>4. OtherSideGrowsSlowly'
    <3>1. flippedAt' <= Len(seen')
      BY <1>1, <1>2, <2>1
    <3>2. CASE filter.state = "FREE"
      BY <1>1, <1>2, <1>4, <2>1, <2>2, <2>3, <3>1, <3>2, VoteConfig
      DEF VoteConfig, IInv, OtherSideGrowsSlowly, FramesSinceFlip
    <3>3. CASE filter.state = "OCCUPIED"
      BY <1>1, <1>2, <1>4, <2>1, <2>2, <2>3, <3>1, <3>3, VoteConfig
      DEF VoteConfig, IInv, OtherSideGrowsSlowly, FramesSinceFlip
    <3>4. CASE filter.state = "UNKNOWN"
      BY <1>4, <3>1, <3>4 DEF OtherSideGrowsSlowly
    <3> QED
      BY <1>1, <3>2, <3>3, <3>4 DEF SlotStates
  <2> QED
    BY <2>1, <2>4 DEF IInv
<1>5. CASE filter'.state # filter.state
  <2>1. /\ Len(filter'.votes) = Window
        /\ filter'.state = "FREE" => FreeVotes(filter'.votes) >= Threshold
        /\ filter'.state = "OCCUPIED" => OccupiedVotes(filter'.votes) >= Threshold
    BY <1>1, <1>5, ObserveFacts, VoteConfig DEF VoteConfig, Verdict
  <2>2. FramesSinceFlip' = 0
    BY <1>1, <1>2, <1>3, <1>5 DEF FramesSinceFlip
  <2>3. OtherSideGrowsSlowly'
    BY <1>1, <1>2, <1>3, <1>5, <2>1, <2>2, ObserveFacts, VoteConfig
    DEF VoteConfig, OtherSideGrowsSlowly
  <2> QED
    BY <2>3, ObserveFacts DEF IInv
<1> QED
  BY <1>4, <1>5

\* The inductive invariant holds in every reachable state.
LEMMA Invariance == Spec => []IInv
<1>1. Init => IInv
  BY InitEstablishes
<1>2. IInv /\ [Next]_vars => IInv'
  <2> SUFFICES ASSUME IInv, [Next]_vars PROVE IInv'
    OBVIOUS
  <2>1. CASE Reset
    BY <2>1, ResetPreserves
  <2>2. CASE \E occupied \in BOOLEAN : Observe(occupied)
    BY <2>2, ObservePreserves
  <2>3. CASE UNCHANGED vars
    BY <2>3 DEF vars, IInv, TypeOK, OtherSideGrowsSlowly, FramesSinceFlip
  <2> QED
    BY <2>1, <2>2, <2>3 DEF Next
<1> QED
  BY <1>1, <1>2, PTL DEF Spec

\* Type correctness for every Window, Threshold and MaxSeen: in particular the
\* deque never holds more than Window verdicts.
THEOREM TypeCorrect == Spec => []TypeOK
<1>1. IInv => TypeOK
  BY DEF IInv
<1> QED
  BY <1>1, Invariance, PTL

\* Two changes of a resolved state are at least 2*Threshold - Window verdicts
\* apart, whatever the verdicts (SlotVoteFilter.update): the damping the module
\* promises holds for every accepted pair, and is none at all when Threshold is at
\* most half of Window.
THEOREM FlipDistance == Spec => FlipsAreFarApart
<1> DEFINE Flip == filter.state # "UNKNOWN" /\ filter'.state \notin {filter.state, "UNKNOWN"}
           Far  == Len(seen') - flippedAt >= 2 * Threshold - Window
<1>1. IInv /\ [Next]_vars => [Flip => Far]_vars
  <2> SUFFICES ASSUME IInv, Next, Flip PROVE Far
    OBVIOUS
  <2>1. CASE Reset
    BY <2>1 DEF Reset, EmptyFilter
  <2>2. ASSUME NEW occupied \in BOOLEAN, Observe(occupied) PROVE Far
    <3>1. /\ Len(filter.votes) = Window
          /\ filter.state = "FREE" =>
               OccupiedVotes(filter.votes) <= Window - Threshold + FramesSinceFlip
          /\ filter.state = "OCCUPIED" =>
               FreeVotes(filter.votes) <= Window - Threshold + FramesSinceFlip
          /\ filter.state \in {"FREE", "OCCUPIED"}
          /\ Len(seen) \in Nat /\ flippedAt \in Nat
          /\ OccupiedVotes(filter.votes) \in Nat /\ FreeVotes(filter.votes) \in Nat
      BY VoteCounts DEF IInv, OtherSideGrowsSlowly, TypeOK, Filters, SlotStates
    <3>2. /\ filter'.state = "FREE" => FreeVotes(filter'.votes) >= Threshold
          /\ filter'.state = "OCCUPIED" => OccupiedVotes(filter'.votes) >= Threshold
          /\ filter'.state \in {"FREE", "OCCUPIED"}
      BY <2>2, <3>1, ObserveFacts DEF Verdict
    <3>3. /\ OccupiedVotes(filter'.votes) <= OccupiedVotes(filter.votes) + 1
          /\ FreeVotes(filter'.votes) <= FreeVotes(filter.votes) + 1
          /\ OccupiedVotes(filter'.votes) \in Nat
          /\ FreeVotes(filter'.votes) = Len(filter'.votes) - OccupiedVotes(filter'.votes)
          /\ Len(filter'.votes) = Window
          /\ Len(seen') = Len(seen) + 1
      BY <2>2, <3>1, ObserveFacts
    <3> QED
      BY <3>1, <3>2, <3>3, VoteConfig DEF VoteConfig, FramesSinceFlip
  <2> QED
    BY <2>1, <2>2 DEF Next
<1> QED
  BY <1>1, Invariance, PTL DEF Spec, FlipsAreFarApart

-----------------------------------------------------------------------------
(* What the filter remembers is enough: its state is the last verdict of   *)
(* the whole stream.                                                       *)

\* The deque is the end of the stream.
VotesAreTheLatest ==
  /\ Len(filter.votes) = IF Len(seen) < Window THEN Len(seen) ELSE Window
  /\ \A k \in 1..Len(filter.votes) : filter.votes[k] = seen[Len(seen) - Len(filter.votes) + k]

StreamInv == IInv /\ VotesAreTheLatest /\ StateIsLastDecisiveVerdict

\* Where the votes of a deque are after one more.
LEMMA RememberIs ==
  ASSUME VoteConfig, NEW votes \in Seq(BOOLEAN), Len(votes) <= Window, NEW occupied \in BOOLEAN
  PROVE  LET next == Remember(votes, occupied)
             gone == IF Len(votes) < Window THEN 0 ELSE 1
         IN /\ Len(next) = Len(votes) + 1 - gone
            /\ next[Len(next)] = occupied
            /\ \A k \in 1..Len(next) - 1 : next[k] = votes[k + gone]
<1> DEFINE next == Remember(votes, occupied)
<1>1. CASE Len(votes) < Window
  <2>1. next = Append(votes, occupied)
    BY <1>1 DEF Remember
  <2>2. Len(next) = Len(votes) + 1 /\ next[Len(votes) + 1] = occupied
        /\ \A k \in 1..Len(votes) : next[k] = votes[k]
    BY <2>1
  <2> QED
    BY <1>1, <2>2
<1>2. CASE Len(votes) = Window
  <2>1. /\ Tail(votes) \in Seq(BOOLEAN) /\ Len(Tail(votes)) = Window - 1
        /\ \A k \in 1..Window - 1 : Tail(votes)[k] = votes[k + 1]
    BY <1>2, VoteConfig DEF VoteConfig
  <2>2. next = Append(Tail(votes), occupied)
    BY <1>2, VoteConfig DEF VoteConfig, Remember
  <2>3. /\ Len(next) = Window /\ next[Window] = occupied
        /\ \A k \in 1..Window - 1 : next[k] = votes[k + 1]
    BY <2>1, <2>2, VoteConfig DEF VoteConfig
  <2> QED
    BY <1>2, <2>3, VoteConfig DEF VoteConfig
<1> QED
  BY <1>1, <1>2, VoteConfig DEF VoteConfig

LEMMA ObserveKeepsTheLatest ==
  ASSUME IInv, VotesAreTheLatest, NEW occupied \in BOOLEAN, Observe(occupied)
  PROVE  VotesAreTheLatest'
<1> DEFINE votes == filter.votes
           next  == Remember(votes, occupied)
           gone  == IF Len(votes) < Window THEN 0 ELSE 1
<1>1. /\ votes \in Seq(BOOLEAN) /\ Len(votes) \in Nat /\ Len(votes) <= Window
      /\ seen \in Seq(BOOLEAN) /\ Len(seen) \in Nat
  BY DEF IInv, TypeOK, Filters
<1> DEFINE n == Len(votes)
           m == Len(seen)
<1>2. /\ seen' = Append(seen, occupied) /\ Len(seen') = m + 1
      /\ seen'[m + 1] = occupied
      /\ \A k \in 1..m : seen'[k] = seen[k]
  BY <1>1 DEF Observe
<1>3. filter'.votes = next
  BY ObserveFacts
<1>4. /\ Len(next) = n + 1 - gone /\ next[Len(next)] = occupied
      /\ \A k \in 1..Len(next) - 1 : next[k] = votes[k + gone]
  BY <1>1, RememberIs, VoteConfig
<1>5. /\ n = IF m < Window THEN m ELSE Window
      /\ \A k \in 1..n : votes[k] = seen[m - n + k]
      /\ gone = IF n < Window THEN 0 ELSE 1
      /\ n \in Nat /\ m \in Nat
  BY <1>1 DEF VotesAreTheLatest
<1> HIDE DEF next, n, m, gone
<1>6. Len(next) = IF m + 1 < Window THEN m + 1 ELSE Window
  BY <1>4, <1>5, VoteConfig DEF VoteConfig
<1>7. ASSUME NEW k \in 1..Len(next) - 1
      PROVE  next[k] = seen'[m + 1 - Len(next) + k]
  <2>1. k + gone \in 1..n /\ m - n + (k + gone) \in 1..m
        /\ m - n + (k + gone) = m + 1 - Len(next) + k
    BY <1>4, <1>5, VoteConfig DEF VoteConfig
  <2>2. next[k] = votes[k + gone] /\ votes[k + gone] = seen[m - n + (k + gone)]
    BY <1>4, <1>5, <2>1
  <2>3. seen[m - n + (k + gone)] = seen'[m - n + (k + gone)]
    BY <1>2, <2>1
  <2> QED
    BY <2>1, <2>2, <2>3
<1>8. next[Len(next)] = seen'[m + 1 - Len(next) + Len(next)] /\ Len(next) \in Nat
  <2>1. Len(next) \in Nat /\ m + 1 - Len(next) + Len(next) = m + 1
    BY <1>5, <1>6, VoteConfig DEF VoteConfig
  <2>2. next[Len(next)] = occupied
    BY <1>4
  <2>3. seen'[m + 1] = occupied
    BY <1>2
  <2> QED
    BY <2>1, <2>2, <2>3
<1>9. \A k \in 1..Len(next) : next[k] = seen'[m + 1 - Len(next) + k]
  BY <1>7, <1>8
<1> QED
  <2>1. Len(filter'.votes) = IF Len(seen') < Window THEN Len(seen') ELSE Window
    BY <1>2, <1>3, <1>6
  <2>2. \A k \in 1..Len(filter'.votes) :
          filter'.votes[k] = seen'[Len(seen') - Len(filter'.votes) + k]
    <3> SUFFICES ASSUME NEW k \in 1..Len(next)
                 PROVE  next[k] = seen'[Len(seen') - Len(next) + k]
      BY <1>3
    <3>1. Len(seen') - Len(next) + k = m + 1 - Len(next) + k
      BY <1>2, <1>5, <1>6, VoteConfig DEF VoteConfig
    <3> QED
      BY <1>9, <3>1
  <2> QED
    BY <2>1, <2>2 DEF VotesAreTheLatest

\* One more verdict changes no window that was full before it.
LEMMA OldWindowsStay ==
  ASSUME IInv, NEW occupied \in BOOLEAN, Observe(occupied), NEW i \in Window..Len(seen)
  PROVE  OccupiedInWindow(i)' = OccupiedInWindow(i)
<1>1. seen \in Seq(BOOLEAN) /\ seen' = Append(seen, occupied)
  BY DEF IInv, TypeOK, Observe
<1>2. \A k \in i - Window + 1 .. i : k \in 1..Len(seen) /\ seen'[k] = seen[k]
  BY <1>1, VoteConfig DEF VoteConfig
<1>3. {k \in i - Window + 1 .. i : seen'[k]} = {k \in i - Window + 1 .. i : seen[k]}
  BY <1>2
<1> QED
  BY <1>3 DEF OccupiedInWindow

\* A deque that holds the window which ends at m counts as that window does.
LEMMA DequeCountsItsWindow ==
  ASSUME NEW votes \in Seq(BOOLEAN), Len(votes) = Window,
         NEW stream \in Seq(BOOLEAN), NEW m \in Nat,
         \A k \in 1..Window : votes[k] = stream[m - Window + k]
  PROVE  OccupiedVotes(votes) = Cardinality({k \in m - Window + 1 .. m : stream[k]})
<1> DEFINE inDeque == OccupiedIndices(votes)
           inStream == {k \in m - Window + 1 .. m : stream[k]}
           back == [k \in inDeque |-> m - Window + k]
           forth == [k \in inStream |-> k - (m - Window)]
<1>1. IsFiniteSet(inDeque) /\ OccupiedVotes(votes) = Cardinality(inDeque)
  BY VoteCounts
<1>2. \A k \in inDeque : k \in 1..Window /\ m - Window + k \in inStream
  BY VoteConfig DEF VoteConfig, OccupiedIndices
<1>3. ASSUME NEW k \in inStream
      PROVE  k \in Int /\ k - (m - Window) \in inDeque
  <2>1. k \in Int /\ k - (m - Window) \in 1..Window /\ stream[k]
        /\ m - Window + (k - (m - Window)) = k
    BY VoteConfig DEF VoteConfig
  <2>2. votes[k - (m - Window)] = stream[m - Window + (k - (m - Window))]
    BY <2>1
  <2> QED
    BY <2>1, <2>2 DEF OccupiedIndices
<1>4. IsFiniteSet(inStream)
  <2>1. IsFiniteSet(m - Window + 1 .. m)
    BY FS_Interval, VoteConfig DEF VoteConfig
  <2> QED
    BY <2>1, FS_Subset
<1>5. Cardinality(inDeque) \in Nat /\ Cardinality(inStream) \in Nat
  BY <1>1, <1>4, FS_CardinalityType
<1>6. Cardinality(inDeque) <= Cardinality(inStream)
  <2>1. back \in Injection(inDeque, inStream)
    BY <1>2, VoteConfig DEF VoteConfig, Injection, IsInjective
  <2> QED
    BY <1>4, <2>1, FS_Injection
<1>7. Cardinality(inStream) <= Cardinality(inDeque)
  <2> HIDE DEF inDeque, inStream
  <2>1. forth \in Injection(inStream, inDeque)
    BY <1>3, VoteConfig DEF VoteConfig, Injection, IsInjective
  <2> QED
    BY <1>1, <2>1, FS_Injection
<1> QED
  BY <1>1, <1>5, <1>6, <1>7

LEMMA ObserveKeepsTheVerdict ==
  ASSUME StreamInv, NEW occupied \in BOOLEAN, Observe(occupied)
  PROVE  StateIsLastDecisiveVerdict'
<1> PICK m \in Nat : m = Len(seen)
  BY DEF StreamInv, IInv, TypeOK
<1> DEFINE Decisive(i) == OccupiedInWindow(i) >= Threshold \/ FreeInWindow(i) >= Threshold
           Winner(i) == IF OccupiedInWindow(i) >= Threshold THEN "OCCUPIED" ELSE "FREE"
<1>1. /\ TypeOK /\ TypeOK' /\ Len(seen') = m + 1
      /\ filter'.state = Verdict(filter'.votes, filter.state)
      /\ Len(filter'.votes) = IF m + 1 < Window THEN m + 1 ELSE Window
      /\ \A k \in 1..Len(filter'.votes) :
           filter'.votes[k] = seen'[m + 1 - Len(filter'.votes) + k]
  <2>1. VotesAreTheLatest'
    BY ObserveKeepsTheLatest DEF StreamInv
  <2>2. TypeOK /\ TypeOK' /\ Len(seen') = m + 1
        /\ filter'.state = Verdict(filter'.votes, filter.state)
    BY ObserveFacts DEF StreamInv, IInv
  <2>3. /\ Len(filter'.votes) = IF Len(seen') < Window THEN Len(seen') ELSE Window
        /\ \A k \in 1..Len(filter'.votes) :
             filter'.votes[k] = seen'[Len(seen') - Len(filter'.votes) + k]
    BY <2>1 DEF VotesAreTheLatest
  <2> QED
    BY <2>2, <2>3, SMTT(60)
<1>2. \A i \in Window..m : OccupiedInWindow(i)' = OccupiedInWindow(i)
                          /\ FreeInWindow(i)' = FreeInWindow(i)
  BY OldWindowsStay DEF StreamInv, FreeInWindow
<1>3. ASSUME m + 1 >= Window
      PROVE  /\ Len(filter'.votes) = Window
             /\ OccupiedVotes(filter'.votes) = OccupiedInWindow(m + 1)'
             /\ FreeVotes(filter'.votes) = FreeInWindow(m + 1)'
  <2> DEFINE votes == filter'.votes
  <2> PICK top \in Nat : top = m + 1
    OBVIOUS
  <2>1. Len(votes) = Window /\ votes \in Seq(BOOLEAN)
    BY <1>1, <1>3, VoteConfig DEF VoteConfig, TypeOK, Filters
  <2>2. \A k \in 1..Window : votes[k] = seen'[top - Window + k]
    BY <1>1, <2>1, SMTT(30)
  <2> DEFINE stream == seen'
  <2> HIDE DEF votes, stream
  <2>3. /\ \A k \in 1..Window : votes[k] = stream[top - Window + k]
        /\ stream \in Seq(BOOLEAN) /\ top \in Nat
    BY <1>1, <2>2 DEF stream, TypeOK
  <2>4. OccupiedVotes(votes) = Cardinality({k \in top - Window + 1 .. top : stream[k]})
    BY <2>1, <2>3, DequeCountsItsWindow, Zenon
  <2>5. OccupiedVotes(votes) = OccupiedInWindow(top)'
    BY <2>4 DEF OccupiedInWindow, stream
  <2>6. FreeVotes(votes) = FreeInWindow(top)'
    BY <2>1, <2>5 DEF FreeVotes, FreeInWindow
  <2> QED
    BY <2>1, <2>5, <2>6 DEF votes
<1>4. DecisiveWindows' = {i \in Window..m + 1 : Decisive(i)'}
  BY <1>1 DEF DecisiveWindows
<1>5. DecisiveWindows = {i \in Window..m : Decisive(i)}
  BY DEF DecisiveWindows
<1>6. CASE m + 1 >= Window /\ Decisive(m + 1)'
  <2>1. filter'.state = Winner(m + 1)'
    BY <1>1, <1>3, <1>6 DEF Verdict
  <2>2. m + 1 \in DecisiveWindows' /\ \A j \in DecisiveWindows' : j <= m + 1
    BY <1>1, <1>4, <1>6, VoteConfig DEF VoteConfig
  <2> QED
    BY <2>1, <2>2 DEF StateIsLastDecisiveVerdict
<1>7. CASE ~(m + 1 >= Window /\ Decisive(m + 1)')
  <2>1. filter'.state = filter.state
    <3>1. Len(filter'.votes) = IF m + 1 < Window THEN m + 1 ELSE Window
      BY <1>1 DEF VotesAreTheLatest
    <3>2. CASE m + 1 < Window
      BY <1>1, <3>1, <3>2, VoteConfig DEF VoteConfig, Verdict
    <3>3. CASE m + 1 >= Window
      BY <1>1, <1>3, <1>7, <3>3 DEF Verdict
    <3> QED
      BY <1>1, <3>2, <3>3, VoteConfig DEF VoteConfig
  <2>2. \A i \in Window..m : (Decisive(i)' <=> Decisive(i)) /\ Winner(i)' = Winner(i)
    BY <1>2
  <2>3. DecisiveWindows' = DecisiveWindows
    BY <1>1, <1>4, <1>5, <1>7, <2>2, VoteConfig DEF VoteConfig
  <2>4. CASE DecisiveWindows = {}
    BY <2>1, <2>3, <2>4 DEF StreamInv, StateIsLastDecisiveVerdict
  <2>5. CASE DecisiveWindows # {}
    <3>1. PICK i \in DecisiveWindows :
            (\A j \in DecisiveWindows : j <= i) /\ filter.state = Winner(i)
      BY <2>5 DEF StreamInv, StateIsLastDecisiveVerdict
    <3>2. filter'.state = Winner(i)'
      BY <1>5, <2>1, <2>2, <3>1
    <3> QED
      BY <2>3, <2>5, <3>1, <3>2 DEF StateIsLastDecisiveVerdict
  <2> QED
    BY <2>4, <2>5
<1> QED
  BY <1>6, <1>7

\* SlotVoteFilter.update: the state is what the latest decisive window of all the verdicts
\* since the reset says.  The bounded deque and the state it holds between lose nothing,
\* for every pair of window and threshold the constructor accepts.
THEOREM NothingIsLost == Spec => []StateIsLastDecisiveVerdict
<1>1. Init => StreamInv
  <2>1. ASSUME Init PROVE VotesAreTheLatest /\ StateIsLastDecisiveVerdict
    <3>1. Len(seen) = 0 /\ Len(filter.votes) = 0 /\ filter.state = "UNKNOWN"
      BY <2>1 DEF Init, EmptyFilter
    <3>2. DecisiveWindows = {}
      BY <3>1, VoteConfig DEF VoteConfig, DecisiveWindows
    <3> QED
      BY <3>1, <3>2, VoteConfig
      DEF VoteConfig, VotesAreTheLatest, StateIsLastDecisiveVerdict
  <2> QED
    BY <2>1, InitEstablishes DEF StreamInv
<1>2. StreamInv /\ [Next]_vars => StreamInv'
  <2> SUFFICES ASSUME StreamInv, [Next]_vars PROVE StreamInv'
    OBVIOUS
  <2>1. CASE Reset
    <3>1. Len(seen') = 0 /\ Len(filter'.votes) = 0 /\ filter'.state = "UNKNOWN"
      BY <2>1 DEF Reset, EmptyFilter
    <3>2. DecisiveWindows' = {}
      BY <3>1, VoteConfig DEF VoteConfig, DecisiveWindows
    <3>3. VotesAreTheLatest' /\ StateIsLastDecisiveVerdict'
      BY <3>1, <3>2, VoteConfig
      DEF VoteConfig, VotesAreTheLatest, StateIsLastDecisiveVerdict
    <3> QED
      BY <2>1, <3>3, ResetPreserves DEF StreamInv
  <2>2. ASSUME NEW occupied \in BOOLEAN, Observe(occupied) PROVE StreamInv'
    BY <2>2, ObservePreserves, ObserveKeepsTheLatest, ObserveKeepsTheVerdict DEF StreamInv
  <2>3. CASE UNCHANGED vars
    BY <2>3 DEF vars, StreamInv, IInv, TypeOK, OtherSideGrowsSlowly, FramesSinceFlip,
      VotesAreTheLatest, StateIsLastDecisiveVerdict, DecisiveWindows, OccupiedInWindow,
      FreeInWindow
  <2> QED
    BY <2>1, <2>2, <2>3 DEF Next
<1>3. StreamInv => StateIsLastDecisiveVerdict
  BY DEF StreamInv
<1> QED
  BY <1>1, <1>2, <1>3, PTL DEF Spec

-----------------------------------------------------------------------------
(* Numbers, and choices among finitely many *)

\* A set of numbers that is not empty has a least one.
LEMMA LeastExists ==
  ASSUME NEW A, A \subseteq Nat, A # {}
  PROVE  \E x \in A : \A y \in A : x <= y
<1> DEFINE R == {ss \in Nat \X Nat : ss[1] < ss[2]}
<1>0. IsWellFoundedOn(R, Nat)
  BY NatLessThanWellFounded DEF OpToRel
<1>1. PICK x \in A : \A y \in A : ~(<<y, x>> \in R)
  <2> HIDE DEF R
  <2> QED BY <1>0, WFMin
<1>2. ASSUME NEW y \in A PROVE x <= y
  <2>1. CASE y < x
    <3>1. <<y, x>> \in Nat \X Nat
      OBVIOUS
    <3>2. <<y, x>>[1] < <<y, x>>[2]
      BY <2>1
    <3>3. <<y, x>> \in R
      BY <3>1, <3>2
    <3> QED BY <1>1, <3>3
  <2> QED BY <2>1
<1> QED BY <1>2

\* Induction, of a set: what has 0 and with every number the next has them all.
LEMMA NatSteps ==
  ASSUME NEW T, 0 \in T, \A n \in Nat : n \in T => n + 1 \in T
  PROVE  Nat \subseteq T
<1> SUFFICES ASSUME Nat \ T # {} PROVE FALSE
  OBVIOUS
<1>1. PICK x \in Nat \ T : \A y \in Nat \ T : x <= y
  BY LeastExists
<1>2. x # 0 /\ x - 1 \in Nat
  BY <1>1
<1>3. x - 1 \in T
  BY <1>1, <1>2
<1> QED
  BY <1>1, <1>2, <1>3

\* One of finitely many has the greatest value.
LEMMA GreatestOfFinite ==
  ASSUME NEW S, IsFiniteSet(S), S # {}, NEW f \in [S -> Int]
  PROVE  \E x \in S : \A y \in S : f[y] <= f[x]
<1>1. PICK q \in Seq(S) : \A x \in S : \E n \in 1..Len(q) : q[n] = x
  BY DEF IsFiniteSet
<1>2. Len(q) \in Nat /\ \A n \in 1..Len(q) : q[n] \in S /\ f[q[n]] \in Int
  <2>1. Len(q) \in Nat /\ DOMAIN q = 1..Len(q) /\ \A n \in DOMAIN q : q[n] \in S
    OBVIOUS
  <2>2. \A x \in S : f[x] \in Int
    OBVIOUS
  <2> QED
    BY <2>1, <2>2
<1> DEFINE IsTop(m, n) == m \in 1..n /\ \A k \in 1..n : f[q[k]] <= f[q[m]]
           T == {n \in Nat : n + 1 <= Len(q) => \E m \in 1..(n + 1) : IsTop(m, n + 1)}
<1>3. 0 \in T
  <2> SUFFICES ASSUME 1 <= Len(q) PROVE \E m \in 1..(0 + 1) : IsTop(m, 0 + 1)
    OBVIOUS
  <2>1. 1 \in 1..Len(q) /\ \A k \in 1..(0 + 1) : k = 1
    BY <1>2
  <2>2. IsTop(1, 0 + 1)
    BY <1>2, <2>1
  <2> QED
    BY <2>1, <2>2
<1>4. ASSUME NEW n \in T
      PROVE  n + 1 \in T
  <2> SUFFICES ASSUME (n + 1) + 1 <= Len(q) PROVE \E m \in 1..((n + 1) + 1) : IsTop(m, (n + 1) + 1)
    OBVIOUS
  <2> DEFINE l == (n + 1) + 1
  <2>1. n \in Nat /\ n + 1 <= Len(q) /\ l \in 1..l /\ l \in 1..Len(q)
        /\ \A k \in 1..l : k \in 1..(n + 1) \/ k = l
    BY <1>2
  <2>2. PICK m \in 1..(n + 1) : IsTop(m, n + 1)
    BY <2>1
  <2>3. m \in 1..l /\ m \in 1..Len(q) /\ \A k \in 1..(n + 1) : k \in 1..Len(q)
    BY <1>2, <2>1
  <2>4. CASE f[q[l]] <= f[q[m]]
    <3>1. IsTop(m, l)
      BY <2>1, <2>2, <2>3, <2>4
    <3> QED
      BY <2>3, <3>1
  <2>5. CASE ~(f[q[l]] <= f[q[m]])
    <3>1. f[q[m]] <= f[q[l]] /\ f[q[l]] \in Int
      BY <1>2, <2>1, <2>3, <2>5
    <3>2. \A k \in 1..(n + 1) : f[q[k]] <= f[q[l]]
      <4> SUFFICES ASSUME NEW k \in 1..(n + 1) PROVE f[q[k]] <= f[q[l]]
        OBVIOUS
      <4>1. f[q[k]] <= f[q[m]] /\ f[q[k]] \in Int /\ f[q[m]] \in Int
        BY <1>2, <2>2, <2>3
      <4> QED
        BY <3>1, <4>1
    <3>3. IsTop(l, l)
      BY <2>1, <3>1, <3>2
    <3> QED
      BY <2>1, <3>3
  <2> QED
    BY <2>4, <2>5
<1>5. Nat \subseteq T
  <2> HIDE DEF T
  <2>1. \A n \in Nat : n \in T => n + 1 \in T
    BY <1>4
  <2> QED
    BY <1>3, <2>1, NatSteps
<1>6. Len(q) >= 1
  <2>1. PICK x \in S : TRUE
    OBVIOUS
  <2> QED
    BY <1>1, <1>2, <2>1
<1>7. PICK m \in 1..Len(q) : \A k \in 1..Len(q) : f[q[k]] <= f[q[m]]
  <2>1. Len(q) - 1 \in Nat /\ (Len(q) - 1) + 1 = Len(q)
    BY <1>2, <1>6
  <2>2. Len(q) - 1 \in T
    BY <1>5, <2>1
  <2>3. \E m \in 1..Len(q) : IsTop(m, Len(q))
    BY <2>1, <2>2
  <2> QED
    BY <2>3
<1> QED
  BY <1>1, <1>2, <1>7

\* The greedy choice: who is left out clashes with one chosen before.
LEMMA GreedyIs ==
  ASSUME NEW count \in Nat, NEW clashes
  PROVE  /\ Greedy(count, clashes) \subseteq 1..count
         /\ \A n \in 1..count :
              n \in Greedy(count, clashes)
                <=> \A k \in Greedy(count, clashes) : k < n => <<n, k>> \notin clashes
<1> DEFINE Agrees(G, m) ==
             /\ G \subseteq 1..m
             /\ \A n \in 1..m : n \in G <=> \A k \in G : k < n => <<n, k>> \notin clashes
           T == {m \in Nat : \E G \in SUBSET (1..m) : Agrees(G, m)}
<1>1. 0 \in T
  <2>1. {} \in SUBSET (1..0) /\ Agrees({}, 0)
    OBVIOUS
  <2> QED
    BY <2>1
<1>2. ASSUME NEW m \in T
      PROVE  m + 1 \in T
  <2>1. PICK G \in SUBSET (1..m) : Agrees(G, m)
    OBVIOUS
  <2> DEFINE last == m + 1
             H == IF \A k \in G : <<last, k>> \notin clashes THEN G \cup {last} ELSE G
  <2>2. /\ m \in Nat /\ H \subseteq 1..last /\ \A k \in G : k \in 1..m /\ k < last
        /\ \A n \in 1..last : n \in 1..m \/ n = last
    OBVIOUS
  <2>3. \A n \in 1..m : n \in H <=> n \in G
    OBVIOUS
  <2>4. ASSUME NEW n \in 1..m
        PROVE  (\A k \in G : k < n => <<n, k>> \notin clashes)
                 <=> (\A k \in H : k < n => <<n, k>> \notin clashes)
    BY <2>2
  <2>5. last \in H <=> \A k \in H : k < last => <<last, k>> \notin clashes
    BY <2>2
  <2>6. Agrees(H, last)
    <3> HIDE DEF H
    <3> QED
      BY <2>1, <2>2, <2>3, <2>4, <2>5
  <2> HIDE DEF H
  <2> QED
    BY <2>2, <2>6
<1>3. Nat \subseteq T
  <2> HIDE DEF T
  <2>1. \A m \in Nat : m \in T => m + 1 \in T
    BY <1>2
  <2> QED
    BY <1>1, <2>1, NatSteps
<1>4. PICK G \in SUBSET (1..count) : Agrees(G, count)
  BY <1>3
<1> DEFINE IsRun(f) ==
             f = [n \in 0..count |->
                    IF n = 0 THEN {}
                    ELSE IF \E k \in f[n - 1] : <<n, k>> \in clashes
                         THEN f[n - 1] ELSE f[n - 1] \cup {n}]
           r == CHOOSE f : IsRun(f)
           g == [n \in 0..count |-> G \cap (1..n)]
<1>5. Greedy(count, clashes) = r[count]
  BY DEF Greedy
<1>6. ASSUME NEW n \in 1..count
      PROVE  g[n] = IF \E k \in g[n - 1] : <<n, k>> \in clashes
                    THEN g[n - 1] ELSE g[n - 1] \cup {n}
  <2>1. g[n] = G \cap (1..n) /\ g[n - 1] = G \cap (1..(n - 1))
    OBVIOUS
  <2> HIDE DEF g
  <2>2. \A k \in G : k < n <=> k \in g[n - 1]
    BY <1>4, <2>1
  <2>3. n \in G <=> \A k \in g[n - 1] : <<n, k>> \notin clashes
    BY <1>4, <2>1, <2>2
  <2>4. G \cap (1..n) = IF n \in G THEN g[n - 1] \cup {n} ELSE g[n - 1]
    BY <2>1
  <2> QED
    BY <2>1, <2>3, <2>4
<1>7. g[0] = {} /\ g[count] = G /\ g \in [0..count -> SUBSET (1..count)]
  <2>0. G \subseteq 1..count /\ 1..0 = {} /\ 0 \in 0..count /\ count \in 0..count
    BY <1>4
  <2>1. G \cap (1..0) = {} /\ G \cap (1..count) = G
    BY <2>0
  <2>2. \A n \in 0..count : G \cap (1..n) \in SUBSET (1..count)
    BY <1>4
  <2> QED
    BY <2>0, <2>1, <2>2
<1> HIDE DEF g
<1>8. IsRun(g)
  <2>1. \A n \in 0..count : g[n] = IF n = 0 THEN {}
                                   ELSE IF \E k \in g[n - 1] : <<n, k>> \in clashes
                                        THEN g[n - 1] ELSE g[n - 1] \cup {n}
    <3>1. \A n \in 0..count : n = 0 \/ n \in 1..count
      OBVIOUS
    <3> QED
      BY <1>6, <1>7, <3>1
  <2> QED
    BY <1>7, <2>1
<1>9. IsRun(r)
  <2> HIDE DEF IsRun
  <2> QED
    BY <1>8
<1> HIDE DEF r
<1>10. r[0] = {} /\ \A n \in 1..count :
         r[n] = IF \E k \in r[n - 1] : <<n, k>> \in clashes
                THEN r[n - 1] ELSE r[n - 1] \cup {n}
  <2> DEFINE next(n) == IF n = 0 THEN {}
                        ELSE IF \E k \in r[n - 1] : <<n, k>> \in clashes
                             THEN r[n - 1] ELSE r[n - 1] \cup {n}
  <2>1. r = [n \in 0..count |-> next(n)]
    BY <1>9
  <2> HIDE DEF next
  <2>2. \A n \in 0..count : r[n] = next(n)
    BY <2>1
  <2>3. 0 \in 0..count /\ \A n \in 1..count : n \in 0..count /\ n # 0
    OBVIOUS
  <2>4. r[0] = next(0) /\ \A n \in 1..count : r[n] = next(n)
    BY <2>2, <2>3
  <2> QED
    BY <2>3, <2>4 DEF next
<1>11. r[count] = G
  <2> DEFINE S == {n \in Nat : n <= count => r[n] = g[n]}
  <2>1. 0 \in S
    BY <1>7, <1>10
  <2>2. ASSUME NEW n \in S PROVE n + 1 \in S
    <3> SUFFICES ASSUME n + 1 <= count PROVE r[n + 1] = g[n + 1]
      OBVIOUS
    <3>1. n \in Nat /\ n + 1 \in 1..count /\ (n + 1) - 1 = n
      OBVIOUS
    <3>2. r[n] = g[n]
      BY <3>1
    <3> DEFINE rule(x) == IF \E k \in x : <<n + 1, k>> \in clashes THEN x ELSE x \cup {n + 1}
    <3>3. r[n + 1] = rule(r[n])
      BY <1>10, <3>1
    <3>4. g[n + 1] = rule(g[n])
      BY <1>6, <3>1
    <3> HIDE DEF rule
    <3> QED
      BY <3>2, <3>3, <3>4
  <2>3. Nat \subseteq S
    <3> HIDE DEF S
    <3>1. \A n \in Nat : n \in S => n + 1 \in S
      BY <2>2
    <3> QED
      BY <2>1, <3>1, NatSteps
  <2> QED
    BY <1>7, <2>3
<1> QED
  BY <1>4, <1>5, <1>11

-----------------------------------------------------------------------------
(* Crossings: a closed line changes sides an even number of times *)

\* With one more, even and odd change places.
LEMMA OneMoreTurns ==
  ASSUME NEW S, IsFiniteSet(S), NEW x, x \notin S
  PROVE  /\ IsFiniteSet(S \cup {x})
         /\ Cardinality(S) % 2 \in {0, 1}
         /\ Cardinality(S \cup {x}) % 2 = 1 - (Cardinality(S) % 2)
<1>1. IsFiniteSet(S \cup {x}) /\ Cardinality(S \cup {x}) = Cardinality(S) + 1
  BY FS_AddElement
<1>2. Cardinality(S) \in Nat
  BY FS_CardinalityType
<1> DEFINE c == Cardinality(S)
<1> HIDE DEF c
<1>3. ASSUME c \in Nat PROVE c % 2 \in {0, 1} /\ (c + 1) % 2 = 1 - (c % 2)
  BY <1>3
<1> QED
  BY <1>1, <1>2, <1>3 DEF c

LEMMA NumbersAreFinite ==
  ASSUME NEW n \in Nat, NEW S, S \subseteq 1..n
  PROVE  IsFiniteSet(S) /\ Cardinality(S) \in Nat
<1>1. IsFiniteSet(1..n)
  <2>1. 1 \in Int /\ n \in Int
    OBVIOUS
  <2> QED
    BY <2>1, FS_Interval
<1>2. IsFiniteSet(S)
  BY <1>1, FS_Subset
<1> QED
  BY <1>2, FS_CardinalityType

\* Along a line of N corners, some of them in A: where it enters or leaves A.
Turns(A, n) == {i \in 1..n : (i \in A) # (i + 1 \in A)}

LEMMA TurnsTellSides ==
  ASSUME NEW A
  PROVE  \A n \in Nat : Cardinality(Turns(A, n)) % 2 = IF (1 \in A) = (n + 1 \in A) THEN 0 ELSE 1
<1> DEFINE Tells(n) == Cardinality(Turns(A, n)) % 2 = IF (1 \in A) = (n + 1 \in A) THEN 0 ELSE 1
           T == {n \in Nat : Tells(n)}
<1>1. 0 \in T
  <2>1. Turns(A, 0) = {}
    BY DEF Turns
  <2>2. Cardinality(Turns(A, 0)) % 2 = 0
    BY <2>1, FS_EmptySet
  <2> QED
    BY <2>2
<1>2. ASSUME NEW n \in Nat, n \in T PROVE n + 1 \in T
  <2>1. Turns(A, n) \subseteq 1..n /\ n + 1 \notin Turns(A, n)
    BY DEF Turns
  <2>2. IsFiniteSet(Turns(A, n))
    BY <2>1, NumbersAreFinite
  <2>3. Tells(n)
    BY <1>2
  <2>4. CASE (n + 1 \in A) = ((n + 1) + 1 \in A)
    <3>1. Turns(A, n + 1) = Turns(A, n)
      BY <2>4 DEF Turns
    <3>2. Tells(n + 1)
      BY <2>3, <2>4, <3>1
    <3> QED
      BY <3>2
  <2>5. CASE (n + 1 \in A) # ((n + 1) + 1 \in A)
    <3>1. Turns(A, n + 1) = Turns(A, n) \cup {n + 1}
      BY <2>5 DEF Turns
    <3>2. Cardinality(Turns(A, n + 1)) % 2 = 1 - (Cardinality(Turns(A, n)) % 2)
      BY <2>1, <2>2, <3>1, OneMoreTurns
    <3>3. Tells(n + 1)
      BY <2>3, <2>5, <3>2
    <3> QED
      BY <3>3
  <2> QED
    BY <2>4, <2>5
<1> HIDE DEF T
<1>3. Nat \subseteq T
  BY <1>1, <1>2, NatSteps
<1> QED
  BY <1>3 DEF T

\* Back at its first corner, the line has come in as often as it has gone out.
LEMMA ClosedLinesTurnEvenly ==
  ASSUME NEW N \in Nat \ {0}, NEW A
  PROVE  Cardinality({i \in 1..N : (i \in A) # ((i % N) + 1 \in A)}) % 2 = 0
<1> DEFINE all == {i \in 1..N : (i \in A) # ((i % N) + 1 \in A)}
           open == Turns(A, N - 1)
<1>1. N - 1 \in Nat /\ (N - 1) + 1 = N
  OBVIOUS
<1>2. Cardinality(open) % 2 = IF (1 \in A) = (N \in A) THEN 0 ELSE 1
  BY <1>1, TurnsTellSides
<1>3. (N % N) + 1 = 1 /\ \A i \in 1..(N - 1) : (i % N) + 1 = i + 1
  OBVIOUS
<1>4. IsFiniteSet(open) /\ N \notin open
  BY <1>1, NumbersAreFinite DEF Turns
<1>5. \A i \in 1..(N - 1) : i \in all <=> i \in open
  BY <1>3 DEF Turns
<1>6. N \in all <=> (N \in A) # (1 \in A)
  BY <1>3
<1>7. all \subseteq 1..N /\ open \subseteq 1..(N - 1) /\ 1..N = 1..(N - 1) \cup {N}
  BY DEF Turns
<1> HIDE DEF all, open
<1>8. CASE (N \in A) # (1 \in A)
  <2>1. all = open \cup {N}
    BY <1>4, <1>5, <1>6, <1>7, <1>8
  <2>2. Cardinality(all) % 2 = 1 - (Cardinality(open) % 2)
    BY <1>4, <2>1, OneMoreTurns
  <2> QED
    BY <1>2, <1>8, <2>2 DEF all
<1>9. CASE ~((N \in A) # (1 \in A))
  <2>1. all = open
    BY <1>4, <1>5, <1>6, <1>7, <1>9
  <2> QED
    BY <1>2, <1>9, <2>1 DEF all
<1> QED
  BY <1>8, <1>9

-----------------------------------------------------------------------------
(* The two rejects that spare the ray casting *)

Points == Int \X Int

Polygons == Seq(Points) \ {<<>>}

\* Products keep their sign, and their order.
LEMMA ProductsOfSigns ==
  ASSUME NEW x \in Int, NEW y \in Int
  PROVE  /\ x * y \in Int
         /\ x >= 0 /\ y >= 0 => x * y >= 0
         /\ x > 0 /\ y > 0 => x * y > 0
         /\ x <= 0 /\ y >= 0 => x * y <= 0
         /\ x < 0 /\ y > 0 => x * y < 0
OBVIOUS

LEMMA ProductsGrow ==
  ASSUME NEW x \in Int, NEW y \in Int, NEW z \in Int, x <= y, z >= 0
  PROVE  x * z <= y * z
<1>1. (y - x) * z = y * z - x * z
  OBVIOUS
<1>2. (y - x) * z >= 0
  <2>1. y - x \in Int /\ y - x >= 0
    OBVIOUS
  <2> QED
    BY <2>1, ProductsOfSigns
<1>3. x * z \in Int /\ y * z \in Int
  OBVIOUS
<1> QED
  BY <1>1, <1>2, <1>3

LEMMA CornersArePoints ==
  ASSUME NEW polygon \in Polygons
  PROVE  /\ Len(polygon) \in Nat \ {0} /\ DOMAIN polygon = 1..Len(polygon)
         /\ \A i \in DOMAIN polygon :
              /\ polygon[i] \in Points /\ polygon[i][1] \in Int /\ polygon[i][2] \in Int
              /\ Next1(i, polygon) \in DOMAIN polygon
<1>1. polygon \in Seq(Points) /\ Len(polygon) \in Nat \ {0} /\ DOMAIN polygon = 1..Len(polygon)
  BY DEF Polygons
<1>2. ASSUME NEW i \in DOMAIN polygon
      PROVE  /\ polygon[i] \in Points /\ polygon[i][1] \in Int /\ polygon[i][2] \in Int
             /\ Next1(i, polygon) \in DOMAIN polygon
  <2>1. polygon[i] \in Points
    BY <1>1
  <2>2. polygon[i][1] \in Int /\ polygon[i][2] \in Int
    BY <2>1 DEF Points
  <2>3. \A N \in Nat \ {0} : \A k \in 1..N : (k % N) + 1 \in 1..N
    OBVIOUS
  <2>4. Next1(i, polygon) \in DOMAIN polygon
    BY <1>1, <2>3 DEF Next1
  <2> QED
    BY <2>1, <2>2, <2>4
<1> QED
  BY <1>1, <1>2

\* A finite set of numbers has a least and a greatest.
LEMMA FiniteHaveBounds ==
  ASSUME NEW S, S \subseteq Int, IsFiniteSet(S), S # {}
  PROVE  /\ Min(S) \in S /\ \A y \in S : Min(S) <= y
         /\ Max(S) \in S /\ \A y \in S : y <= Max(S)
<1> DEFINE up == [x \in S |-> x]
           down == [x \in S |-> 0 - x]
<1>1. up \in [S -> Int] /\ down \in [S -> Int]
  OBVIOUS
<1>2. PICK x \in S : \A y \in S : up[y] <= up[x]
  <2> HIDE DEF up
  <2> QED
    BY <1>1, GreatestOfFinite
<1>3. PICK z \in S : \A y \in S : down[y] <= down[z]
  <2> HIDE DEF down
  <2> QED
    BY <1>1, GreatestOfFinite
<1>4. \E m \in S : \A y \in S : y <= m
  BY <1>2
<1>5. \E m \in S : \A y \in S : m <= y
  <2>1. \A y \in S : z <= y
    <3> SUFFICES ASSUME NEW y \in S PROVE z <= y
      OBVIOUS
    <3>1. 0 - y <= 0 - z /\ y \in Int /\ z \in Int
      BY <1>3
    <3> QED
      BY <3>1
  <2> QED
    BY <2>1
<1>6. \E m \in S : \A y \in S : m >= y
  BY <1>4
<1> QED
  BY <1>5, <1>6 DEF Min, Max

LEMMA CornersAreWithin ==
  ASSUME NEW polygon \in Polygons
  PROVE  LET b == Bounds(polygon)
         IN /\ b.x1 \in Int /\ b.x2 \in Int /\ b.y1 \in Int /\ b.y2 \in Int
            /\ \A i \in DOMAIN polygon :
                 /\ b.x1 <= polygon[i][1] /\ polygon[i][1] <= b.x2
                 /\ b.y1 <= polygon[i][2] /\ polygon[i][2] <= b.y2
<1> DEFINE xs == {polygon[i][1] : i \in DOMAIN polygon}
           ys == {polygon[i][2] : i \in DOMAIN polygon}
           N == Len(polygon)
<1>1. /\ N \in Nat \ {0} /\ DOMAIN polygon = 1..N
      /\ \A i \in DOMAIN polygon : polygon[i][1] \in Int /\ polygon[i][2] \in Int
  BY CornersArePoints
<1>2. xs \subseteq Int /\ ys \subseteq Int
  BY <1>1
<1>3. IsFiniteSet(1..N) /\ 1 \in 1..N
  BY <1>1, NumbersAreFinite
<1>4. xs # {} /\ ys # {}
  BY <1>1, <1>3
<1>5. IsFiniteSet(xs)
  <2> DEFINE f == [i \in 1..N |-> polygon[i][1]]
  <2>1. f \in Surjection(1..N, xs)
    BY <1>1 DEF Surjection
  <2> HIDE DEF f
  <2> QED
    BY <1>3, <2>1, FS_Surjection
<1>6. IsFiniteSet(ys)
  <2> DEFINE f == [i \in 1..N |-> polygon[i][2]]
  <2>1. f \in Surjection(1..N, ys)
    BY <1>1 DEF Surjection
  <2> HIDE DEF f
  <2> QED
    BY <1>3, <2>1, FS_Surjection
<1>7. Bounds(polygon) = [x1 |-> Min(xs), y1 |-> Min(ys), x2 |-> Max(xs), y2 |-> Max(ys)]
  BY DEF Bounds
<1>8. \A i \in DOMAIN polygon : polygon[i][1] \in xs /\ polygon[i][2] \in ys
  OBVIOUS
<1> HIDE DEF xs, ys
<1>9. /\ Min(xs) \in Int /\ Max(xs) \in Int /\ Min(ys) \in Int /\ Max(ys) \in Int
      /\ \A x \in xs : Min(xs) <= x /\ x <= Max(xs)
      /\ \A y \in ys : Min(ys) <= y /\ y <= Max(ys)
  BY <1>2, <1>4, <1>5, <1>6, FiniteHaveBounds
<1> QED
  BY <1>7, <1>8, <1>9

Straddles(p, a, b) == (a[2] > p[2]) # (b[2] > p[2])

\* An edge to the left of the point is not crossed, one to the right is if it straddles.
LEMMA RayMeetsEdge ==
  ASSUME NEW p \in Points, NEW a \in Points, NEW b \in Points
  PROVE  /\ Crosses(p, a, b) => Straddles(p, a, b) /\ (p[1] < a[1] \/ p[1] < b[1])
         /\ Straddles(p, a, b) /\ p[1] < a[1] /\ p[1] < b[1] => Crosses(p, a, b)
<1>1. /\ p[1] \in Int /\ p[2] \in Int /\ a[1] \in Int /\ a[2] \in Int
      /\ b[1] \in Int /\ b[2] \in Int
  BY DEF Points
<1> DEFINE px == p[1] - a[1]  py == p[2] - a[2]
           ex == b[1] - a[1]  ey == b[2] - a[2]
<1>2. px \in Int /\ py \in Int /\ ex \in Int /\ ey \in Int
  BY <1>1
<1>3. Crosses(p, a, b) <=> Straddles(p, a, b)
                             /\ (IF ey > 0 THEN px * ey < ex * py ELSE px * ey > ex * py)
  BY <1>1 DEF Crosses, IsLeftOfEdge, Straddles
<1>4. Straddles(p, a, b) <=> \/ ey > 0 /\ 0 <= py /\ py < ey
                             \/ ey < 0 /\ ey <= py /\ py < 0
  BY <1>1 DEF Straddles
<1>5. px < 0 <=> p[1] < a[1]
  BY <1>1
<1>6. px < ex <=> p[1] < b[1]
  BY <1>1
<1> HIDE DEF px, py, ex, ey
<1>7. ASSUME NEW x \in Int, NEW y \in Int, NEW u \in Int, NEW v \in Int,
             v > 0, 0 <= y, y < v
      PROVE  /\ x >= 0 /\ x >= u => x * v >= u * y
             /\ x < 0 /\ x < u => x * v < u * y
  <2>1. ASSUME x >= 0, x >= u PROVE x * v >= u * y
    <3>1. u * y <= x * y
      BY <1>7, <2>1, ProductsGrow
    <3>2. y * x <= v * x /\ y * x = x * y /\ v * x = x * v
      BY <1>7, <2>1, ProductsGrow
    <3>3. u * y \in Int /\ x * y \in Int /\ x * v \in Int
      BY ProductsOfSigns
    <3> QED
      BY <3>1, <3>2, <3>3
  <2>2. ASSUME x < 0, x < u PROVE x * v < u * y
    <3>1. x * y <= u * y
      BY <1>7, <2>2, ProductsGrow
    <3>2. x * (v - y) < 0
      <4>1. v - y \in Int /\ v - y > 0
        BY <1>7
      <4> QED
        BY <2>2, <4>1, ProductsOfSigns
    <3>3. x * (v - y) = x * v - x * y
      OBVIOUS
    <3>4. u * y \in Int /\ x * y \in Int /\ x * v \in Int
      BY ProductsOfSigns
    <3> QED
      BY <3>1, <3>2, <3>3, <3>4
  <2> QED
    BY <2>1, <2>2
<1>8. CASE ey > 0 /\ 0 <= py /\ py < ey
  <2>1. /\ px >= 0 /\ px >= ex => px * ey >= ex * py
        /\ px < 0 /\ px < ex => px * ey < ex * py
    BY <1>2, <1>7, <1>8
  <2>2. px * ey \in Int /\ ex * py \in Int
    BY <1>2, ProductsOfSigns
  <2> QED
    BY <1>2, <1>3, <1>4, <1>5, <1>6, <1>8, <2>1, <2>2
<1>9. CASE ey < 0 /\ ey <= py /\ py < 0
  \* Seen from the other end.
  <2> DEFINE x == px - ex  y == py - ey  u == 0 - ex  v == 0 - ey
  <2>1. /\ x \in Int /\ y \in Int /\ u \in Int /\ v \in Int /\ v > 0 /\ 0 <= y /\ y < v
    BY <1>2, <1>9
  <2>2. (x >= 0 <=> ~(px < ex)) /\ (x >= u <=> ~(px < 0))
    BY <1>2
  <2>3. x * v - u * y = (ex * py) - (px * ey)
    BY <1>2
  <2> HIDE DEF x, y, u, v
  <2>4. /\ x >= 0 /\ x >= u => x * v >= u * y
        /\ x < 0 /\ x < u => x * v < u * y
    BY <1>7, <2>1
  <2>5. px * ey \in Int /\ ex * py \in Int /\ x * v \in Int /\ u * y \in Int
    BY <1>2, <2>1, ProductsOfSigns
  <2>6. /\ ~(px < ex) /\ ~(px < 0) => ~(px * ey > ex * py)
        /\ px < ex /\ px < 0 => px * ey > ex * py
    BY <2>1, <2>2, <2>3, <2>4, <2>5
  <2>7. ~(ey > 0)
    BY <1>2, <1>9
  <2> QED
    BY <1>3, <1>4, <1>5, <1>6, <1>9, <2>6, <2>7
<1> QED
  BY <1>3, <1>4, <1>8, <1>9

Crossed(p, polygon) ==
  {i \in DOMAIN polygon : Crosses(p, polygon[i], polygon[Next1(i, polygon)])}

Straddlers(p, polygon) ==
  {i \in DOMAIN polygon : Straddles(p, polygon[i], polygon[Next1(i, polygon)])}

LEMMA StraddlersAreEven ==
  ASSUME NEW p \in Points, NEW polygon \in Polygons
  PROVE  IsFiniteSet(Straddlers(p, polygon)) /\ Cardinality(Straddlers(p, polygon)) % 2 = 0
<1> DEFINE N == Len(polygon)
           A == {i \in 1..N : polygon[i][2] > p[2]}
<1>1. /\ N \in Nat \ {0} /\ DOMAIN polygon = 1..N
      /\ \A i \in 1..N : (i % N) + 1 \in 1..N /\ Next1(i, polygon) = (i % N) + 1
  BY CornersArePoints DEF Next1
<1>2. \A i \in 1..N : i \in A <=> polygon[i][2] > p[2]
  OBVIOUS
<1> HIDE DEF A, N
<1> DEFINE turning == {i \in 1..N : (i \in A) # ((i % N) + 1 \in A)}
<1>3. Cardinality(Straddlers(p, polygon)) % 2 = 0
  <2>1. \A i \in 1..N : Straddles(p, polygon[i], polygon[Next1(i, polygon)])
                       <=> (i \in A) # ((i % N) + 1 \in A)
    <3> SUFFICES ASSUME NEW i \in 1..N
                 PROVE  Straddles(p, polygon[i], polygon[Next1(i, polygon)])
                          <=> (i \in A) # ((i % N) + 1 \in A)
      OBVIOUS
    <3>1. (i \in A <=> polygon[i][2] > p[2])
          /\ ((i % N) + 1 \in A <=> polygon[Next1(i, polygon)][2] > p[2])
      BY <1>1, <1>2
    <3> QED
      BY <3>1 DEF Straddles
  <2>2. Straddlers(p, polygon) = turning
    BY <1>1, <2>1 DEF Straddlers
  <2>3. Cardinality(turning) % 2 = 0
    BY <1>1, ClosedLinesTurnEvenly
  <2> QED
    BY <2>2, <2>3
<1>4. Straddlers(p, polygon) \subseteq 1..N
  BY <1>1 DEF Straddlers
<1>5. IsFiniteSet(Straddlers(p, polygon))
  BY <1>1, <1>4, NumbersAreFinite
<1> QED
  BY <1>3, <1>5

\* assignment.py, _within: a point beyond the bounds of a polygon is never inside, whatever
\* its shape, so the reject before the ray casting loses nothing.
THEOREM BeyondIsOutside ==
  ASSUME NEW p \in Points, NEW polygon \in Polygons, Inside(p, polygon)
  PROVE  Within(p, Bounds(polygon))
<1> DEFINE b == Bounds(polygon)
           to(i) == polygon[Next1(i, polygon)]
<1>1. /\ b.x1 \in Int /\ b.x2 \in Int /\ b.y1 \in Int /\ b.y2 \in Int
      /\ \A i \in DOMAIN polygon :
           /\ b.x1 <= polygon[i][1] /\ polygon[i][1] <= b.x2
           /\ b.y1 <= polygon[i][2] /\ polygon[i][2] <= b.y2
  BY CornersAreWithin
<1>2. \A i \in DOMAIN polygon :
        /\ polygon[i] \in Points /\ polygon[i][1] \in Int /\ polygon[i][2] \in Int
        /\ Next1(i, polygon) \in DOMAIN polygon
  BY CornersArePoints
<1>3. p[1] \in Int /\ p[2] \in Int
  BY DEF Points
<1>4. Cardinality(Crossed(p, polygon)) % 2 = 1
  BY DEF Inside, Crossed
<1>5. Crossed(p, polygon) # {}
  <2>1. Cardinality({}) % 2 = 0
    BY FS_EmptySet
  <2> QED
    BY <1>4, <2>1
<1>6. PICK i \in DOMAIN polygon : Crosses(p, polygon[i], to(i))
  BY <1>5 DEF Crossed
<1>7. /\ polygon[i] \in Points /\ polygon[i][1] \in Int /\ polygon[i][2] \in Int
      /\ to(i) \in Points /\ to(i)[1] \in Int /\ to(i)[2] \in Int
      /\ b.x1 <= polygon[i][1] /\ polygon[i][1] <= b.x2 /\ b.y1 <= polygon[i][2]
      /\ polygon[i][2] <= b.y2 /\ to(i)[1] <= b.x2 /\ b.y1 <= to(i)[2] /\ to(i)[2] <= b.y2
  BY <1>1, <1>2, <1>6
<1>8. Straddles(p, polygon[i], to(i)) /\ (p[1] < polygon[i][1] \/ p[1] < to(i)[1])
  <2> HIDE DEF to
  <2> QED
    BY <1>6, <1>7, RayMeetsEdge
<1>9. b.y1 <= p[2] /\ p[2] <= b.y2 /\ p[1] <= b.x2
  <2> HIDE DEF to, b
  <2> QED
    BY <1>1, <1>3, <1>7, <1>8 DEF Straddles
\* To the left of all corners the ray crosses every edge that straddles it.
<1>10. b.x1 <= p[1]
  <2> SUFFICES ASSUME p[1] < b.x1 PROVE FALSE
    BY <1>1, <1>3
  <2>1. \A j \in DOMAIN polygon :
          Crosses(p, polygon[j], to(j)) <=> Straddles(p, polygon[j], to(j))
    <3> SUFFICES ASSUME NEW j \in DOMAIN polygon
                 PROVE  Crosses(p, polygon[j], to(j)) <=> Straddles(p, polygon[j], to(j))
      OBVIOUS
    <3>1. /\ polygon[j] \in Points /\ to(j) \in Points
          /\ p[1] < polygon[j][1] /\ p[1] < to(j)[1]
      BY <1>1, <1>2, <1>3
    <3> HIDE DEF to
    <3> QED
      BY <3>1, RayMeetsEdge
  <2>2. Crossed(p, polygon) = Straddlers(p, polygon)
    BY <2>1 DEF Crossed, Straddlers
  <2> QED
    BY <1>4, <2>2, StraddlersAreEven
<1> QED
  BY <1>1, <1>3, <1>9, <1>10 DEF Within

\* A box as detectors give it, its corners in order.
Upright(box) == /\ {box.x1, box.y1, box.x2, box.y2} \subseteq Int
                /\ box.x1 <= box.x2 /\ box.y1 <= box.y2

\* The samples lie in the band.
LEMMA SamplesAreInBand ==
  ASSUME NEW box, Upright(box), NEW s \in Samples
  PROVE  LET p == SampleAt(box, s)
         IN /\ p \in Points
            /\ box.x1 <= p[1] /\ p[1] <= box.x2
            /\ SampleAt(box, <<0, 0>>)[2] <= p[2] /\ p[2] <= box.y2
<1>1. s[1] \in 0..4 /\ s[2] \in 0..4
  BY DEF Samples, BandCols, BandRows
<1>2. /\ box.x1 \in Int /\ box.y1 \in Int /\ box.x2 \in Int /\ box.y2 \in Int
      /\ box.x1 <= box.x2 /\ box.y1 <= box.y2
  BY DEF Upright
<1> DEFINE w == box.x2 - box.x1
           h == box.y2 - box.y1
           c == 2 * s[1] + 1
           r == 9 - 2 * s[2]
<1>3. w \in Nat /\ h \in Nat /\ c \in 1..9 /\ r \in 1..9
  BY <1>1, <1>2
<1> HIDE DEF w, h, c, r
<1>4. 0 <= w * c /\ w * c <= w * 9 /\ w * c \in Int
  <2>1. w * c \in Int /\ w * c >= 0
    BY <1>3, ProductsOfSigns
  <2>2. c * w <= 9 * w
    BY <1>3, ProductsGrow
  <2> QED
    BY <1>3, <2>1, <2>2
<1>5. 0 <= 3 * h * r /\ 3 * h * r <= 3 * h * 9 /\ 3 * h * r \in Int
  <2>1. h * r \in Int /\ h * r >= 0
    BY <1>3, ProductsOfSigns
  <2>2. r * h <= 9 * h
    BY <1>3, ProductsGrow
  <2>3. 3 * h * r = 3 * (h * r)
    BY <1>3
  <2> QED
    BY <1>3, <2>1, <2>2, <2>3
<1>6. 0 <= (w * c) \div 10 /\ (w * c) \div 10 <= w /\ (w * c) \div 10 \in Int
  <2> DEFINE x == w * c
  <2>1. x \in Int /\ 0 <= x /\ x <= 9 * w
    BY <1>3, <1>4
  <2> HIDE DEF x
  <2>2. 0 <= x \div 10 /\ x \div 10 <= w /\ x \div 10 \in Int
    BY <1>3, <2>1
  <2> QED
    BY <2>2 DEF x
<1>7. /\ 0 <= (3 * h * r) \div 100 /\ (3 * h * r) \div 100 <= (3 * h * 9) \div 100
      /\ (3 * h * r) \div 100 \in Int /\ (3 * h * 9) \div 100 \in Int
  <2> DEFINE x == 3 * h * r
             y == 3 * h * 9
  <2>1. x \in Int /\ y \in Int /\ 0 <= x /\ x <= y
    BY <1>3, <1>5
  <2> HIDE DEF x, y
  <2>2. 0 <= x \div 100 /\ x \div 100 <= y \div 100 /\ x \div 100 \in Int /\ y \div 100 \in Int
    BY <2>1
  <2> QED
    BY <2>2 DEF x, y
<1>8. SampleAt(box, s) = <<box.x1 + (w * c) \div 10, box.y2 - (3 * h * r) \div 100>>
  BY DEF SampleAt, w, h, c, r
<1>9. SampleAt(box, <<0, 0>>)[2] = box.y2 - (3 * h * 9) \div 100
  BY DEF SampleAt, h
<1> DEFINE dx == (w * c) \div 10
           dy == (3 * h * r) \div 100
           dz == (3 * h * 9) \div 100
<1> HIDE DEF dx, dy, dz
<1>10. /\ SampleAt(box, s) = <<box.x1 + dx, box.y2 - dy>>
       /\ SampleAt(box, <<0, 0>>)[2] = box.y2 - dz
       /\ dx \in Int /\ 0 <= dx /\ dx <= w /\ dy \in Int /\ dz \in Int /\ 0 <= dy /\ dy <= dz
  BY <1>6, <1>7, <1>8, <1>9 DEF dx, dy, dz
<1> QED
  BY <1>2, <1>10 DEF Points, w

\* assignment.py, _overlaps: a bay whose bounds the band does not touch covers none of its
\* samples, so with the reject in front the coverage is still the count of samples inside.
THEOREM CoverageIsOfSamples ==
  ASSUME NEW box, Upright(box), NEW bay \in Polygons
  PROVE  Coverage(box, bay) = Cardinality({s \in Samples : Inside(SampleAt(box, s), bay)})
<1>1. CASE Overlaps(Band(box), Bounds(bay))
  BY <1>1 DEF Coverage
<1>2. CASE ~Overlaps(Band(box), Bounds(bay))
  <2> DEFINE b == Bounds(bay)
             top == SampleAt(box, <<0, 0>>)[2]
  <2>1. b.x1 \in Int /\ b.x2 \in Int /\ b.y1 \in Int /\ b.y2 \in Int
    BY CornersAreWithin
  <2>2. /\ box.x1 \in Int /\ box.x2 \in Int /\ box.y2 \in Int
        /\ top \in Int
    <3>1. <<0, 0>> \in Samples
      BY DEF Samples, BandCols, BandRows
    <3>2. SampleAt(box, <<0, 0>>) \in Points
      BY <3>1, SamplesAreInBand
    <3> QED
      BY <3>2 DEF Upright, Points
  <2>3. Band(box).x1 = box.x1 /\ Band(box).x2 = box.x2 /\ Band(box).y2 = box.y2
        /\ Band(box).y1 = top
    BY DEF Band
  <2>4. \/ box.x2 < b.x1 \/ b.x2 < box.x1 \/ box.y2 < b.y1 \/ b.y2 < top
    <3> HIDE DEF b, top
    <3> QED
      BY <1>2, <2>3 DEF Overlaps, b
  <2>5. ASSUME NEW s \in Samples PROVE ~Inside(SampleAt(box, s), bay)
    <3> DEFINE p == SampleAt(box, s)
    <3>1. /\ p \in Points /\ p[1] \in Int /\ p[2] \in Int
          /\ box.x1 <= p[1] /\ p[1] <= box.x2 /\ top <= p[2] /\ p[2] <= box.y2
      BY SamplesAreInBand DEF Points
    <3> HIDE DEF p, b, top
    <3>2. Inside(p, bay) => p[1] \in b.x1..b.x2 /\ p[2] \in b.y1..b.y2
      BY <3>1, BeyondIsOutside DEF Within, b
    <3>3. ~Inside(p, bay)
      BY <2>1, <2>2, <2>4, <3>1, <3>2
    <3> QED
      BY <3>3 DEF p
  <2>6. {s \in Samples : Inside(SampleAt(box, s), bay)} = {}
    BY <2>5
  <2> QED
    BY <1>2, <2>6, FS_EmptySet DEF Coverage
<1> QED
  BY <1>1, <1>2

-----------------------------------------------------------------------------
(* A polygon the other way round, and one that is stretched *)

\* An edge is crossed or not whichever end it is drawn from.
LEMMA EdgesHaveNoDirection ==
  ASSUME NEW p \in Points, NEW a \in Points, NEW b \in Points
  PROVE  Crosses(p, a, b) <=> Crosses(p, b, a)
<1>1. /\ p[1] \in Int /\ p[2] \in Int /\ a[1] \in Int /\ a[2] \in Int
      /\ b[1] \in Int /\ b[2] \in Int
  BY DEF Points
<1> DEFINE across(c, d) == (p[1] - c[1]) * (d[2] - c[2])
           along(c, d)  == (d[1] - c[1]) * (p[2] - c[2])
<1>2. across(b, a) - along(b, a) = along(a, b) - across(a, b)
  BY <1>1
<1>3. /\ across(a, b) \in Int /\ along(a, b) \in Int
      /\ across(b, a) \in Int /\ along(b, a) \in Int
  BY <1>1
<1>4. /\ Crosses(p, a, b)
           <=> /\ (a[2] > p[2]) # (b[2] > p[2])
               /\ IF b[2] > a[2] THEN across(a, b) < along(a, b) ELSE across(a, b) > along(a, b)
      /\ Crosses(p, b, a)
           <=> /\ (b[2] > p[2]) # (a[2] > p[2])
               /\ IF a[2] > b[2] THEN across(b, a) < along(b, a) ELSE across(b, a) > along(b, a)
  BY DEF Crosses, IsLeftOfEdge
<1> HIDE DEF across, along
<1> QED
  BY <1>1, <1>2, <1>3, <1>4

\* Edge i of a reversed polygon is this edge of the polygon, from its other end.
Backward(i, N) == IF i = N THEN N ELSE N - i

LEMMA ReversedEdges ==
  ASSUME NEW polygon \in Polygons
  PROVE  LET back == Reverse(polygon)
             N == Len(polygon)
         IN /\ back \in Polygons /\ Len(back) = N
            /\ \A i \in 1..N :
                 LET e == Backward(i, N)
                 IN /\ e \in 1..N /\ Backward(e, N) = i
                    /\ back[i] = polygon[Next1(e, polygon)]
                    /\ back[Next1(i, back)] = polygon[e]
<1> DEFINE N == Len(polygon)
           back == Reverse(polygon)
           edge(i) == Backward(i, N)
<1>1. /\ N \in Nat \ {0} /\ DOMAIN polygon = 1..N
      /\ \A i \in 1..N : polygon[i] \in Points
  BY CornersArePoints
<1>2. back = [i \in 1..N |-> polygon[(N - i) + 1]]
  BY <1>1 DEF Reverse
<1>3. \A i \in 1..N : (N - i) + 1 \in 1..N /\ edge(i) \in 1..N /\ edge(edge(i)) = i
  <2>1. \A i \in 1..N : edge(i) = IF i = N THEN N ELSE N - i
    BY DEF Backward
  <2> HIDE DEF N, edge
  <2> QED
    BY <1>1, <2>1
<1>4. back \in Polygons /\ Len(back) = N /\ DOMAIN back = 1..N
  <2>1. back \in [1..N -> Points]
    BY <1>1, <1>2, <1>3
  <2>2. back \in Seq(Points) /\ Len(back) = N
    BY <1>1, <2>1
  <2>3. back # <<>>
    BY <1>1, <2>2
  <2> QED
    BY <2>1, <2>2, <2>3 DEF Polygons
<1>5. ASSUME NEW i \in 1..N
      PROVE  /\ back[i] = polygon[Next1(edge(i), polygon)]
             /\ back[Next1(i, back)] = polygon[edge(i)]
  <2>1. CASE i = N
    <3>1. (N % N) + 1 = 1 /\ 1 \in 1..N /\ (N - 1) + 1 = N /\ (N - N) + 1 = 1
      BY <1>1
    <3>2. edge(i) = N
      BY <2>1 DEF Backward
    <3> QED
      BY <1>1, <1>2, <1>4, <2>1, <3>1, <3>2 DEF Next1
  <2>2. CASE i # N
    <3>1. /\ (i % N) + 1 = i + 1 /\ i + 1 \in 1..N /\ ((N - i) % N) + 1 = (N - i) + 1
          /\ (N - (i + 1)) + 1 = N - i
      <4> HIDE DEF N
      <4>1. i \in Nat /\ N \in Nat /\ i >= 1 /\ i < N
        BY <1>1, <2>2
      <4>2. i % N = i /\ (N - i) % N = N - i
        BY <4>1
      <4> QED
        BY <4>1, <4>2
    <3>2. edge(i) = N - i /\ i \in 1..N
      BY <2>2 DEF Backward
    <3>3. Next1(edge(i), polygon) = (N - i) + 1 /\ Next1(i, back) = i + 1
      BY <1>4, <3>1, <3>2 DEF Next1
    <3> HIDE DEF N, edge, back
    <3>4. back[i] = polygon[(N - i) + 1] /\ back[i + 1] = polygon[N - i]
      BY <1>2, <3>1, <3>2
    <3> QED
      BY <3>2, <3>3, <3>4
  <2> QED
    BY <2>1, <2>2
<1> QED
  BY <1>3, <1>4, <1>5

\* geometry.py, point_in_polygon: whether a point is inside does not depend on the direction
\* in which the polygon was drawn, whatever its shape.
THEOREM DirectionSaysNothing ==
  ASSUME NEW p \in Points, NEW polygon \in Polygons
  PROVE  Reverse(polygon) \in Polygons /\ (Inside(p, Reverse(polygon)) <=> Inside(p, polygon))
<1> DEFINE N == Len(polygon)
           back == Reverse(polygon)
           edge(i) == Backward(i, N)
           f == [i \in Crossed(p, back) |-> edge(i)]
<1>1. /\ N \in Nat \ {0} /\ DOMAIN polygon = 1..N
      /\ \A i \in 1..N : polygon[i] \in Points
  BY CornersArePoints
<1>2. back \in Polygons /\ Len(back) = N
  BY ReversedEdges
<1>3. \A i \in 1..N : edge(i) \in 1..N /\ edge(edge(i)) = i
  BY ReversedEdges
<1>4. DOMAIN back = 1..N
  BY <1>2, CornersArePoints
<1>5. ASSUME NEW i \in 1..N
      PROVE  /\ back[i] = polygon[Next1(edge(i), polygon)]
             /\ back[Next1(i, back)] = polygon[edge(i)]
  BY ReversedEdges
<1>6. ASSUME NEW i \in 1..N
      PROVE  i \in Crossed(p, back) <=> edge(i) \in Crossed(p, polygon)
  <2> DEFINE e == edge(i)
  <2>1. e \in 1..N /\ Next1(e, polygon) \in 1..N
    BY <1>1, <1>3, CornersArePoints
  <2>2. back[i] = polygon[Next1(e, polygon)] /\ back[Next1(i, back)] = polygon[e]
    BY <1>5
  <2> HIDE DEF e, back
  <2>3. Crosses(p, polygon[e], polygon[Next1(e, polygon)])
          <=> Crosses(p, back[i], back[Next1(i, back)])
    BY <1>1, <2>1, <2>2, EdgesHaveNoDirection
  <2>4. i \in Crossed(p, back) <=> e \in Crossed(p, polygon)
    BY <1>1, <1>4, <2>1, <2>3 DEF Crossed
  <2> QED
    BY <2>4 DEF e
<1>7. Crossed(p, back) \subseteq 1..N /\ Crossed(p, polygon) \subseteq 1..N
  BY <1>1, <1>4 DEF Crossed
<1> HIDE DEF back, N, edge
<1>8. f \in Bijection(Crossed(p, back), Crossed(p, polygon))
  <2>1. f \in [Crossed(p, back) -> Crossed(p, polygon)]
    BY <1>6, <1>7
  <2>2. \A i, j \in Crossed(p, back) : f[i] = f[j] => i = j
    BY <1>3, <1>7
  <2>3. \A j \in Crossed(p, polygon) : \E i \in Crossed(p, back) : f[i] = j
    <3> SUFFICES ASSUME NEW j \in Crossed(p, polygon)
                 PROVE  \E i \in Crossed(p, back) : f[i] = j
      OBVIOUS
    <3>1. edge(j) \in 1..N /\ edge(edge(j)) = j
      BY <1>3, <1>7
    <3>2. edge(j) \in Crossed(p, back)
      BY <1>6, <3>1
    <3> QED
      BY <3>1, <3>2
  <2> HIDE DEF f
  <2>4. f \in Injection(Crossed(p, back), Crossed(p, polygon))
    BY <2>1, <2>2 DEF Injection, IsInjective
  <2>5. f \in Surjection(Crossed(p, back), Crossed(p, polygon))
    BY <2>1, <2>3 DEF Surjection
  <2> QED
    BY <2>4, <2>5 DEF Bijection
<1>9. IsFiniteSet(Crossed(p, back))
  BY <1>1, <1>7, NumbersAreFinite
<1>10. Cardinality(Crossed(p, back)) = Cardinality(Crossed(p, polygon))
  <2> DEFINE S == Crossed(p, back)
             T == Crossed(p, polygon)
  <2>1. IsFiniteSet(S) /\ ExistsBijection(S, T)
    BY <1>8, <1>9 DEF ExistsBijection
  <2> HIDE DEF f, S, T
  <2>2. Cardinality(S) = Cardinality(T)
    BY <2>1, FS_Bijection
  <2> QED
    BY <2>2 DEF S, T
<1>11. (Inside(p, back) <=> Cardinality(Crossed(p, back)) % 2 = 1)
       /\ (Inside(p, polygon) <=> Cardinality(Crossed(p, polygon)) % 2 = 1)
  BY DEF Inside, Crossed
<1> QED
  BY <1>2, <1>10, <1>11 DEF back

Stretch(p, kx, ky) == <<kx * p[1], ky * p[2]>>

Stretched(polygon, kx, ky) == [i \in DOMAIN polygon |-> Stretch(polygon[i], kx, ky)]

LEMMA StretchedIsPolygon ==
  ASSUME NEW polygon \in Polygons, NEW kx \in Nat \ {0}, NEW ky \in Nat \ {0}
  PROVE  /\ Stretched(polygon, kx, ky) \in Polygons
         /\ Len(Stretched(polygon, kx, ky)) = Len(polygon)
         /\ \A p \in Points : Stretch(p, kx, ky) \in Points
<1>1. \A p \in Points : Stretch(p, kx, ky) \in Points
  BY DEF Stretch, Points
<1>2. /\ Len(polygon) \in Nat \ {0} /\ DOMAIN polygon = 1..Len(polygon)
      /\ \A i \in DOMAIN polygon : polygon[i] \in Points
  BY CornersArePoints
<1> DEFINE s == Stretched(polygon, kx, ky)
<1>3. s \in [1..Len(polygon) -> Points]
  BY <1>1, <1>2 DEF Stretched
<1> HIDE DEF s
<1>4. s \in Seq(Points) /\ Len(s) = Len(polygon)
  BY <1>2, <1>3
<1>5. s # <<>>
  BY <1>2, <1>4
<1> QED
  BY <1>1, <1>4, <1>5 DEF s, Polygons

LEMMA CrossingsStretch ==
  ASSUME NEW p \in Points, NEW a \in Points, NEW b \in Points,
         NEW kx \in Nat \ {0}, NEW ky \in Nat \ {0}
  PROVE  Crosses(Stretch(p, kx, ky), Stretch(a, kx, ky), Stretch(b, kx, ky)) <=> Crosses(p, a, b)
<1>1. /\ p[1] \in Int /\ p[2] \in Int /\ a[1] \in Int /\ a[2] \in Int
      /\ b[1] \in Int /\ b[2] \in Int
  BY DEF Points
<1>2. ASSUME NEW x \in Int, NEW y \in Int, NEW k \in Nat \ {0}
      PROVE  (k * x > k * y <=> x > y)
  <2>1. k * (x - y) = k * x - k * y /\ k * x \in Int /\ k * y \in Int
    OBVIOUS
  <2>2. x - y \in Int
    OBVIOUS
  <2>3. /\ x - y > 0 => k * (x - y) > 0
        /\ x - y <= 0 => k * (x - y) <= 0
    <3>1. (x - y) * k = k * (x - y)
      OBVIOUS
    <3> QED
      BY <2>2, <3>1, ProductsOfSigns
  <2> QED
    BY <2>1, <2>2, <2>3
<1> DEFINE across == (p[1] - a[1]) * (b[2] - a[2])
           along  == (b[1] - a[1]) * (p[2] - a[2])
           k == kx * ky
           Across == (kx * p[1] - kx * a[1]) * (ky * b[2] - ky * a[2])
           Along  == (kx * b[1] - kx * a[1]) * (ky * p[2] - ky * a[2])
<1>3. across \in Int /\ along \in Int /\ k \in Nat \ {0}
  <2>1. k > 0 /\ k \in Int
    BY ProductsOfSigns
  <2> QED
    BY <1>1, <2>1
<1>4. Across = k * across /\ Along = k * along
  BY <1>1
<1>5. /\ Crosses(p, a, b)
           <=> /\ (a[2] > p[2]) # (b[2] > p[2])
               /\ IF b[2] > a[2] THEN along > across ELSE across > along
      /\ Crosses(Stretch(p, kx, ky), Stretch(a, kx, ky), Stretch(b, kx, ky))
           <=> /\ (ky * a[2] > ky * p[2]) # (ky * b[2] > ky * p[2])
               /\ IF ky * b[2] > ky * a[2] THEN Along > Across ELSE Across > Along
  <2>1. across \in Int /\ along \in Int /\ Across \in Int /\ Along \in Int
    BY <1>1
  <2> QED
    BY <2>1 DEF Crosses, IsLeftOfEdge, Stretch
<1> HIDE DEF across, along, Across, Along, k
<1>6. /\ ky * a[2] > ky * p[2] <=> a[2] > p[2]
      /\ ky * b[2] > ky * p[2] <=> b[2] > p[2]
      /\ ky * b[2] > ky * a[2] <=> b[2] > a[2]
      /\ Along > Across <=> along > across
      /\ Across > Along <=> across > along
  BY <1>1, <1>2, <1>3, <1>4
<1> QED
  BY <1>5, <1>6

\* geometry.py, scale_polygon: with a factor for each axis a point is inside the stretched polygon as
\* it was inside the one that was drawn.
THEOREM InsideStretches ==
  ASSUME NEW p \in Points, NEW polygon \in Polygons, NEW kx \in Nat \ {0}, NEW ky \in Nat \ {0}
  PROVE  Inside(Stretch(p, kx, ky), Stretched(polygon, kx, ky)) <=> Inside(p, polygon)
<1> DEFINE s == Stretched(polygon, kx, ky)
           sp == Stretch(p, kx, ky)
<1>1. /\ DOMAIN polygon = 1..Len(polygon) /\ DOMAIN s = DOMAIN polygon
      /\ \A i \in DOMAIN polygon : polygon[i] \in Points /\ Next1(i, polygon) \in DOMAIN polygon
  BY CornersArePoints DEF Stretched
<1>2. \A i \in DOMAIN polygon : Next1(i, s) = Next1(i, polygon)
  BY StretchedIsPolygon DEF Next1
<1>3. \A i \in DOMAIN polygon : s[i] = Stretch(polygon[i], kx, ky)
  BY DEF Stretched
<1> HIDE DEF s
<1>4. \A i \in DOMAIN polygon :
        Crosses(sp, s[i], s[Next1(i, s)])
          <=> Crosses(p, polygon[i], polygon[Next1(i, polygon)])
  <2> SUFFICES ASSUME NEW i \in DOMAIN polygon
               PROVE  Crosses(sp, s[i], s[Next1(i, s)])
                        <=> Crosses(p, polygon[i], polygon[Next1(i, polygon)])
    OBVIOUS
  <2> DEFINE a == polygon[i]
             b == polygon[Next1(i, polygon)]
  <2>1. /\ a \in Points /\ b \in Points
        /\ s[i] = Stretch(a, kx, ky) /\ s[Next1(i, s)] = Stretch(b, kx, ky)
    BY <1>1, <1>2, <1>3
  <2> HIDE DEF a, b
  <2>2. Crosses(Stretch(p, kx, ky), Stretch(a, kx, ky), Stretch(b, kx, ky)) <=> Crosses(p, a, b)
    BY <2>1, CrossingsStretch
  <2> QED
    BY <2>1, <2>2 DEF a, b
<1> HIDE DEF sp
<1>5. Crossed(sp, s) = Crossed(p, polygon)
  BY <1>1, <1>4 DEF Crossed
<1>6. (Inside(sp, s) <=> Cardinality(Crossed(sp, s)) % 2 = 1)
      /\ (Inside(p, polygon) <=> Cardinality(Crossed(p, polygon)) % 2 = 1)
  BY DEF Inside, Crossed
<1> QED
  BY <1>5, <1>6 DEF s, sp

\* Sums run up as polygon_area does it, corner by corner, exist.
LEMMA SumsExist ==
  ASSUME NEW N \in Nat, NEW term \in [1..N -> Int]
  PROVE  \E f \in [0..N -> Int] :
           f[0] = 0 /\ \A n \in 1..N : f[n] = f[n - 1] + term[n]
<1> DEFINE Sums(f, m) == /\ f \in [0..m -> Int] /\ f[0] = 0
                         /\ \A n \in 1..m : f[n] = f[n - 1] + term[n]
           T == {m \in Nat : m <= N => \E f : Sums(f, m)}
<1>1. 0 \in T
  <2>1. Sums([n \in 0..0 |-> 0], 0)
    OBVIOUS
  <2> QED
    BY <2>1
<1>2. ASSUME NEW m \in Nat, m \in T PROVE m + 1 \in T
  <2> SUFFICES ASSUME m + 1 <= N PROVE \E g : Sums(g, m + 1)
    <3> HIDE DEF Sums
    <3> QED
      OBVIOUS
  <2>1. PICK f : Sums(f, m)
    <3> HIDE DEF Sums
    <3>1. m <= N
      OBVIOUS
    <3> QED
      BY <1>2, <3>1
  <2> DEFINE last == f[m] + term[m + 1]
             g == [n \in 0..(m + 1) |-> IF n = m + 1 THEN last ELSE f[n]]
  <2>2. f[m] \in Int /\ term[m + 1] \in Int
    <3>1. m \in 0..m /\ m + 1 \in 1..N
      OBVIOUS
    <3> QED
      BY <2>1, <3>1
  <2>3. last \in Int /\ \A n \in 0..m : f[n] \in Int
    BY <2>1, <2>2
  <2>4. /\ \A n \in 0..(m + 1) : n \in 0..m \/ n = m + 1
        /\ \A n \in 1..(m + 1) : n - 1 \in 0..m /\ (n = m + 1 \/ n \in 1..m)
        /\ \A n \in 0..m : n \in 0..(m + 1) /\ n # m + 1
        /\ 0 \in 0..m /\ m + 1 \in 0..(m + 1) /\ (m + 1) - 1 = m
    OBVIOUS
  <2> HIDE DEF last
  <2>5. g \in [0..(m + 1) -> Int]
    BY <2>3, <2>4
  <2>6. g[m + 1] = last /\ \A n \in 0..m : g[n] = f[n]
    BY <2>4
  <2> HIDE DEF g
  <2>7. g[0] = 0
    BY <2>1, <2>4, <2>6
  <2>8. ASSUME NEW n \in 1..(m + 1) PROVE g[n] = g[n - 1] + term[n]
    <3>1. CASE n = m + 1
      <4>1. g[n - 1] = f[m]
        BY <2>4, <2>6, <3>1
      <4> QED
        BY <2>6, <3>1, <4>1 DEF last
    <3>2. CASE n \in 1..m
      <4>1. g[n] = f[n] /\ g[n - 1] = f[n - 1] /\ f[n] = f[n - 1] + term[n]
        BY <2>1, <2>4, <2>6, <3>2
      <4> QED
        BY <4>1
    <3> QED
      BY <2>4, <3>1, <3>2
  <2>9. Sums(g, m + 1)
    BY <2>5, <2>7, <2>8
  <2> HIDE DEF Sums
  <2> QED
    BY <2>9
<1> HIDE DEF T
<1>3. Nat \subseteq T
  BY <1>1, <1>2, NatSteps
<1>4. PICK f : Sums(f, N)
  <2> HIDE DEF Sums
  <2> QED
    BY <1>3 DEF T
<1> QED
  BY <1>4

LEMMA AreaIsItsSum ==
  ASSUME NEW polygon \in Polygons
  PROVE  \E f \in [0..Len(polygon) -> Int] :
           /\ Area(polygon) = Distance(0, f[Len(polygon)])
           /\ f[0] = 0
           /\ \A n \in 1..Len(polygon) :
                LET a == polygon[n]  b == polygon[Next1(n, polygon)]
                IN f[n] = f[n - 1] + (a[1] * b[2] - b[1] * a[2])
<1> DEFINE N == Len(polygon)
           to(n) == polygon[Next1(n, polygon)]
           term == [n \in 1..N |-> polygon[n][1] * to(n)[2] - to(n)[1] * polygon[n][2]]
           rule(f) == [n \in 0..N |-> IF n = 0 THEN 0
                                      ELSE f[n - 1] + (polygon[n][1] * to(n)[2] - to(n)[1] * polygon[n][2])]
           r == CHOOSE f : f = rule(f)
<1>1. N \in Nat
  BY CornersArePoints
<1>2. term \in [1..N -> Int]
  <2> SUFFICES ASSUME NEW n \in 1..N
               PROVE  polygon[n][1] * to(n)[2] - to(n)[1] * polygon[n][2] \in Int
    OBVIOUS
  <2>1. /\ polygon[n][1] \in Int /\ polygon[n][2] \in Int
        /\ to(n)[1] \in Int /\ to(n)[2] \in Int
    BY CornersArePoints
  <2> HIDE DEF to
  <2> QED
    BY <2>1
<1>3. \A n \in 1..N : term[n] = polygon[n][1] * to(n)[2] - to(n)[1] * polygon[n][2]
  OBVIOUS
<1> HIDE DEF term
<1>4. PICK g \in [0..N -> Int] : g[0] = 0 /\ \A n \in 1..N : g[n] = g[n - 1] + term[n]
  <2> HIDE DEF N
  <2> QED
    BY <1>1, <1>2, SumsExist
<1> DEFINE step(f, n) == f[n - 1] + (polygon[n][1] * to(n)[2] - to(n)[1] * polygon[n][2])
<1>5. \A n \in 1..N : g[n] = step(g, n)
  BY <1>3, <1>4
<1>6. \A f : rule(f) = [n \in 0..N |-> IF n = 0 THEN 0 ELSE step(f, n)]
  OBVIOUS
<1>7. g = rule(g)
  <2>1. g = [n \in 0..N |-> g[n]]
    OBVIOUS
  <2>2. \A n \in 0..N : g[n] = IF n = 0 THEN 0 ELSE step(g, n)
    <3>1. \A n \in 0..N : n = 0 \/ n \in 1..N
      BY <1>1
    <3> HIDE DEF step
    <3> QED
      BY <1>4, <1>5, <3>1
  <2> HIDE DEF step, rule
  <2> QED
    BY <1>6, <2>1, <2>2
<1>8. r = rule(r)
  <2> HIDE DEF rule
  <2> QED
    BY <1>7
<1>9. Area(polygon) = Distance(0, r[N])
  BY DEF Area
<1> HIDE DEF r
<1>10. r[0] = 0 /\ \A n \in 1..N : r[n] = step(r, n)
  <2>1. r = [n \in 0..N |-> IF n = 0 THEN 0 ELSE step(r, n)]
    BY <1>6, <1>8
  <2> HIDE DEF step
  <2>2. \A n \in 0..N : r[n] = IF n = 0 THEN 0 ELSE step(r, n)
    BY <2>1
  <2>3. 0 \in 0..N /\ \A n \in 1..N : n \in 0..N /\ n # 0
    BY <1>1
  <2> QED
    BY <2>2, <2>3
<1>11. r[N] = g[N]
  <2> DEFINE S == {n \in Nat : n <= N => r[n] = g[n]}
  <2>1. 0 \in S
    BY <1>4, <1>10
  <2>2. ASSUME NEW n \in Nat, n \in S PROVE n + 1 \in S
    <3> SUFFICES ASSUME n + 1 <= N PROVE r[n + 1] = g[n + 1]
      OBVIOUS
    <3>1. n + 1 \in 1..N /\ (n + 1) - 1 = n /\ n <= N
      BY <1>1
    <3>2. r[n] = g[n]
      BY <2>2, <3>1
    <3> QED
      BY <1>5, <1>10, <3>1, <3>2
  <2> HIDE DEF S
  <2>3. Nat \subseteq S
    BY <2>1, <2>2, NatSteps
  <2> QED
    BY <1>1, <2>3 DEF S
<1>12. Area(polygon) = Distance(0, g[N])
  BY <1>9, <1>11
<1> QED
  BY <1>4, <1>5, <1>12

\* geometry.py, polygon_area: the area does not depend on the direction of drawing either.
THEOREM AreaHasNoDirection ==
  ASSUME NEW polygon \in Polygons
  PROVE  Area(Reverse(polygon)) = Area(polygon)
<1> DEFINE N == Len(polygon)
           back == Reverse(polygon)
           term(shape, n) == LET a == shape[n]  b == shape[Next1(n, shape)]
                             IN a[1] * b[2] - b[1] * a[2]
<1>1. N \in Nat /\ N >= 1
  BY CornersArePoints
<1>2. back \in Polygons /\ Len(back) = N
  BY ReversedEdges
<1>3. PICK f \in [0..N -> Int] :
        /\ Area(polygon) = Distance(0, f[N])
        /\ f[0] = 0
        /\ \A n \in 1..N : f[n] = f[n - 1] + term(polygon, n)
  BY AreaIsItsSum
<1>4. PICK g \in [0..N -> Int] :
        /\ Area(back) = Distance(0, g[N])
        /\ g[0] = 0
        /\ \A n \in 1..N : g[n] = g[n - 1] + term(back, n)
  <2> HIDE DEF back, N
  <2>1. \E g \in [0..Len(back) -> Int] :
          /\ Area(back) = Distance(0, g[Len(back)])
          /\ g[0] = 0
          /\ \A n \in 1..Len(back) : g[n] = g[n - 1] + term(back, n)
    BY <1>2, AreaIsItsSum
  <2> QED
    BY <1>2, <2>1
<1>5. ASSUME NEW i \in 1..N
      PROVE  /\ Backward(i, N) \in 1..N /\ term(polygon, Backward(i, N)) \in Int
             /\ term(back, i) = 0 - term(polygon, Backward(i, N))
  <2> DEFINE e == Backward(i, N)
             a == polygon[e]
             b == polygon[Next1(e, polygon)]
  <2>1. e \in 1..N /\ back[i] = b /\ back[Next1(i, back)] = a
    BY ReversedEdges
  <2>2. a[1] \in Int /\ a[2] \in Int /\ b[1] \in Int /\ b[2] \in Int
    <3>1. e \in DOMAIN polygon
      BY <2>1, CornersArePoints
    <3> HIDE DEF e
    <3> QED
      BY <3>1, CornersArePoints
  <2>3. term(back, i) = b[1] * a[2] - a[1] * b[2] /\ term(polygon, e) = a[1] * b[2] - b[1] * a[2]
    BY <2>1
  <2> HIDE DEF a, b, e, term
  <2>4. term(polygon, e) \in Int /\ term(back, i) = 0 - term(polygon, e)
    BY <2>2, <2>3
  <2> QED
    BY <2>1, <2>4 DEF e
<1> HIDE DEF term, back, N
<1>6. \A m \in 0..(N - 1) : g[m] = f[(N - 1) - m] - f[N - 1]
  <2> DEFINE S == {m \in Nat : m <= N - 1 => g[m] = f[(N - 1) - m] - f[N - 1]}
  <2>1. 0 \in S
    <3>1. (N - 1) - 0 = N - 1 /\ N - 1 \in 0..N
      BY <1>1
    <3>2. f[N - 1] \in Int
      BY <3>1
    <3> QED
      BY <1>4, <3>1, <3>2
  <2>2. ASSUME NEW m \in Nat, m \in S PROVE m + 1 \in S
    <3> SUFFICES ASSUME m + 1 <= N - 1
                 PROVE  g[m + 1] = f[(N - 1) - (m + 1)] - f[N - 1]
      OBVIOUS
    <3> DEFINE e == (N - 1) - m
    <3>1. /\ m + 1 \in 1..N /\ (m + 1) - 1 = m /\ m <= N - 1 /\ m + 1 # N
          /\ N - (m + 1) = e /\ e \in 1..N /\ (N - 1) - (m + 1) = e - 1
          /\ e - 1 \in 0..N /\ N - 1 \in 0..N /\ e \in 0..N
      BY <1>1
    <3>2. Backward(m + 1, N) = e
      BY <3>1 DEF Backward
    <3>3. g[m] = f[e] - f[N - 1]
      BY <2>2, <3>1
    <3> HIDE DEF e
    <3>4. f[e] = f[e - 1] + term(polygon, e)
      BY <1>3, <3>1
    <3>5. g[m + 1] = g[m] + term(back, m + 1)
      BY <1>4, <3>1
    <3>6. term(back, m + 1) = 0 - term(polygon, e) /\ term(polygon, e) \in Int
      BY <1>5, <3>1, <3>2
    <3>7. f[e] \in Int /\ f[e - 1] \in Int /\ f[N - 1] \in Int
      BY <3>1
    <3> QED
      BY <3>1, <3>3, <3>4, <3>5, <3>6, <3>7
  <2> HIDE DEF S
  <2>3. Nat \subseteq S
    BY <2>1, <2>2, NatSteps
  <2>4. \A m \in 0..(N - 1) : m \in Nat /\ m <= N - 1
    BY <1>1
  <2> QED
    BY <2>3, <2>4 DEF S
<1>7. g[N] = 0 - f[N] /\ f[N] \in Int
  <2>1. /\ N - 1 \in 0..(N - 1) /\ (N - 1) - (N - 1) = 0 /\ N \in 1..N
        /\ N - 1 \in 0..N /\ N \in 0..N
    BY <1>1
  <2>2. g[N - 1] = f[0] - f[N - 1]
    BY <1>6, <2>1
  <2>3. Backward(N, N) = N
    BY DEF Backward
  <2>4. term(back, N) = 0 - term(polygon, N) /\ term(polygon, N) \in Int
    BY <1>5, <2>1, <2>3
  <2>5. f[N] = f[N - 1] + term(polygon, N) /\ g[N] = g[N - 1] + term(back, N)
    BY <1>3, <1>4, <2>1
  <2>6. f[N] \in Int /\ f[N - 1] \in Int
    BY <2>1
  <2> QED
    BY <1>3, <2>2, <2>4, <2>5, <2>6
<1> DEFINE x == f[N]
<1>8. Area(polygon) = Distance(0, x) /\ Area(back) = Distance(0, 0 - x) /\ x \in Int
  BY <1>3, <1>4, <1>7
<1> HIDE DEF x
<1>9. Distance(0, 0 - x) = Distance(0, x)
  BY <1>8 DEF Distance
<1> QED
  BY <1>8, <1>9 DEF back

LEMMA ProductsRegroup ==
  ASSUME NEW m \in Int, NEW n \in Int, NEW x \in Int, NEW y \in Int
  PROVE  (m * x) * (n * y) = (m * n) * (x * y)
  OBVIOUS

\* geometry.py, scale_polygon: all areas grow by the same factor, so that the smallest bay
\* of the map is the smallest in every frame.
THEOREM AreasStretch ==
  ASSUME NEW polygon \in Polygons, NEW kx \in Nat \ {0}, NEW ky \in Nat \ {0}
  PROVE  /\ Area(polygon) \in Int
         /\ Area(Stretched(polygon, kx, ky)) = (kx * ky) * Area(polygon)
<1> DEFINE N == Len(polygon)
           s == Stretched(polygon, kx, ky)
           k == kx * ky
<1>1. /\ N \in Nat /\ DOMAIN polygon = 1..N
      /\ \A n \in 1..N : /\ polygon[n] \in Points /\ Next1(n, polygon) \in 1..N
                         /\ Next1(n, s) = Next1(n, polygon)
  BY CornersArePoints, StretchedIsPolygon DEF Next1
<1>2. PICK f \in [0..N -> Int] :
        /\ Area(polygon) = Distance(0, f[N])
        /\ f[0] = 0
        /\ \A n \in 1..N :
             LET a == polygon[n]  b == polygon[Next1(n, polygon)]
             IN f[n] = f[n - 1] + (a[1] * b[2] - b[1] * a[2])
  BY AreaIsItsSum
<1>3. s \in Polygons /\ Len(s) = N
  BY StretchedIsPolygon
<1>4. \A n \in 1..N : s[n] = Stretch(polygon[n], kx, ky)
  BY <1>1 DEF Stretched
<1> HIDE DEF s
<1>5. PICK g \in [0..Len(s) -> Int] :
        /\ Area(s) = Distance(0, g[Len(s)])
        /\ g[0] = 0
        /\ \A n \in 1..Len(s) :
             LET a == s[n]  b == s[Next1(n, s)]
             IN g[n] = g[n - 1] + (a[1] * b[2] - b[1] * a[2])
  BY <1>3, AreaIsItsSum
<1>6. k \in Nat /\ k > 0
  <2>1. k \in Int /\ k > 0
    BY ProductsOfSigns
  <2> QED
    BY <2>1
<1> HIDE DEF N
<1>7. g[N] = k * f[N]
  <2> DEFINE S == {n \in Nat : n <= N => g[n] = k * f[n]}
  <2>1. 0 \in S
    BY <1>2, <1>5, <1>6
  <2>2. ASSUME NEW n \in Nat, n \in S PROVE n + 1 \in S
    <3> SUFFICES ASSUME n + 1 <= N PROVE g[n + 1] = k * f[n + 1]
      OBVIOUS
    <3> DEFINE m == n + 1
               a == polygon[m]
               b == polygon[Next1(m, polygon)]
    <3>1. m \in 1..N /\ m - 1 = n /\ n \in 0..N /\ n <= N
      BY <1>1
    <3>2. a \in Points /\ b \in Points
      BY <1>1, <3>1
    <3>3. a[1] \in Int /\ a[2] \in Int /\ b[1] \in Int /\ b[2] \in Int /\ f[n] \in Int
      BY <3>1, <3>2 DEF Points
    <3>4. s[m] = Stretch(a, kx, ky) /\ s[Next1(m, s)] = Stretch(b, kx, ky)
      BY <1>1, <1>4, <3>1
    <3>5. g[n] = k * f[n]
      BY <2>2, <3>1
    <3>6. f[m] = f[n] + (a[1] * b[2] - b[1] * a[2])
      BY <1>2, <3>1
    <3>7. g[m] = g[n] + ((kx * a[1]) * (ky * b[2]) - (kx * b[1]) * (ky * a[2]))
      BY <1>3, <1>5, <3>1, <3>4 DEF Stretch
    <3> HIDE DEF a, b
    <3>8. (kx * a[1]) * (ky * b[2]) = k * (a[1] * b[2])
          /\ (kx * b[1]) * (ky * a[2]) = k * (b[1] * a[2])
      <4>1. (kx * a[1]) * (ky * b[2]) = k * (a[1] * b[2])
        BY <3>3, ProductsRegroup
      <4>2. (kx * b[1]) * (ky * a[2]) = k * (b[1] * a[2])
        BY <3>3, ProductsRegroup
      <4> QED
        BY <4>1, <4>2
    <3> DEFINE t == a[1] * b[2]
               u == b[1] * a[2]
    <3>9. t \in Int /\ u \in Int
      BY <3>3
    <3>10. g[m] = k * f[n] + (k * t - k * u) /\ f[m] = f[n] + (t - u)
      <4> HIDE DEF k, m
      <4> QED
        BY <3>5, <3>6, <3>7, <3>8
    <3> HIDE DEF t, u, k
    <3> QED
      BY <1>6, <3>3, <3>9, <3>10
  <2> HIDE DEF S
  <2>3. Nat \subseteq S
    BY <2>1, <2>2, NatSteps
  <2> QED
    BY <1>1, <2>3 DEF S
<1>8. f[N] \in Int /\ g[N] \in Int
  BY <1>1, <1>3
<1> DEFINE x == f[N]
<1>9. Area(polygon) = Distance(0, x) /\ Area(s) = Distance(0, k * x) /\ x \in Int
  BY <1>2, <1>3, <1>5, <1>7, <1>8
<1> HIDE DEF x, k
<1>10. Distance(0, x) \in Int /\ Distance(0, k * x) = k * Distance(0, x)
  <2>1. k * x \in Int /\ (x >= 0 => k * x >= 0) /\ (x < 0 => k * x < 0)
    <3>1. x * k = k * x
      BY <1>6, <1>9
    <3> QED
      BY <1>6, <1>9, <3>1, ProductsOfSigns
  <2>2. k * (0 - x) = 0 - k * x
    BY <1>6, <1>9
  <2> QED
    BY <1>6, <1>9, <2>1, <2>2 DEF Distance
<1> QED
  BY <1>9, <1>10 DEF s, k

-----------------------------------------------------------------------------
(* Ray casting is right about convex polygons *)

\* Each corner lies to the inner side of every edge it is not an end of.
IsConvex(polygon) ==
  /\ Len(polygon) >= 3
  /\ \A i, k \in DOMAIN polygon :
       k \notin {i, Next1(i, polygon)} =>
         Side(polygon[k], polygon[i], polygon[Next1(i, polygon)]) > 0

\* An edge that comes down over the height q, y growing downwards, and one that goes up.
Falls(a, b, q) == a[2] <= q /\ q < b[2]

LEMMA EdgesFallOrRise ==
  ASSUME NEW p \in Points, NEW a \in Points, NEW b \in Points
  PROVE  /\ Side(p, a, b) \in Int
         /\ Straddles(p, a, b) <=> Falls(a, b, p[2]) \/ Falls(b, a, p[2])
         /\ ~(Falls(a, b, p[2]) /\ Falls(b, a, p[2]))
         /\ Falls(a, b, p[2]) => (Crosses(p, a, b) <=> Side(p, a, b) > 0)
         /\ Falls(b, a, p[2]) => (Crosses(p, a, b) <=> Side(p, a, b) < 0)
<1>1. /\ p[1] \in Int /\ p[2] \in Int /\ a[1] \in Int /\ a[2] \in Int
      /\ b[1] \in Int /\ b[2] \in Int
  BY DEF Points
<1> DEFINE across == (p[1] - a[1]) * (b[2] - a[2])
           along  == (b[1] - a[1]) * (p[2] - a[2])
<1>2. Side(p, a, b) = along - across
  BY <1>1 DEF Side
<1>3. across \in Int /\ along \in Int
  BY <1>1
<1>4. Straddles(p, a, b) <=> Falls(a, b, p[2]) \/ Falls(b, a, p[2])
  BY <1>1 DEF Straddles, Falls
<1>5. Crosses(p, a, b) <=> /\ Straddles(p, a, b)
                           /\ IF b[2] > a[2] THEN across < along ELSE across > along
  BY DEF Crosses, IsLeftOfEdge, Straddles
<1> HIDE DEF across, along
<1>6. /\ Falls(a, b, p[2]) => b[2] > a[2]
      /\ Falls(b, a, p[2]) => ~(b[2] > a[2])
  BY <1>1 DEF Falls
<1> QED
  BY <1>2, <1>3, <1>4, <1>5, <1>6

\* Where an edge that falls from a to b meets the height q: at x, times the fall.
Fall(a, b) == b[2] - a[2]

Meets(a, b, q) == a[1] * (b[2] - q) + b[1] * (q - a[2])

\* The side of that point, times the fall, for the edge from c to d.
SideAt(c, d, h, x, q) == h * ((d[1] - c[1]) * (q - c[2])) - (d[2] - c[2]) * (x - h * c[1])

LEMMA MeetingPoints ==
  ASSUME NEW a \in Points, NEW b \in Points, NEW c \in Points, NEW d \in Points,
         NEW q \in Int, Falls(a, b, q)
  PROVE  /\ Fall(a, b) \in Nat \ {0} /\ Meets(a, b, q) \in Int
         /\ SideAt(c, d, Fall(a, b), Meets(a, b, q), q) \in Int
         /\ Side(a, c, d) >= 0 /\ Side(b, c, d) >= 0
              => SideAt(c, d, Fall(a, b), Meets(a, b, q), q) >= 0
         /\ Side(a, c, d) > 0 /\ Side(b, c, d) > 0
              => SideAt(c, d, Fall(a, b), Meets(a, b, q), q) > 0
<1>1. /\ a[1] \in Int /\ a[2] \in Int /\ b[1] \in Int /\ b[2] \in Int
      /\ c[1] \in Int /\ c[2] \in Int /\ d[1] \in Int /\ d[2] \in Int
      /\ a[2] <= q /\ q < b[2]
  BY DEF Points, Falls
<1> DEFINE v == b[2] - q
           w == q - a[2]
<1>2. v \in Int /\ w \in Int /\ v > 0 /\ w >= 0
  BY <1>1
<1>3. SideAt(c, d, Fall(a, b), Meets(a, b, q), q) = Side(a, c, d) * v + Side(b, c, d) * w
  <2> DEFINE e == d[1] - c[1]
             g == d[2] - c[2]
             ax == a[1] - c[1]
             ay == a[2] - c[2]
             bx == b[1] - c[1]
             by == b[2] - c[2]
  <2>1. Fall(a, b) * (q - c[2]) = ay * v + by * w
    BY <1>1 DEF Fall
  <2>2. Meets(a, b, q) - Fall(a, b) * c[1] = ax * v + bx * w
    <3>1. Meets(a, b, q) = a[1] * v + b[1] * w /\ Fall(a, b) = v + w
      BY <1>1 DEF Meets, Fall
    <3> HIDE DEF v, w
    <3> QED
      BY <1>1, <1>2, <3>1
  <2>3. /\ e \in Int /\ g \in Int /\ ax \in Int /\ ay \in Int /\ bx \in Int /\ by \in Int
        /\ Fall(a, b) \in Int /\ q - c[2] \in Int
    BY <1>1 DEF Fall
  <2>4. Fall(a, b) * (e * (q - c[2])) = e * (Fall(a, b) * (q - c[2]))
    BY <2>3
  <2>5. SideAt(c, d, Fall(a, b), Meets(a, b, q), q) = e * (ay * v + by * w) - g * (ax * v + bx * w)
    BY <2>1, <2>2, <2>4 DEF SideAt
  <2>6. Side(a, c, d) = e * ay - g * ax /\ Side(b, c, d) = e * by - g * bx
    BY DEF Side
  <2> HIDE DEF e, g, ax, ay, bx, by, v, w
  <2>7. e * (ay * v + by * w) - g * (ax * v + bx * w)
          = (e * ay - g * ax) * v + (e * by - g * bx) * w
    BY <1>2, <2>3
  <2> QED
    BY <2>5, <2>6, <2>7
<1>4. Side(a, c, d) \in Int /\ Side(b, c, d) \in Int
  BY EdgesFallOrRise
<1>5. Fall(a, b) \in Nat \ {0} /\ Meets(a, b, q) \in Int
  BY <1>1 DEF Fall, Meets
<1> HIDE DEF v, w
<1> DEFINE x == Side(a, c, d)
           y == Side(b, c, d)
<1>6. x \in Int /\ y \in Int
  BY <1>4
<1> HIDE DEF x, y
<1>7. /\ x * v \in Int /\ y * w \in Int
      /\ x >= 0 => x * v >= 0
      /\ x > 0 => x * v > 0
      /\ y >= 0 => y * w >= 0
  BY <1>2, <1>6, ProductsOfSigns
<1>8. /\ x * v + y * w \in Int
      /\ x >= 0 /\ y >= 0 => x * v + y * w >= 0
      /\ x > 0 /\ y > 0 => x * v + y * w > 0
  BY <1>6, <1>7
<1> QED
  BY <1>3, <1>5, <1>8 DEF x, y

\* Of two edges over one height.
LEMMA MeetingsCompare ==
  ASSUME NEW a \in Points, NEW b \in Points, NEW q \in Int, NEW h \in Int, NEW x \in Int
  PROVE  /\ SideAt(a, b, h, x, q) = h * Meets(a, b, q) - Fall(a, b) * x
         /\ SideAt(b, a, h, x, q) = Fall(a, b) * x - h * Meets(a, b, q)
<1>1. a[1] \in Int /\ a[2] \in Int /\ b[1] \in Int /\ b[2] \in Int
  BY DEF Points
<1>2. SideAt(a, b, h, x, q) = h * Meets(a, b, q) - Fall(a, b) * x
  BY <1>1 DEF SideAt, Meets, Fall
<1>3. SideAt(b, a, h, x, q) = Fall(a, b) * x - h * Meets(a, b, q)
  BY <1>1 DEF SideAt, Meets, Fall
<1> QED
  BY <1>2, <1>3

\* Of a point, and where an edge meets its height.
LEMMA PointsCompare ==
  ASSUME NEW a \in Points, NEW b \in Points, NEW p \in Points
  PROVE  /\ Side(p, a, b) = Meets(a, b, p[2]) - Fall(a, b) * p[1]
         /\ Side(p, b, a) = Fall(a, b) * p[1] - Meets(a, b, p[2])
<1>1. /\ p[1] \in Int /\ p[2] \in Int /\ a[1] \in Int /\ a[2] \in Int
      /\ b[1] \in Int /\ b[2] \in Int
  BY DEF Points
<1>2. Side(p, a, b) = Meets(a, b, p[2]) - Fall(a, b) * p[1]
  BY <1>1 DEF Side, Meets, Fall
<1>3. Side(p, b, a) = Fall(a, b) * p[1] - Meets(a, b, p[2])
  BY <1>1 DEF Side, Meets, Fall
<1> QED
  BY <1>2, <1>3

\* A tip that points up or down has nothing beyond it: a point to the inner side of the two
\* edges at a convex corner is neither above a corner that is above both its neighbours nor
\* below one that is below them.
LEMMA NothingBeyondATip ==
  ASSUME NEW p \in Points, NEW a \in Points, NEW m \in Points, NEW b \in Points,
         Side(p, a, m) > 0, Side(p, m, b) > 0, Side(b, a, m) > 0
  PROVE  /\ ~(a[2] >= m[2] /\ b[2] >= m[2] /\ p[2] < m[2])
         /\ ~(a[2] <= m[2] /\ b[2] <= m[2] /\ p[2] >= m[2])
<1>1. /\ p[1] \in Int /\ p[2] \in Int /\ a[1] \in Int /\ a[2] \in Int
      /\ b[1] \in Int /\ b[2] \in Int /\ m[1] \in Int /\ m[2] \in Int
  BY DEF Points
<1> DEFINE r == Side(p, a, m)
           s == Side(p, m, b)
           t == Side(b, a, m)
           u == a[2] - m[2]
           v == b[2] - m[2]
           w == p[2] - m[2]
<1>2. t * w = s * u + r * v
  BY <1>1 DEF Side
<1>3. r \in Int /\ s \in Int /\ t \in Int /\ r > 0 /\ s > 0 /\ t > 0
  BY EdgesFallOrRise
<1>4. u \in Int /\ v \in Int /\ w \in Int
  BY <1>1
<1>5. t = (b[2] - m[2]) * (a[1] - m[1]) * (0 - 1) + (a[2] - m[2]) * (b[1] - m[1])
  BY <1>1 DEF Side
<1>6. u = 0 /\ v = 0 => t = 0
  BY <1>1, <1>5
<1> HIDE DEF r, s, t, u, v, w
<1>7. u * s = s * u /\ v * r = r * v /\ w * t = t * w
  BY <1>3, <1>4
<1>8. ~(u >= 0 /\ v >= 0 /\ w < 0)
  <2> SUFFICES ASSUME u >= 0, v >= 0, w < 0 PROVE FALSE
    OBVIOUS
  <2>1. s * u >= 0 /\ r * v >= 0 /\ w * t < 0 /\ s * u \in Int /\ r * v \in Int /\ w * t \in Int
    BY <1>3, <1>4, ProductsOfSigns
  <2> QED
    BY <1>2, <1>7, <2>1
<1>9. ~(u <= 0 /\ v <= 0 /\ w >= 0)
  <2> SUFFICES ASSUME u <= 0, v <= 0, w >= 0 PROVE FALSE
    OBVIOUS
  <2>1. /\ u * s <= 0 /\ v * r <= 0 /\ t * w >= 0
        /\ u * s \in Int /\ v * r \in Int /\ t * w \in Int
    BY <1>3, <1>4, ProductsOfSigns
  <2>2. (u < 0 => u * s < 0) /\ (v < 0 => v * r < 0)
    BY <1>3, <1>4, ProductsOfSigns
  <2>3. u * s = 0 /\ v * r = 0
    BY <1>2, <1>7, <2>1
  <2>4. u = 0 /\ v = 0
    BY <1>4, <2>2, <2>3
  <2> QED
    BY <1>3, <1>6, <2>4
<1>10. /\ u >= 0 <=> a[2] >= m[2]
       /\ u <= 0 <=> a[2] <= m[2]
       /\ v >= 0 <=> b[2] >= m[2]
       /\ v <= 0 <=> b[2] <= m[2]
       /\ w < 0 <=> p[2] < m[2]
       /\ w >= 0 <=> p[2] >= m[2]
  BY <1>1 DEF u, v, w
<1> QED
  BY <1>8, <1>9, <1>10

\* No corner of a convex polygon lies to the outer side of an edge; and the ends of an edge
\* that shares none with another lie to its inner side.
LEMMA CornersAreInside ==
  ASSUME NEW polygon \in Polygons, IsConvex(polygon),
         NEW i \in DOMAIN polygon, NEW k \in DOMAIN polygon
  PROVE  Side(polygon[k], polygon[i], polygon[Next1(i, polygon)]) >= 0
<1> DEFINE a == polygon[i]
           b == polygon[Next1(i, polygon)]
           c == polygon[k]
<1>1. a \in Points /\ b \in Points /\ c \in Points
  BY CornersArePoints
<1>2. Side(c, a, b) \in Int /\ Side(a, a, b) = 0 /\ Side(b, a, b) = 0
  <2> HIDE DEF a, b, c
  <2>1. a[1] \in Int /\ a[2] \in Int /\ b[1] \in Int /\ b[2] \in Int
    BY <1>1 DEF Points
  <2>2. Side(a, a, b) = 0 /\ Side(b, a, b) = 0
    BY <2>1 DEF Side
  <2> QED
    BY <1>1, <2>2, EdgesFallOrRise
<1>3. k \notin {i, Next1(i, polygon)} => Side(c, a, b) > 0
  BY DEF IsConvex
<1>4. k = i => c = a
  OBVIOUS
<1>5. k = Next1(i, polygon) => c = b
  OBVIOUS
<1> HIDE DEF a, b, c
<1>6. Side(c, a, b) >= 0
  BY <1>2, <1>3, <1>4, <1>5
<1> QED
  BY <1>6 DEF a, b, c

LEMMA NextIsOne ==
  ASSUME NEW polygon \in Polygons, NEW i \in DOMAIN polygon, NEW j \in DOMAIN polygon,
         Next1(i, polygon) = Next1(j, polygon)
  PROVE  i = j
<1> DEFINE N == Len(polygon)
<1>1. N \in Nat \ {0} /\ i \in 1..N /\ j \in 1..N
  BY CornersArePoints
<1>2. (i % N) + 1 = (j % N) + 1
  BY DEF Next1
<1> HIDE DEF N
<1>3. \A k \in 1..N : (k < N /\ k % N = k) \/ (k = N /\ k % N = 0)
  BY <1>1
<1> QED
  BY <1>1, <1>2, <1>3

\* Where edge i of a polygon begins and ends.
From(polygon, i) == polygon[i]

To(polygon, i) == polygon[Next1(i, polygon)]

\* Over one height at most one edge of a convex polygon falls, and at most one rises.
LEMMA OneFallsOneRises ==
  ASSUME NEW polygon \in Polygons, IsConvex(polygon), NEW q \in Int,
         NEW i \in DOMAIN polygon, NEW j \in DOMAIN polygon
  PROVE  /\ Falls(From(polygon, i), To(polygon, i), q) /\ Falls(From(polygon, j), To(polygon, j), q)
              => i = j
         /\ Falls(To(polygon, i), From(polygon, i), q) /\ Falls(To(polygon, j), From(polygon, j), q)
              => i = j
<1> DEFINE a == From(polygon, i)
           b == To(polygon, i)
           c == From(polygon, j)
           d == To(polygon, j)
<1>1. a \in Points /\ b \in Points /\ c \in Points /\ d \in Points
      /\ Next1(i, polygon) \in DOMAIN polygon /\ Next1(j, polygon) \in DOMAIN polygon
  BY CornersArePoints DEF From, To
<1>2. /\ a[1] \in Int /\ a[2] \in Int /\ b[1] \in Int /\ b[2] \in Int
      /\ c[1] \in Int /\ c[2] \in Int /\ d[1] \in Int /\ d[2] \in Int
  <2> HIDE DEF a, b, c, d
  <2> QED
    BY <1>1 DEF Points
<1>3. j = Next1(i, polygon) => c = b
  BY DEF From, To
<1>4. i = Next1(j, polygon) => a = d
  BY DEF From, To
<1>5. ASSUME i # j, j # Next1(i, polygon), i # Next1(j, polygon)
      PROVE  /\ Side(c, a, b) > 0 /\ Side(d, a, b) > 0
             /\ Side(a, c, d) > 0 /\ Side(b, c, d) > 0
  <2>1. Next1(i, polygon) # Next1(j, polygon)
    BY <1>5, NextIsOne
  <2>2. /\ j \notin {i, Next1(i, polygon)} /\ Next1(j, polygon) \notin {i, Next1(i, polygon)}
        /\ i \notin {j, Next1(j, polygon)} /\ Next1(i, polygon) \notin {j, Next1(j, polygon)}
    BY <1>5, <2>1
  <2> QED
    BY <1>1, <2>2 DEF IsConvex, From, To
<1> HIDE DEF a, b, c, d
<1>6. ASSUME Falls(a, b, q), Falls(c, d, q) PROVE i = j
  <2> SUFFICES ASSUME i # j PROVE FALSE
    OBVIOUS
  <2>1. j # Next1(i, polygon) /\ i # Next1(j, polygon)
    BY <1>2, <1>3, <1>4, <1>6 DEF Falls
  <2> DEFINE h == Fall(a, b)
             x == Meets(a, b, q)
             g == Fall(c, d)
             y == Meets(c, d, q)
  <2>2. SideAt(a, b, g, y, q) > 0 /\ SideAt(c, d, h, x, q) > 0
    BY <1>1, <1>5, <1>6, <2>1, MeetingPoints
  <2>3. h \in Int /\ x \in Int /\ g \in Int /\ y \in Int
    BY <1>1, <1>6, MeetingPoints
  <2> HIDE DEF h, x, g, y
  <2>4. SideAt(a, b, g, y, q) = g * x - h * y /\ SideAt(c, d, h, x, q) = h * y - g * x
    BY <1>1, <2>3, MeetingsCompare DEF h, x, g, y
  <2>5. g * x \in Int /\ h * y \in Int
    BY <2>3
  <2> QED
    BY <2>2, <2>4, <2>5
<1>7. ASSUME Falls(b, a, q), Falls(d, c, q) PROVE i = j
  <2> SUFFICES ASSUME i # j PROVE FALSE
    OBVIOUS
  <2>1. j # Next1(i, polygon) /\ i # Next1(j, polygon)
    BY <1>2, <1>3, <1>4, <1>7 DEF Falls
  <2> DEFINE h == Fall(b, a)
             x == Meets(b, a, q)
             g == Fall(d, c)
             y == Meets(d, c, q)
  <2>2. SideAt(a, b, g, y, q) > 0 /\ SideAt(c, d, h, x, q) > 0
    BY <1>1, <1>5, <1>7, <2>1, MeetingPoints
  <2>3. h \in Int /\ x \in Int /\ g \in Int /\ y \in Int
    BY <1>1, <1>7, MeetingPoints
  <2> HIDE DEF h, x, g, y
  <2>4. SideAt(a, b, g, y, q) = h * y - g * x /\ SideAt(c, d, h, x, q) = g * x - h * y
    BY <1>1, <2>3, MeetingsCompare DEF h, x, g, y
  <2>5. g * x \in Int /\ h * y \in Int
    BY <2>3
  <2> QED
    BY <2>2, <2>4, <2>5
<1> QED
  BY <1>6, <1>7 DEF a, b, c, d

\* Over a height some edge falls if and only if some edge rises.
LEMMA WhatFallsRises ==
  ASSUME NEW polygon \in Polygons, IsConvex(polygon), NEW p \in Points,
         Straddlers(p, polygon) # {}
  PROVE  \E i, j \in DOMAIN polygon :
           /\ Straddlers(p, polygon) = {i, j}
           /\ Falls(From(polygon, i), To(polygon, i), p[2])
           /\ Falls(To(polygon, j), From(polygon, j), p[2])
<1> DEFINE D == DOMAIN polygon
           all == Straddlers(p, polygon)
           falls(i) == Falls(From(polygon, i), To(polygon, i), p[2])
           rises(i) == Falls(To(polygon, i), From(polygon, i), p[2])
<1>1. p[2] \in Int
  BY DEF Points
<1>2. all \subseteq D /\ \A i \in D : i \in all <=> falls(i) \/ rises(i)
  <2>1. all \subseteq D
    BY DEF Straddlers
  <2>2. ASSUME NEW i \in D PROVE i \in all <=> falls(i) \/ rises(i)
    <3>1. From(polygon, i) \in Points /\ To(polygon, i) \in Points
      BY CornersArePoints DEF From, To
    <3>2. Straddles(p, From(polygon, i), To(polygon, i)) <=> falls(i) \/ rises(i)
      BY <3>1, EdgesFallOrRise
    <3> QED
      BY <3>2 DEF Straddlers, From, To
  <2> QED
    BY <2>1, <2>2
<1>3. ASSUME NEW i \in D, NEW j \in D
      PROVE  (falls(i) /\ falls(j) => i = j) /\ (rises(i) /\ rises(j) => i = j)
  BY <1>1, OneFallsOneRises
<1>4. Cardinality(all) % 2 = 0
  BY StraddlersAreEven
<1> HIDE DEF all, falls, rises, D
<1>5. PICK i \in all : TRUE
  BY DEF all
<1>6. PICK j \in all : j # i
  <2> SUFFICES ASSUME all = {i} PROVE FALSE
    BY <1>5
  <2>1. Cardinality({i}) = 1
    BY FS_Singleton
  <2> QED
    BY <1>4, <2>1
<1>7. ASSUME NEW k \in all PROVE k \in {i, j}
  BY <1>2, <1>3, <1>5, <1>6, <1>7
<1>8. all = {i, j}
  BY <1>5, <1>6, <1>7
<1>9. (falls(i) /\ rises(j)) \/ (falls(j) /\ rises(i))
  BY <1>2, <1>3, <1>5, <1>6
<1>10. i \in D /\ j \in D /\ {i, j} = {j, i}
  BY <1>2, <1>5, <1>6
<1>11. \E k, l \in D : all = {k, l} /\ falls(k) /\ rises(l)
  BY <1>8, <1>9, <1>10
<1> QED
  BY <1>11 DEF all, falls, rises, D

LEMMA Neighbours ==
  ASSUME NEW N \in Nat, N >= 3, NEW m \in 1..N
  PROVE  LET l == IF m = 1 THEN N ELSE m - 1
             r == (m % N) + 1
         IN l \in 1..N /\ r \in 1..N /\ (l % N) + 1 = m /\ l # m /\ r # m /\ r # l
<1>1. \A k \in 1..N : (k < N /\ k % N = k) \/ (k = N /\ k % N = 0)
  OBVIOUS
<1>2. CASE m = 1
  BY <1>1, <1>2
<1>3. CASE m = N
  <2>1. m - 1 \in 1..N /\ m - 1 < N /\ m # 1
    BY <1>3
  <2> QED
    BY <1>1, <1>3, <2>1
<1>4. CASE m # 1 /\ m # N
  <2>1. m - 1 \in 1..N /\ m - 1 < N /\ m < N
    BY <1>4
  <2> QED
    BY <1>1, <1>4, <2>1
<1> QED
  BY <1>2, <1>3, <1>4

\* A point to the inner side of every edge has corners above and below it.
LEMMA InsideIsBetween ==
  ASSUME NEW polygon \in Polygons, IsConvex(polygon), NEW p \in Points,
         \A s \in Sides(p, polygon) : s > 0
  PROVE  Straddlers(p, polygon) # {}
<1> SUFFICES ASSUME Straddlers(p, polygon) = {} PROVE FALSE
  OBVIOUS
<1> DEFINE N == Len(polygon)
           y(i) == polygon[i][2]
<1>1. /\ N \in Nat \ {0} /\ DOMAIN polygon = 1..N /\ N >= 3
      /\ \A i \in 1..N : /\ polygon[i] \in Points /\ y(i) \in Int
                         /\ Next1(i, polygon) \in 1..N
  BY CornersArePoints DEF IsConvex
<1>2. p[2] \in Int
  BY DEF Points
<1>3. \A i \in 1..N : y(i) > p[2] <=> y(Next1(i, polygon)) > p[2]
  <2> SUFFICES ASSUME NEW i \in 1..N PROVE y(i) > p[2] <=> y(Next1(i, polygon)) > p[2]
    OBVIOUS
  <2>1. ~Straddles(p, polygon[i], polygon[Next1(i, polygon)])
    BY <1>1 DEF Straddlers
  <2> QED
    BY <2>1 DEF Straddles
\* A corner, and the two beside it.
<1>4. ASSUME NEW m \in 1..N
      PROVE  \E l \in 1..N, r \in 1..N :
               /\ y(l) > p[2] <=> y(m) > p[2]
               /\ y(r) > p[2] <=> y(m) > p[2]
               /\ ~(y(l) >= y(m) /\ y(r) >= y(m) /\ p[2] < y(m))
               /\ ~(y(l) <= y(m) /\ y(r) <= y(m) /\ p[2] >= y(m))
  <2> DEFINE l == IF m = 1 THEN N ELSE m - 1
             r == Next1(m, polygon)
  <2>1. l \in 1..N /\ r \in 1..N /\ Next1(l, polygon) = m /\ l # m /\ r # m /\ r # l
    <3>1. r = (m % N) + 1 /\ Next1(l, polygon) = (l % N) + 1
      BY DEF Next1
    <3> HIDE DEF N, r
    <3> QED
      BY <1>1, <3>1, Neighbours
  <2> HIDE DEF l, r
  <2>2. Side(polygon[r], polygon[l], polygon[m]) > 0
    BY <1>1, <2>1 DEF IsConvex
  <2>3. Side(p, polygon[l], polygon[m]) > 0
    <3>1. Side(p, polygon[l], polygon[Next1(l, polygon)]) \in Sides(p, polygon)
      BY <1>1, <2>1 DEF Sides
    <3> QED
      BY <2>1, <3>1
  <2>4. Side(p, polygon[m], polygon[r]) > 0
    <3>1. Side(p, polygon[m], polygon[Next1(m, polygon)]) \in Sides(p, polygon)
      BY <1>1 DEF Sides
    <3> QED
      BY <3>1 DEF r
  <2>5. polygon[l] \in Points /\ polygon[m] \in Points /\ polygon[r] \in Points
    BY <1>1, <2>1
  <2>6. /\ ~(y(l) >= y(m) /\ y(r) >= y(m) /\ p[2] < y(m))
        /\ ~(y(l) <= y(m) /\ y(r) <= y(m) /\ p[2] >= y(m))
    BY <2>2, <2>3, <2>4, <2>5, NothingBeyondATip
  <2>7. (y(l) > p[2] <=> y(m) > p[2]) /\ (y(r) > p[2] <=> y(m) > p[2])
    <3>1. y(l) > p[2] <=> y(m) > p[2]
      BY <1>3, <2>1
    <3>2. y(m) > p[2] <=> y(r) > p[2]
      BY <1>3 DEF r
    <3> QED
      BY <3>1, <3>2
  <2> QED
    BY <2>1, <2>6, <2>7
<1> DEFINE below == {i \in 1..N : y(i) > p[2]}
<1>5. IsFiniteSet(below) /\ IsFiniteSet(1..N) /\ 1 \in 1..N
  <2>1. below \subseteq 1..N /\ 1..N \subseteq 1..N /\ 1 \in 1..N
    BY <1>1
  <2> HIDE DEF below
  <2> QED
    BY <1>1, <2>1, NumbersAreFinite
<1>6. CASE below # {}
  <2> DEFINE f == [i \in below |-> 0 - y(i)]
  <2>1. f \in [below -> Int]
    BY <1>1
  <2>2. PICK m \in below : \A i \in below : f[i] <= f[m]
    <3> HIDE DEF f, below
    <3> QED
      BY <1>5, <1>6, <2>1, GreatestOfFinite
  <2>3. m \in 1..N /\ y(m) > p[2] /\ \A i \in below : y(m) <= y(i)
    <3>1. m \in 1..N /\ y(m) > p[2]
      BY <2>2
    <3>2. ASSUME NEW i \in below PROVE y(m) <= y(i)
      <4>1. 0 - y(i) <= 0 - y(m) /\ y(i) \in Int /\ y(m) \in Int
        BY <1>1, <2>2
      <4> QED
        BY <4>1
    <3> QED
      BY <3>1, <3>2
  <2>4. PICK l \in 1..N, r \in 1..N :
               /\ y(l) > p[2] <=> y(m) > p[2]
               /\ y(r) > p[2] <=> y(m) > p[2]
               /\ ~(y(l) >= y(m) /\ y(r) >= y(m) /\ p[2] < y(m))
    BY <1>4, <2>3
  <2>5. l \in below /\ r \in below
    BY <2>3, <2>4
  <2>6. y(l) >= y(m) /\ y(r) >= y(m) /\ p[2] < y(m)
    BY <1>1, <1>2, <2>3, <2>5
  <2> QED
    BY <2>4, <2>6
<1>7. CASE below = {}
  <2> DEFINE f == [i \in 1..N |-> y(i)]
  <2>1. f \in [1..N -> Int]
    BY <1>1
  <2>2. PICK m \in 1..N : \A i \in 1..N : f[i] <= f[m]
    <3> HIDE DEF f
    <3> QED
      BY <1>1, <1>5, <2>1, GreatestOfFinite
  <2>3. \A i \in 1..N : y(i) <= y(m) /\ y(i) <= p[2]
    <3> SUFFICES ASSUME NEW i \in 1..N PROVE y(i) <= y(m) /\ y(i) <= p[2]
      OBVIOUS
    <3>1. f[i] <= f[m] /\ f[i] = y(i) /\ f[m] = y(m)
      BY <2>2
    <3>2. ~(y(i) > p[2])
      BY <1>7
    <3>3. y(i) \in Int /\ y(m) \in Int /\ p[2] \in Int
      BY <1>1, <1>2
    <3> HIDE DEF f, y
    <3> QED
      BY <3>1, <3>2, <3>3
  <2>4. PICK l \in 1..N, r \in 1..N : ~(y(l) <= y(m) /\ y(r) <= y(m) /\ p[2] >= y(m))
    BY <1>4
  <2> QED
    BY <1>1, <1>2, <2>3, <2>4
<1> QED
  BY <1>6, <1>7

\* geometry.py, point_in_polygon: of a convex polygon with its corners clockwise, ray casting
\* says of every point whether it is inside; only about points on the outline it may err.
THEOREM RayCastingIsRight ==
  ASSUME NEW polygon \in Polygons, IsConvex(polygon), NEW p \in Points
  PROVE  /\ (\A s \in Sides(p, polygon) : s > 0) => Inside(p, polygon)
         /\ (\E s \in Sides(p, polygon) : s < 0) => ~Inside(p, polygon)
<1> DEFINE D == DOMAIN polygon
           C == Crossed(p, polygon)
           side(i) == Side(p, From(polygon, i), To(polygon, i))
<1>1. \A i \in D : From(polygon, i) \in Points /\ To(polygon, i) \in Points /\ side(i) \in Int
  BY CornersArePoints, EdgesFallOrRise DEF From, To
<1>2. Sides(p, polygon) = {side(i) : i \in D}
  BY DEF Sides, From, To
<1>3. Inside(p, polygon) <=> Cardinality(C) % 2 = 1
  BY DEF Inside, Crossed
<1>4. C \subseteq Straddlers(p, polygon) /\ Straddlers(p, polygon) \subseteq D
  BY DEF Crossed, Straddlers, Crosses, Straddles
<1>5. CASE Straddlers(p, polygon) = {}
  <2>1. Cardinality(C) % 2 = 0
    <3>1. C = {}
      BY <1>4, <1>5
    <3> HIDE DEF C
    <3> QED
      BY <3>1, FS_EmptySet
  <2>2. ~Inside(p, polygon)
    BY <1>3, <2>1
  <2> QED
    BY <1>5, <2>2, InsideIsBetween
<1>6. CASE Straddlers(p, polygon) # {}
  <2>1. PICK i, j \in D :
           /\ Straddlers(p, polygon) = {i, j}
           /\ Falls(From(polygon, i), To(polygon, i), p[2])
           /\ Falls(To(polygon, j), From(polygon, j), p[2])
    BY <1>6, WhatFallsRises
  <2> DEFINE a == From(polygon, i)
             b == To(polygon, i)
             c == From(polygon, j)
             d == To(polygon, j)
             h == Fall(a, b)
             x == Meets(a, b, p[2])
             g == Fall(d, c)
             y == Meets(d, c, p[2])
  <2>2. /\ a \in Points /\ b \in Points /\ c \in Points /\ d \in Points
        /\ p[1] \in Int /\ p[2] \in Int
    BY <1>1 DEF Points
  <2>3. /\ i \in C <=> side(i) > 0
        /\ j \in C <=> side(j) < 0
    <3>1. /\ i \in C <=> Crosses(p, a, b)
          /\ j \in C <=> Crosses(p, c, d)
      BY DEF Crossed, From, To
    <3> HIDE DEF C
    <3>2. Crosses(p, a, b) <=> Side(p, a, b) > 0
      BY <2>1, <2>2, EdgesFallOrRise
    <3>3. Crosses(p, c, d) <=> Side(p, c, d) < 0
      BY <2>1, <2>2, EdgesFallOrRise
    <3> QED
      BY <3>1, <3>2, <3>3
  <2>4. i # j
    BY <2>1, <2>2, EdgesFallOrRise
  <2>5. Cardinality(C) % 2 = 1 <=> (side(i) > 0) # (side(j) < 0)
    <3>1. C \subseteq {i, j}
      BY <1>4, <2>1
    <3> HIDE DEF C
    <3>2. /\ Cardinality({}) = 0 /\ Cardinality({i}) = 1 /\ Cardinality({j}) = 1
          /\ Cardinality({i, j}) = 2
      <4>1. IsFiniteSet({i}) /\ Cardinality({i}) = 1 /\ Cardinality({j}) = 1
        BY FS_Singleton
      <4>2. j \notin {i} /\ {i} \cup {j} = {i, j}
        BY <2>4
      <4>3. Cardinality({i} \cup {j}) = Cardinality({i}) + 1
        BY <4>1, <4>2, FS_AddElement
      <4> QED
        BY <4>1, <4>2, <4>3, FS_EmptySet
    <3>3. CASE i \in C /\ j \in C
      <4>1. C = {i, j}
        BY <3>1, <3>3
      <4> QED
        BY <2>3, <3>2, <3>3, <4>1
    <3>4. CASE i \in C /\ j \notin C
      <4>1. C = {i}
        BY <3>1, <3>4
      <4> QED
        BY <2>3, <3>2, <3>4, <4>1
    <3>5. CASE i \notin C /\ j \in C
      <4>1. C = {j}
        BY <3>1, <3>5
      <4> QED
        BY <2>3, <3>2, <3>5, <4>1
    <3>6. CASE i \notin C /\ j \notin C
      <4>1. C = {}
        BY <3>1, <3>6
      <4> QED
        BY <2>3, <3>2, <3>6, <4>1
    <3> QED
      BY <3>3, <3>4, <3>5, <3>6
  <2>6. (\A s \in Sides(p, polygon) : s > 0) => Inside(p, polygon)
    <3> SUFFICES ASSUME \A s \in Sides(p, polygon) : s > 0
                 PROVE  Inside(p, polygon)
      OBVIOUS
    <3>1. side(i) > 0 /\ side(j) > 0 /\ side(j) \in Int
      BY <1>1, <1>2
    <3> QED
      BY <1>3, <2>5, <3>1
  \* A point between the edge that rises and the one that falls is to the inner side of all.
  <2>7. ASSUME NEW k \in D, side(k) < 0, Inside(p, polygon)
        PROVE  FALSE
    <3> DEFINE u == From(polygon, k)
               v == To(polygon, k)
               f == Fall(u, v)
               t == side(k)
               onFalling == SideAt(u, v, h, x, p[2])
               onRising  == SideAt(u, v, g, y, p[2])
    <3>1. /\ u \in Points /\ v \in Points /\ f \in Int
      <4>1. u \in Points /\ v \in Points
        BY <1>1
      <4> HIDE DEF u, v
      <4> QED
        BY <4>1 DEF Points, Fall
    <3>2. \A l \in D : /\ Side(polygon[l], u, v) >= 0
                       /\ Side(polygon[l], a, b) >= 0
      BY CornersAreInside DEF From, To
    <3>3. /\ Side(a, u, v) >= 0 /\ Side(b, u, v) >= 0 /\ Side(c, u, v) >= 0 /\ Side(d, u, v) >= 0
          /\ Side(c, a, b) >= 0 /\ Side(d, a, b) >= 0
      <4>1. Next1(i, polygon) \in D /\ Next1(j, polygon) \in D
        BY CornersArePoints
      <4> QED
        BY <3>2, <4>1 DEF From, To
    <3> DEFINE across == SideAt(a, b, g, y, p[2])
    <3>4. /\ h \in Nat \ {0} /\ x \in Int /\ g \in Nat \ {0} /\ y \in Int
          /\ onFalling \in Int /\ onFalling >= 0
          /\ onRising \in Int /\ onRising >= 0
          /\ across >= 0
      <4> HIDE DEF a, b, c, d, u, v
      <4>1. h \in Nat \ {0} /\ x \in Int /\ onFalling \in Int /\ onFalling >= 0
        BY <2>1, <2>2, <3>1, <3>3, MeetingPoints DEF a, b
      <4>2. g \in Nat \ {0} /\ y \in Int /\ onRising \in Int /\ onRising >= 0
        BY <2>1, <2>2, <3>1, <3>3, MeetingPoints DEF c, d
      <4>3. across >= 0
        BY <2>1, <2>2, <3>1, <3>3, MeetingPoints DEF c, d
      <4> QED
        BY <4>1, <4>2, <4>3
    <3>5. /\ side(i) = x - h * p[1]
          /\ side(j) = g * p[1] - y
          /\ h * t = onFalling + f * (x - h * p[1])
          /\ g * t = onRising + f * (y - g * p[1])
          /\ across = g * x - h * y
      <4>1. Side(p, a, b) = x - h * p[1]
        <5> HIDE DEF a, b
        <5> QED
          BY <2>2, PointsCompare
      <4>2. Side(p, c, d) = g * p[1] - y
        <5> HIDE DEF c, d
        <5> QED
          BY <2>2, PointsCompare
      <4>3. /\ h * Side(p, u, v) = onFalling + f * (x - h * p[1])
            /\ g * Side(p, u, v) = onRising + f * (y - g * p[1])
        <5>1. h \in Int /\ x \in Int /\ g \in Int /\ y \in Int
          BY <3>4
        <5>2. \A e, m \in Int :
                e * Side(p, u, v) = SideAt(u, v, e, m, p[2]) + Fall(u, v) * (m - e * p[1])
          <6> SUFFICES ASSUME NEW e \in Int, NEW m \in Int
                       PROVE  e * Side(p, u, v)
                                = SideAt(u, v, e, m, p[2]) + Fall(u, v) * (m - e * p[1])
            OBVIOUS
          <6>1. u \in Points /\ v \in Points
            BY <3>1
          <6> HIDE DEF u, v
          <6>2. u[1] \in Int /\ u[2] \in Int /\ v[1] \in Int /\ v[2] \in Int
            BY <6>1 DEF Points
          <6> QED
            BY <2>2, <6>2 DEF Side, SideAt, Fall
        <5> HIDE DEF u, v, h, x, g, y
        <5> QED
          BY <5>1, <5>2
      <4>4. across = g * x - h * y
        <5>1. g \in Int /\ y \in Int
          BY <3>4
        <5> HIDE DEF a, b, g, y
        <5> QED
          BY <2>2, <5>1, MeetingsCompare
      <4> QED
        BY <4>1, <4>2, <4>3, <4>4
    <3>6. t \in Int /\ t < 0
      BY <1>1, <2>7
    <3>7. (side(i) > 0) # (side(j) < 0)
      BY <1>3, <2>5, <2>7
    <3> DEFINE z == p[1]
               r == x - h * z
               s == y - g * z
    <3>8. z \in Int
      BY <2>2
    <3>9. (r > 0) # (s > 0)
      <4>1. side(i) = r
        BY <3>5
      <4>2. side(j) = g * z - y
        BY <3>5
      <4> HIDE DEF side, h, x, g, y, z
      <4>3. g * z \in Int
        BY <3>4, <3>8
      <4>4. side(j) < 0 <=> s > 0
        BY <3>4, <4>2, <4>3
      <4> HIDE DEF s, r
      <4> QED
        BY <3>7, <4>1, <4>4
    <3>10. /\ h * t = onFalling + f * r /\ g * t = onRising + f * s
           /\ across = g * x - h * y
      BY <3>5
    <3> HIDE DEF h, x, g, y, t, onFalling, onRising, across, f, z
    <3>11. r \in Int /\ s \in Int /\ across = g * r - h * s
      BY <3>4, <3>8, <3>10
    <3> HIDE DEF r, s
    <3>12. t * h < 0 /\ t * g < 0 /\ t * h = h * t /\ t * g = g * t
      BY <3>4, <3>6, ProductsOfSigns
    <3>13. CASE r > 0 /\ s <= 0
      <4>1. CASE f >= 0
        <5>1. f * r \in Int /\ f * r >= 0
          BY <3>1, <3>11, <3>13, <4>1, ProductsOfSigns
        <5> QED
          BY <3>4, <3>10, <3>12, <5>1
      <4>2. CASE f < 0
        <5>1. (0 - s) * (0 - f) = f * s /\ 0 - s >= 0 /\ 0 - f >= 0 /\ 0 - s \in Int /\ 0 - f \in Int
          BY <3>1, <3>11, <3>13, <4>2
        <5>2. f * s \in Int /\ f * s >= 0
          BY <3>1, <3>11, <5>1, ProductsOfSigns
        <5> QED
          BY <3>4, <3>10, <3>12, <5>2
      <4> QED
        BY <3>1, <4>1, <4>2
    <3>14. CASE r <= 0 /\ s > 0
      <4>1. r * g <= 0 /\ r * g = g * r /\ s * h > 0 /\ s * h = h * s
            /\ g * r \in Int /\ h * s \in Int
        BY <3>4, <3>11, <3>14, ProductsOfSigns
      <4> QED
        BY <3>4, <3>11, <4>1
    <3> QED
      BY <3>9, <3>11, <3>13, <3>14
  <2>8. (\E s \in Sides(p, polygon) : s < 0) => ~Inside(p, polygon)
    <3> HIDE DEF side
    <3> QED
      BY <1>2, <2>7
  <2> QED
    BY <2>6, <2>8
<1> QED
  BY <1>5, <1>6

-----------------------------------------------------------------------------
(* Boxes, their overlap, and the best of several *)

Boxes == [x1 : Int, y1 : Int, x2 : Int, y2 : Int]

Boxed == [box : Boxes, label : {"car", "truck", "person"}, score : Int]

LEMMA TwoHaveBounds ==
  ASSUME NEW a \in Int, NEW b \in Int
  PROVE  Min({a, b}) \in {a, b} /\ Max({a, b}) \in {a, b}
<1>1. \E x \in {a, b} : \A y \in {a, b} : x <= y
  OBVIOUS
<1>2. \E x \in {a, b} : \A y \in {a, b} : x >= y
  OBVIOUS
<1> QED
  BY <1>1, <1>2 DEF Min, Max

LEMMA SizesAreNumbers ==
  ASSUME NEW a \in Boxes, NEW b \in Boxes
  PROVE  Size(a) \in Int /\ Shared(a, b) \in Int
<1>1. /\ a.x1 \in Int /\ a.y1 \in Int /\ a.x2 \in Int /\ a.y2 \in Int
      /\ b.x1 \in Int /\ b.y1 \in Int /\ b.x2 \in Int /\ b.y2 \in Int
  BY DEF Boxes
<1>2. Size(a) \in Int
  BY <1>1 DEF Size
<1> DEFINE w == Min({a.x2, b.x2}) - Max({a.x1, b.x1})
           h == Min({a.y2, b.y2}) - Max({a.y1, b.y1})
<1>3. /\ Min({a.x2, b.x2}) \in Int /\ Max({a.x1, b.x1}) \in Int
      /\ Min({a.y2, b.y2}) \in Int /\ Max({a.y1, b.y1}) \in Int
  BY <1>1, TwoHaveBounds
<1>4. w \in Int /\ h \in Int
  BY <1>3
<1>5. Shared(a, b) = IF w <= 0 \/ h <= 0 THEN 0 ELSE w * h
  BY DEF Shared
<1> HIDE DEF w, h
<1>6. w * h \in Int
  BY <1>4
<1> QED
  BY <1>2, <1>5, <1>6

\* Of two boxes each overlaps the other as the other does it.
LEMMA OverlapsAreMutual ==
  ASSUME NEW a \in Boxes, NEW b \in Boxes
  PROVE  /\ IsSuppressed(a, b) <=> IsSuppressed(b, a)
         /\ IsSameVehicle(a, b) <=> IsSameVehicle(b, a)
<1>1. Shared(a, b) = Shared(b, a)
  <2>1. /\ {a.x2, b.x2} = {b.x2, a.x2} /\ {a.x1, b.x1} = {b.x1, a.x1}
        /\ {a.y2, b.y2} = {b.y2, a.y2} /\ {a.y1, b.y1} = {b.y1, a.y1}
    OBVIOUS
  <2> QED
    BY <2>1 DEF Shared
<1>2. Joint(a, b) = Joint(b, a)
  <2>1. Size(a) \in Int /\ Size(b) \in Int /\ Shared(a, b) \in Int
    BY SizesAreNumbers
  <2>2. Joint(b, a) = Size(b) + Size(a) - Shared(a, b)
    BY <1>1 DEF Joint
  <2> QED
    BY <2>1, <2>2 DEF Joint
<1> QED
  BY <1>1, <1>2 DEF IsSuppressed, IsSameVehicle

\* _best_of finds one.
LEMMA BestIsOne ==
  ASSUME NEW group, group \subseteq Boxed, IsFiniteSet(group), group # {}
  PROVE  BestOf(group) \in group
<1> DEFINE scores == [d \in group |-> d.score]
<1>1. scores \in [group -> Int]
  BY DEF Boxed
<1>2. PICK t \in group : \A e \in group : scores[e] <= scores[t]
  BY <1>1, GreatestOfFinite
<1> DEFINE top == {d \in group : d.score = t.score}
           sizes == [d \in top |-> Size(d.box)]
<1>3. IsFiniteSet(top) /\ t \in top
  BY FS_Subset
<1>4. sizes \in [top -> Int]
  BY SizesAreNumbers DEF Boxed
<1>5. PICK d \in top : \A e \in top : sizes[e] <= sizes[d]
  <2> HIDE DEF top, sizes
  <2> QED
    BY <1>3, <1>4, GreatestOfFinite
<1>6. ASSUME NEW e \in group
      PROVE  d.score > e.score \/ (d.score = e.score /\ Size(d.box) >= Size(e.box))
  <2>1. d.score \in Int /\ e.score \in Int /\ e.score <= d.score
    BY <1>1, <1>2, <1>5
  <2>2. CASE e \in top
    <3>1. Size(e.box) \in Int /\ Size(d.box) \in Int /\ Size(e.box) <= Size(d.box)
      BY <1>4, <1>5, <2>2
    <3> QED
      BY <1>5, <2>2, <3>1
  <2>3. CASE e \notin top
    BY <1>5, <2>1, <2>3
  <2> QED
    BY <2>2, <2>3
<1>7. d \in group
  BY <1>5
<1> QED
  BY <1>6, <1>7 DEF BestOf

-----------------------------------------------------------------------------
(* The rows that are picked, and their order *)

PicksUpTo(f, s, n, places) ==
  f = [m \in 0..n |-> IF m = 0 THEN << >>
                      ELSE IF m \in places THEN Append(f[m - 1], s[m]) ELSE f[m - 1]]

LEMMA PicksExist ==
  ASSUME NEW s, NEW places
  PROVE  \A n \in Nat : \E f : PicksUpTo(f, s, n, places)
<1> DEFINE T == {n \in Nat : \E f : PicksUpTo(f, s, n, places)}
<1>1. 0 \in T
  <2>1. PicksUpTo([m \in 0..0 |-> << >>], s, 0, places)
    BY DEF PicksUpTo
  <2> QED
    BY <2>1
<1>2. ASSUME NEW n \in Nat, n \in T
      PROVE  n + 1 \in T
  <2>1. PICK f : PicksUpTo(f, s, n, places)
    BY <1>2
  <2> DEFINE last == IF n + 1 \in places THEN Append(f[n], s[n + 1]) ELSE f[n]
             h == [m \in 0..(n + 1) |-> IF m = n + 1 THEN last ELSE f[m]]
             step(m) == IF m = 0 THEN << >>
                        ELSE IF m \in places THEN Append(h[m - 1], s[m]) ELSE h[m - 1]
  <2>2. \A m \in 0..(n + 1) : h[m] = step(m)
    <3> SUFFICES ASSUME NEW m \in 0..(n + 1) PROVE h[m] = step(m)
      OBVIOUS
    <3>1. CASE m = n + 1
      BY <3>1
    <3>2. CASE m # n + 1
      <4>1. m \in 0..n /\ h[m] = f[m] /\ (m # 0 => h[m - 1] = f[m - 1])
        BY <3>2
      <4>2. f[m] = IF m = 0 THEN << >>
                   ELSE IF m \in places THEN Append(f[m - 1], s[m]) ELSE f[m - 1]
        BY <2>1, <4>1 DEF PicksUpTo
      <4> HIDE DEF h
      <4> QED
        BY <4>1, <4>2
    <3> QED
      BY <3>1, <3>2
  <2>3. h = [m \in 0..(n + 1) |-> step(m)]
    <3>1. h = [m \in 0..(n + 1) |-> h[m]]
      OBVIOUS
    <3> HIDE DEF h
    <3> QED
      BY <2>2, <3>1
  <2>4. PicksUpTo(h, s, n + 1, places)
    <3> HIDE DEF h
    <3> QED
      BY <2>3 DEF PicksUpTo
  <2> QED
    BY <2>4
<1> HIDE DEF T
<1>3. Nat \subseteq T
  BY <1>1, <1>2, NatSteps
<1> QED
  BY <1>3 DEF T

LEMMA PickedIsSeq ==
  ASSUME NEW S, NEW s \in Seq(S), NEW places
  PROVE  Picked(s, places) \in Seq(S)
<1> DEFINE f == CHOOSE f : PicksUpTo(f, s, Len(s), places)
<1>1. PicksUpTo(f, s, Len(s), places)
  BY PicksExist
<1>2. Picked(s, places) = f[Len(s)]
  BY DEF Picked, PicksUpTo
<1> DEFINE T == {n \in Nat : n <= Len(s) => f[n] \in Seq(S)}
<1> HIDE DEF f
<1>3. 0 \in T
  <2>1. f[0] = << >> /\ << >> \in Seq(S)
    BY <1>1 DEF PicksUpTo
  <2>2. f[0] \in Seq(S)
    BY <2>1
  <2> QED
    BY <2>2
<1>4. ASSUME NEW n \in Nat, n \in T
      PROVE  n + 1 \in T
  <2> SUFFICES ASSUME n + 1 <= Len(s) PROVE f[n + 1] \in Seq(S)
    OBVIOUS
  <2>1. f[n] \in Seq(S) /\ n + 1 \in 1..Len(s)
    BY <1>4
  <2>2. f[n + 1] = IF n + 1 \in places THEN Append(f[n], s[n + 1]) ELSE f[n]
    <3>1. n + 1 \in 0..Len(s) /\ n + 1 # 0 /\ (n + 1) - 1 = n
      BY <2>1
    <3> QED
      BY <1>1, <3>1 DEF PicksUpTo
  <2> QED
    BY <2>1, <2>2
<1> HIDE DEF T
<1>5. Nat \subseteq T
  BY <1>3, <1>4, NatSteps
<1> QED
  BY <1>2, <1>5 DEF T

\* Of two rows one comes before the other, and who comes before another has fewer before it.
LEMMA RanksOrder ==
  ASSUME NEW rows \in Seq(Boxed), NEW i \in DOMAIN rows, NEW j \in DOMAIN rows
  PROVE  /\ Rank(i, rows) \in 1..Len(rows)
         /\ i # j => ComesBefore(i, j, rows) \/ ComesBefore(j, i, rows)
         /\ ComesBefore(i, j, rows) => Rank(i, rows) < Rank(j, rows)
<1> DEFINE N == Len(rows)
           before(k) == {l \in DOMAIN rows : ComesBefore(l, k, rows)}
<1>1. N \in Nat /\ DOMAIN rows = 1..N /\ \A k \in 1..N : rows[k].score \in Int
  <2>1. N \in Nat /\ DOMAIN rows = 1..N /\ \A k \in 1..N : rows[k] \in Boxed
    OBVIOUS
  <2> QED
    BY <2>1 DEF Boxed
<1>2. IsFiniteSet(1..N) /\ Cardinality(1..N) = N
  <2>1. 1 \in Int /\ N \in Int
    BY <1>1
  <2>2. Cardinality(1..N) = (IF 1 > N THEN 0 ELSE N - 1 + 1) /\ IsFiniteSet(1..N)
    BY <2>1, FS_Interval
  <2> QED
    BY <1>1, <2>2
<1>3. ASSUME NEW k \in DOMAIN rows
      PROVE  /\ before(k) \subseteq DOMAIN rows /\ k \notin before(k)
             /\ IsFiniteSet(before(k)) /\ Cardinality(before(k)) \in 0..(N - 1)
  <2>1. before(k) \subseteq DOMAIN rows /\ k \notin before(k)
    BY <1>1 DEF ComesBefore
  <2>2. before(k) \subseteq (1..N) \ {k} /\ k \in 1..N
    BY <1>1, <2>1
  <2>3. IsFiniteSet((1..N) \ {k}) /\ Cardinality((1..N) \ {k}) = N - 1
    BY <1>2, <2>2, FS_RemoveElement
  <2> HIDE DEF before
  <2>4. IsFiniteSet(before(k)) /\ Cardinality(before(k)) <= N - 1
    BY <2>2, <2>3, FS_Subset
  <2>5. Cardinality(before(k)) \in Nat
    BY <2>4, FS_CardinalityType
  <2> QED
    BY <1>1, <2>1, <2>4, <2>5
<1>4. \A k \in DOMAIN rows : Rank(k, rows) = Cardinality(before(k)) + 1
  BY DEF Rank
<1>5. i # j => ComesBefore(i, j, rows) \/ ComesBefore(j, i, rows)
  BY <1>1 DEF ComesBefore
<1>6. ASSUME ComesBefore(i, j, rows)
      PROVE  Cardinality(before(i)) < Cardinality(before(j))
  <2>1. before(i) \subseteq before(j)
    BY <1>1, <1>6 DEF ComesBefore
  <2>2. i \in before(j) /\ i \notin before(i)
    BY <1>3, <1>6
  <2>3. /\ IsFiniteSet(before(j)) /\ Cardinality(before(j)) \in Nat
        /\ Cardinality(before(i)) \in Nat
    <3> HIDE DEF before
    <3>1. \A c \in 0..(N - 1) : c \in Nat
      BY <1>1
    <3> QED
      BY <1>3, <3>1
  <2> HIDE DEF before
  <2>4. /\ Cardinality(before(i)) <= Cardinality(before(j))
        /\ Cardinality(before(j)) # Cardinality(before(i))
    BY <2>1, <2>2, <2>3, FS_Subset
  <2> QED
    BY <2>3, <2>4
<1> HIDE DEF before
<1> QED
  BY <1>1, <1>3, <1>4, <1>5, <1>6

\* scores.argsort()[::-1] is the rows' places, and the scores fall along it.
LEMMA ScoresFall ==
  ASSUME NEW rows \in Seq(Boxed)
  PROVE  /\ Descending(rows) \in [1..Len(rows) -> 1..Len(rows)]
         /\ \A n, m \in 1..Len(rows) :
              n < m => rows[Descending(rows)[n]].score >= rows[Descending(rows)[m]].score
<1> DEFINE N == Len(rows)
           rank == [i \in 1..N |-> Rank(i, rows)]
<1>1. N \in Nat /\ DOMAIN rows = 1..N /\ \A k \in 1..N : rows[k].score \in Int
  <2>1. N \in Nat /\ DOMAIN rows = 1..N /\ \A k \in 1..N : rows[k] \in Boxed
    OBVIOUS
  <2> QED
    BY <2>1 DEF Boxed
<1>2. \A i, j \in 1..N :
         /\ Rank(i, rows) \in 1..N
         /\ i # j => ComesBefore(i, j, rows) \/ ComesBefore(j, i, rows)
         /\ ComesBefore(i, j, rows) => Rank(i, rows) < Rank(j, rows)
  BY <1>1, RanksOrder
<1>3. rank \in Injection(1..N, 1..N)
  <2>1. rank \in [1..N -> 1..N]
    BY <1>2
  <2>2. \A i, j \in 1..N : rank[i] = rank[j] => i = j
    BY <1>2
  <2> QED
    BY <2>1, <2>2 DEF Injection, IsInjective
<1>4. rank \in Surjection(1..N, 1..N)
  <2>1. IsFiniteSet(1..N)
    BY <1>1, FS_Interval
  <2> HIDE DEF rank
  <2> QED
    BY <1>3, <2>1, FS_Injection
<1>5. \A n \in 1..N : \E i \in 1..N : Rank(i, rows) = n
  BY <1>4 DEF Surjection
<1>6. \A n \in 1..N : Descending(rows)[n] \in 1..N /\ Rank(Descending(rows)[n], rows) = n
  BY <1>1, <1>5 DEF Descending
<1>7. Descending(rows) \in [1..N -> 1..N]
  <2>1. Descending(rows) = [n \in 1..N |-> Descending(rows)[n]]
    BY <1>1 DEF Descending
  <2> QED
    BY <1>6, <2>1
<1>8. ASSUME NEW n \in 1..N, NEW m \in 1..N, n < m
      PROVE  rows[Descending(rows)[n]].score >= rows[Descending(rows)[m]].score
  <2> DEFINE i == Descending(rows)[n]
             j == Descending(rows)[m]
  <2>1. i \in 1..N /\ j \in 1..N /\ Rank(i, rows) = n /\ Rank(j, rows) = m
    BY <1>6
  <2> HIDE DEF i, j
  <2>2. ComesBefore(i, j, rows)
    BY <1>1, <1>2, <1>8, <2>1
  <2>3. rows[i].score >= rows[j].score
    BY <1>1, <2>1, <2>2 DEF ComesBefore
  <2> QED
    BY <2>3 DEF i, j
<1> QED
  BY <1>7, <1>8

-----------------------------------------------------------------------------
(* What is chosen in turn *)

\* The greedy choice where clashes are mutual: no two chosen clash, and who is left out
\* clashes with one before it.
LEMMA ChosenInTurn ==
  ASSUME NEW count \in Nat, NEW clashes,
         \A n, k \in 1..count : <<n, k>> \in clashes <=> <<k, n>> \in clashes
  PROVE  /\ Greedy(count, clashes) \subseteq 1..count
         /\ \A n, k \in Greedy(count, clashes) : n # k => <<n, k>> \notin clashes
         /\ \A n \in (1..count) \ Greedy(count, clashes) :
              \E k \in Greedy(count, clashes) : k < n /\ <<n, k>> \in clashes
<1> DEFINE G == Greedy(count, clashes)
<1>1. /\ G \subseteq 1..count
      /\ \A n \in 1..count : n \in G <=> \A k \in G : k < n => <<n, k>> \notin clashes
  BY GreedyIs
<1> HIDE DEF G
<1>2. \A n, k \in G : n # k => <<n, k>> \notin clashes
  <2> SUFFICES ASSUME NEW n \in G, NEW k \in G, n # k PROVE <<n, k>> \notin clashes
    OBVIOUS
  <2>1. n \in 1..count /\ k \in 1..count
    BY <1>1
  <2>2. CASE k < n
    BY <1>1, <2>1, <2>2
  <2>3. CASE n < k
    BY <1>1, <2>1, <2>3
  <2> QED
    BY <2>1, <2>2, <2>3
<1>3. \A n \in (1..count) \ G : \E k \in G : k < n /\ <<n, k>> \in clashes
  BY <1>1
<1> QED
  BY <1>1, <1>2, <1>3 DEF G

\* The rows that NMS sees come best first.
LEMMA CandidatesFall ==
  ASSUME NEW rows \in Seq(Boxed)
  PROVE  /\ Candidates(rows) \in Seq(Boxed)
         /\ \A n, m \in 1..Len(Candidates(rows)) :
              n < m => Candidates(rows)[n].score >= Candidates(rows)[m].score
<1> DEFINE kept == AreVehicles(rows)
           order == Descending(kept)
           L == Len(kept)
           top == IF Len(order) > MaxCandidates THEN SubSeq(order, 1, MaxCandidates) ELSE order
           best == [n \in DOMAIN top |-> kept[top[n]]]
<1>1. kept \in Seq(Boxed)
  BY PickedIsSeq DEF AreVehicles
<1>2. best = Candidates(rows)
  BY DEF Candidates
<1> HIDE DEF kept
<1>3. /\ order \in [1..L -> 1..L]
      /\ \A n, m \in 1..L : n < m => kept[order[n]].score >= kept[order[m]].score
  BY <1>1, ScoresFall
<1> HIDE DEF order
<1>4. L \in Nat /\ order \in Seq(1..L) /\ Len(order) = L
  BY <1>1, <1>3
<1>5. \E l \in 0..L : DOMAIN top = 1..l /\ \A n \in 1..l : top[n] = order[n]
  <2>1. MaxCandidates \in Nat
    BY BoxBounds
  <2>2. CASE L > MaxCandidates
    <3>1. MaxCandidates \in 0..L /\ top = SubSeq(order, 1, MaxCandidates)
      BY <1>4, <2>1, <2>2
    <3>2. /\ DOMAIN SubSeq(order, 1, MaxCandidates) = 1..MaxCandidates
          /\ \A n \in 1..MaxCandidates : SubSeq(order, 1, MaxCandidates)[n] = order[n]
      BY <1>4, <2>1, <3>1
    <3> HIDE DEF top
    <3> QED
      BY <3>1, <3>2
  <2>3. CASE ~(L > MaxCandidates)
    <3>1. L \in 0..L /\ top = order /\ DOMAIN order = 1..L
      BY <1>4, <2>3
    <3> HIDE DEF top
    <3> QED
      BY <3>1
  <2> QED
    BY <2>2, <2>3
<1>6. PICK l \in 0..L : DOMAIN top = 1..l /\ \A n \in 1..l : top[n] = order[n]
  BY <1>5
<1> HIDE DEF top
<1>7. l \in Nat /\ \A n \in 1..l : n \in 1..L /\ order[n] \in 1..L
  BY <1>3, <1>4, <1>6
<1>8. best = [n \in 1..l |-> kept[order[n]]]
  BY <1>6
<1> HIDE DEF best
<1>9. best \in [1..l -> Boxed]
  BY <1>1, <1>7, <1>8
<1>10. best \in Seq(Boxed) /\ Len(best) = l
  BY <1>7, <1>9
<1>11. \A n, m \in 1..l : n < m => best[n].score >= best[m].score
  BY <1>3, <1>7, <1>8
<1> QED
  BY <1>2, <1>10, <1>11

\* NMS: of the rows of one vehicle one is left.
LEMMA SuppressionIsFair ==
  ASSUME NEW rows \in Seq(Boxed), NEW size
  PROVE  \E chosen \in SUBSET ToSet(Candidates(rows)) :
           /\ Decoded("classic", rows, size) = {InFrame(row, size) : row \in chosen}
           /\ IsFairChoice(chosen, ToSet(Candidates(rows)), Repeats)
<1> DEFINE best == Candidates(rows)
           N == Len(best)
           clashes == {p \in (DOMAIN best) \X (DOMAIN best) : SameClass(best[p[1]], best[p[2]])}
           G == Greedy(N, clashes)
           chosen == {best[n] : n \in G}
           all == ToSet(best)
<1>1. Decoded("classic", rows, size) = {InFrame(best[n], size) : n \in G}
  BY DEF Decoded
<1>2. /\ best \in Seq(Boxed)
      /\ \A n, m \in 1..N : n < m => best[n].score >= best[m].score
  BY CandidatesFall
<1> HIDE DEF best
<1>3. N \in Nat /\ DOMAIN best = 1..N /\ \A n \in 1..N : best[n] \in Boxed
  BY <1>2
<1>4. \A n, k \in 1..N : <<n, k>> \in clashes <=> Repeats(best[n], best[k])
  BY <1>3 DEF SameClass, Repeats
<1>5. \A n, k \in 1..N : Repeats(best[n], best[k]) <=> Repeats(best[k], best[n])
  <2> SUFFICES ASSUME NEW n \in 1..N, NEW k \in 1..N
               PROVE  Repeats(best[n], best[k]) <=> Repeats(best[k], best[n])
    OBVIOUS
  <2>1. best[n].box \in Boxes /\ best[k].box \in Boxes
    BY <1>3 DEF Boxed
  <2> QED
    BY <2>1, OverlapsAreMutual DEF Repeats
<1> HIDE DEF clashes
<1>6. /\ G \subseteq 1..N
      /\ \A n, k \in G : n # k => <<n, k>> \notin clashes
      /\ \A n \in (1..N) \ G : \E k \in G : k < n /\ <<n, k>> \in clashes
  BY <1>3, <1>4, <1>5, ChosenInTurn
<1> HIDE DEF G
<1>7. all = {best[n] : n \in 1..N}
  BY <1>3 DEF ToSet
<1>8. chosen \subseteq all
  BY <1>6, <1>7
<1>9. ASSUME NEW d \in chosen, NEW e \in chosen, d # e PROVE ~Repeats(d, e)
  <2>1. PICK n \in G : d = best[n]
    OBVIOUS
  <2>2. PICK k \in G : e = best[k]
    OBVIOUS
  <2>3. n \in 1..N /\ k \in 1..N /\ n # k /\ <<n, k>> \notin clashes
    BY <1>6, <1>9, <2>1, <2>2
  <2> QED
    BY <1>4, <2>1, <2>2, <2>3
<1>10. ASSUME NEW d \in all \ chosen PROVE \E e \in chosen : Repeats(d, e) /\ e.score >= d.score
  <2>1. PICK n \in 1..N : d = best[n]
    BY <1>7
  <2>2. n \notin G
    BY <2>1
  <2>3. PICK k \in G : k < n /\ <<n, k>> \in clashes
    BY <1>6, <2>1, <2>2
  <2>4. k \in 1..N /\ best[k].score >= best[n].score /\ Repeats(best[n], best[k])
    BY <1>2, <1>4, <1>6, <2>3
  <2>5. best[k] \in chosen
    OBVIOUS
  <2> QED
    BY <2>1, <2>4, <2>5
<1>11. IsFairChoice(chosen, all, Repeats)
  <2> HIDE DEF chosen, all
  <2> QED
    BY <1>8, <1>9, <1>10 DEF IsFairChoice
<1>12. {InFrame(best[n], size) : n \in G} = {InFrame(row, size) : row \in chosen}
  OBVIOUS
<1> QED
  BY <1>1, <1>8, <1>11, <1>12 DEF best

\* Scores that fall from each to the next fall from each to every later one.
LEMMA FallsFarther ==
  ASSUME NEW N \in Nat, NEW score \in [1..N -> Int],
         \A n \in 1..(N - 1) : score[n] >= score[n + 1]
  PROVE  \A n, m \in 1..N : n < m => score[n] >= score[m]
<1> DEFINE T == {d \in Nat : \A n \in 1..N : n + d <= N => score[n] >= score[n + d]}
<1>1. 0 \in T
  OBVIOUS
<1>2. ASSUME NEW d \in Nat, d \in T PROVE d + 1 \in T
  <2> SUFFICES ASSUME NEW n \in 1..N, n + (d + 1) <= N PROVE score[n] >= score[n + (d + 1)]
    OBVIOUS
  <2> DEFINE m == n + d
  <2>1. /\ m \in 1..(N - 1) /\ m \in 1..N /\ m + 1 \in 1..N /\ m + 1 = n + (d + 1)
        /\ score[n] >= score[m]
    BY <1>2
  <2> HIDE DEF m
  <2>2. score[m] >= score[m + 1] /\ score[n] \in Int /\ score[m] \in Int /\ score[m + 1] \in Int
    BY <2>1
  <2>3. score[n] >= score[m + 1]
    BY <2>1, <2>2
  <2> QED
    BY <2>1, <2>3
<1>3. Nat \subseteq T
  <2> HIDE DEF T
  <2> QED
    BY <1>1, <1>2, NatSteps
<1> QED
  <2> SUFFICES ASSUME NEW n \in 1..N, NEW m \in 1..N, n < m PROVE score[n] >= score[m]
    OBVIOUS
  <2>1. m - n \in Nat /\ n + (m - n) = m
    OBVIOUS
  <2>2. m - n \in T
    BY <1>3, <2>1
  <2> QED
    BY <2>1, <2>2

\* _distinct_vehicles: the vehicles of a bay are a fair choice of its detections, in
\* whatever order those with equal scores come.
LEMMA CountIsFair ==
  ASSUME NEW group, group \subseteq Boxed, IsFiniteSet(group), NEW order \in Orders(group)
  PROVE  \E vehicles \in SUBSET group :
           /\ Cardinality(vehicles) = DistinctVehicles(order)
           /\ IsFairChoice(vehicles, group, Together)
<1> DEFINE N == Cardinality(group)
           repeats == {p \in (DOMAIN order) \X (DOMAIN order) :
                         Together(order[p[1]], order[p[2]])}
           G == Greedy(N, repeats)
           vehicles == {order[n] : n \in G}
<1>1. N \in Nat
  BY FS_CardinalityType
<1>2. /\ order \in [1..N -> group]
      /\ \A i, j \in 1..N : i # j => order[i] # order[j]
      /\ \A n \in 1..(Len(order) - 1) : order[n].score >= order[n + 1].score
  BY DEF Orders, SetToSeqs
<1>3. order \in Seq(group) /\ Len(order) = N /\ DOMAIN order = 1..N
  BY <1>1, <1>2
<1>4. DistinctVehicles(order) = Cardinality(G)
  BY <1>3 DEF DistinctVehicles
<1> HIDE DEF N
<1>5. \A d \in group : \E n \in 1..N : d = order[n]
  <2>1. order \in Injection(1..N, group)
    BY <1>2 DEF Injection, IsInjective
  <2>2. Cardinality(1..N) = N
    <3>1. 1 \in Int /\ N \in Int
      BY <1>1
    <3>2. Cardinality(1..N) = IF 1 > N THEN 0 ELSE N - 1 + 1
      BY <3>1, FS_Interval
    <3> QED
      BY <1>1, <3>2
  <2>3. order \in Surjection(1..N, group)
    BY <2>1, <2>2, FS_Injection DEF N
  <2> QED
    BY <2>3 DEF Surjection
<1>6. \A n, m \in 1..N : n < m => order[n].score >= order[m].score
  <2> DEFINE score == [n \in 1..N |-> order[n].score]
  <2>1. score \in [1..N -> Int]
    <3>1. \A n \in 1..N : order[n] \in Boxed
      BY <1>2
    <3> QED
      BY <3>1 DEF Boxed
  <2>2. \A n \in 1..(N - 1) : n \in 1..N /\ n + 1 \in 1..N
    BY <1>1
  <2>3. \A n \in 1..(N - 1) : score[n] >= score[n + 1]
    BY <1>2, <1>3, <2>2
  <2>4. \A n \in 1..N : score[n] = order[n].score
    OBVIOUS
  <2> HIDE DEF score
  <2>5. \A n, m \in 1..N : n < m => score[n] >= score[m]
    BY <1>1, <2>1, <2>3, FallsFarther
  <2> QED
    BY <2>4, <2>5
<1>7. \A n, k \in 1..N : <<n, k>> \in repeats <=> Together(order[n], order[k])
  BY <1>3
<1>8. \A n, k \in 1..N : Together(order[n], order[k]) <=> Together(order[k], order[n])
  <2> SUFFICES ASSUME NEW n \in 1..N, NEW k \in 1..N
               PROVE  Together(order[n], order[k]) <=> Together(order[k], order[n])
    OBVIOUS
  <2>1. order[n].box \in Boxes /\ order[k].box \in Boxes
    BY <1>2 DEF Boxed
  <2> QED
    BY <2>1, OverlapsAreMutual DEF Together
<1> HIDE DEF repeats
<1>9. /\ G \subseteq 1..N
      /\ \A n, k \in G : n # k => <<n, k>> \notin repeats
      /\ \A n \in (1..N) \ G : \E k \in G : k < n /\ <<n, k>> \in repeats
  BY <1>1, <1>7, <1>8, ChosenInTurn
<1> HIDE DEF G
<1>10. vehicles \subseteq group
  BY <1>2, <1>9
<1>11. ASSUME NEW d \in vehicles, NEW e \in vehicles, d # e PROVE ~Together(d, e)
  <2>1. PICK n \in G : d = order[n]
    OBVIOUS
  <2>2. PICK k \in G : e = order[k]
    OBVIOUS
  <2>3. n \in 1..N /\ k \in 1..N /\ n # k /\ <<n, k>> \notin repeats
    BY <1>9, <1>11, <2>1, <2>2
  <2> QED
    BY <1>7, <2>1, <2>2, <2>3
<1>12. ASSUME NEW d \in group \ vehicles
       PROVE  \E e \in vehicles : Together(d, e) /\ e.score >= d.score
  <2>1. PICK n \in 1..N : d = order[n]
    BY <1>5
  <2>2. n \notin G
    BY <2>1
  <2>3. PICK k \in G : k < n /\ <<n, k>> \in repeats
    BY <1>9, <2>1, <2>2
  <2>4. k \in 1..N /\ order[k].score >= order[n].score /\ Together(order[n], order[k])
    BY <1>6, <1>7, <1>9, <2>3
  <2>5. order[k] \in vehicles
    OBVIOUS
  <2> QED
    BY <2>1, <2>4, <2>5
<1>13. Cardinality(vehicles) = Cardinality(G)
  <2> DEFINE f == [n \in G |-> order[n]]
  <2>1. f \in Bijection(G, vehicles)
    BY <1>2, <1>9 DEF Bijection, Injection, Surjection, IsInjective
  <2>2. IsFiniteSet(G)
    <3>1. 1 \in Int /\ N \in Int
      BY <1>1
    <3>2. IsFiniteSet(1..N)
      BY <3>1, FS_Interval
    <3> QED
      BY <1>9, <3>2, FS_Subset
  <2> HIDE DEF f, vehicles
  <2> QED
    BY <2>1, <2>2, FS_Bijection DEF ExistsBijection
<1>14. IsFairChoice(vehicles, group, Together)
  <2> HIDE DEF vehicles
  <2> QED
    BY <1>10, <1>11, <1>12 DEF IsFairChoice
<1> QED
  BY <1>4, <1>10, <1>13, <1>14

\* resolve_slot_detections: one is kept in each bay that has some.
LEMMA OneIsKept ==
  ASSUME NEW all, all \subseteq Boxed, IsFiniteSet(all), NEW bays
  PROVE  LET kept == Resolved(all, bays)
         IN /\ Occupied(kept, bays) = Occupied(all, bays)
            /\ Cardinality(kept) = Cardinality(Occupied(kept, bays))
<1> DEFINE kept == Resolved(all, bays)
           occupied == Occupied(all, bays)
           best(i) == BestOf(InBay(i, all, bays))
<1>1. ASSUME NEW i \in occupied
      PROVE  best(i) \in all /\ Assigned(best(i).box, bays) = i
  <2>1. InBay(i, all, bays) \subseteq all /\ InBay(i, all, bays) # {}
    BY DEF InBay, Occupied
  <2>2. IsFiniteSet(InBay(i, all, bays))
    BY <2>1, FS_Subset
  <2>3. best(i) \in InBay(i, all, bays)
    BY <2>1, <2>2, BestIsOne
  <2> QED
    BY <2>3 DEF InBay
<1>2. kept = {best(i) : i \in occupied}
  BY DEF Resolved
<1> HIDE DEF best, kept
<1>3. kept \subseteq all /\ IsFiniteSet(kept)
  <2>1. kept \subseteq all
    BY <1>1, <1>2
  <2> QED
    BY <2>1, FS_Subset
<1>4. Occupied(kept, bays) = occupied
  <2>1. ASSUME NEW i \in occupied PROVE best(i) \in InBay(i, kept, bays)
    BY <1>1, <1>2 DEF InBay
  <2>2. \A i : InBay(i, kept, bays) \subseteq InBay(i, all, bays)
    BY <1>3 DEF InBay
  <2> QED
    BY <2>1, <2>2 DEF Occupied
<1> DEFINE bay == [d \in kept |-> Assigned(d.box, bays)]
<1>5. bay \in Bijection(kept, occupied)
  <2>1. \A d \in kept : \E i \in occupied : d = best(i) /\ Assigned(d.box, bays) = i
    BY <1>1, <1>2
  <2>2. \A i \in occupied : best(i) \in kept /\ Assigned(best(i).box, bays) = i
    BY <1>1, <1>2
  <2> HIDE DEF occupied
  <2>3. bay \in [kept -> occupied]
    BY <2>1
  <2>4. \A d, e \in kept : bay[d] = bay[e] => d = e
    BY <2>1
  <2>5. \A i \in occupied : \E d \in kept : bay[d] = i
    BY <2>2
  <2> HIDE DEF bay
  <2> QED
    BY <2>3, <2>4, <2>5 DEF Bijection, Injection, Surjection, IsInjective
<1>6. Cardinality(kept) = Cardinality(occupied)
  <2> HIDE DEF bay, occupied
  <2> QED
    BY <1>3, <1>5, FS_Bijection DEF ExistsBijection
<1> QED
  BY <1>4, <1>6 DEF kept

-----------------------------------------------------------------------------
(* The frames, and what is decoded of them *)

LEMMA SquareSizes ==
  ASSUME NEW size \in FrameSizes, NEW axis \in 1..2
  PROVE  /\ size[1] \in Nat \ {0} /\ size[2] \in Nat \ {0} /\ size[axis] \in Nat \ {0}
         /\ Longer(size) \in Nat \ {0} /\ Pad(size, axis) \in Int
<1>1. \A a \in 1..2 : size[a] \in Nat \ {0}
  BY DEF FrameSizes, Drawn
<1>2. Longer(size) \in Nat \ {0}
  BY <1>1 DEF Longer
<1>3. Pad(size, axis) \in Int
  <2> DEFINE side == size[axis] * InputSize
             free == InputSize - (side \div Longer(size))
  <2>1. InputSize \in Int /\ side \in Int
    BY <1>1, BoxBounds
  <2> HIDE DEF side
  <2>2. side \div Longer(size) \in Int
    BY <1>2, <2>1
  <2>3. free \in Int
    BY <2>1, <2>2
  <2>4. Pad(size, axis) = 200 * (free \div 2)
    BY DEF Pad, Pixel, side
  <2> HIDE DEF free
  <2> QED
    BY <2>3, <2>4
<1> QED
  BY <1>1, <1>2, <1>3

LEMMA SquareCoordinates ==
  ASSUME NEW size \in FrameSizes, NEW axis \in 1..2, NEW c \in Int
  PROVE  /\ ToSquare(c, size, axis) \in Int
         /\ Clipped(FromSquare(c, size, axis), size, axis) \in Int
<1>1. /\ size[axis] \in Int /\ Longer(size) \in Nat \ {0} /\ Pad(size, axis) \in Int
      /\ InputSize \in Nat \ {0}
  BY SquareSizes, BoxBounds
<1>2. (c * InputSize) \in Int /\ ((c - Pad(size, axis)) * Longer(size)) \in Int
  BY <1>1
<1>3. ToSquare(c, size, axis) \in Int
  <2>1. ((c * InputSize) \div Longer(size)) \in Int
    BY <1>1, <1>2
  <2> QED
    BY <1>1, <2>1 DEF ToSquare
<1> DEFINE back == FromSquare(c, size, axis)
<1>4. back \in Int
  BY <1>1, <1>2 DEF FromSquare
<1> HIDE DEF back
<1>5. Clipped(back, size, axis) \in Int
  <2>1. Pixel * size[axis] \in Int
    BY <1>1 DEF Pixel
  <2>2. Min({back, Pixel * size[axis]}) \in Int
    BY <1>4, <2>1, TwoHaveBounds
  <2> DEFINE low == Min({back, Pixel * size[axis]})
  <2>3. low \in Int /\ 0 \in Int
    BY <2>2
  <2>4. Clipped(back, size, axis) = Max({0, low})
    BY DEF Clipped
  <2> HIDE DEF low
  <2>5. Max({0, low}) \in {0, low}
    BY <2>3, TwoHaveBounds
  <2> QED
    BY <2>3, <2>4, <2>5
<1> QED
  BY <1>3, <1>5 DEF back

\* What the model returns for a frame.
LEMMA RawIsBoxed ==
  ASSUME NEW f \in Frames
  PROVE  Raw(f) \in Seq(Boxed) /\ f.size \in FrameSizes
<1>1. CASE f \in [plan : Plans, car : Cars, size : FrameSizes, head : {"classic"}, rows : {<<>>}]
  <2>1. f.car \in Cars /\ f.size \in FrameSizes /\ f.rows = <<>>
    BY <1>1
  <2>2. f.car \in Boxes
    <3>1. \A p \in Places : Pixel * p \in Int
      BY PlacesArePixels DEF Pixel
    <3> QED
      BY <2>1, <3>1 DEF Cars, Box, Boxes
  <2> DEFINE inFrame == InFrameOf(f.car, f.size)
  <2>3. inFrame \in Boxes
    <3>1. f.size[1] \in Int /\ f.size[2] \in Int
      BY <2>1, SquareSizes
    <3>2. f.car.x1 \in Int /\ f.car.y1 \in Int /\ f.car.x2 \in Int /\ f.car.y2 \in Int
      BY <2>2 DEF Boxes
    <3>3. /\ f.car.x1 * f.size[1] \in Int /\ f.car.x2 * f.size[1] \in Int
          /\ f.car.y1 * f.size[2] \in Int /\ f.car.y2 * f.size[2] \in Int
      BY <3>1, <3>2
    <3> QED
      BY <3>3 DEF InFrameOf, Drawn, Boxes
  <2> HIDE DEF inFrame
  <2>4. Letterboxed(inFrame, f.size) \in Boxes
    <3>1. inFrame.x1 \in Int /\ inFrame.y1 \in Int /\ inFrame.x2 \in Int /\ inFrame.y2 \in Int
      BY <2>3 DEF Boxes
    <3>2. /\ ToSquare(inFrame.x1, f.size, 1) \in Int /\ ToSquare(inFrame.y1, f.size, 2) \in Int
          /\ ToSquare(inFrame.x2, f.size, 1) \in Int /\ ToSquare(inFrame.y2, f.size, 2) \in Int
      <4>1. \A axis \in 1..2, c \in Int : ToSquare(c, f.size, axis) \in Int
        BY <2>1, SquareCoordinates
      <4>2. 1 \in 1..2 /\ 2 \in 1..2
        OBVIOUS
      <4> QED
        BY <3>1, <4>1, <4>2
    <3> QED
      BY <3>2 DEF Letterboxed, Boxes
  <2>5. Seen(f.car, f.size) \in Boxed
    <3>1. Confidence \in Int
      BY BoxBounds
    <3>2. Seen(f.car, f.size)
            = [box |-> Letterboxed(inFrame, f.size), label |-> "car", score |-> Confidence]
      BY DEF Seen, inFrame
    <3> QED
      BY <2>4, <3>1, <3>2 DEF Boxed
  <2> QED
    BY <2>1, <2>5 DEF Raw
<1>2. CASE f \in [plan : {Row(4, 4, 8)}, car : {Box(0, 0, 1, 1)}, size : {Drawn},
                  head : {"classic", "end_to_end"}, rows : BoundedSeq(Rows, MaxBoxes) \ {<<>>}]
  <2>1. f.size \in FrameSizes /\ f.rows \in BoundedSeq(Rows, MaxBoxes) /\ f.rows # <<>>
    BY <1>2 DEF FrameSizes
  <2>2. Rows \subseteq Boxed
    <3> SUFFICES ASSUME NEW row \in Rows PROVE row \in Boxed
      OBVIOUS
    <3>1. \A x \in 1..3 : Box(x, 2, x + 3, 7) \in Boxes
      BY DEF Box, Boxes, Pixel
    <3>2. /\ row.box \in {Box(x, 2, x + 3, 7) : x \in 1..3}
          /\ row.label \in {"car", "truck", "person"} /\ row.score \in 1..2
          /\ row = [box |-> row.box, label |-> row.label, score |-> row.score]
      BY DEF Rows
    <3>3. row.box \in Boxes /\ row.score \in Int
      BY <3>1, <3>2
    <3> QED
      BY <3>2, <3>3 DEF Boxed
  <2>3. f.rows \in Seq(Rows)
    BY <2>1, PlacesArePixels DEF BoundedSeq, SeqOf
  <2> QED
    BY <2>1, <2>2, <2>3 DEF Raw
<1> QED
  BY <1>1, <1>2 DEF Frames

LEMMA DecodedIsBoxed ==
  ASSUME NEW head, NEW rows \in Seq(Boxed), NEW size \in FrameSizes
  PROVE  Decoded(head, rows, size) \subseteq Boxed /\ IsFiniteSet(Decoded(head, rows, size))
<1>1. ASSUME NEW row \in Boxed PROVE InFrame(row, size) \in Boxed
  <2>1. row.box \in Boxes
    BY DEF Boxed
  <2>2. Unletterboxed(row.box, size) \in Boxes
    <3> DEFINE back(c, axis) == Clipped(FromSquare(c, size, axis), size, axis)
    <3>1. row.box.x1 \in Int /\ row.box.y1 \in Int /\ row.box.x2 \in Int /\ row.box.y2 \in Int
      BY <2>1 DEF Boxes
    <3>2. /\ back(row.box.x1, 1) \in Int /\ back(row.box.y1, 2) \in Int
          /\ back(row.box.x2, 1) \in Int /\ back(row.box.y2, 2) \in Int
      <4>1. \A axis \in 1..2, c \in Int : back(c, axis) \in Int
        BY SquareCoordinates
      <4>2. 1 \in 1..2 /\ 2 \in 1..2
        OBVIOUS
      <4> HIDE DEF back
      <4> QED
        BY <3>1, <4>1, <4>2
    <3>3. Unletterboxed(row.box, size)
            = [x1 |-> back(row.box.x1, 1), y1 |-> back(row.box.y1, 2),
               x2 |-> back(row.box.x2, 1), y2 |-> back(row.box.y2, 2)]
      BY DEF Unletterboxed
    <3> HIDE DEF back
    <3> QED
      BY <3>2, <3>3 DEF Boxes
  <2> QED
    BY <2>2 DEF InFrame, Boxed
<1>2. \E N \in Nat : \E q \in Seq(Boxed), G \in SUBSET (1..N) :
        N = Len(q) /\ Decoded(head, rows, size) = {InFrame(q[n], size) : n \in G}
  <2>1. CASE head = "classic"
    <3> DEFINE best == Candidates(rows)
               clashes == {p \in (DOMAIN best) \X (DOMAIN best) :
                             SameClass(best[p[1]], best[p[2]])}
    <3>1. Decoded(head, rows, size)
            = {InFrame(best[n], size) : n \in Greedy(Len(best), clashes)}
      BY <2>1 DEF Decoded
    <3>2. best \in Seq(Boxed)
      BY CandidatesFall
    <3> HIDE DEF best, clashes
    <3>3. Len(best) \in Nat
      BY <3>2
    <3>4. Greedy(Len(best), clashes) \subseteq 1..Len(best)
      BY <3>3, GreedyIs
    <3> QED
      BY <3>1, <3>2, <3>3, <3>4
  <2>2. CASE head # "classic"
    <3> DEFINE kept == AreVehicles(rows)
    <3>1. Decoded(head, rows, size) = {InFrame(row, size) : row \in ToSet(kept)}
      BY <2>2 DEF Decoded
    <3>2. kept \in Seq(Boxed)
      BY PickedIsSeq DEF AreVehicles
    <3> HIDE DEF kept
    <3>3. Len(kept) \in Nat /\ DOMAIN kept = 1..Len(kept)
      BY <3>2
    <3>4. Decoded(head, rows, size) = {InFrame(kept[n], size) : n \in 1..Len(kept)}
      BY <3>1, <3>3 DEF ToSet
    <3> QED
      BY <3>2, <3>3, <3>4
  <2> QED
    BY <2>1, <2>2
<1>3. PICK N \in Nat : \E q \in Seq(Boxed), G \in SUBSET (1..N) :
        N = Len(q) /\ Decoded(head, rows, size) = {InFrame(q[n], size) : n \in G}
  BY <1>2
<1>4. PICK q \in Seq(Boxed), G \in SUBSET (1..N) :
        N = Len(q) /\ Decoded(head, rows, size) = {InFrame(q[n], size) : n \in G}
  BY <1>3
<1> DEFINE all == Decoded(head, rows, size)
           f == [n \in G |-> InFrame(q[n], size)]
<1>5. all = {InFrame(q[n], size) : n \in G}
  BY <1>4
<1>6. \A n \in G : q[n] \in Boxed
  BY <1>4
<1> HIDE DEF all
<1>7. all \subseteq Boxed
  BY <1>1, <1>5, <1>6
<1>8. IsFiniteSet(G)
  <2>1. 1 \in Int /\ N \in Int
    OBVIOUS
  <2>2. IsFiniteSet(1..N)
    BY <2>1, FS_Interval
  <2> QED
    BY <2>2, FS_Subset
<1>9. f \in Surjection(G, all)
  BY <1>5 DEF Surjection
<1>10. IsFiniteSet(all)
  <2> HIDE DEF f
  <2> QED
    BY <1>8, <1>9, FS_Surjection
<1> QED
  BY <1>7, <1>10 DEF all

-----------------------------------------------------------------------------
(* Why one box is left of every vehicle *)

\* Between two frames nothing is detected; of a frame, what the model returned and the
\* decoder left.
ScoringInv ==
  \/ frame = NoFrame /\ detections = {}
  \/ frame \in Frames /\ detections = Decoded(frame.head, Raw(frame), frame.size)

LEMMA FramesAreDecoded == ScoringSpec => []ScoringInv
<1>1. ScoringInit => ScoringInv
  BY DEF ScoringInit, ScoringInv
<1>2. ScoringInv /\ [ScoringNext]_scoringVars => ScoringInv'
  <2> SUFFICES ASSUME ScoringInv, [ScoringNext]_scoringVars PROVE ScoringInv'
    OBVIOUS
  <2>1. ASSUME NEW f \in Frames, Detects(f) PROVE ScoringInv'
    BY <2>1 DEF Detects, ScoringInv
  <2>2. CASE IsApplied
    BY <2>2 DEF IsApplied, ScoringInv
  <2>3. CASE Votes
    BY <2>3 DEF Votes, ScoringInv
  <2>4. CASE UNCHANGED scoringVars
    BY <2>4 DEF scoringVars, ScoringInv
  <2> QED
    BY <2>1, <2>2, <2>3, <2>4 DEF ScoringNext
<1> QED
  BY <1>1, <1>2, PTL DEF ScoringSpec

\* onnx_decode.py, slot_detections.py: of several boxes of one vehicle one is left, never
\* none, and to keep one in each bay leaves the occupied bays as they are, for every model,
\* frame and limit of rows.
THEOREM OneBoxIsLeft == ScoringSpec => []OneBoxPerVehicle
<1>1. ScoringInv => OneBoxPerVehicle
  <2> SUFFICES ASSUME ScoringInv, frame # NoFrame PROVE OneBoxPerVehicle
    BY DEF OneBoxPerVehicle
  <2>1. frame \in Frames /\ detections = Decoded(frame.head, Raw(frame), frame.size)
    BY DEF ScoringInv
  <2>2. Raw(frame) \in Seq(Boxed) /\ frame.size \in FrameSizes
    BY <2>1, RawIsBoxed
  <2>3. detections \subseteq Boxed /\ IsFiniteSet(detections)
    BY <2>1, <2>2, DecodedIsBoxed
  <2>4. frame.head = "classic" =>
          LET candidates == ToSet(Candidates(Raw(frame)))
          IN \E chosen \in SUBSET candidates :
               /\ detections = {InFrame(row, frame.size) : row \in chosen}
               /\ IsFairChoice(chosen, candidates, Repeats)
    BY <2>1, <2>2, SuppressionIsFair
  <2>5. LET kept == Resolved(detections, BaysOf(frame))
        IN /\ Occupied(kept, BaysOf(frame)) = Occupied(detections, BaysOf(frame))
           /\ Cardinality(kept) = Cardinality(Occupied(kept, BaysOf(frame)))
    BY <2>3, OneIsKept
  <2>6. ASSUME NEW i \in DOMAIN BaysOf(frame)
        PROVE  LET group == InBay(i, detections, BaysOf(frame))
               IN \A order \in Orders(group) :
                    \E vehicles \in SUBSET group :
                      /\ Cardinality(vehicles) = DistinctVehicles(order)
                      /\ IsFairChoice(vehicles, group, Together)
    <3> DEFINE group == InBay(i, detections, BaysOf(frame))
    <3>1. group \subseteq detections
      BY DEF InBay
    <3>2. group \subseteq Boxed /\ IsFiniteSet(group)
      BY <2>3, <3>1, FS_Subset
    <3> HIDE DEF group
    <3>3. \A order \in Orders(group) :
            \E vehicles \in SUBSET group :
              /\ Cardinality(vehicles) = DistinctVehicles(order)
              /\ IsFairChoice(vehicles, group, Together)
      BY <3>2, CountIsFair
    <3> QED
      BY <3>3 DEF group
  <2> QED
    BY <2>4, <2>5, <2>6 DEF OneBoxPerVehicle
<1> QED
  BY <1>1, FramesAreDecoded, PTL

\* The frames of a camera and the verdicts on one bay are explored side by side: of the
\* filter the combined specification says what its own does.
THEOREM FramesLeaveTheVotes == ScoringSpec => Spec
<1>1. ScoringInit => Init
  BY DEF ScoringInit
<1>2. [ScoringNext]_scoringVars => [Next]_vars
  BY DEF ScoringNext, Detects, IsApplied, Votes, scoringVars
<1> QED
  BY <1>1, <1>2, PTL DEF ScoringSpec, Spec

-----------------------------------------------------------------------------
(* The bays of a plan: ray casting over the outline finds what lies in the pieces *)

\* A bay whose outline says of every point, but for those on an edge, what its pieces say.
IsWellDrawn(bay) ==
  /\ bay.outline \in Polygons
  /\ \A p \in Points : ~IsOnEdge(p, bay) => (Inside(p, bay.outline) <=> IsIn(p, bay))

LEMMA PolygonsInPixels ==
  ASSUME NEW corners \in Seq(Points), corners # <<>>
  PROVE  /\ Polygon(corners) \in Polygons
         /\ Len(Polygon(corners)) = Len(corners)
         /\ DOMAIN Polygon(corners) = 1..Len(corners)
         /\ \A i \in 1..Len(corners) :
              Polygon(corners)[i] = <<200 * corners[i][1], 200 * corners[i][2]>>
<1> DEFINE s == Polygon(corners)
<1>1. Len(corners) \in Nat \ {0} /\ DOMAIN corners = 1..Len(corners)
  OBVIOUS
<1>2. /\ DOMAIN s = 1..Len(corners)
      /\ \A i \in 1..Len(corners) : s[i] = <<200 * corners[i][1], 200 * corners[i][2]>>
  BY <1>1 DEF Polygon, Pixel
<1>3. \A i \in 1..Len(corners) : s[i] \in Points
  <2> SUFFICES ASSUME NEW i \in 1..Len(corners) PROVE s[i] \in Points
    OBVIOUS
  <2>1. corners[i] \in Points
    BY <1>1
  <2>2. corners[i][1] \in Int /\ corners[i][2] \in Int
    BY <2>1 DEF Points
  <2>3. 200 * corners[i][1] \in Int /\ 200 * corners[i][2] \in Int
    BY <2>2
  <2> QED
    BY <1>2, <2>3 DEF Points
<1>4. s = [i \in 1..Len(corners) |-> s[i]]
  BY <1>1 DEF Polygon
<1> HIDE DEF s
<1>5. s \in Seq(Points) /\ Len(s) = Len(corners)
  BY <1>1, <1>2, <1>3, <1>4
<1>6. s # <<>>
  BY <1>1, <1>5
<1> QED
  BY <1>2, <1>5, <1>6 DEF s, Polygons

\* A trapezoid with its parallel sides level, its corners clockwise, is convex.
LEMMA TrapezoidsAreConvex ==
  ASSUME NEW s \in Polygons, Len(s) = 4,
         s[1][2] = s[2][2], s[3][2] = s[4][2], s[1][2] < s[3][2],
         s[1][1] < s[2][1], s[4][1] < s[3][1]
  PROVE  IsConvex(s)
<1> DEFINE t == s[1][2]
           u == s[3][2]
           l == s[1][1]
           r == s[2][1]
           m == s[4][1]
           n == s[3][1]
<1>0. /\ t \in Int /\ u \in Int /\ l \in Int /\ r \in Int /\ m \in Int /\ n \in Int
      /\ t < u /\ l < r /\ m < n
      /\ s[1] = <<l, t>> /\ s[2] = <<r, t>> /\ s[3] = <<n, u>> /\ s[4] = <<m, u>>
  <2>1. \A i \in 1..4 : s[i] \in Points /\ s[i][1] \in Int /\ s[i][2] \in Int
    BY CornersArePoints
  <2>2. \A i \in 1..4 : s[i] = <<s[i][1], s[i][2]>>
    BY <2>1 DEF Points
  <2> QED
    BY <2>1, <2>2
<1> HIDE DEF t, u, l, r, m, n
<1> DEFINE a == <<l, t>>
           b == <<r, t>>
           c == <<n, u>>
           d == <<m, u>>
           h == u - t
           w == r - l
           v == n - m
<1>1. h \in Int /\ w \in Int /\ v \in Int /\ h > 0 /\ w > 0 /\ v > 0
  BY <1>0
<1>2. w * h > 0 /\ v * h > 0
  <2> HIDE DEF w, h, v
  <2> QED
    BY <1>1, ProductsOfSigns
<1>3. /\ Side(c, a, b) = w * h /\ Side(d, a, b) = w * h
      /\ Side(d, b, c) = v * h /\ Side(a, b, c) = w * h
      /\ Side(a, c, d) = v * h /\ Side(b, c, d) = v * h
      /\ Side(b, d, a) = w * h /\ Side(c, d, a) = v * h
  BY <1>0 DEF Side
<1>4. /\ Next1(1, s) = 2 /\ Next1(2, s) = 3 /\ Next1(3, s) = 4 /\ Next1(4, s) = 1
      /\ DOMAIN s = 1..4
  <2>1. DOMAIN s = 1..4
    BY CornersArePoints
  <2>2. 1 % 4 = 1 /\ 2 % 4 = 2 /\ 3 % 4 = 3 /\ 4 % 4 = 0
    OBVIOUS
  <2> QED
    BY <2>1, <2>2 DEF Next1
<1> HIDE DEF a, b, c, d, w, h, v
<1>5. s[1] = a /\ s[2] = b /\ s[3] = c /\ s[4] = d
  BY <1>0 DEF a, b, c, d
<1>6. ASSUME NEW i \in 1..4, NEW k \in 1..4, k \notin {i, Next1(i, s)}
      PROVE  Side(s[k], s[i], s[Next1(i, s)]) > 0
  <2>1. CASE i = 1
    <3>1. k = 3 \/ k = 4
      BY <1>4, <1>6, <2>1
    <3> QED
      BY <1>2, <1>3, <1>4, <1>5, <2>1, <3>1
  <2>2. CASE i = 2
    <3>1. k = 4 \/ k = 1
      BY <1>4, <1>6, <2>2
    <3> QED
      BY <1>2, <1>3, <1>4, <1>5, <2>2, <3>1
  <2>3. CASE i = 3
    <3>1. k = 1 \/ k = 2
      BY <1>4, <1>6, <2>3
    <3> QED
      BY <1>2, <1>3, <1>4, <1>5, <2>3, <3>1
  <2>4. CASE i = 4
    <3>1. k = 2 \/ k = 3
      BY <1>4, <1>6, <2>4
    <3> QED
      BY <1>2, <1>3, <1>4, <1>5, <2>4, <3>1
  <2> QED
    BY <2>1, <2>2, <2>3, <2>4
<1> QED
  BY <1>4, <1>6 DEF IsConvex

\* A bay that is one trapezoid, in whichever direction its outline runs.
LEMMA TrapezoidsAreWellDrawn ==
  ASSUME NEW t \in Int, NEW u \in Int, t < u,
         NEW l \in Int, NEW r \in Int, l < r, NEW m \in Int, NEW n \in Int, m < n
  PROVE  LET bay == Convex(<< <<l, t>>, <<r, t>>, <<n, u>>, <<m, u>> >>)
         IN IsWellDrawn(bay) /\ IsWellDrawn([bay EXCEPT !.outline = Reverse(@)])
<1> DEFINE corners == << <<l, t>>, <<r, t>>, <<n, u>>, <<m, u>> >>
           s == Polygon(corners)
           bay == Convex(corners)
           back == [bay EXCEPT !.outline = Reverse(@)]
<1>1. s \in Polygons /\ Len(s) = 4 /\ IsConvex(s)
  <2>1. /\ corners \in Seq(Points) /\ corners # <<>> /\ Len(corners) = 4
        /\ corners[1] = <<l, t>> /\ corners[2] = <<r, t>>
        /\ corners[3] = <<n, u>> /\ corners[4] = <<m, u>>
    BY DEF Points
  <2> HIDE DEF corners
  <2> HIDE DEF s
  <2>2. /\ s \in Polygons /\ Len(s) = Len(corners)
        /\ \A i \in 1..Len(corners) : s[i] = <<200 * corners[i][1], 200 * corners[i][2]>>
    BY <2>1, PolygonsInPixels DEF s
  <2>3. /\ s[1] = <<200 * l, 200 * t>> /\ s[2] = <<200 * r, 200 * t>>
        /\ s[3] = <<200 * n, 200 * u>> /\ s[4] = <<200 * m, 200 * u>>
    <3>1. 1 \in 1..4 /\ 2 \in 1..4 /\ 3 \in 1..4 /\ 4 \in 1..4
      OBVIOUS
    <3>2. /\ corners[1][1] = l /\ corners[1][2] = t /\ corners[2][1] = r /\ corners[2][2] = t
          /\ corners[3][1] = n /\ corners[3][2] = u /\ corners[4][1] = m /\ corners[4][2] = u
      BY <2>1
    <3>3. /\ s[1] = <<200 * corners[1][1], 200 * corners[1][2]>>
          /\ s[2] = <<200 * corners[2][1], 200 * corners[2][2]>>
          /\ s[3] = <<200 * corners[3][1], 200 * corners[3][2]>>
          /\ s[4] = <<200 * corners[4][1], 200 * corners[4][2]>>
      <4>1. Len(corners) = 4
        BY <2>1
      <4>2. \A i \in 1..4 : s[i] = <<200 * corners[i][1], 200 * corners[i][2]>>
        BY <2>2, <4>1
      <4> QED
        BY <3>1, <4>2
    <3> QED
      BY <3>2, <3>3
  <2>4. 200 * t < 200 * u /\ 200 * l < 200 * r /\ 200 * m < 200 * n
    OBVIOUS
  <2>5. Len(s) = 4
    BY <2>1, <2>2
  <2>6. IsConvex(s)
    BY <2>2, <2>3, <2>4, <2>5, TrapezoidsAreConvex
  <2> QED
    BY <2>2, <2>5, <2>6
<1>2. /\ bay.outline = s /\ bay.pieces = {s}
      /\ back.outline = Reverse(s) /\ back.pieces = {s}
  BY DEF Convex
<1> HIDE DEF s, bay, back
<1>3. ASSUME NEW p \in Points, ~((\A x \in Sides(p, s) : x >= 0) /\ 0 \in Sides(p, s))
      PROVE  Inside(p, s) <=> \A x \in Sides(p, s) : x > 0
  <2>1. \A x \in Sides(p, s) : x \in Int
    BY <1>1, CornersArePoints, EdgesFallOrRise DEF Sides
  <2>2. (\A x \in Sides(p, s) : x > 0) \/ (\E x \in Sides(p, s) : x < 0)
    BY <1>3, <2>1
  <2>3. ~((\A x \in Sides(p, s) : x > 0) /\ (\E x \in Sides(p, s) : x < 0))
    BY <2>1
  <2> QED
    BY <1>1, <2>2, <2>3, RayCastingIsRight
<1>4. ASSUME NEW any, any.pieces = {s}, NEW p \in Points, ~IsOnEdge(p, any)
      PROVE  Inside(p, s) <=> IsIn(p, any)
  BY <1>3, <1>4 DEF IsOnEdge, IsIn
<1>5. IsWellDrawn(bay)
  BY <1>1, <1>2, <1>4 DEF IsWellDrawn
<1>6. IsWellDrawn(back)
  <2>1. ASSUME NEW p \in Points PROVE Inside(p, Reverse(s)) <=> Inside(p, s)
    BY <1>1, DirectionSaysNothing
  <2>2. Reverse(s) \in Polygons
    <3>1. <<0, 0>> \in Points
      BY DEF Points
    <3> QED
      BY <1>1, <3>1, DirectionSaysNothing
  <2> QED
    BY <1>2, <1>4, <2>1, <2>2 DEF IsWellDrawn
<1> QED
  BY <1>5, <1>6 DEF bay, back

\* Of a level rectangle, its corners clockwise.
LEMMA RectangleHolds ==
  ASSUME NEW s \in Polygons, Len(s) = 4, NEW p \in Points,
         s[1][2] = s[2][2], s[3][2] = s[4][2], s[1][2] < s[3][2],
         s[1][1] = s[4][1], s[2][1] = s[3][1], s[1][1] < s[2][1]
  PROVE  /\ (\A x \in Sides(p, s) : x > 0)
              <=> /\ s[1][1] < p[1] /\ p[1] < s[2][1]
                  /\ s[1][2] < p[2] /\ p[2] < s[3][2]
         /\ (\A x \in Sides(p, s) : x >= 0) /\ 0 \in Sides(p, s)
              <=> /\ s[1][1] <= p[1] /\ p[1] <= s[2][1]
                  /\ s[1][2] <= p[2] /\ p[2] <= s[3][2]
                  /\ p[1] \in {s[1][1], s[2][1]} \/ p[2] \in {s[1][2], s[3][2]}
<1> DEFINE l == s[1][1]
           r == s[2][1]
           t == s[1][2]
           u == s[3][2]
           w == r - l
           h == u - t
           x == p[1]
           q == p[2]
<1>1. /\ l \in Int /\ r \in Int /\ t \in Int /\ u \in Int /\ x \in Int /\ q \in Int
      /\ DOMAIN s = 1..4
  BY CornersArePoints DEF Points
<1>2. w \in Int /\ h \in Int /\ w > 0 /\ h > 0
  BY <1>1
<1>3. /\ Next1(1, s) = 2 /\ Next1(2, s) = 3 /\ Next1(3, s) = 4 /\ Next1(4, s) = 1
  <2>1. 1 % 4 = 1 /\ 2 % 4 = 2 /\ 3 % 4 = 3 /\ 4 % 4 = 0
    OBVIOUS
  <2> QED
    BY <2>1 DEF Next1
<1> DEFINE S1 == w * (q - t)
           S2 == h * (r - x)
           S3 == w * (u - q)
           S4 == h * (x - l)
<1>4. Sides(p, s) = {S1, S2, S3, S4}
  <2>1. /\ s[2][2] = t /\ s[4][2] = u /\ s[4][1] = l /\ s[3][1] = r
        /\ s[1][1] = l /\ s[1][2] = t /\ s[2][1] = r /\ s[3][2] = u
    OBVIOUS
  <2> HIDE DEF l, r, t, u
  <2>2. /\ Side(p, s[1], s[2]) = (r - l) * (q - t) - (t - t) * (x - l)
        /\ Side(p, s[2], s[3]) = (r - r) * (q - t) - (u - t) * (x - r)
        /\ Side(p, s[3], s[4]) = (l - r) * (q - u) - (u - u) * (x - r)
        /\ Side(p, s[4], s[1]) = (l - l) * (q - u) - (t - u) * (x - l)
    BY <2>1 DEF Side
  <2> HIDE DEF x, q
  <2>3. /\ (r - l) * (q - t) - (t - t) * (x - l) = S1
        /\ (r - r) * (q - t) - (u - t) * (x - r) = S2
        /\ (l - r) * (q - u) - (u - u) * (x - r) = S3
        /\ (l - l) * (q - u) - (t - u) * (x - l) = S4
    BY <1>1
  <2> HIDE DEF S1, S2, S3, S4
  <2>4. Sides(p, s) = {Side(p, s[i], s[Next1(i, s)]) : i \in 1..4}
    BY <1>1 DEF Sides
  <2>5. /\ Side(p, s[1], s[Next1(1, s)]) = S1 /\ Side(p, s[2], s[Next1(2, s)]) = S2
        /\ Side(p, s[3], s[Next1(3, s)]) = S3 /\ Side(p, s[4], s[Next1(4, s)]) = S4
    BY <1>3, <2>2, <2>3
  <2>6. 1..4 = {1, 2, 3, 4}
    OBVIOUS
  <2> QED
    BY <2>4, <2>5, <2>6
<1>5. ASSUME NEW k \in Int, k > 0, NEW d \in Int
      PROVE  /\ k * d \in Int
             /\ k * d > 0 <=> d > 0
             /\ k * d >= 0 <=> d >= 0
             /\ k * d = 0 <=> d = 0
  <2>1. k * d = d * k
    BY <1>5
  <2>2. CASE d > 0
    BY <1>5, <2>1, <2>2, ProductsOfSigns
  <2>3. CASE d = 0
    BY <1>5, <2>1, <2>3
  <2>4. CASE d < 0
    BY <1>5, <2>1, <2>4, ProductsOfSigns
  <2> QED
    BY <1>5, <2>2, <2>3, <2>4
<1>6. q - t \in Int /\ r - x \in Int /\ u - q \in Int /\ x - l \in Int
  BY <1>1
<1> HIDE DEF w, h
<1>7. /\ S1 > 0 <=> q - t > 0
      /\ S2 > 0 <=> r - x > 0
      /\ S3 > 0 <=> u - q > 0
      /\ S4 > 0 <=> x - l > 0
  BY <1>2, <1>5, <1>6
<1>8. /\ S1 >= 0 <=> q - t >= 0
      /\ S2 >= 0 <=> r - x >= 0
      /\ S3 >= 0 <=> u - q >= 0
      /\ S4 >= 0 <=> x - l >= 0
  BY <1>2, <1>5, <1>6
<1>9. /\ S1 = 0 <=> q - t = 0
      /\ S2 = 0 <=> r - x = 0
      /\ S3 = 0 <=> u - q = 0
      /\ S4 = 0 <=> x - l = 0
  BY <1>2, <1>5, <1>6
<1> HIDE DEF S1, S2, S3, S4, l, r, t, u, x, q
<1>10. (\A y \in Sides(p, s) : y > 0) <=> l < x /\ x < r /\ t < q /\ q < u
  BY <1>1, <1>4, <1>7
<1>11. (\A y \in Sides(p, s) : y >= 0) <=> l <= x /\ x <= r /\ t <= q /\ q <= u
  BY <1>1, <1>4, <1>8
<1>12. 0 \in Sides(p, s) <=> x \in {l, r} \/ q \in {t, u}
  BY <1>1, <1>4, <1>9
<1> QED
  BY <1>10, <1>11, <1>12 DEF l, r, t, u, x, q

\* The bay with a corner missing: two edges cross at once only to its left.
LEMMA CornerIsWellDrawn ==
  IsWellDrawn(Corner[1])
<1> DEFINE corners == << <<0, 1>>, <<3, 1>>, <<3, 4>>, <<8, 4>>, <<8, 8>>, <<0, 8>> >>
           left == << <<0, 1>>, <<3, 1>>, <<3, 8>>, <<0, 8>> >>
           right == << <<3, 4>>, <<8, 4>>, <<8, 8>>, <<3, 8>> >>
           s == Polygon(corners)
           A == Polygon(left)
           B == Polygon(right)
           bay == Corner[1]
<1>1. bay.outline = s /\ bay.pieces = {A, B}
  BY DEF Corner
<1>2. /\ s \in Polygons /\ Len(s) = 6
      /\ s[1] = <<0, 200>> /\ s[2] = <<600, 200>> /\ s[3] = <<600, 800>>
      /\ s[4] = <<1600, 800>> /\ s[5] = <<1600, 1600>> /\ s[6] = <<0, 1600>>
  <2>1. /\ corners \in Seq(Points) /\ corners # <<>> /\ Len(corners) = 6
        /\ corners[1] = <<0, 1>> /\ corners[2] = <<3, 1>> /\ corners[3] = <<3, 4>>
        /\ corners[4] = <<8, 4>> /\ corners[5] = <<8, 8>> /\ corners[6] = <<0, 8>>
    BY DEF Points
  <2> HIDE DEF corners
  <2>2. /\ s \in Polygons /\ Len(s) = 6
        /\ \A i \in 1..6 : s[i] = <<200 * corners[i][1], 200 * corners[i][2]>>
    BY <2>1, PolygonsInPixels
  <2> QED
    BY <2>1, <2>2
<1>3. /\ A \in Polygons /\ Len(A) = 4
      /\ A[1] = <<0, 200>> /\ A[2] = <<600, 200>> /\ A[3] = <<600, 1600>> /\ A[4] = <<0, 1600>>
  <2>1. /\ left \in Seq(Points) /\ left # <<>> /\ Len(left) = 4
        /\ left[1] = <<0, 1>> /\ left[2] = <<3, 1>> /\ left[3] = <<3, 8>> /\ left[4] = <<0, 8>>
    BY DEF Points
  <2> HIDE DEF left
  <2>2. /\ A \in Polygons /\ Len(A) = 4
        /\ \A i \in 1..4 : A[i] = <<200 * left[i][1], 200 * left[i][2]>>
    BY <2>1, PolygonsInPixels
  <2> QED
    BY <2>1, <2>2
<1>4. /\ B \in Polygons /\ Len(B) = 4
      /\ B[1] = <<600, 800>> /\ B[2] = <<1600, 800>> /\ B[3] = <<1600, 1600>> /\ B[4] = <<600, 1600>>
  <2>1. /\ right \in Seq(Points) /\ right # <<>> /\ Len(right) = 4
        /\ right[1] = <<3, 4>> /\ right[2] = <<8, 4>> /\ right[3] = <<8, 8>> /\ right[4] = <<3, 8>>
    BY DEF Points
  <2> HIDE DEF right
  <2>2. /\ B \in Polygons /\ Len(B) = 4
        /\ \A i \in 1..4 : B[i] = <<200 * right[i][1], 200 * right[i][2]>>
    BY <2>1, PolygonsInPixels
  <2> QED
    BY <2>1, <2>2
<1> HIDE DEF s, A, B, bay
<1>5. ASSUME NEW p \in Points, ~IsOnEdge(p, bay)
      PROVE  Inside(p, s) <=> IsIn(p, bay)
  <2> DEFINE x == p[1]
             q == p[2]
             C == Crossed(p, s)
  <2>1. x \in Int /\ q \in Int
    BY DEF Points
  <2>2. /\ (\A y \in Sides(p, A) : y > 0) <=> 0 < x /\ x < 600 /\ 200 < q /\ q < 1600
        /\ (\A y \in Sides(p, A) : y >= 0) /\ 0 \in Sides(p, A)
             <=> /\ 0 <= x /\ x <= 600 /\ 200 <= q /\ q <= 1600
                 /\ x \in {0, 600} \/ q \in {200, 1600}
    BY <1>3, RectangleHolds
  <2>3. /\ (\A y \in Sides(p, B) : y > 0) <=> 600 < x /\ x < 1600 /\ 800 < q /\ q < 1600
        /\ (\A y \in Sides(p, B) : y >= 0) /\ 0 \in Sides(p, B)
             <=> /\ 600 <= x /\ x <= 1600 /\ 800 <= q /\ q <= 1600
                 /\ x \in {600, 1600} \/ q \in {800, 1600}
    BY <1>4, RectangleHolds
  <2>4. /\ DOMAIN s = 1..6
        /\ Next1(1, s) = 2 /\ Next1(2, s) = 3 /\ Next1(3, s) = 4
        /\ Next1(4, s) = 5 /\ Next1(5, s) = 6 /\ Next1(6, s) = 1
    <3>1. 1 % 6 = 1 /\ 2 % 6 = 2 /\ 3 % 6 = 3 /\ 4 % 6 = 4 /\ 5 % 6 = 5 /\ 6 % 6 = 0
      OBVIOUS
    <3>2. DOMAIN s = 1..6
      BY <1>2, CornersArePoints
    <3> QED
      BY <1>2, <3>1, <3>2 DEF Next1
  <2>5. /\ ~Crosses(p, s[1], s[2]) /\ ~Crosses(p, s[3], s[4]) /\ ~Crosses(p, s[5], s[6])
        /\ Crosses(p, s[2], s[3]) <=> 200 <= q /\ q < 800 /\ x < 600
        /\ Crosses(p, s[4], s[5]) <=> 800 <= q /\ q < 1600 /\ x < 1600
        /\ Crosses(p, s[6], s[1]) <=> 200 <= q /\ q < 1600 /\ x < 0
    BY <1>2, <2>1 DEF Crosses, IsLeftOfEdge
  <2>6. \A i \in 1..6 : i \in C <=> Crosses(p, s[i], s[Next1(i, s)])
    BY <2>4 DEF Crossed
  <2>7. C \subseteq 1..6
    BY <2>4 DEF Crossed
  <2>8. Inside(p, s) <=> Cardinality(C) % 2 = 1
    BY DEF Inside, Crossed
  <2> HIDE DEF C
  <2>9. /\ 1 \notin C /\ 3 \notin C /\ 5 \notin C
        /\ 2 \in C <=> 200 <= q /\ q < 800 /\ x < 600
        /\ 4 \in C <=> 800 <= q /\ q < 1600 /\ x < 1600
        /\ 6 \in C <=> 200 <= q /\ q < 1600 /\ x < 0
    BY <2>4, <2>5, <2>6
  <2> HIDE DEF x, q
  <2>10. C = {} \/ C = {2} \/ C = {4} \/ C = {2, 6} \/ C = {4, 6}
    <3>1. C \subseteq {2, 4, 6}
      BY <2>7, <2>9
    <3>2. ~(2 \in C /\ 4 \in C)
      BY <2>1, <2>9
    <3>3. 6 \in C => 2 \in C \/ 4 \in C
      BY <2>1, <2>9
    <3> QED
      BY <3>1, <3>2, <3>3
  <2>11. Cardinality(C) % 2 = 1 <=> (2 \in C \/ 4 \in C) /\ 6 \notin C
    <3>1. /\ Cardinality({}) = 0 /\ Cardinality({2}) = 1 /\ Cardinality({4}) = 1
      BY FS_EmptySet, FS_Singleton
    <3>2. Cardinality({2, 6}) = 2 /\ Cardinality({4, 6}) = 2
      <4>1. IsFiniteSet({2}) /\ IsFiniteSet({4})
        BY FS_Singleton
      <4>2. /\ {2} \cup {6} = {2, 6} /\ {4} \cup {6} = {4, 6}
            /\ 6 \notin {2} /\ 6 \notin {4}
        OBVIOUS
      <4>3. /\ Cardinality({2} \cup {6}) = Cardinality({2}) + 1
            /\ Cardinality({4} \cup {6}) = Cardinality({4}) + 1
        BY <4>1, <4>2, FS_AddElement
      <4> QED
        BY <3>1, <4>2, <4>3
    <3>3. 0 % 2 = 0 /\ 1 % 2 = 1 /\ 2 % 2 = 0
      OBVIOUS
    <3>4. CASE C = {}
      BY <3>1, <3>3, <3>4
    <3>5. CASE C = {2}
      BY <3>1, <3>3, <3>5
    <3>6. CASE C = {4}
      BY <3>1, <3>3, <3>6
    <3>7. CASE C = {2, 6}
      BY <3>2, <3>3, <3>7
    <3>8. CASE C = {4, 6}
      BY <3>2, <3>3, <3>8
    <3> QED
      BY <2>10, <3>4, <3>5, <3>6, <3>7, <3>8
  <2>12. Inside(p, s) <=> \/ 200 <= q /\ q < 800 /\ 0 <= x /\ x < 600
                          \/ 800 <= q /\ q < 1600 /\ 0 <= x /\ x < 1600
    BY <2>1, <2>8, <2>9, <2>11
  <2>13. IsIn(p, bay) <=> \/ 0 < x /\ x < 600 /\ 200 < q /\ q < 1600
                          \/ 600 < x /\ x < 1600 /\ 800 < q /\ q < 1600
    BY <1>1, <2>2, <2>3 DEF IsIn
  <2>14. /\ ~(/\ 0 <= x /\ x <= 600 /\ 200 <= q /\ q <= 1600
              /\ x \in {0, 600} \/ q \in {200, 1600})
         /\ ~(/\ 600 <= x /\ x <= 1600 /\ 800 <= q /\ q <= 1600
              /\ x \in {600, 1600} \/ q \in {800, 1600})
    BY <1>1, <1>5, <2>2, <2>3 DEF IsOnEdge
  <2> QED
    BY <2>1, <2>12, <2>13, <2>14
<1> QED
  BY <1>1, <1>2, <1>5 DEF IsWellDrawn, bay

\* Every bay of every plan: the pieces say what the bay is, the outline is what was drawn.
LEMMA PlansAreWellDrawn ==
  ASSUME NEW plan \in Plans
  PROVE  /\ DOMAIN plan = 1..2
         /\ \A i \in 1..2 : IsWellDrawn(plan[i])
<1>1. ASSUME NEW a \in {2, 4}, NEW b \in {2, 4, 5}, NEW bottom \in {6, 8}, plan = Row(a, b, bottom)
      PROVE  DOMAIN plan = 1..2 /\ IsWellDrawn(plan[1]) /\ IsWellDrawn(plan[2])
  <2>1. /\ a \in Int /\ b \in Int /\ bottom \in Int /\ 0 \in Int /\ 3 \in Int /\ 8 \in Int
        /\ 3 < bottom /\ 0 < a /\ 0 < b /\ a < 8 /\ b < 8
    OBVIOUS
  <2>2. IsWellDrawn(Convex(<< <<0, 3>>, <<a, 3>>, <<b, bottom>>, <<0, bottom>> >>))
    BY <2>1, TrapezoidsAreWellDrawn, Zenon
  <2>3. IsWellDrawn([Convex(<< <<a, 3>>, <<8, 3>>, <<8, bottom>>, <<b, bottom>> >>)
                       EXCEPT !.outline = Reverse(@)])
    BY <2>1, TrapezoidsAreWellDrawn
  <2> QED
    BY <1>1, <2>2, <2>3 DEF Row
<1>2. ASSUME plan = Corner
      PROVE  DOMAIN plan = 1..2 /\ IsWellDrawn(plan[1]) /\ IsWellDrawn(plan[2])
  <2>1. IsWellDrawn(Convex(<< <<4, 5>>, <<8, 5>>, <<8, 8>>, <<5, 8>> >>))
    <3>1. /\ 5 \in Int /\ 8 \in Int /\ 4 \in Int
          /\ 5 < 8 /\ 4 < 8
      OBVIOUS
    <3> QED
      BY <3>1, TrapezoidsAreWellDrawn, Zenon
  <2>2. DOMAIN Corner = 1..2 /\ Corner[2] = Convex(<< <<4, 5>>, <<8, 5>>, <<8, 8>>, <<5, 8>> >>)
    BY DEF Corner
  <2> QED
    BY <1>2, <2>1, <2>2, CornerIsWellDrawn
<1> QED
  BY <1>1, <1>2 DEF Plans

-----------------------------------------------------------------------------
(* From the still to a frame: the map and the car grow by the same factor for each axis *)

LEMMA ExactDivision ==
  ASSUME NEW m \in Int, NEW k \in Nat \ {0}
  PROVE  (m * k) \div k = m
<1>1. k \in Int /\ k > 0
  OBVIOUS
<1> QED
  BY <1>1

\* FrameSizes: by how much each axis of the still is stretched.
Factors(size, kx, ky) == kx \in {1, 2} /\ ky \in {1, 2} /\ size = <<8 * kx, 8 * ky>>

LEMMA SizesStretch ==
  ASSUME NEW size \in FrameSizes
  PROVE  \E kx, ky : Factors(size, kx, ky)
<1>1. CASE size = <<8, 8>>
  <2>1. Factors(size, 1, 1)
    BY <1>1 DEF Factors
  <2> QED
    BY <2>1
<1>2. CASE size = <<16, 8>>
  <2>1. Factors(size, 2, 1)
    BY <1>2 DEF Factors
  <2> QED
    BY <2>1
<1>3. CASE size = <<8, 16>>
  <2>1. Factors(size, 1, 2)
    BY <1>3 DEF Factors
  <2> QED
    BY <2>1
<1> QED
  BY <1>1, <1>2, <1>3 DEF FrameSizes, Drawn

\* A size, and the same size with the axes stretched.
Sizes == (Nat \ {0}) \X (Nat \ {0})

LEMMA StretchByOne ==
  ASSUME NEW polygon \in Polygons
  PROVE  Stretched(polygon, 1, 1) = polygon
<1>1. /\ DOMAIN polygon = 1..Len(polygon) /\ polygon \in Seq(Points)
      /\ \A i \in DOMAIN polygon : polygon[i] \in Points
  BY CornersArePoints DEF Polygons
<1>2. \A p \in Points : <<1 * p[1], 1 * p[2]>> = p
  BY DEF Points
<1>3. Stretched(polygon, 1, 1) = [i \in DOMAIN polygon |-> polygon[i]]
  BY <1>1, <1>2 DEF Stretched, Stretch
<1>4. polygon = [i \in DOMAIN polygon |-> polygon[i]]
  BY <1>1
<1> QED
  BY <1>3, <1>4

\* SlotMap.fit_to_frame: the bays of a frame are the drawn ones, stretched.
LEMMA FitIsStretch ==
  ASSUME NEW n \in Nat, NEW bays, DOMAIN bays = 1..n, \A i \in 1..n : bays[i] \in Polygons,
         NEW drawn \in Sizes, NEW kx \in Nat \ {0}, NEW ky \in Nat \ {0},
         NEW size, size = <<kx * drawn[1], ky * drawn[2]>>
  PROVE  LET fit == FitToFrame(bays, drawn, size)
         IN /\ DOMAIN fit = 1..n
            /\ \A i \in 1..n : fit[i] = Stretched(bays[i], kx, ky)
<1> DEFINE w == drawn[1]
           h == drawn[2]
           fit == FitToFrame(bays, drawn, size)
<1>1. w \in Nat \ {0} /\ h \in Nat \ {0} /\ drawn = <<w, h>>
  BY DEF Sizes
<1>2. size[1] = kx * w /\ size[2] = ky * h
  OBVIOUS
<1> HIDE DEF w, h
<1>3. CASE drawn = size
  <2>1. \A k, m \in Nat \ {0} : k * m = m => k = 1
    <3> SUFFICES ASSUME NEW k \in Nat \ {0}, NEW m \in Nat \ {0}, k * m = m, k # 1
                 PROVE  FALSE
      OBVIOUS
    <3>1. (k - 1) * m = k * m - m
      OBVIOUS
    <3>2. k - 1 \in Int /\ k - 1 > 0 /\ m \in Int /\ m > 0
      OBVIOUS
    <3>3. (k - 1) * m > 0
      BY <3>2, ProductsOfSigns
    <3> QED
      BY <3>1, <3>3
  <2>2. kx * w = w /\ ky * h = h
    BY <1>1, <1>2, <1>3
  <2>3. kx = 1 /\ ky = 1
    BY <1>1, <2>1, <2>2
  <2>4. fit = bays
    BY <1>3 DEF FitToFrame
  <2> QED
    BY <2>3, <2>4, StretchByOne
<1>4. CASE drawn # size
  <2>1. fit = [i \in 1..n |-> Scaled(bays[i], drawn, size)]
    BY <1>4 DEF FitToFrame
  <2>2. ASSUME NEW polygon \in Polygons
        PROVE  Scaled(polygon, drawn, size) = Stretched(polygon, kx, ky)
    <3>1. \A i \in DOMAIN polygon : polygon[i][1] \in Int /\ polygon[i][2] \in Int
      BY CornersArePoints
    <3>2. ASSUME NEW v \in Int, NEW k \in Nat \ {0}, NEW m \in Nat \ {0}
          PROVE  (v * (k * m)) \div m = k * v
      <4>1. v * (k * m) = (k * v) * m /\ k * v \in Int
        OBVIOUS
      <4> QED
        BY <4>1, ExactDivision
    <3>3. \A v \in Int : (v * size[1]) \div drawn[1] = kx * v /\ (v * size[2]) \div drawn[2] = ky * v
      BY <1>1, <1>2, <3>2
    <3>4. \A i \in DOMAIN polygon :
            /\ (polygon[i][1] * size[1]) \div drawn[1] = kx * polygon[i][1]
            /\ (polygon[i][2] * size[2]) \div drawn[2] = ky * polygon[i][2]
      BY <3>1, <3>3
    <3> QED
      BY <3>4 DEF Scaled, Stretched, Stretch
  <2> QED
    BY <2>1, <2>2
<1> QED
  BY <1>3, <1>4

LEMMA BaysStretch ==
  ASSUME NEW plan \in Plans, NEW size, NEW kx, NEW ky, Factors(size, kx, ky)
  PROVE  LET bays == FitToFrame(Outlines(plan), Drawn, size)
         IN /\ DOMAIN bays = 1..2
            /\ \A i \in 1..2 : bays[i] = Stretched(plan[i].outline, kx, ky)
<1> DEFINE drawn == Outlines(plan)
<1>1. /\ DOMAIN plan = 1..2
      /\ \A i \in 1..2 : plan[i].outline \in Polygons
  BY PlansAreWellDrawn DEF IsWellDrawn
<1>2. DOMAIN drawn = 1..2 /\ \A i \in 1..2 : drawn[i] = plan[i].outline
  BY <1>1 DEF Outlines
<1>3. /\ kx \in Nat \ {0} /\ ky \in Nat \ {0} /\ Drawn \in Sizes
      /\ size = <<kx * Drawn[1], ky * Drawn[2]>>
  BY DEF Factors, Drawn, Sizes
<1> DEFINE n == 2
<1>4. n \in Nat /\ DOMAIN drawn = 1..n /\ \A i \in 1..n : drawn[i] \in Polygons
  BY <1>1, <1>2
<1> HIDE DEF drawn, n
<1>5. /\ DOMAIN FitToFrame(drawn, Drawn, size) = 1..n
      /\ \A i \in 1..n : FitToFrame(drawn, Drawn, size)[i] = Stretched(drawn[i], kx, ky)
  BY <1>3, <1>4, FitIsStretch
<1> QED
  BY <1>2, <1>5 DEF drawn, n

LEMMA CarsAreInPixels ==
  ASSUME NEW car \in Cars
  PROVE  \E x1, y1, x2, y2 \in 0..8 : x1 < x2 /\ y1 < y2 /\ car = Box(x1, y1, x2, y2)
<1>1. PICK c \in {p \in Places \X Places \X Places \X Places : p[1] < p[2] /\ p[3] < p[4]} :
        car = Box(c[1], c[3], c[2], c[4])
  BY DEF Cars
<1>2. /\ c[1] \in Places /\ c[2] \in Places /\ c[3] \in Places /\ c[4] \in Places
      /\ c[1] < c[2] /\ c[3] < c[4]
  BY <1>1
<1>3. Places \subseteq 0..8
  BY PlacesArePixels DEF Drawn
<1>4. c[1] \in 0..8 /\ c[2] \in 0..8 /\ c[3] \in 0..8 /\ c[4] \in 0..8
  BY <1>2, <1>3
<1> QED
  BY <1>1, <1>2, <1>4

LEMMA BoxIs ==
  ASSUME NEW x1, NEW y1, NEW x2, NEW y2
  PROVE  LET box == Box(x1, y1, x2, y2)
         IN box.x1 = 200 * x1 /\ box.y1 = 200 * y1 /\ box.x2 = 200 * x2 /\ box.y2 = 200 * y2
  BY DEF Box, Pixel

IsGrown(car, box, kx, ky) ==
  \E x1, y1, x2, y2 \in 0..8 :
    /\ x1 < x2 /\ y1 < y2 /\ car = Box(x1, y1, x2, y2)
    /\ box = Box(kx * x1, ky * y1, kx * x2, ky * y2)

LEMMA CarsInFrame ==
  ASSUME NEW car \in Cars, NEW size, NEW kx, NEW ky, Factors(size, kx, ky)
  PROVE  IsGrown(car, InFrameOf(car, size), kx, ky)
<1>1. PICK x1, y1, x2, y2 \in 0..8 : x1 < x2 /\ y1 < y2 /\ car = Box(x1, y1, x2, y2)
  BY CarsAreInPixels
<1>2. kx \in {1, 2} /\ ky \in {1, 2} /\ size = <<8 * kx, 8 * ky>>
  BY DEF Factors
<1>3. /\ car.x1 = 200 * x1 /\ car.y1 = 200 * y1 /\ car.x2 = 200 * x2 /\ car.y2 = 200 * y2
      /\ x1 \in Int /\ y1 \in Int /\ x2 \in Int /\ y2 \in Int
  BY <1>1, BoxIs
<1>4. ASSUME NEW v \in Int
      PROVE  /\ ((200 * v) * (8 * kx)) \div 8 = 200 * (kx * v)
             /\ ((200 * v) * (8 * ky)) \div 8 = 200 * (ky * v)
  BY <1>2
<1>5. InFrameOf(car, size) = Box(kx * x1, ky * y1, kx * x2, ky * y2)
  BY <1>2, <1>3, <1>4 DEF InFrameOf, Drawn, Box, Pixel
<1> QED
  BY <1>1, <1>5 DEF IsGrown

\* A box in whole pixels, and the same box where the axes are stretched.
AreStretched(small, large, kx, ky) ==
  \E x1, y1, x2, y2 \in Int :
    /\ x1 <= x2 /\ y1 <= y2 /\ small = Box(x1, y1, x2, y2)
    /\ large = Box(kx * x1, ky * y1, kx * x2, ky * y2)

\* The points a box is placed by grow with it.
PointsStretch(small, large, kx, ky) ==
  /\ Upright(small) /\ Upright(large)
  /\ GroundPoint(small) \in Points
  /\ GroundPoint(large) = Stretch(GroundPoint(small), kx, ky)
  /\ \A s \in Samples : /\ SampleAt(small, s) \in Points
                        /\ SampleAt(large, s) = Stretch(SampleAt(small, s), kx, ky)

LEMMA BoxesStretch ==
  ASSUME NEW small, NEW large, NEW kx \in Nat \ {0}, NEW ky \in Nat \ {0},
         AreStretched(small, large, kx, ky)
  PROVE  PointsStretch(small, large, kx, ky)
<1>0. PICK x1, y1, x2, y2 \in Int :
        /\ x1 <= x2 /\ y1 <= y2 /\ small = Box(x1, y1, x2, y2)
        /\ large = Box(kx * x1, ky * y1, kx * x2, ky * y2)
  BY DEF AreStretched
<1> DEFINE l1 == kx * x1
           t1 == ky * y1
           l2 == kx * x2
           t2 == ky * y2
<1>1. l1 \in Int /\ t1 \in Int /\ l2 \in Int /\ t2 \in Int
  OBVIOUS
<1>2. l1 <= l2 /\ t1 <= t2
  <2>1. x1 * kx <= x2 * kx /\ y1 * ky <= y2 * ky
    BY <1>0, ProductsGrow
  <2>2. l1 = x1 * kx /\ l2 = x2 * kx /\ t1 = y1 * ky /\ t2 = y2 * ky
    OBVIOUS
  <2> HIDE DEF l1, l2, t1, t2
  <2> QED
    BY <2>1, <2>2
<1>3. l2 - l1 = kx * (x2 - x1) /\ t2 - t1 = ky * (y2 - y1) /\ l1 + l2 = kx * (x1 + x2)
  OBVIOUS
<1>4. /\ small.x1 = 200 * x1 /\ small.y1 = 200 * y1
      /\ small.x2 = 200 * x2 /\ small.y2 = 200 * y2
      /\ large.x1 = 200 * l1 /\ large.y1 = 200 * t1
      /\ large.x2 = 200 * l2 /\ large.y2 = 200 * t2
  <2>1. small = Box(x1, y1, x2, y2) /\ large = Box(l1, t1, l2, t2)
    BY <1>0
  <2> HIDE DEF l1, l2, t1, t2
  <2> QED
    BY <2>1, BoxIs
<1>5. t2 = ky * y2 /\ l1 = kx * x1
  OBVIOUS
<1> HIDE DEF l1, l2, t1, t2
<1>6. Upright(small) /\ Upright(large)
  <2>1. Upright(small)
    <3>1. /\ 200 * x1 \in Int /\ 200 * y1 \in Int /\ 200 * x2 \in Int /\ 200 * y2 \in Int
          /\ 200 * x1 <= 200 * x2 /\ 200 * y1 <= 200 * y2
      BY <1>0
    <3> QED
      BY <1>4, <3>1 DEF Upright
  <2>2. Upright(large)
    <3>1. /\ 200 * l1 \in Int /\ 200 * t1 \in Int /\ 200 * l2 \in Int /\ 200 * t2 \in Int
          /\ 200 * l1 <= 200 * l2 /\ 200 * t1 <= 200 * t2
      BY <1>1, <1>2
    <3> QED
      BY <1>4, <3>1 DEF Upright
  <2> QED
    BY <2>1, <2>2
<1>7. /\ GroundPoint(small) \in Points
      /\ GroundPoint(large) = Stretch(GroundPoint(small), kx, ky)
  <2> DEFINE u == x1 + x2
  <2>1. /\ (200 * x1 + 200 * x2) \div 2 = 100 * u
        /\ (200 * l1 + 200 * l2) \div 2 = 100 * (l1 + l2)
    BY <1>1
  <2>2. /\ GroundPoint(small) = <<100 * u, 200 * y2>>
        /\ GroundPoint(large) = <<100 * (l1 + l2), 200 * t2>>
    BY <1>4, <2>1 DEF GroundPoint
  <2>3. u \in Int /\ l1 + l2 = kx * u
    BY <1>3
  <2> HIDE DEF u
  <2>4. 100 * u \in Int /\ 200 * y2 \in Int
        /\ 100 * (kx * u) = kx * (100 * u) /\ 200 * (ky * y2) = ky * (200 * y2)
    BY <2>3
  <2> QED
    BY <1>5, <2>2, <2>3, <2>4 DEF Stretch, Points
<1>8. ASSUME NEW s \in Samples
      PROVE  /\ SampleAt(small, s) \in Points
             /\ SampleAt(large, s) = Stretch(SampleAt(small, s), kx, ky)
  <2> DEFINE c == 2 * s[1] + 1
             r == 9 - 2 * s[2]
             w == x2 - x1
             h == y2 - y1
             z == w * c
             v == h * r
  <2>1. c \in Int /\ r \in Int /\ w \in Int /\ h \in Int
    <3>1. s[1] \in 0..4 /\ s[2] \in 0..4
      BY DEF Samples, BandCols, BandRows
    <3> QED
      BY <3>1
  <2>2. l2 - l1 = kx * w /\ t2 - t1 = ky * h
    BY <1>3
  <2>3. /\ 200 * x2 - 200 * x1 = 200 * w /\ 200 * l2 - 200 * l1 = 200 * (l2 - l1)
        /\ 200 * y2 - 200 * y1 = 200 * h /\ 200 * t2 - 200 * t1 = 200 * (t2 - t1)
    BY <1>1
  <2> HIDE DEF c, r, w, h
  <2>4. z \in Int /\ v \in Int
    BY <2>1
  <2>5. /\ (200 * w) * c = 200 * z /\ 3 * (200 * h) * r = 600 * v
        /\ (200 * (kx * w)) * c = 200 * (kx * z)
        /\ 3 * (200 * (ky * h)) * r = 600 * (ky * v)
    BY <2>1
  <2> HIDE DEF z, v
  <2>6. kx * z \in Int /\ ky * v \in Int
    BY <2>4
  <2>7. \A m \in Int : (200 * m) \div 10 = 20 * m /\ (600 * m) \div 100 = 6 * m
    OBVIOUS
  <2>8. /\ (200 * z) \div 10 = 20 * z /\ (600 * v) \div 100 = 6 * v
        /\ (200 * (kx * z)) \div 10 = 20 * (kx * z)
        /\ (600 * (ky * v)) \div 100 = 6 * (ky * v)
    BY <2>4, <2>6, <2>7
  <2>9. SampleAt(small, s) = <<200 * x1 + 20 * z, 200 * y2 - 6 * v>>
    <3>1. SampleAt(small, s)
            = <<200 * x1 + ((200 * x2 - 200 * x1) * c) \div 10,
                200 * y2 - (3 * (200 * y2 - 200 * y1) * r) \div 100>>
      BY <1>4 DEF SampleAt, c, r
    <3> QED
      BY <2>3, <2>5, <2>8, <3>1
  <2>10. SampleAt(large, s) = <<200 * l1 + 20 * (kx * z), 200 * t2 - 6 * (ky * v)>>
    <3>1. SampleAt(large, s)
            = <<200 * l1 + ((200 * l2 - 200 * l1) * c) \div 10,
                200 * t2 - (3 * (200 * t2 - 200 * t1) * r) \div 100>>
      BY <1>4 DEF SampleAt, c, r
    <3> QED
      BY <2>2, <2>3, <2>5, <2>8, <3>1
  <2>11. /\ 200 * x1 + 20 * z \in Int /\ 200 * y2 - 6 * v \in Int
         /\ 200 * (kx * x1) + 20 * (kx * z) = kx * (200 * x1 + 20 * z)
         /\ 200 * (ky * y2) - 6 * (ky * v) = ky * (200 * y2 - 6 * v)
    BY <2>4
  <2> QED
    BY <1>5, <2>9, <2>10, <2>11 DEF Stretch, Points
<1> QED
  BY <1>6, <1>7, <1>8 DEF PointsStretch

LEMMA CarsStretch ==
  ASSUME NEW car \in Cars, NEW size, NEW kx, NEW ky, Factors(size, kx, ky)
  PROVE  LET box == InFrameOf(car, size)
         IN /\ Upright(box)
            /\ GroundPoint(car) \in Points
            /\ GroundPoint(box) = Stretch(GroundPoint(car), kx, ky)
            /\ \A s \in Samples : /\ SampleAt(car, s) \in Points
                                  /\ SampleAt(box, s) = Stretch(SampleAt(car, s), kx, ky)
<1>1. PICK x1, y1, x2, y2 \in 0..8 :
        /\ x1 < x2 /\ y1 < y2 /\ car = Box(x1, y1, x2, y2)
        /\ InFrameOf(car, size) = Box(kx * x1, ky * y1, kx * x2, ky * y2)
  BY CarsInFrame DEF IsGrown
<1>2. kx \in Nat \ {0} /\ ky \in Nat \ {0}
  BY DEF Factors
<1>3. /\ x1 \in Int /\ y1 \in Int /\ x2 \in Int /\ y2 \in Int
      /\ x1 <= x2 /\ y1 <= y2
  BY <1>1
<1>4. AreStretched(car, InFrameOf(car, size), kx, ky)
  BY <1>1, <1>3 DEF AreStretched
<1> QED
  BY <1>2, <1>4, BoxesStretch DEF PointsStretch

-----------------------------------------------------------------------------
(* Through the letterbox and back *)

LEMMA PairHasBounds ==
  ASSUME NEW a \in Int, NEW b \in Int
  PROVE  /\ Min({a, b}) \in {a, b} /\ \A y \in {a, b} : Min({a, b}) <= y
         /\ Max({a, b}) \in {a, b} /\ \A y \in {a, b} : y <= Max({a, b})
<1>1. IsFiniteSet({a, b})
  <2>1. IsFiniteSet({a})
    BY FS_Singleton
  <2>2. IsFiniteSet({a} \cup {b})
    BY <2>1, FS_AddElement
  <2>3. {a} \cup {b} = {a, b}
    OBVIOUS
  <2> QED
    BY <2>2, <2>3
<1> DEFINE S == {a, b}
<1>2. S \subseteq Int /\ S # {}
  OBVIOUS
<1> HIDE DEF S
<1>3. /\ Min(S) \in S /\ \A y \in S : Min(S) <= y
      /\ Max(S) \in S /\ \A y \in S : y <= Max(S)
  BY <1>1, <1>2, FiniteHaveBounds DEF S
<1> QED
  BY <1>3 DEF S

LEMMA LetterboxUndone ==
  ASSUME NEW size \in FrameSizes, NEW axis \in 1..2, NEW k \in {1, 2}, size[axis] = 8 * k,
         NEW m \in 0..8
  PROVE  LET c == 200 * (k * m)
         IN Clipped(FromSquare(ToSquare(c, size, axis), size, axis), size, axis) = c
<1> DEFINE c == 200 * (k * m)
           L == Longer(size)
           I == InputSize
           pad == Pad(size, axis)
<1>1. PICK kx, ky : kx \in {1, 2} /\ ky \in {1, 2} /\ size = <<8 * kx, 8 * ky>>
  BY SizesStretch DEF Factors
<1>2. k \in {1, 2} /\ size[axis] = 8 * k
  OBVIOUS
<1>3. I \in Nat \ {0} /\ pad \in Int
  BY BoxBounds, SquareSizes
<1> HIDE DEF I, pad
<1>4. \E j \in Int : c * I = j * L /\ L \in Nat \ {0}
  <2>1. CASE L = 8
    <3>1. c * I = (25 * (k * m) * I) * 8
      BY <1>2, <1>3
    <3>2. 25 * (k * m) * I \in Int
      BY <1>2, <1>3
    <3> QED
      BY <2>1, <3>1, <3>2
  <2>2. CASE L # 8
    <3>1. L = 16 /\ (kx = 1 \/ ky = 1)
      <4>1. kx = 2 \/ ky = 2
        BY <1>1, <2>2 DEF Longer
      <4>2. size # <<16, 16>>
        BY DEF FrameSizes, Drawn
      <4> QED
        BY <1>1, <4>1, <4>2 DEF Longer
    <3>2. (8 * I) % 16 = 0
      <4>1. \A a \in 1..2 : (size[a] * I) % 16 = 0
        BY <3>1, FramesFit DEF Fits, I
      <4>2. size[1] = 8 \/ size[2] = 8
        BY <1>1, <3>1
      <4> QED
        BY <4>1, <4>2
    <3>3. PICK h \in Int : I = 2 * h
      <4>1. I = 2 * (I \div 2) /\ I \div 2 \in Int
        BY <1>3, <3>2
      <4> QED
        BY <4>1
    <3> DEFINE j == 25 * (k * m) * h
    <3>4. c * I = j * 16
      BY <1>2, <3>3
    <3>5. j \in Int
      BY <1>2, <3>3
    <3> HIDE DEF j, c, L
    <3> QED
      BY <3>1, <3>4, <3>5
  <2> QED
    BY <2>1, <2>2
<1>5. c \in Int /\ 0 <= c /\ c <= 200 * size[axis]
  BY <1>2
<1>6. PICK j \in Int : c * I = j * L /\ L \in Nat \ {0}
  BY <1>4
<1> HIDE DEF c, L
<1>7. (c * I) \div L = j
  BY <1>6, ExactDivision
<1>8. ToSquare(c, size, axis) = j + pad
  BY <1>7 DEF ToSquare, I, L, pad
<1>9. (j + pad) - pad = j
  BY <1>3, <1>6
<1>10. FromSquare(j + pad, size, axis) = (c * I) \div I
  BY <1>6, <1>9 DEF FromSquare, I, L, pad
<1>11. (c * I) \div I = c
  BY <1>3, <1>5, ExactDivision
<1>12. Clipped(c, size, axis) = c
  <2> DEFINE edge == 200 * size[axis]
  <2>1. edge \in Int /\ c <= edge
    BY <1>2, <1>5
  <2>2. Clipped(c, size, axis) = Max({0, Min({c, edge})})
    BY DEF Clipped, Pixel
  <2> HIDE DEF edge
  <2>3. Min({c, edge}) = c
    <3>1. /\ Min({c, edge}) \in {c, edge} /\ \A y \in {c, edge} : Min({c, edge}) <= y
      BY <1>5, <2>1, PairHasBounds
    <3> QED
      BY <1>5, <2>1, <3>1
  <2>4. Max({0, c}) = c
    <3>1. /\ Max({0, c}) \in {0, c} /\ \A y \in {0, c} : y <= Max({0, c})
      BY <1>5, PairHasBounds
    <3> QED
      BY <1>5, <3>1
  <2> QED
    BY <2>2, <2>3, <2>4
<1> QED
  BY <1>8, <1>10, <1>11, <1>12 DEF c

\* Of one row that the model is sure enough of, one box is left.
LEMMA OneRowIsDetected ==
  ASSUME NEW row \in Boxed, row.label \in VehicleLabels, row.score >= Confidence, NEW size
  PROVE  Decoded("classic", <<row>>, size) = {InFrame(row, size)}
<1> DEFINE rows == <<row>>
           places == {i \in DOMAIN rows :
                        rows[i].score >= Confidence /\ rows[i].label \in VehicleLabels}
<1>1. rows \in Seq(Boxed) /\ Len(rows) = 1 /\ DOMAIN rows = {1} /\ rows[1] = row
  OBVIOUS
<1>2. 1 \in places
  BY <1>1
<1>3. AreVehicles(rows) = rows
  <2> DEFINE f == CHOOSE f : PicksUpTo(f, rows, Len(rows), places)
  <2>1. PicksUpTo(f, rows, Len(rows), places)
    BY <1>1, PicksExist
  <2>2. Picked(rows, places) = f[Len(rows)]
    BY DEF Picked, PicksUpTo
  <2> HIDE DEF f
  <2>3. f[0] = << >> /\ f[1] = Append(f[0], rows[1])
    <3>1. 0 \in 0..1 /\ 1 \in 0..1 /\ 1 # 0 /\ 1 - 1 = 0
      OBVIOUS
    <3> QED
      BY <1>1, <1>2, <2>1, <3>1 DEF PicksUpTo
  <2>4. Append(<< >>, row) = rows
    OBVIOUS
  <2> QED
    BY <1>1, <2>2, <2>3, <2>4 DEF AreVehicles
<1> HIDE DEF rows
<1> DEFINE order == Descending(rows)
           best == Candidates(rows)
<1>4. order \in [1..1 -> 1..1]
  BY <1>1, ScoresFall
<1>5. DOMAIN order = 1..1 /\ Len(order) = 1 /\ order[1] = 1
  <2> HIDE DEF order
  <2>1. ASSUME NEW n \in Nat, NEW g \in [1..n -> 1..n] PROVE g \in Seq(1..n) /\ Len(g) = n
    OBVIOUS
  <2>2. Len(order) = 1 /\ DOMAIN order = 1..1
    BY <1>4, <2>1
  <2> QED
    BY <1>4, <2>2
<1>6. ~(Len(order) > MaxCandidates)
  BY <1>5, BoxBounds
<1>7. best = [n \in 1..1 |-> rows[order[n]]]
  BY <1>3, <1>5, <1>6 DEF Candidates
<1> HIDE DEF order, best
<1>8. ToSet(best) = {row}
  BY <1>1, <1>5, <1>7 DEF ToSet
<1>9. PICK chosen \in SUBSET ToSet(best) :
        /\ Decoded("classic", rows, size) = {InFrame(r, size) : r \in chosen}
        /\ IsFairChoice(chosen, ToSet(best), Repeats)
  BY <1>1, SuppressionIsFair DEF best
<1>10. chosen = {row}
  BY <1>8, <1>9 DEF IsFairChoice
<1> QED
  BY <1>9, <1>10 DEF rows

LEMMA BoxesComeBack ==
  ASSUME NEW car \in Cars, NEW size \in FrameSizes
  PROVE  LET box == InFrameOf(car, size)
         IN Unletterboxed(Letterboxed(box, size), size) = box
<1>1. PICK kx, ky : Factors(size, kx, ky)
  BY SizesStretch
<1> DEFINE box == InFrameOf(car, size)
<1> HIDE DEF box
<1>2. PICK x1, y1, x2, y2 \in 0..8 :
        /\ x1 < x2 /\ y1 < y2 /\ car = Box(x1, y1, x2, y2)
        /\ box = Box(kx * x1, ky * y1, kx * x2, ky * y2)
  <2>1. IsGrown(car, box, kx, ky)
    BY <1>1, CarsInFrame DEF box
  <2> QED
    BY <2>1 DEF IsGrown
<1>3. /\ 1 \in 1..2 /\ 2 \in 1..2 /\ size[1] = 8 * kx /\ size[2] = 8 * ky
      /\ kx \in {1, 2} /\ ky \in {1, 2}
  BY <1>1 DEF Factors
<1>4. ASSUME NEW m \in 0..8
      PROVE  Clipped(FromSquare(ToSquare(200 * (kx * m), size, 1), size, 1), size, 1)
               = 200 * (kx * m)
  BY <1>3, LetterboxUndone
<1>5. ASSUME NEW m \in 0..8
      PROVE  Clipped(FromSquare(ToSquare(200 * (ky * m), size, 2), size, 2), size, 2)
               = 200 * (ky * m)
  BY <1>3, LetterboxUndone
<1>6. /\ box.x1 = 200 * (kx * x1) /\ box.y1 = 200 * (ky * y1)
      /\ box.x2 = 200 * (kx * x2) /\ box.y2 = 200 * (ky * y2)
      /\ box = [x1 |-> box.x1, y1 |-> box.y1, x2 |-> box.x2, y2 |-> box.y2]
  BY <1>2 DEF Box, Pixel
<1>7. /\ Clipped(FromSquare(ToSquare(box.x1, size, 1), size, 1), size, 1) = box.x1
      /\ Clipped(FromSquare(ToSquare(box.x2, size, 1), size, 1), size, 1) = box.x2
      /\ Clipped(FromSquare(ToSquare(box.y1, size, 2), size, 2), size, 2) = box.y1
      /\ Clipped(FromSquare(ToSquare(box.y2, size, 2), size, 2), size, 2) = box.y2
  BY <1>4, <1>5, <1>6
<1>8. Unletterboxed(Letterboxed(box, size), size) = box
  BY <1>6, <1>7 DEF Unletterboxed, Letterboxed
<1> QED
  BY <1>8 DEF box

\* The one car in front of the camera is found where it stands in the frame.
LEMMA CarsAreDetected ==
  ASSUME NEW f \in Frames, f.rows = <<>>
  PROVE  /\ f.plan \in Plans /\ f.car \in Cars /\ f.size \in FrameSizes
         /\ \E d : /\ Decoded(f.head, Raw(f), f.size) = {d}
                   /\ d.box = InFrameOf(f.car, f.size)
<1>1. /\ f.plan \in Plans /\ f.car \in Cars /\ f.size \in FrameSizes /\ f.head = "classic"
  BY DEF Frames
<1> DEFINE row == Seen(f.car, f.size)
           box == InFrameOf(f.car, f.size)
<1>2. Raw(f) = <<row>> /\ row \in Boxed
  <2>1. Raw(f) = <<row>>
    BY DEF Raw
  <2> HIDE DEF row
  <2> QED
    BY <2>1, RawIsBoxed
<1>3. /\ row.box = Letterboxed(box, f.size) /\ row.label \in VehicleLabels
      /\ row.score >= Confidence
  BY BoxBounds DEF Seen
<1> HIDE DEF row
<1>4. Decoded(f.head, Raw(f), f.size) = {InFrame(row, f.size)}
  BY <1>1, <1>2, <1>3, OneRowIsDetected
<1>5. InFrame(row, f.size).box = Unletterboxed(Letterboxed(box, f.size), f.size)
  BY <1>2, <1>3 DEF InFrame, Boxed
<1>6. Unletterboxed(Letterboxed(box, f.size), f.size) = box
  BY <1>1, BoxesComeBack
<1> QED
  BY <1>1, <1>4, <1>5, <1>6

-----------------------------------------------------------------------------
(* The bay a box is assigned to *)

\* A first one of the least.
LEMMA FirstBest ==
  ASSUME NEW n \in Nat, NEW S, S \subseteq 1..n, S # {}, NEW f \in [S -> Int]
  PROVE  \E i \in S : \A j \in S \ {i} : f[i] < f[j] \/ (f[i] = f[j] /\ i < j)
<1> DEFINE down == [i \in S |-> 0 - f[i]]
<1>1. IsFiniteSet(S)
  BY NumbersAreFinite
<1>2. down \in [S -> Int]
  OBVIOUS
<1> HIDE DEF down
<1>3. PICK x \in S : \A y \in S : down[y] <= down[x]
  BY <1>1, <1>2, GreatestOfFinite
<1>4. \A y \in S : f[x] <= f[y]
  BY <1>3 DEF down
<1> DEFINE A == {i \in S : f[i] = f[x]}
<1>5. A \subseteq Nat /\ A # {}
  <2>1. A \subseteq S /\ S \subseteq Nat /\ x \in A
    BY <1>3
  <2> QED
    BY <2>1
<1> HIDE DEF A
<1>6. PICK i \in A : \A j \in A : i <= j
  BY <1>5, LeastExists
<1>7. i \in S /\ f[i] = f[x] /\ i \in Int
  BY <1>5, <1>6 DEF A
<1>8. ASSUME NEW j \in S \ {i} PROVE f[i] < f[j] \/ (f[i] = f[j] /\ i < j)
  <2>1. f[i] \in Int /\ f[j] \in Int /\ f[i] <= f[j] /\ j \in Int
    BY <1>4, <1>7
  <2>2. CASE f[i] = f[j]
    <3>1. j \in A
      BY <1>7, <2>2 DEF A
    <3>2. i <= j /\ i # j
      BY <1>6, <3>1
    <3> QED
      BY <1>7, <2>1, <2>2, <3>2
  <2>3. CASE f[i] # f[j]
    BY <2>1, <2>3
  <2> QED
    BY <2>2, <2>3
<1> QED
  BY <1>7, <1>8

\* assign_detection: a smallest of the bays that hold the ground point, or else a bay that
\* covers most; the first of several.
LEMMA AssignedIs ==
  ASSUME NEW box, NEW bays, NEW n \in Nat, DOMAIN bays = 1..n,
         \A i \in 1..n : Area(bays[i]) \in Int /\ Coverage(box, bays[i]) \in Int
  PROVE  LET hits == Hits(box, bays)
             covering == {i \in 1..n : Covers(box, bays[i])}
             a == Assigned(box, bays)
         IN /\ hits # {}
                 => /\ a \in hits
                    /\ \A j \in hits : Area(bays[a]) <= Area(bays[j])
                    /\ \A j \in hits \ {a} :
                         \/ Area(bays[a]) < Area(bays[j])
                         \/ Area(bays[a]) = Area(bays[j]) /\ a < j
            /\ hits = {} /\ covering # {}
                 => /\ a \in covering
                    /\ \A j \in covering : Coverage(box, bays[j]) <= Coverage(box, bays[a])
                    /\ \A j \in covering \ {a} :
                         \/ Coverage(box, bays[a]) > Coverage(box, bays[j])
                         \/ Coverage(box, bays[a]) = Coverage(box, bays[j]) /\ a < j
            /\ hits = {} /\ covering = {} => a = NoBay
<1> DEFINE hits == Hits(box, bays)
           covering == {i \in 1..n : Covers(box, bays[i])}
           a == Assigned(box, bays)
           IsSmallest(i) == \A j \in hits \ {i} :
                              \/ Area(bays[i]) < Area(bays[j])
                              \/ Area(bays[i]) = Area(bays[j]) /\ i < j
           IsMost(i) == \A j \in covering \ {i} :
                          \/ Coverage(box, bays[i]) > Coverage(box, bays[j])
                          \/ Coverage(box, bays[i]) = Coverage(box, bays[j]) /\ i < j
<1>1. hits \subseteq 1..n /\ covering \subseteq 1..n
  BY DEF Hits
<1>2. /\ hits # {} => a = CHOOSE i \in hits : IsSmallest(i)
      /\ hits = {} /\ covering # {} => a = CHOOSE i \in covering : IsMost(i)
      /\ hits = {} /\ covering = {} => a = NoBay
  BY DEF Assigned
<1> HIDE DEF hits, covering, a
<1>3. CASE hits # {}
  <2> DEFINE f == [i \in hits |-> Area(bays[i])]
  <2>1. f \in [hits -> Int]
    BY <1>1
  <2> HIDE DEF f
  <2>2. PICK i \in hits : \A j \in hits \ {i} : f[i] < f[j] \/ (f[i] = f[j] /\ i < j)
    BY <1>1, <1>3, <2>1, FirstBest
  <2>3. IsSmallest(i)
    BY <2>2 DEF f
  <2>4. a \in hits /\ IsSmallest(a)
    BY <1>2, <1>3, <2>3
  <2>5. \A j \in hits : Area(bays[a]) <= Area(bays[j])
    BY <1>1, <2>4
  <2> QED
    BY <1>3, <2>4, <2>5 DEF hits, a
<1>4. CASE hits = {} /\ covering # {}
  <2> DEFINE f == [i \in covering |-> 0 - Coverage(box, bays[i])]
  <2>1. f \in [covering -> Int]
    BY <1>1
  <2>2. \A i \in covering : f[i] = 0 - Coverage(box, bays[i])
    OBVIOUS
  <2> HIDE DEF f
  <2>3. PICK i \in covering : \A j \in covering \ {i} : f[i] < f[j] \/ (f[i] = f[j] /\ i < j)
    BY <1>1, <1>4, <2>1, FirstBest
  <2>4. IsMost(i)
    BY <1>1, <2>2, <2>3
  <2>5. a \in covering /\ IsMost(a)
    BY <1>2, <1>4, <2>4
  <2>6. \A j \in covering : Coverage(box, bays[j]) <= Coverage(box, bays[a])
    BY <1>1, <2>5
  <2> QED
    BY <1>4, <2>5, <2>6 DEF hits, covering, a
<1>5. CASE hits = {} /\ covering = {}
  BY <1>2, <1>5 DEF hits, covering, a
<1> QED
  BY <1>3, <1>4, <1>5 DEF hits

\* geometry.py, assignment.py, SlotMap.fit_to_frame: the bay found in the frame is the one
\* the car stands in on the still.
LEMMA FoundWhereItStands ==
  ASSUME NEW plan \in Plans, NEW car \in Cars, NEW size \in FrameSizes, IsPlain(car, plan)
  PROVE  StandsIn(car, plan,
                  Assigned(InFrameOf(car, size), FitToFrame(Outlines(plan), Drawn, size)))
<1> DEFINE box == InFrameOf(car, size)
           bays == FitToFrame(Outlines(plan), Drawn, size)
           a == Assigned(box, bays)
           outline(i) == plan[i].outline
           ground == GroundPoint(car)
<1>1. PICK kx, ky : Factors(size, kx, ky)
  BY SizesStretch
<1> DEFINE k == kx * ky
<1>2. kx \in Nat \ {0} /\ ky \in Nat \ {0} /\ k \in Int /\ k > 0
  BY <1>1 DEF Factors
<1>3. /\ DOMAIN plan = 1..2
      /\ \A i \in 1..2 : IsWellDrawn(plan[i]) /\ outline(i) \in Polygons
  BY PlansAreWellDrawn DEF IsWellDrawn
<1>4. /\ DOMAIN bays = 1..2
      /\ \A i \in 1..2 : bays[i] = Stretched(outline(i), kx, ky)
  BY <1>1, BaysStretch
<1>5. /\ Upright(box) /\ ground \in Points
      /\ GroundPoint(box) = Stretch(ground, kx, ky)
      /\ \A s \in Samples : /\ SampleAt(car, s) \in Points
                            /\ SampleAt(box, s) = Stretch(SampleAt(car, s), kx, ky)
  BY <1>1, CarsStretch
<1>6. ASSUME NEW i \in 1..2, NEW p \in {ground} \cup {SampleAt(car, s) : s \in Samples}
      PROVE  Inside(Stretch(p, kx, ky), bays[i]) <=> IsIn(p, plan[i])
  <2>1. p \in Points /\ ~IsOnEdge(p, plan[i])
    BY <1>3, <1>5 DEF IsPlain
  <2>2. Inside(p, outline(i)) <=> IsIn(p, plan[i])
    BY <1>3, <2>1 DEF IsWellDrawn
  <2>3. Inside(Stretch(p, kx, ky), Stretched(outline(i), kx, ky)) <=> Inside(p, outline(i))
    BY <1>2, <1>3, <2>1, InsideStretches
  <2> QED
    BY <1>4, <2>2, <2>3
<1>7. \A i \in 1..2 : bays[i] \in Polygons
  BY <1>2, <1>3, <1>4, StretchedIsPolygon
<1> HIDE DEF box, bays, ground
<1>8. Hits(box, bays) = {j \in DOMAIN plan : IsIn(ground, plan[j])}
  <2>1. ASSUME NEW i \in 1..2
        PROVE  Within(GroundPoint(box), Bounds(bays[i])) /\ Inside(GroundPoint(box), bays[i])
                 <=> IsIn(ground, plan[i])
    <3>1. GroundPoint(box) \in Points
      <4>1. ground[1] \in Int /\ ground[2] \in Int
        BY <1>5 DEF Points
      <4>2. kx * ground[1] \in Int /\ ky * ground[2] \in Int
        BY <1>2, <4>1
      <4> QED
        BY <1>5, <4>2 DEF Stretch, Points
    <3>2. Inside(GroundPoint(box), bays[i]) => Within(GroundPoint(box), Bounds(bays[i]))
      BY <1>7, <3>1, BeyondIsOutside
    <3>3. Inside(GroundPoint(box), bays[i]) <=> IsIn(ground, plan[i])
      BY <1>5, <1>6
    <3> QED
      BY <3>2, <3>3
  <2> QED
    BY <1>3, <1>4, <2>1 DEF Hits
<1>9. ASSUME NEW i \in 1..2
      PROVE  /\ Coverage(box, bays[i]) = SamplesIn(car, plan[i])
             /\ SamplesIn(car, plan[i]) \in Nat
  <2>1. Coverage(box, bays[i]) = Cardinality({s \in Samples : Inside(SampleAt(box, s), bays[i])})
    BY <1>5, <1>7, CoverageIsOfSamples
  <2>2. \A s \in Samples : Inside(SampleAt(box, s), bays[i]) <=> IsIn(SampleAt(car, s), plan[i])
    BY <1>5, <1>6
  <2>3. {s \in Samples : Inside(SampleAt(box, s), bays[i])}
          = {s \in Samples : IsIn(SampleAt(car, s), plan[i])}
    BY <2>2
  <2>4. IsFiniteSet({s \in Samples : IsIn(SampleAt(car, s), plan[i])})
    <3>1. IsFiniteSet(0..4)
      <4>1. 0 \in Int /\ 4 \in Int
        OBVIOUS
      <4> QED
        BY <4>1, FS_Interval
    <3>2. IsFiniteSet((0..4) \X (0..4))
      BY <3>1, FS_Product
    <3>3. Samples = (0..4) \X (0..4)
      BY DEF Samples, BandCols, BandRows
    <3> QED
      BY <3>2, <3>3, FS_Subset
  <2> QED
    BY <2>1, <2>3, <2>4, FS_CardinalityType DEF SamplesIn
<1>10. ASSUME NEW i \in 1..2
       PROVE  Area(outline(i)) \in Int /\ Area(bays[i]) = k * Area(outline(i))
  <2> DEFINE polygon == outline(i)
  <2>1. polygon \in Polygons /\ bays[i] = Stretched(polygon, kx, ky)
    BY <1>3, <1>4
  <2> HIDE DEF polygon
  <2>2. Area(polygon) \in Int /\ Area(Stretched(polygon, kx, ky)) = (kx * ky) * Area(polygon)
    BY <1>2, <2>1, AreasStretch
  <2> QED
    BY <2>1, <2>2 DEF polygon
<1>11. \A i \in 1..2 : Area(bays[i]) \in Int /\ Coverage(box, bays[i]) \in Int
  BY <1>2, <1>9, <1>10
<1> DEFINE hits == Hits(box, bays)
           covering == {i \in 1..2 : Covers(box, bays[i])}
           samples == {SamplesIn(car, plan[j]) : j \in DOMAIN plan}
           most == Max(samples)
<1>12. /\ hits # {} => a \in hits /\ \A j \in hits : Area(bays[a]) <= Area(bays[j])
       /\ hits = {} /\ covering # {}
            => /\ a \in covering
               /\ \A j \in covering : Coverage(box, bays[j]) <= Coverage(box, bays[a])
       /\ hits = {} /\ covering = {} => a = NoBay
  BY <1>4, <1>11, AssignedIs
<1>13. covering = {i \in 1..2 : SamplesIn(car, plan[i]) >= 10}
  <2>1. \A i \in 1..2 : Covers(box, bays[i]) <=> SamplesIn(car, plan[i]) >= 10
    BY <1>9 DEF Covers, BandCols, BandRows
  <2> QED
    BY <2>1
<1>14. /\ most \in samples /\ \A y \in samples : y <= most
       /\ most \in Nat
  <2>1. samples \subseteq Int /\ samples # {} /\ samples \subseteq Nat
    BY <1>3, <1>9
  <2>2. samples = {SamplesIn(car, plan[1]), SamplesIn(car, plan[2])}
    <3>1. 1..2 = {1, 2}
      OBVIOUS
    <3> QED
      BY <1>3, <3>1
  <2> HIDE DEF samples
  <2>3. most \in samples /\ \A y \in samples : y <= most
    <3>1. SamplesIn(car, plan[1]) \in Int /\ SamplesIn(car, plan[2]) \in Int
      BY <1>9
    <3> QED
      BY <2>2, <3>1, PairHasBounds
  <2> QED
    BY <2>1, <2>3
<1> HIDE DEF a, hits, covering, most, k
<1>15. CASE hits # {}
  <2>1. a \in hits /\ hits \subseteq 1..2 /\ \A j \in hits : Area(bays[a]) <= Area(bays[j])
    BY <1>3, <1>8, <1>12, <1>15 DEF hits
  <2>2. ASSUME NEW j \in hits PROVE Area(outline(a)) <= Area(outline(j))
    <3> DEFINE v == Area(outline(a))
               w == Area(outline(j))
    <3>1. v \in Int /\ w \in Int /\ k * v <= k * w
      BY <1>10, <2>1
    <3> HIDE DEF v, w
    <3>2. ASSUME w < v PROVE FALSE
      <4>1. v - w \in Int /\ v - w > 0
        BY <3>1, <3>2
      <4>2. k * (v - w) > 0
        BY <1>2, <4>1, ProductsOfSigns
      <4>3. k * (v - w) = k * v - k * w /\ k * v \in Int /\ k * w \in Int
        BY <1>2, <3>1
      <4> QED
        BY <3>1, <4>2, <4>3
    <3> QED
      BY <3>1, <3>2 DEF v, w
  <2> QED
    BY <1>8, <1>15, <2>1, <2>2 DEF StandsIn, hits, a, ground, box, bays
<1>16. CASE hits = {}
  <2>1. {j \in DOMAIN plan : IsIn(GroundPoint(car), plan[j])} = {}
    BY <1>8, <1>16 DEF hits, ground
  <2>2. CASE most < 10
    <3>1. covering = {}
      <4>1. \A i \in 1..2 : SamplesIn(car, plan[i]) \in samples /\ SamplesIn(car, plan[i]) \in Nat
        BY <1>3, <1>9
      <4> HIDE DEF samples
      <4> QED
        BY <1>13, <1>14, <2>2, <4>1
    <3>2. a = NoBay
      BY <1>12, <1>16, <3>1
    <3> QED
      BY <2>1, <2>2, <3>2 DEF StandsIn, most, a, box, bays
  <2>3. CASE ~(most < 10)
    <3>1. PICK j \in 1..2 : SamplesIn(car, plan[j]) = most
      BY <1>3, <1>14
    <3>2. j \in covering
      BY <1>13, <1>14, <2>3, <3>1
    <3>3. a \in covering /\ Coverage(box, bays[j]) <= Coverage(box, bays[a])
      BY <1>12, <1>16, <3>2
    <3>4. a \in 1..2
      BY <1>13, <3>3
    <3>5. SamplesIn(car, plan[a]) = most
      <4>1. SamplesIn(car, plan[a]) \in samples /\ SamplesIn(car, plan[a]) \in Nat
        BY <1>3, <1>9, <3>4
      <4>2. most <= SamplesIn(car, plan[a])
        BY <1>9, <3>1, <3>3, <3>4
      <4> HIDE DEF samples
      <4> QED
        BY <1>14, <4>1, <4>2
    <3>6. a # NoBay
      BY <3>4 DEF NoBay
    <3> QED
      BY <2>1, <2>3, <3>5, <3>6 DEF StandsIn, most, a, box, bays
  <2> QED
    BY <2>2, <2>3
<1> QED
  BY <1>15, <1>16

\* assignment.py, geometry.py, box_utils.py: for every model, input size and place of the
\* car, its detection is the only one, and the bay it is assigned to is the one it stands in.
THEOREM CarsFindTheirBays == ScoringSpec => []CarFindsItsBay
<1>1. ScoringInv => CarFindsItsBay
  <2> SUFFICES ASSUME ScoringInv, frame # NoFrame, frame.rows = <<>>,
                      IsPlain(frame.car, frame.plan)
               PROVE  \E d \in detections :
                        /\ detections = {d}
                        /\ StandsIn(frame.car, frame.plan, Assigned(d.box, BaysOf(frame)))
    BY DEF CarFindsItsBay
  <2>1. frame \in Frames /\ detections = Decoded(frame.head, Raw(frame), frame.size)
    BY DEF ScoringInv
  <2>2. /\ frame.plan \in Plans /\ frame.car \in Cars /\ frame.size \in FrameSizes
        /\ \E d : detections = {d} /\ d.box = InFrameOf(frame.car, frame.size)
    BY <2>1, CarsAreDetected
  <2>3. PICK d : detections = {d} /\ d.box = InFrameOf(frame.car, frame.size)
    BY <2>2
  <2>4. StandsIn(frame.car, frame.plan,
                 Assigned(InFrameOf(frame.car, frame.size),
                          FitToFrame(Outlines(frame.plan), Drawn, frame.size)))
    BY <2>2, FoundWhereItStands
  <2> QED
    BY <2>3, <2>4 DEF BaysOf
<1> QED
  BY <1>1, FramesAreDecoded, PTL

\* detection_factory.py, geometry.py, slot_detections.py: a bay is occupied by the car that
\* stands in it, once, and by no other.
THEOREM BaysAreFilledRightly == ScoringSpec => []BaysFindTheirCars
<1>1. CarFindsItsBay /\ OneBoxPerVehicle => BaysFindTheirCars
  BY DEF BaysFindTheirCars
<1> QED
  BY <1>1, CarsFindTheirBays, OneBoxIsLeft, PTL

-----------------------------------------------------------------------------
(* What leaves the assignment as it is, of any map *)

\* slot_map.py, the reject by bounds before ray casting: the bays hit are those that hold
\* the ground point.
LEMMA HitsAreInside ==
  ASSUME NEW n \in Nat, NEW bays, DOMAIN bays = 1..n, \A i \in 1..n : bays[i] \in Polygons,
         NEW box, GroundPoint(box) \in Points
  PROVE  Hits(box, bays) = {i \in 1..n : Inside(GroundPoint(box), bays[i])}
<1>1. ASSUME NEW i \in 1..n, Inside(GroundPoint(box), bays[i])
      PROVE  Within(GroundPoint(box), Bounds(bays[i]))
  BY <1>1, BeyondIsOutside
<1> QED
  BY <1>1 DEF Hits

\* A first one of the least: there is no other.
IsFirst(a, S, f) == a \in S /\ \A j \in S \ {a} : f[a] < f[j] \/ (f[a] = f[j] /\ a < j)

LEMMA FirstIsOne ==
  ASSUME NEW n \in Nat, NEW S, S \subseteq 1..n, NEW f, f \in [S -> Int],
         NEW a, IsFirst(a, S, f), NEW b, IsFirst(b, S, f)
  PROVE  a = b
<1> SUFFICES ASSUME a # b PROVE FALSE
  OBVIOUS
<1>1. a \in S /\ b \in S
  BY DEF IsFirst
<1>2. a \in Int /\ b \in Int /\ f[a] \in Int /\ f[b] \in Int
  BY <1>1
<1>3. f[a] < f[b] \/ (f[a] = f[b] /\ a < b)
  BY <1>1 DEF IsFirst
<1>4. f[b] < f[a] \/ (f[b] = f[a] /\ b < a)
  BY <1>1 DEF IsFirst
<1> QED
  BY <1>2, <1>3, <1>4

\* assign_detection looks at which bays hold the ground point, at how their areas compare,
\* and at how many samples each covers; the sizes themselves do not matter.
AnswersAlike(box, bays, large, fit, n, k) ==
  /\ DOMAIN bays = 1..n /\ DOMAIN fit = 1..n
  /\ Hits(large, fit) = Hits(box, bays)
  /\ \A i \in 1..n : /\ Area(bays[i]) \in Int /\ Area(fit[i]) = k * Area(bays[i])
                     /\ Coverage(box, bays[i]) \in Int
                     /\ Coverage(large, fit[i]) = Coverage(box, bays[i])

LEMMA SameAnswers ==
  ASSUME NEW n \in Nat, NEW k \in Int, k > 0, NEW box, NEW bays, NEW large, NEW fit,
         AnswersAlike(box, bays, large, fit, n, k)
  PROVE  Assigned(large, fit) = Assigned(box, bays)
<1>0. /\ DOMAIN bays = 1..n /\ DOMAIN fit = 1..n
      /\ Hits(large, fit) = Hits(box, bays)
      /\ \A i \in 1..n : /\ Area(bays[i]) \in Int /\ Area(fit[i]) = k * Area(bays[i])
                         /\ Coverage(box, bays[i]) \in Int
                         /\ Coverage(large, fit[i]) = Coverage(box, bays[i])
  BY DEF AnswersAlike
<1> DEFINE hits == Hits(box, bays)
           covering == {i \in 1..n : Covers(box, bays[i])}
           covered == {i \in 1..n : Covers(large, fit[i])}
           a == Assigned(box, bays)
           b == Assigned(large, fit)
<1>1. covered = covering
  <2>1. \A i \in 1..n : Covers(large, fit[i]) <=> Covers(box, bays[i])
    BY <1>0 DEF Covers
  <2> QED
    BY <2>1
<1>2. hits \subseteq 1..n /\ covering \subseteq 1..n
  BY <1>0 DEF Hits
<1>3. \A i \in 1..n : Area(fit[i]) \in Int /\ Coverage(large, fit[i]) \in Int
  BY <1>0
<1>4. /\ hits # {}
           => /\ a \in hits
              /\ \A j \in hits \ {a} : \/ Area(bays[a]) < Area(bays[j])
                                       \/ Area(bays[a]) = Area(bays[j]) /\ a < j
      /\ hits = {} /\ covering # {}
           => /\ a \in covering
              /\ \A j \in covering \ {a} :
                   \/ Coverage(box, bays[a]) > Coverage(box, bays[j])
                   \/ Coverage(box, bays[a]) = Coverage(box, bays[j]) /\ a < j
      /\ hits = {} /\ covering = {} => a = NoBay
  BY <1>0, AssignedIs
<1>5. /\ hits # {}
           => /\ b \in hits
              /\ \A j \in hits \ {b} : \/ Area(fit[b]) < Area(fit[j])
                                       \/ Area(fit[b]) = Area(fit[j]) /\ b < j
      /\ hits = {} /\ covered # {}
           => /\ b \in covered
              /\ \A j \in covered \ {b} :
                   \/ Coverage(large, fit[b]) > Coverage(large, fit[j])
                   \/ Coverage(large, fit[b]) = Coverage(large, fit[j]) /\ b < j
      /\ hits = {} /\ covered = {} => b = NoBay
  BY <1>0, <1>3, AssignedIs
<1> HIDE DEF hits, covering, covered, a, b
<1>6. CASE hits # {}
  <2> DEFINE f == [i \in hits |-> Area(bays[i])]
  <2>1. f \in [hits -> Int] /\ \A i \in hits : f[i] = Area(bays[i])
    BY <1>0, <1>2
  <2> HIDE DEF f
  <2>2. a \in hits /\ \A j \in hits \ {a} : f[a] < f[j] \/ (f[a] = f[j] /\ a < j)
    BY <1>4, <1>6, <2>1
  <2>3. b \in hits
    BY <1>5, <1>6
  <2>4. ASSUME NEW j \in hits \ {b} PROVE f[b] < f[j] \/ (f[b] = f[j] /\ b < j)
    <3> DEFINE v == f[b]
               w == f[j]
    <3>1. v \in Int /\ w \in Int
      BY <2>1, <2>3
    <3>2. k * v < k * w \/ (k * v = k * w /\ b < j)
      BY <1>0, <1>2, <1>5, <1>6, <2>1, <2>3
    <3> HIDE DEF v, w
    <3>3. /\ w - v \in Int /\ k * (w - v) = k * w - k * v
          /\ k * v \in Int /\ k * w \in Int
      BY <3>1
    <3>4. (w - v < 0 => (w - v) * k < 0) /\ (w - v > 0 => (w - v) * k > 0)
      BY <3>3, ProductsOfSigns
    <3>5. (w - v) * k = k * (w - v)
      BY <3>3
    <3>6. v < w \/ (v = w /\ b < j)
      BY <3>1, <3>2, <3>3, <3>4, <3>5
    <3> QED
      BY <3>6 DEF v, w
  <2>5. IsFirst(a, hits, f) /\ IsFirst(b, hits, f)
    BY <2>2, <2>3, <2>4 DEF IsFirst
  <2>6. a = b
    BY <1>2, <2>1, <2>5, FirstIsOne
  <2> QED
    BY <2>6 DEF a, b
<1>7. CASE hits = {} /\ covering # {}
  <2> DEFINE f == [i \in covering |-> 0 - Coverage(box, bays[i])]
  <2>1. f \in [covering -> Int] /\ \A i \in covering : f[i] = 0 - Coverage(box, bays[i])
    BY <1>0, <1>2
  <2> HIDE DEF f
  <2>2. a \in covering /\ \A j \in covering \ {a} : f[a] < f[j] \/ (f[a] = f[j] /\ a < j)
    <3>1. a \in covering
      BY <1>4, <1>7
    <3>2. ASSUME NEW j \in covering \ {a} PROVE f[a] < f[j] \/ (f[a] = f[j] /\ a < j)
      <4>1. \/ Coverage(box, bays[a]) > Coverage(box, bays[j])
            \/ Coverage(box, bays[a]) = Coverage(box, bays[j]) /\ a < j
        BY <1>4, <1>7
      <4>2. Coverage(box, bays[a]) \in Int /\ Coverage(box, bays[j]) \in Int
        BY <1>0, <1>2, <3>1
      <4> QED
        BY <2>1, <3>1, <4>1, <4>2
    <3> QED
      BY <3>1, <3>2
  <2>3. b \in covering
    BY <1>1, <1>5, <1>7
  <2>4. ASSUME NEW j \in covering \ {b} PROVE f[b] < f[j] \/ (f[b] = f[j] /\ b < j)
    <3>1. \/ Coverage(large, fit[b]) > Coverage(large, fit[j])
          \/ Coverage(large, fit[b]) = Coverage(large, fit[j]) /\ b < j
      BY <1>1, <1>5, <1>7
    <3>2. /\ Coverage(large, fit[b]) = Coverage(box, bays[b])
          /\ Coverage(large, fit[j]) = Coverage(box, bays[j])
          /\ Coverage(box, bays[b]) \in Int /\ Coverage(box, bays[j]) \in Int
      BY <1>0, <1>2, <2>3
    <3> QED
      BY <2>1, <2>3, <3>1, <3>2
  <2>5. IsFirst(a, covering, f) /\ IsFirst(b, covering, f)
    BY <2>2, <2>3, <2>4 DEF IsFirst
  <2>6. a = b
    BY <1>2, <2>1, <2>5, FirstIsOne
  <2> QED
    BY <2>6 DEF a, b
<1>8. CASE hits = {} /\ covering = {}
  BY <1>1, <1>4, <1>5, <1>8 DEF a, b
<1> QED
  BY <1>6, <1>7, <1>8 DEF a, b

LEMMA CoveragesAreNumbers ==
  ASSUME NEW box, Upright(box), NEW bay \in Polygons
  PROVE  Coverage(box, bay) \in Int
<1>1. IsFiniteSet(Samples)
  <2>1. IsFiniteSet(0..4)
    <3>1. 0 \in Int /\ 4 \in Int
      OBVIOUS
    <3> QED
      BY <3>1, FS_Interval
  <2>2. IsFiniteSet((0..4) \X (0..4))
    BY <2>1, FS_Product
  <2> QED
    BY <2>2 DEF Samples, BandCols, BandRows
<1>2. IsFiniteSet({s \in Samples : Inside(SampleAt(box, s), bay)})
  BY <1>1, FS_Subset
<1>3. Cardinality({s \in Samples : Inside(SampleAt(box, s), bay)}) \in Nat
  BY <1>2, FS_CardinalityType
<1> QED
  BY <1>3, CoverageIsOfSamples

\* One bay in the frame answers as it does in the drawing.
LEMMA BayAnswers ==
  ASSUME NEW kx \in Nat \ {0}, NEW ky \in Nat \ {0},
         NEW box, NEW large, AreStretched(box, large, kx, ky), NEW bay \in Polygons
  PROVE  LET fit == Stretched(bay, kx, ky)
         IN /\ GroundPoint(box) \in Points /\ GroundPoint(large) \in Points
            /\ fit \in Polygons
            /\ Inside(GroundPoint(large), fit) <=> Inside(GroundPoint(box), bay)
            /\ Coverage(box, bay) \in Int /\ Coverage(large, fit) = Coverage(box, bay)
<1> DEFINE fit == Stretched(bay, kx, ky)
<1>1. /\ Upright(box) /\ Upright(large) /\ GroundPoint(box) \in Points
      /\ GroundPoint(large) = Stretch(GroundPoint(box), kx, ky)
      /\ \A s \in Samples : /\ SampleAt(box, s) \in Points
                            /\ SampleAt(large, s) = Stretch(SampleAt(box, s), kx, ky)
  <2>1. PointsStretch(box, large, kx, ky)
    BY BoxesStretch
  <2> QED
    BY <2>1 DEF PointsStretch
<1>2. fit \in Polygons /\ \A p \in Points : Stretch(p, kx, ky) \in Points
  BY StretchedIsPolygon
<1>3. GroundPoint(large) \in Points
  BY <1>1, <1>2
<1>4. \A p \in Points : Inside(Stretch(p, kx, ky), fit) <=> Inside(p, bay)
  BY InsideStretches
<1> HIDE DEF fit
<1>5. \A s \in Samples : Inside(SampleAt(large, s), fit) <=> Inside(SampleAt(box, s), bay)
  BY <1>1, <1>4
<1>6. {s \in Samples : Inside(SampleAt(large, s), fit)}
        = {s \in Samples : Inside(SampleAt(box, s), bay)}
  BY <1>5
<1>7. /\ Coverage(large, fit) = Cardinality({s \in Samples : Inside(SampleAt(large, s), fit)})
      /\ Coverage(box, bay) = Cardinality({s \in Samples : Inside(SampleAt(box, s), bay)})
  BY <1>1, <1>2, CoverageIsOfSamples
<1>8. Coverage(box, bay) \in Int
  BY <1>1, CoveragesAreNumbers
<1> QED
  BY <1>1, <1>2, <1>3, <1>4, <1>6, <1>7, <1>8 DEF fit

\* assignment.py, SlotMap.fit_to_frame: whatever the bays, however many, convex or not: where
\* the frame is so many times as wide and so many times as high as the drawing, the bay that
\* a box is given to in the frame is the one it is given to in the drawing.
THEOREM FittingKeepsTheBay ==
  ASSUME NEW n \in Nat, NEW bays, DOMAIN bays = 1..n, \A i \in 1..n : bays[i] \in Polygons,
         NEW drawn \in Sizes, NEW kx \in Nat \ {0}, NEW ky \in Nat \ {0},
         NEW box, NEW large, AreStretched(box, large, kx, ky)
  PROVE  Assigned(large, FitToFrame(bays, drawn, <<kx * drawn[1], ky * drawn[2]>>))
           = Assigned(box, bays)
<1> DEFINE size == <<kx * drawn[1], ky * drawn[2]>>
           fit == FitToFrame(bays, drawn, size)
<1>1. /\ DOMAIN fit = 1..n
      /\ \A i \in 1..n : fit[i] = Stretched(bays[i], kx, ky)
  BY FitIsStretch
<1> HIDE DEF size, fit
<1>2. ASSUME NEW i \in 1..n
      PROVE  /\ GroundPoint(box) \in Points /\ GroundPoint(large) \in Points
             /\ fit[i] \in Polygons
             /\ Inside(GroundPoint(large), fit[i]) <=> Inside(GroundPoint(box), bays[i])
             /\ Coverage(box, bays[i]) \in Int
             /\ Coverage(large, fit[i]) = Coverage(box, bays[i])
  <2> DEFINE bay == bays[i]
             stretched == Stretched(bay, kx, ky)
  <2>1. bay \in Polygons /\ fit[i] = stretched
    BY <1>1
  <2> HIDE DEF bay
  <2>2. /\ GroundPoint(box) \in Points /\ GroundPoint(large) \in Points
        /\ stretched \in Polygons
        /\ Inside(GroundPoint(large), stretched) <=> Inside(GroundPoint(box), bay)
        /\ Coverage(box, bay) \in Int /\ Coverage(large, stretched) = Coverage(box, bay)
    BY <2>1, BayAnswers
  <2> HIDE DEF stretched
  <2> QED
    BY <2>1, <2>2 DEF bay
<1>3. Hits(large, fit) = Hits(box, bays)
  <2>1. CASE n = 0
    BY <1>1, <2>1 DEF Hits
  <2>2. CASE n # 0
    <3>1. 1 \in 1..n
      BY <2>2
    <3>2. GroundPoint(box) \in Points /\ GroundPoint(large) \in Points
      BY <1>2, <3>1
    <3>3. /\ Hits(large, fit) = {i \in 1..n : Inside(GroundPoint(large), fit[i])}
          /\ Hits(box, bays) = {i \in 1..n : Inside(GroundPoint(box), bays[i])}
      BY <1>1, <1>2, <3>2, HitsAreInside
    <3> QED
      BY <1>2, <3>3
  <2> QED
    BY <2>1, <2>2
<1> DEFINE k == kx * ky
<1>4. k \in Int /\ k > 0
  <2>1. kx \in Int /\ kx > 0 /\ ky \in Int /\ ky > 0
    OBVIOUS
  <2> QED
    BY <2>1, ProductsOfSigns
<1>5. ASSUME NEW i \in 1..n
      PROVE  Area(bays[i]) \in Int /\ Area(fit[i]) = k * Area(bays[i])
  BY <1>1, AreasStretch
<1> HIDE DEF k
<1>6. \A i \in 1..n : /\ Area(bays[i]) \in Int /\ Area(fit[i]) = k * Area(bays[i])
                      /\ Coverage(box, bays[i]) \in Int
                      /\ Coverage(large, fit[i]) = Coverage(box, bays[i])
  BY <1>2, <1>5
<1>7. AnswersAlike(box, bays, large, fit, n, k)
  BY <1>1, <1>3, <1>6 DEF AnswersAlike
<1>8. Assigned(large, fit) = Assigned(box, bays)
  BY <1>4, <1>7, SameAnswers
<1> QED
  BY <1>8 DEF fit, size

\* assignment.py, geometry.py: nor does it matter in which direction each bay was drawn.
THEOREM DrawingKeepsTheBay ==
  ASSUME NEW n \in Nat, NEW bays, DOMAIN bays = 1..n, \A i \in 1..n : bays[i] \in Polygons,
         NEW drawn, DOMAIN drawn = 1..n,
         \A i \in 1..n : drawn[i] \in {bays[i], Reverse(bays[i])},
         NEW box, Upright(box)
  PROVE  Assigned(box, drawn) = Assigned(box, bays)
<1>1. \A i \in 1..n : drawn[i] \in Polygons
  BY ReversedEdges
<1>2. ASSUME NEW i \in 1..n, NEW p \in Points
      PROVE  Inside(p, drawn[i]) <=> Inside(p, bays[i])
  BY DirectionSaysNothing
<1>3. GroundPoint(box) \in Points
  <2>1. box.x1 \in Int /\ box.x2 \in Int /\ box.y2 \in Int
    BY DEF Upright
  <2>2. (box.x1 + box.x2) \div 2 \in Int
    BY <2>1
  <2> QED
    BY <2>1, <2>2 DEF GroundPoint, Points
<1>4. Hits(box, drawn) = Hits(box, bays)
  <2>1. /\ Hits(box, drawn) = {i \in 1..n : Inside(GroundPoint(box), drawn[i])}
        /\ Hits(box, bays) = {i \in 1..n : Inside(GroundPoint(box), bays[i])}
    BY <1>1, <1>3, HitsAreInside
  <2>2. \A i \in 1..n : Inside(GroundPoint(box), drawn[i]) <=> Inside(GroundPoint(box), bays[i])
    BY <1>2, <1>3
  <2> QED
    BY <2>1, <2>2
<1>5. ASSUME NEW i \in 1..n
      PROVE  /\ Coverage(box, bays[i]) \in Int
             /\ Coverage(box, drawn[i]) = Coverage(box, bays[i])
  <2>1. \A s \in Samples : SampleAt(box, s) \in Points
    BY SamplesAreInBand
  <2>2. \A s \in Samples : Inside(SampleAt(box, s), drawn[i]) <=> Inside(SampleAt(box, s), bays[i])
    BY <1>2, <2>1
  <2>3. {s \in Samples : Inside(SampleAt(box, s), drawn[i])}
          = {s \in Samples : Inside(SampleAt(box, s), bays[i])}
    BY <2>2
  <2>4. /\ Coverage(box, drawn[i]) = Cardinality({s \in Samples : Inside(SampleAt(box, s), drawn[i])})
        /\ Coverage(box, bays[i]) = Cardinality({s \in Samples : Inside(SampleAt(box, s), bays[i])})
    BY <1>1, CoverageIsOfSamples
  <2>5. Coverage(box, bays[i]) \in Int
    BY CoveragesAreNumbers
  <2> QED
    BY <2>3, <2>4, <2>5
<1>6. ASSUME NEW i \in 1..n
      PROVE  Area(bays[i]) \in Int /\ Area(drawn[i]) = 1 * Area(bays[i])
  <2>1. Area(bays[i]) \in Int
    <3>1. 1 \in Nat \ {0}
      OBVIOUS
    <3> QED
      BY <3>1, AreasStretch
  <2>2. Area(drawn[i]) = Area(bays[i])
    BY AreaHasNoDirection
  <2> QED
    BY <2>1, <2>2
<1>7. 1 \in Int /\ 1 > 0
  OBVIOUS
<1>8. AnswersAlike(box, bays, box, drawn, n, 1)
  BY <1>4, <1>5, <1>6 DEF AnswersAlike
<1> QED
  BY <1>7, <1>8, SameAnswers
=============================================================================
