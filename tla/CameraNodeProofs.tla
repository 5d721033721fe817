--------------------------- MODULE CameraNodeProofs ---------------------------
(***************************************************************************)
(* For any ages, waits, backoffs and bounds: the reader of a stream keeps  *)
(* its capture and its picture keeps up, the ring's green ends, the node   *)
(* has what the row remembers, and an offline camera has an error.         *)
(***************************************************************************)
EXTENDS CameraNode, TLAPS

-----------------------------------------------------------------------------
(* The session of a stream and its worker *)

ReaderPlaces == {"probing", "waiting", "opening", "reading", "describing", "releasing",
                 "ended", "torn"}

RtspTypes ==
  /\ latest \in [there : BOOLEAN, age : Nat, behind : Nat, decodes : BOOLEAN]
  /\ reader \in [at : ReaderPlaces, backoff : Nat, wait : Nat, produced : BOOLEAN]
  /\ caller \in [at : {"reading", "joining", "closed", "closed_again"},
                 waited : Nat, gaveUp : BOOLEAN]
  /\ session \in [behind : Nat, first : BOOLEAN, base : Nat, since : Nat]
  /\ capture \in BOOLEAN

\* A closed source has a reader that has ended, or one whose join was given up.
ClosedMeansEnded ==
  caller.at \in {"closed", "closed_again"} => caller.gaveUp \/ reader.at = "ended"

\* Only a second close takes the capture from a reader.
CaptureIsKept ==
  reader.at = "torn" \/ (reader.at = "reading" /\ ~capture) =>
    caller.at = "closed_again" /\ caller.gaveUp

\* Between two reports a session falls behind by what has passed since the last one, and
\* what that report let pass.
LagIsBounded ==
  reader.at = "reading" /\ session.first =>
    /\ session.base <= StartBacklog
    /\ session.since < ReportEvery => session.behind <= ResyncLag + StartBacklog + session.since
    /\ latest.behind <= ResyncLag + StartBacklog + ReportEvery - 1

SourceInv ==
  kind = "rtsp" => RtspTypes /\ ClosedMeansEnded /\ CaptureIsKept /\ LagIsBounded

-----------------------------------------------------------------------------
(* The ring *)

ShowsFree(payload) == Watched \in DOMAIN payload /\ payload[Watched] = "0"

RingTypes ==
  /\ decided \in Payloads
  /\ push \in [at : {"none", "asked", "200", "404"}, payload : Payloads, age : Nat]
  /\ late \in Payloads
  /\ ring \in [chars : Payloads, have : BOOLEAN, age : 0..(MillisWrap - 1)]
  /\ lies \in Nat

\* Nobody lies of a bay the worker holds free.  A request that says "free" was true when
\* it was asked; the lie cannot be older than it.
LiesBeginAfterPush ==
  /\ ShowsFree(decided) => lies = 0
  /\ push.at # "none" =>
       push.age <= PushTimeout /\ (ShowsFree(push.payload) => lies <= push.age)

\* What the ring shows was under way for at most PushTimeout.
LiesEndWithRing ==
  ~IsStale /\ ShowsFree(ring.chars) => lies <= PushTimeout + ring.age

RingInv == RingTypes /\ LiesBeginAfterPush /\ LiesEndWithRing /\ GreenEnds

-----------------------------------------------------------------------------
(* The settings *)

SettingsTypes ==
  /\ remembered \in Settings
  /\ sensor \in [Names -> Values \cup {Unset}]
  /\ worker \in [at : {"starting", "restoring", "looping", "reloading"}, config : Settings]
  /\ update \in [Updates -> [at : {"idle", "applying"}, base : Settings,
                             changes : Settings, todo : SUBSET Names]]
  /\ \A u \in Updates : update[u].todo \subseteq Given(update[u].changes)
  /\ clean \in BOOLEAN

\* A restore that nothing disturbed: what is no longer to be set is set.
RestoreIsOnItsWay ==
  clean /\ worker.at = "restoring" =>
    /\ NoUpdate
    /\ \A n \in Given(remembered) :
         IF n \in Given(worker.config) THEN worker.config[n] = remembered[n]
         ELSE sensor[n] = remembered[n]

\* An update that met nobody: it began from the row as it still is, and what it has yet
\* to set is in todo.
UpdateIsOnItsWay ==
  clean /\ worker.at \in {"looping", "reloading"} =>
    /\ NoUpdate => \A n \in Given(remembered) : sensor[n] = remembered[n]
    /\ \A u, w \in Updates : update[u].at = "applying" /\ update[w].at = "applying" => u = w
    /\ \A u \in Updates : update[u].at = "applying" =>
         \A n \in Names :
           IF update[u].changes[n] = Unset
           THEN n \in Given(update[u].base) => sensor[n] = update[u].base[n]
           ELSE n \in update[u].todo \/ sensor[n] = update[u].changes[n]

SettingsInv == SettingsTypes /\ RestoreIsOnItsWay /\ UpdateIsOnItsWay

-----------------------------------------------------------------------------
(* The health *)

HealthTypes ==
  /\ metrics \in [seen : BOOLEAN, streak : Nat]
  /\ lastError \in BOOLEAN

\* A camera that is offline has an error in its row.
OfflineHasError == metrics.streak >= OfflineAfter => lastError

HealthInv == HealthTypes /\ OfflineHasError

NodeInv == part \in Parts /\ SourceInv /\ RingInv /\ SettingsInv /\ HealthInv

-----------------------------------------------------------------------------
(* The steps of a source *)

LEMMA SourceStarts == SourcesInit => SourceInv
<1> SUFFICES ASSUME SourcesInit, kind = "rtsp" PROVE SourceInv
  BY DEF SourceInv
<1>1. RtspInit
  BY DEF SourcesInit
<1> QED
  BY <1>1, SourceTimes
  DEF RtspInit, SharedInit, SourceInv, RtspTypes, ReaderPlaces, ClosedMeansEnded,
      CaptureIsKept, LagIsBounded, NoFrame, Reset

LEMMA BackoffIsNat == \A b \in Nat : Doubled(b) \in Nat
  BY SourceTimes DEF Doubled

\* Waiting keeps the reader's type, whatever it waits for.
LEMMA WaitingIsTyped ==
  ASSUME RtspTypes, NEW time \in Nat, NEW doubles \in BOOLEAN, Waiting(time, doubles)
  PROVE  /\ reader' \in [at : ReaderPlaces, backoff : Nat, wait : Nat, produced : BOOLEAN]
         /\ reader'.at = "waiting"
<1>1. reader' = [at |-> "waiting", wait |-> time, produced |-> reader.produced,
                 backoff |-> IF doubles THEN Doubled(reader.backoff) ELSE reader.backoff]
  BY DEF Waiting, RtspTypes
<1> QED
  BY <1>1, BackoffIsNat DEF RtspTypes, ReaderPlaces

\* The reader's own steps.
LEMMA ReaderKeeps ==
  ASSUME SourceInv, kind = "rtsp", RtspReader
  PROVE  SourceInv'
<1> USE SourceTimes DEF SourceInv, RtspTypes, ReaderPlaces
<1>1. CASE Probe
  <2>1. RtspTypes'
    <3>1. CASE Waiting(IdleRetry, FALSE) \/ Waiting(reader.backoff, TRUE)
      BY <1>1, <3>1, WaitingIsTyped DEF Probe, rtsp
    <3>2. CASE reader' = [reader EXCEPT !.at = "opening"]
      BY <1>1, <3>2 DEF Probe, rtsp
    <3> QED
      BY <1>1, <3>1, <3>2 DEF Probe
  <2> QED
    BY <1>1, <2>1, ZenonT(30)
    DEF Probe, Waiting, rtsp, ClosedMeansEnded, CaptureIsKept, LagIsBounded
<1>2. CASE WaitEnds
  BY <1>2 DEF WaitEnds, Probing, Stopping, rtsp, ClosedMeansEnded, CaptureIsKept, LagIsBounded
<1>3. CASE Open
  <2>1. CASE capture' # capture \/ session' # session \/ reader'.at # "describing"
    <3>1. /\ capture' = TRUE /\ session' = Reset
          /\ reader' = [reader EXCEPT !.at = IF Stopping THEN "releasing" ELSE "reading",
                                      !.produced = FALSE]
      BY <1>3, <2>1 DEF Open, rtsp
    <3>2. session' \in [behind : Nat, first : BOOLEAN, base : Nat, since : Nat]
          /\ ~session'.first
      BY <3>1 DEF Reset
    <3> QED
      BY <1>3, <3>1, <3>2 DEF Open, ClosedMeansEnded, CaptureIsKept, LagIsBounded
  <2>2. CASE capture' = capture /\ session' = session /\ reader'.at = "describing"
    BY <1>3, <2>2 DEF Open, ClosedMeansEnded, CaptureIsKept, LagIsBounded
  <2> QED
    BY <2>1, <2>2
<1>4. CASE Describe
  BY <1>4 DEF Describe, rtsp, ClosedMeansEnded, CaptureIsKept, LagIsBounded
<1>5. CASE TakeFrame
  <2>1. PICK b \in 0..MaxBehind :
          /\ IF session.first THEN b < session.behind ELSE b <= StartBacklog
          /\ latest' = Fresh(b, TRUE)
          /\ session' = Noted(b)
          /\ reader' = [reader EXCEPT !.produced = TRUE,
                          !.at = IF MustResync(b) \/ Stopping THEN "releasing" ELSE @]
    BY <1>5 DEF TakeFrame
  <2>2. /\ reader.at = "reading" /\ capture
        /\ kind' = kind /\ caller' = caller /\ capture' = capture
    BY <1>5 DEF TakeFrame
  <2>3. b \in Nat /\ latest'.behind = b
    BY <2>1 DEF Fresh
  <2>4. RtspTypes'
    BY <2>1, <2>2, <2>3 DEF Fresh, Noted, FirstFrame
  <2>5. ClosedMeansEnded' /\ CaptureIsKept'
    BY <2>1, <2>2 DEF ClosedMeansEnded, CaptureIsKept
  <2>6. ASSUME reader'.at = "reading"
        PROVE  /\ session'.base <= StartBacklog
               /\ session'.since < ReportEvery =>
                    session'.behind <= ResyncLag + StartBacklog + session'.since
               /\ b <= ResyncLag + StartBacklog + ReportEvery - 1
    <3>1. ~MustResync(b)
      BY <2>1, <2>6
    <3>2. CASE ~session.first
      BY <2>1, <2>3, <3>2 DEF Noted, FirstFrame
    <3>3. CASE session.first /\ ReportIsDue
      BY <2>1, <2>2, <2>3, <3>1, <3>3 DEF Noted, MustResync, Lag, LagIsBounded
    <3>4. CASE session.first /\ ~ReportIsDue
      BY <2>1, <2>2, <2>3, <3>4 DEF Noted, ReportIsDue, LagIsBounded
    <3> QED
      BY <3>2, <3>3, <3>4
  <2> QED
    BY <2>2, <2>3, <2>4, <2>5, <2>6 DEF LagIsBounded
<1>6. CASE SessionFails
  BY <1>6 DEF SessionFails, rtsp, ClosedMeansEnded, CaptureIsKept, LagIsBounded
<1>7. CASE Release
  <2>1. RtspTypes'
    <3>1. CASE Waiting(reader.backoff, TRUE)
      BY <1>7, <3>1, WaitingIsTyped DEF Release
    <3>2. CASE Probing(InitialBackoff)
      BY <1>7, <3>2 DEF Release, Probing
    <3> QED
      BY <1>7, <3>1, <3>2 DEF Release
  <2> QED
    BY <1>7, <2>1, ZenonT(30)
    DEF Release, Probing, Waiting, Stopping, ClosedMeansEnded, CaptureIsKept, LagIsBounded
<1>8. CASE ReaderIsTorn
  BY <1>8 DEF ReaderIsTorn, rtsp, ClosedMeansEnded, CaptureIsKept, LagIsBounded
<1> QED
  BY <1>1, <1>2, <1>3, <1>4, <1>5, <1>6, <1>7, <1>8 DEF RtspReader

\* The worker, the camera and time.
LEMMA WorkerKeeps ==
  ASSUME SourceInv, kind = "rtsp", RtspNext, ~RtspReader
  PROVE  SourceInv'
<1> USE SourceTimes DEF SourceInv, RtspTypes, ReaderPlaces
<1>1. CASE Close
  BY <1>1 DEF Close, rtsp, ClosedMeansEnded, CaptureIsKept, LagIsBounded
<1>2. CASE Joined
  BY <1>2 DEF Joined, ClosedMeansEnded, CaptureIsKept, LagIsBounded
<1>3. CASE JoinTimesOut
  BY <1>3 DEF JoinTimesOut, rtsp, ClosedMeansEnded, CaptureIsKept, LagIsBounded
<1>4. CASE CloseAgain
  BY <1>4 DEF CloseAgain, ClosedMeansEnded, CaptureIsKept, LagIsBounded
<1>5. CASE RtspTick
  <2>1. RtspTypes'
    <3>1. latest' \in [there : BOOLEAN, age : Nat, behind : Nat, decodes : BOOLEAN]
      BY <1>5 DEF RtspTick, Aged
    <3>2. session' \in [behind : Nat, first : BOOLEAN, base : Nat, since : Nat]
      <4>1. PICK b \in Nat, s \in Nat : session' = [session EXCEPT !.behind = b, !.since = s]
        <5>1. session.behind + 1 \in Nat /\ session.since + 1 \in Nat
          OBVIOUS
        <5> QED
          BY <1>5, <5>1 DEF RtspTick, Older
      <4> QED
        BY <4>1
    <3>3. reader' \in [at : ReaderPlaces, backoff : Nat, wait : Nat, produced : BOOLEAN]
      BY <1>5 DEF RtspTick
    <3> QED
      BY <1>5, <3>1, <3>2, <3>3 DEF RtspTick
  <2>2. ClosedMeansEnded' /\ CaptureIsKept'
    BY <1>5 DEF RtspTick, ClosedMeansEnded, CaptureIsKept
  <2>3. LagIsBounded'
    <3>1. latest'.behind = latest.behind
      BY <1>5 DEF RtspTick, Aged
    <3>2. /\ session'.first = session.first /\ session'.base = session.base
          /\ reader'.at = reader.at
      BY <1>5 DEF RtspTick, Older
    <3>3. session'.since < ReportEvery /\ session.first =>
            session'.since = session.since + 1 /\ session'.behind <= session.behind + 1
      BY <1>5 DEF RtspTick, Older
    <3> QED
      BY <2>1, <3>1, <3>2, <3>3 DEF LagIsBounded
  <2> QED
    BY <1>5, <2>1, <2>2, <2>3 DEF RtspTick
<1>6. CASE CameraChanges /\ UNCHANGED rtsp
  BY <1>6 DEF CameraChanges, rtsp, ClosedMeansEnded, CaptureIsKept, LagIsBounded
<1>7. CASE ReadNewest /\ UNCHANGED rtsp
  BY <1>7 DEF ReadNewest, rtsp, ClosedMeansEnded, CaptureIsKept, LagIsBounded
<1> QED
  BY <1>1, <1>2, <1>3, <1>4, <1>5, <1>6, <1>7 DEF RtspNext

LEMMA SourceKeeps ==
  ASSUME SourceInv, SourcesNext
  PROVE  SourceInv'
<1>1. CASE Rtsp(RtspNext)
  BY <1>1, ReaderKeeps, WorkerKeeps DEF Rtsp
<1>2. CASE Mjpeg(MjpegNext)
  <2>1. kind = "esp32cam_stream" /\ kind' = kind
    BY <1>2 DEF Mjpeg, MjpegNext, MjpegReader, Connect, Chunk, StreamEnds, StreamBreaks,
                BackoffEnds, CloseStream, MjpegTick, CameraChanges, ReadNewest
  <2> QED
    BY <2>1 DEF SourceInv
<1>3. CASE Snapshot(SnapshotNext)
  <2>1. kind = "esp32cam_http" /\ kind' = kind
    BY <1>3 DEF Snapshot, SnapshotNext, DeviceThread, Exchange, OpenCamera, LockExposure,
                ChooseEncoder, Capture, CaptureFails, Ask, Answer, Receive, GetFails,
                CloseClient, SnapshotTick, CameraChanges, shared
  <2> QED
    BY <2>1 DEF SourceInv
<1> QED
  BY <1>1, <1>2, <1>3 DEF SourcesNext


-----------------------------------------------------------------------------
(* The steps of the ring *)

LEMMA NothingIsDark == Nothing \in Payloads /\ ~ShowsFree(Nothing)
  BY DEF Nothing, Payloads, ShowsFree

LEMMA RingStarts == RingInit => RingInv
  BY NothingIsDark, RingBounds
  DEF RingInit, RingInv, RingTypes, LiesBeginAfterPush, LiesEndWithRing, GreenEnds, LongestLie,
      FreshLed, NoPush, DarkRing, IsStale

LEMMA RingsAreTyped ==
  ASSUME NEW p \in Payloads
  PROVE  /\ Applied(p) \in [chars : Payloads, have : BOOLEAN, age : 0..(MillisWrap - 1)]
         /\ DarkRing \in [chars : Payloads, have : BOOLEAN, age : 0..(MillisWrap - 1)]
<1>1. 0 \in 0..(MillisWrap - 1)
  BY RingBounds
<1> QED
  BY <1>1, NothingIsDark DEF Applied, DarkRing

\* The watched bay is shown free and is not, in terms of the two payloads.
LEMMA LyingIs == Lying(Watched) <=> ~IsStale /\ ShowsFree(ring.chars) /\ ~ShowsFree(decided)
  BY DEF Lying, Green, ShowsFree

LEMMA LyingWillBe ==
  Lying(Watched)' <=> ~IsStale' /\ ShowsFree(ring.chars)' /\ ~ShowsFree(decided)'
  BY DEF Lying, Green, ShowsFree

\* A step that shows nothing new, and after which the worker holds no bay free that it
\* did not hold free before, leaves the count as it is.
LEMMA CountGoesOn ==
  ASSUME RingInv, UNCHANGED lies,
         decided' = decided \/ decided' = Nothing,
         ring' = ring \/ ring' = DarkRing,
         push' = push \/ push' = NoPush \/ push' = [push EXCEPT !.at = "200"]
           \/ push' = [push EXCEPT !.at = "404"]
           \/ push' = [at |-> "asked", payload |-> decided, age |-> 0],
         push'.at \in {"200", "404"} => push.at # "none",
         late' \in Payloads
  PROVE  RingInv'
<1> USE NothingIsDark, RingBounds DEF RingInv, RingTypes
<1>1. RingTypes'
  <2>1. decided' \in Payloads
    OBVIOUS
  <2>2. ring' \in [chars : Payloads, have : BOOLEAN, age : 0..(MillisWrap - 1)]
    BY RingsAreTyped
  <2>3. push' \in [at : {"none", "asked", "200", "404"}, payload : Payloads, age : Nat]
    BY DEF NoPush
  <2> QED
    BY <2>1, <2>2, <2>3
<1>2. LiesBeginAfterPush'
  BY DEF LiesBeginAfterPush, NoPush
<1>3. LiesEndWithRing'
  BY DEF LiesEndWithRing, DarkRing, IsStale
<1> QED
  BY <1>1, <1>2, <1>3 DEF GreenEnds, LongestLie


\* ringApply takes a payload that was asked for at most PushTimeout ago.
LEMMA NodeKeeps ==
  ASSUME RingInv, NodeAnswers \/ NodeReadsLate \/ TestPattern
  PROVE  RingInv'
<1> USE NothingIsDark, RingBounds DEF RingInv, RingTypes
<1>1. CASE NodeAnswers /\ fitted
  <2>1. /\ push.at = "asked" /\ ring' = Applied(push.payload)
        /\ push' = [push EXCEPT !.at = "200"]
        /\ decided' = decided /\ late' = late
        /\ lies' = IF Lying(Watched)' THEN lies ELSE 0
    BY <1>1 DEF NodeAnswers, LiesStill
  <2>2. RingTypes'
    BY <2>1 DEF Applied
  <2>3. LiesBeginAfterPush'
    BY <2>1 DEF LiesBeginAfterPush
  <2>4. LiesEndWithRing'
    BY <2>1 DEF LiesEndWithRing, LiesBeginAfterPush, Applied
  <2> QED
    BY <2>1, <2>2, <2>3, <2>4 DEF GreenEnds, LongestLie
<1>2. CASE NodeAnswers /\ ~fitted
  <2>1. /\ push.at = "asked" /\ ring' = ring
        /\ push' = [push EXCEPT !.at = "404"]
        /\ decided' = decided /\ late' = late
        /\ lies' = IF Lying(Watched)' THEN lies ELSE 0
    BY <1>2 DEF NodeAnswers, LiesStill
  <2>2. RingTypes'
    BY <2>1
  <2>3. LiesBeginAfterPush'
    BY <2>1 DEF LiesBeginAfterPush
  <2>4. LiesEndWithRing'
    BY <2>1 DEF LiesEndWithRing, IsStale
  <2> QED
    BY <2>1, <2>2, <2>3, <2>4 DEF GreenEnds, LongestLie
<1>3. CASE NodeReadsLate \/ TestPattern
  <2>1. /\ lies' = 0 /\ decided' = decided /\ push' = push
        /\ late' \in Payloads
        /\ ring' = ring \/ \E p \in Payloads : ring' = Applied(p)
    BY <1>3 DEF NodeReadsLate, TestPattern
  <2>2. RingTypes'
    BY <2>1, RingsAreTyped
  <2>3. LiesBeginAfterPush'
    BY <2>1 DEF LiesBeginAfterPush
  <2>4. LiesEndWithRing' /\ GreenEnds'
    BY <2>1, <2>2 DEF LiesEndWithRing, GreenEnds, LongestLie
  <2> QED
    BY <2>2, <2>3, <2>4
<1> QED
  BY <1>1, <1>2, <1>3

LEMMA DecidesKeeps ==
  ASSUME RingInv, Decides
  PROVE  RingInv'
<1> USE RingBounds DEF RingInv, RingTypes
<1>1. /\ push' = push /\ late' = late /\ ring' = ring
      /\ lies' = IF Lying(Watched)' THEN lies ELSE 0
  BY DEF Decides, LiesStill
<1>2. decided' \in Payloads
  <2>1. PICK map \in {DOMAIN decided} \cup IF decided = Nothing THEN SUBSET Bays ELSE {} :
          decided' \in [map -> Chars]
    BY DEF Decides
  <2>2. map \in SUBSET Bays
    BY <2>1 DEF Payloads
  <2> QED
    BY <2>1, <2>2 DEF Payloads
<1>3. LiesBeginAfterPush'
  BY <1>1, LyingWillBe DEF LiesBeginAfterPush, ShowsFree
<1>4. LiesEndWithRing'
  BY <1>1 DEF LiesEndWithRing, IsStale
<1> QED
  BY <1>1, <1>2, <1>3, <1>4 DEF GreenEnds, LongestLie

\* A ring grows stale before the milliseconds start again.
LEMMA RingTickKeeps ==
  ASSUME RingInv, RingTick
  PROVE  RingInv'
<1> USE RingBounds DEF RingInv, RingTypes
<1>1. /\ decided' = decided /\ late' = late
      /\ push' = IF push.at = "none" THEN push ELSE [push EXCEPT !.age = @ + 1]
      /\ push.at = "none" \/ push.age < PushTimeout
      /\ ring' = IF ring.have THEN [ring EXCEPT !.age = (@ + 1) % MillisWrap] ELSE ring
      /\ lies' = IF Lying(Watched) THEN OneMore(lies, LongestLie + 1) ELSE 0
  BY DEF RingTick
<1>2. /\ lies' \in Nat
      /\ lies' <= lies + 1
      /\ ~Lying(Watched) => lies' = 0
  BY <1>1 DEF OneMore, LongestLie
<1>3. RingTypes'
  <2>1. push' \in [at : {"none", "asked", "200", "404"}, payload : Payloads, age : Nat]
    BY <1>1
  <2>2. (ring.age + 1) % MillisWrap \in 0..(MillisWrap - 1)
    OBVIOUS
  <2>3. ring' \in [chars : Payloads, have : BOOLEAN, age : 0..(MillisWrap - 1)]
    BY <1>1, <2>2
  <2> QED
    BY <1>1, <1>2, <2>1, <2>3
<1>4. LiesBeginAfterPush'
  BY <1>1, <1>2, LyingIs DEF LiesBeginAfterPush
<1>5. LiesEndWithRing'
  <2>1. CASE ~Lying(Watched)
    BY <1>2, <1>3, <2>1 DEF LiesEndWithRing
  <2>2. CASE Lying(Watched)
    <3>1. ring.have /\ ring.age <= Stale /\ lies <= PushTimeout + ring.age
      BY <2>2, LyingIs DEF LiesEndWithRing, IsStale
    <3>2. (ring.age + 1) % MillisWrap = ring.age + 1
      BY <3>1
    <3> QED
      BY <1>1, <1>2, <3>1, <3>2 DEF LiesEndWithRing
  <2> QED
    BY <2>1, <2>2
<1>6. GreenEnds'
  BY <1>2, LyingIs DEF GreenEnds, LongestLie, LiesEndWithRing, IsStale
<1> QED
  BY <1>3, <1>4, <1>5, <1>6

LEMMA RingKeeps ==
  ASSUME RingInv, RingNext
  PROVE  RingInv'
<1>1. CASE NodeGoes \/ NodeReturns \/ FramesStopOrGoOn \/ Settles
  BY <1>1, NothingIsDark, CountGoesOn
  DEF NodeGoes, NodeReturns, FramesStopOrGoOn, Settles, RingInv, RingTypes
<1>2. CASE StartsPush
  BY <1>2, CountGoesOn DEF StartsPush, RingInv, RingTypes
<1>3. CASE PushIsAnswered
  BY <1>3, CountGoesOn DEF PushIsAnswered, RingInv, RingTypes, NoPush
<1>4. CASE PushFails
  BY <1>4, CountGoesOn DEF PushFails, RingInv, RingTypes, NoPush
<1>5. CASE Rebuilds
  BY <1>5, CountGoesOn DEF Rebuilds, RingInv, RingTypes, NoPush
<1> QED
  BY <1>1, <1>2, <1>3, <1>4, <1>5, NodeKeeps, DecidesKeeps, RingTickKeeps DEF RingNext


-----------------------------------------------------------------------------
(* The steps of the settings *)

LEMMA SettingsStart == SettingsInit => SettingsInv
<1> SUFFICES ASSUME SettingsInit PROVE SettingsInv
  OBVIOUS
<1>1. NoSettings \in Settings
  BY DEF NoSettings, Settings
<1>2. SettingsTypes
  BY <1>1, SettingsBounds DEF SettingsInit, SettingsTypes, Idle
<1> QED
  BY <1>2 DEF SettingsInit, SettingsInv, RestoreIsOnItsWay, UpdateIsOnItsWay

\* A node that was disturbed owes nothing: types are all there is to keep.
LEMMA DisturbedOwesNothing == SettingsTypes' /\ ~clean' => SettingsInv'
  BY DEF SettingsInv, RestoreIsOnItsWay, UpdateIsOnItsWay

LEMMA WorkerSetsOrLoses ==
  ASSUME SettingsInv, NEW n \in Names, Restores(n) \/ RestoreIsRefused(n) \/ RestoreIsLost(n)
  PROVE  SettingsInv'
<1> USE SettingsBounds DEF SettingsInv, SettingsTypes
<1>1. worker.config[n] \in Values \cup {Unset} /\ worker.config[n] # Unset
  BY DEF Restores, RestoreIsRefused, RestoreIsLost, Given, Settings
<1>2. CASE Restores(n)
  <2>1. /\ worker.at = "restoring" /\ n \in Given(worker.config)
        /\ sensor' = [sensor EXCEPT ![n] = worker.config[n]]
        /\ worker' = [worker EXCEPT !.config = [worker.config EXCEPT ![n] = Unset]]
        /\ remembered' = remembered /\ update' = update /\ clean' = clean
    BY <1>2 DEF Restores, Set
  <2>2. SettingsTypes'
    BY <1>1, <2>1 DEF Settings
  <2>3. RestoreIsOnItsWay'
    BY <2>1 DEF RestoreIsOnItsWay, NoUpdate, Given, Settings
  <2> QED
    BY <2>1, <2>2, <2>3 DEF UpdateIsOnItsWay
<1>3. CASE RestoreIsRefused(n)
  <2>1. SettingsTypes' /\ ~clean'
    BY <1>3 DEF RestoreIsRefused, Settings
  <2> QED
    BY <2>1, DisturbedOwesNothing
<1>4. CASE RestoreIsLost(n)
  <2>1. SettingsTypes' /\ ~clean'
    BY <1>1, <1>4 DEF RestoreIsLost, Set, Settings, NoSettings
  <2> QED
    BY <2>1, DisturbedOwesNothing
<1> QED
  BY <1>2, <1>3, <1>4

\* The worker's other steps.  A context that is built starts a restore, or has nothing to
\* restore; a reload keeps what the node has.
LEMMA WorkerGoesOn ==
  ASSUME SettingsInv, BuildsContext \/ RestoreEnds \/ AsksForReload \/ Reloads \/ Restarts
  PROVE  SettingsInv'
<1> USE SettingsBounds DEF SettingsInv, SettingsTypes
<1>1. CASE BuildsContext
  <2>1. SettingsTypes'
    BY <1>1 DEF BuildsContext, NoUpdate
  <2>2. RestoreIsOnItsWay'
    BY <1>1 DEF BuildsContext, RestoreIsOnItsWay, NoUpdate
  <2>3. UpdateIsOnItsWay'
    BY <1>1 DEF BuildsContext, UpdateIsOnItsWay, NoUpdate
  <2> QED
    BY <2>1, <2>2, <2>3
<1>2. CASE RestoreEnds
  BY <1>2 DEF RestoreEnds, RestoreIsOnItsWay, UpdateIsOnItsWay, NoUpdate
<1>3. CASE AsksForReload
  BY <1>3 DEF AsksForReload, RestoreIsOnItsWay, UpdateIsOnItsWay, NoUpdate
<1>4. CASE Reloads
  BY <1>4 DEF Reloads, AfterReload, Settings, NoSettings, RestoreIsOnItsWay,
              UpdateIsOnItsWay, NoUpdate
<1>5. CASE Restarts
  BY <1>5 DEF Restarts, Settings, NoSettings, RestoreIsOnItsWay, UpdateIsOnItsWay
<1> QED
  BY <1>1, <1>2, <1>3, <1>4, <1>5

LEMMA UpdateBegins ==
  ASSUME SettingsInv, NEW u \in Updates, NEW changes \in Settings, Asks(u, changes)
  PROVE  SettingsInv'
<1> USE SettingsBounds DEF SettingsInv, SettingsTypes
<1>1. /\ update[u].at = "idle"
      /\ update' = [update EXCEPT ![u] = [at |-> "applying", base |-> remembered,
                                          changes |-> changes, todo |-> Given(changes)]]
      /\ clean' = (clean /\ NoUpdate /\ worker.at \in {"looping", "reloading"})
      /\ remembered' = remembered /\ sensor' = sensor /\ worker' = worker
  BY DEF Asks
<1>2. SettingsTypes'
  BY <1>1 DEF Given
<1>3. ASSUME clean' PROVE RestoreIsOnItsWay' /\ UpdateIsOnItsWay'
  <2>1. /\ NoUpdate /\ worker.at \in {"looping", "reloading"}
        /\ \A n \in Given(remembered) : sensor[n] = remembered[n]
    BY <1>1, <1>3 DEF UpdateIsOnItsWay
  <2>2. \A w \in Updates : update'[w].at = "applying" => w = u
    BY <1>1, <2>1 DEF NoUpdate
  <2>3. update'[u] = [at |-> "applying", base |-> remembered, changes |-> changes,
                      todo |-> Given(changes)]
    BY <1>1
  <2>4. ~NoUpdate'
    BY <2>3 DEF NoUpdate
  <2>5. \A n \in Names :
          IF changes[n] = Unset THEN n \in Given(remembered) => sensor[n] = remembered[n]
          ELSE n \in Given(changes)
    BY <2>1 DEF Given
  <2> QED
    BY <1>1, <2>1, <2>2, <2>3, <2>4, <2>5 DEF RestoreIsOnItsWay, UpdateIsOnItsWay
<1> QED
  BY <1>2, <1>3, DisturbedOwesNothing

LEMMA UpdateGoesOn ==
  ASSUME SettingsInv, NEW u \in Updates, NEW n \in Names, Applies(u, n) \/ UpdateIsLost(u, n)
  PROVE  SettingsInv'
<1> USE SettingsBounds DEF SettingsInv, SettingsTypes
<1>1. CASE UpdateIsLost(u, n)
  <2>1. update[u].changes[n] \in Values \cup {Unset}
    BY DEF Settings
  <2>2. SettingsTypes' /\ ~clean'
    BY <1>1, <2>1 DEF UpdateIsLost, Set, Idle, Settings, NoSettings
  <2> QED
    BY <2>2, DisturbedOwesNothing
<1>2. CASE Applies(u, n)
  <2>1. /\ update[u].at = "applying" /\ n \in update[u].todo
        /\ update' = [update EXCEPT ![u] = [update[u] EXCEPT !.todo = @ \ {n}]]
        /\ remembered' = remembered /\ worker' = worker
        /\ \/ sensor' = [sensor EXCEPT ![n] = update[u].changes[n]] /\ clean' = clean
           \/ sensor' = sensor /\ clean' = FALSE
    BY <1>2 DEF Applies, Set
  <2>2. update[u].changes[n] \in Values \cup {Unset}
    BY DEF Settings
  <2>3. SettingsTypes'
    BY <2>1, <2>2, ZenonT(30)
  <2>4. ASSUME clean' PROVE RestoreIsOnItsWay' /\ UpdateIsOnItsWay'
    <3>1. sensor' = [sensor EXCEPT ![n] = update[u].changes[n]] /\ clean
      BY <2>1, <2>4
    <3>2. ~NoUpdate /\ ~NoUpdate'
      BY <2>1 DEF NoUpdate
    <3>3. \A w \in Updates : update'[w].at = update[w].at
      BY <2>1
    <3>4. ASSUME worker.at \in {"looping", "reloading"},
                 NEW w \in Updates, update'[w].at = "applying", NEW m \in Names
          PROVE  IF update'[w].changes[m] = Unset
                 THEN m \in Given(update'[w].base) => sensor'[m] = update'[w].base[m]
                 ELSE m \in update'[w].todo \/ sensor'[m] = update'[w].changes[m]
      <4>1. w = u
        BY <2>1, <3>1, <3>3, <3>4 DEF UpdateIsOnItsWay
      <4>2. /\ update'[u].changes = update[u].changes /\ update'[u].base = update[u].base
            /\ update'[u].todo = update[u].todo \ {n}
        BY <2>1
      <4>3. IF update[u].changes[m] = Unset
            THEN m \in Given(update[u].base) => sensor[m] = update[u].base[m]
            ELSE m \in update[u].todo \/ sensor[m] = update[u].changes[m]
        BY <2>1, <3>1, <3>4 DEF UpdateIsOnItsWay
      <4>4. update[u].changes[n] # Unset
        BY <2>1 DEF Given
      <4> QED
        BY <3>1, <4>1, <4>2, <4>3, <4>4
    <3> QED
      BY <2>1, <3>1, <3>2, <3>3, <3>4 DEF RestoreIsOnItsWay, UpdateIsOnItsWay
  <2> QED
    BY <2>3, <2>4, DisturbedOwesNothing
<1> QED
  BY <1>1, <1>2


\* What is written is what the row held and what was set on top of it: what the node has.
LEMMA UpdateEnds ==
  ASSUME SettingsInv, NEW u \in Updates, Commits(u)
  PROVE  SettingsInv'
<1> USE SettingsBounds DEF SettingsInv, SettingsTypes
<1>1. /\ update[u].at = "applying" /\ update[u].todo = {}
      /\ remembered' = Merged(update[u].base, update[u].changes)
      /\ update' = [update EXCEPT ![u] = Idle]
      /\ sensor' = sensor /\ worker' = worker /\ clean' = clean
  BY DEF Commits
<1>2. SettingsTypes'
  <2>1. Merged(update[u].base, update[u].changes) \in Settings
    BY DEF Merged, Settings
  <2>2. Idle \in [at : {"idle", "applying"}, base : Settings, changes : Settings,
                  todo : SUBSET Names] /\ Idle.todo = {}
    BY DEF Idle, NoSettings, Settings
  <2> QED
    BY <1>1, <2>1, <2>2
<1>3. RestoreIsOnItsWay'
  BY <1>1 DEF RestoreIsOnItsWay, NoUpdate
<1>4. UpdateIsOnItsWay'
  <2> SUFFICES ASSUME clean, worker.at \in {"looping", "reloading"} PROVE UpdateIsOnItsWay'
    BY <1>1 DEF UpdateIsOnItsWay
  <2>1. \A w \in Updates : update[w].at = "applying" => w = u
    BY <1>1 DEF UpdateIsOnItsWay
  <2>2. \A w \in Updates : update'[w].at # "applying"
    BY <1>1, <2>1 DEF Idle
  <2>3. ASSUME NEW n \in Given(remembered') PROVE sensor'[n] = remembered'[n]
    <3>1. /\ n \in Names
          /\ remembered'[n] = IF update[u].changes[n] = Unset THEN update[u].base[n]
                              ELSE update[u].changes[n]
          /\ remembered'[n] # Unset
      BY <1>1, <2>3 DEF Given, Merged
    <3>2. IF update[u].changes[n] = Unset
          THEN n \in Given(update[u].base) => sensor[n] = update[u].base[n]
          ELSE n \in update[u].todo \/ sensor[n] = update[u].changes[n]
      BY <1>1, <3>1 DEF UpdateIsOnItsWay
    <3> QED
      BY <1>1, <3>1, <3>2 DEF Given
  <2> QED
    BY <2>2, <2>3 DEF UpdateIsOnItsWay
<1> QED
  BY <1>2, <1>3, <1>4

LEMMA SettingsKeep ==
  ASSUME SettingsInv, SettingsNext
  PROVE  SettingsInv'
<1>1. CASE NodeRestarts
  <2>1. SettingsTypes' /\ ~clean'
    BY <1>1, SettingsBounds DEF NodeRestarts, SettingsInv, SettingsTypes
  <2> QED
    BY <2>1, DisturbedOwesNothing
<1> QED
  BY <1>1, WorkerSetsOrLoses, WorkerGoesOn, UpdateBegins, UpdateGoesOn, UpdateEnds
  DEF SettingsNext

-----------------------------------------------------------------------------
(* The steps of the health *)

\* The one failure that makes the camera offline is the one that is written.
LEMMA HealthKeeps ==
  ASSUME HealthInv, HealthNext
  PROVE  HealthInv'
<1> USE HealthBounds DEF HealthInv, HealthTypes, OfflineHasError
<1>1. CASE FrameArrives
  <2>1. metrics' = [seen |-> TRUE, streak |-> 0]
    BY <1>1 DEF FrameArrives
  <2>2. lastError' \in BOOLEAN
    BY <1>1 DEF FrameArrives, Recorded
  <2>3. ~(metrics'.streak >= OfflineAfter)
    BY <2>1
  <2> QED
    BY <2>1, <2>2, <2>3
<1>2. CASE ReadFails
  <2>1. /\ metrics' = [metrics EXCEPT !.streak =
             IF metrics.streak + 1 > OfflineAfter THEN OfflineAfter + 1
             ELSE metrics.streak + 1]
        /\ lastError' = (lastError \/ metrics.streak + 1 = OfflineAfter)
    BY <1>2 DEF ReadFails, Recorded, ErrorIsDue
  <2>2. metrics' \in [seen : BOOLEAN, streak : Nat]
    BY <2>1
  <2>3. metrics'.streak >= OfflineAfter =>
          metrics.streak >= OfflineAfter \/ metrics.streak + 1 = OfflineAfter
    BY <2>1
  <2> QED
    BY <2>1, <2>2, <2>3
<1>3. CASE LoopRestarts
  BY <1>3 DEF LoopRestarts, NoMetrics
<1>4. CASE HealthTick \/ WorksFromNowOn
  BY <1>4 DEF HealthTick, WorksFromNowOn
<1> QED
  BY <1>1, <1>2, <1>3, <1>4 DEF HealthNext

-----------------------------------------------------------------------------
(* The node *)

LEMMA SourceRests == SourceInv /\ UNCHANGED sourceVars => SourceInv'
  BY DEF SourceInv, sourceVars, shared, rtsp, RtspTypes, ClosedMeansEnded, CaptureIsKept,
         LagIsBounded

LEMMA RingRests == RingInv /\ UNCHANGED ringVars => RingInv'
  BY DEF RingInv, ringVars, RingTypes, LiesBeginAfterPush, LiesEndWithRing, GreenEnds, IsStale

LEMMA SettingsRest == SettingsInv /\ UNCHANGED settingsVars => SettingsInv'
  BY DEF SettingsInv, settingsVars, SettingsTypes, RestoreIsOnItsWay, UpdateIsOnItsWay, NoUpdate

LEMMA HealthRests == HealthInv /\ UNCHANGED healthVars => HealthInv'
  BY DEF HealthInv, healthVars, HealthTypes, OfflineHasError

LEMMA NodeStarts == Init => NodeInv
<1> SUFFICES ASSUME Init PROVE NodeInv
  OBVIOUS
<1>1. HealthInv
  BY HealthBounds DEF Init, HealthInit, HealthInv, HealthTypes, NoMetrics, OfflineHasError
<1> QED
  BY <1>1, SourceStarts, RingStarts, SettingsStart DEF Init, NodeInv

LEMMA NodeGoesOn == NodeInv /\ [Next]_vars => NodeInv'
<1> SUFFICES ASSUME NodeInv, [Next]_vars PROVE NodeInv'
  OBVIOUS
<1>1. part' = part
  BY DEF Next, SourceStep, RingStep, SettingsStep, HealthStep, vars
<1>2. SourcesNext \/ UNCHANGED sourceVars
  BY DEF Next, SourceStep, RingStep, SettingsStep, HealthStep, vars
<1>3. RingNext \/ UNCHANGED ringVars
  BY DEF Next, SourceStep, RingStep, SettingsStep, HealthStep, vars
<1>4. SettingsNext \/ UNCHANGED settingsVars
  BY DEF Next, SourceStep, RingStep, SettingsStep, HealthStep, vars
<1>5. HealthNext \/ UNCHANGED healthVars
  BY DEF Next, SourceStep, RingStep, SettingsStep, HealthStep, vars
<1>6. SourceInv'
  BY <1>2, SourceKeeps, SourceRests DEF NodeInv
<1>7. RingInv'
  BY <1>3, RingKeeps, RingRests DEF NodeInv
<1>8. SettingsInv'
  BY <1>4, SettingsKeep, SettingsRest DEF NodeInv
<1>9. HealthInv'
  BY <1>5, HealthKeeps, HealthRests DEF NodeInv
<1> QED
  BY <1>1, <1>6, <1>7, <1>8, <1>9 DEF NodeInv

LEMMA Inductive == Spec => []NodeInv
  BY NodeStarts, NodeGoesOn, PTL DEF Spec

\* For any backoffs and any wait for the thread: no interleaving of the reader, the worker
\* and two closes takes the capture from a reader that was not given up
\* (rtsp_stream_source.py: close, _run).
THEOREM ReaderIsProtected == Spec => []JoinProtectsReader
<1>1. NodeInv => JoinProtectsReader
  BY DEF NodeInv, SourceInv, CaptureIsKept, JoinProtectsReader
<1> QED
  BY <1>1, Inductive, PTL

\* The half of ReadTellsTheTruth that is a matter of safety: for any threshold, backlog and
\* interval of reports, a session that goes on shows no picture that is further behind
\* (_behind, StreamLagTracker.note_frame).
THEOREM SessionsKeepUp == Spec => []PictureKeepsUp
<1>1. NodeInv => PictureKeepsUp
  BY DEF NodeInv, SourceInv, LagIsBounded, PictureKeepsUp
<1> QED
  BY <1>1, Inductive, PTL

\* The half of RingTellsTheTruth that is a matter of safety: for any timeouts, with pushes
\* lost and late, restarts of both sides and milliseconds that start again, no bay is shown
\* green for longer than a push may take and the ring may wait (SlotLedRing.push, stale).
THEOREM GreenIsNeverForLong == Spec => []GreenEnds
<1>1. NodeInv => GreenEnds
  BY DEF NodeInv, RingInv
<1> QED
  BY <1>1, Inductive, PTL

\* For any settings, values and updates: after any restores, reloads, restarts and updates
\* that did not meet, the node has what the row remembers (camera_control_service.py:
\* update, reapply_remembered).
THEOREM NodeHasItsSettings == Spec => []SettingsHold
<1>1. NodeInv => SettingsHold
  BY DEF NodeInv, SettingsInv, UpdateIsOnItsWay, SettingsHold
<1> QED
  BY <1>1, Inductive, PTL

\* The half of HealthIsOnRecord that is a matter of safety: for any threshold, a camera that
\* is offline has an error in its row, although the error is written once only
\* (_handle_failed_read, touch_camera_health).
THEOREM OfflineIsOnRecord == Spec => []OfflineHasError
<1>1. NodeInv => OfflineHasError
  BY DEF NodeInv, HealthInv
<1> QED
  BY <1>1, Inductive, PTL

=============================================================================
