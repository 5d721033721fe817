--------------------------- MODULE OperationsProofs ---------------------------
(***************************************************************************)
(* For any clock, key, directory, bay and number of cameras: what          *)
(* Operations promises of the alerts of a key, of a bay's sessions, of the *)
(* backups, of the plate that is answered with and of the shutdown.  And   *)
(* what HourlyStatistics, the job that reads the rows these leave,         *)
(* promises of the hours that are aggregated.                              *)
(***************************************************************************)
EXTENDS Operations, HourlyStatistics, FiniteSetTheorems, SequenceTheorems,
        WellFoundedInduction, TLAPS

-----------------------------------------------------------------------------
(* Numbers *)

\* A set of numbers that is not empty has a least one.
LEMMA LeastExists ==
  ASSUME NEW A, A \subseteq Nat, A # {}
  PROVE  \E x \in A : \A y \in A : x <= y
<1> DEFINE R == {ss \in Nat \X Nat : ss[1] < ss[2]}
<1>0. IsWellFoundedOn(R, Nat)
  BY NatLessThanWellFounded DEF OpToRel
<1>1. PICK x \in A : \A y \in A : ~(<<y, x>> \in R)
  <2> HIDE DEF R
  <2> QED BY <1>0, WFMin
<1>2. ASSUME NEW y \in A PROVE x <= y
  <2>1. CASE y < x
    <3>1. <<y, x>> \in Nat \X Nat
      OBVIOUS
    <3>2. <<y, x>>[1] < <<y, x>>[2]
      BY <2>1
    <3>3. <<y, x>> \in R
      BY <3>1, <3>2
    <3> QED BY <1>1, <3>3
  <2> QED BY <2>1
<1> QED BY <1>2

\* A bounded one has a greatest.
LEMMA GreatestExists ==
  ASSUME NEW A, A \subseteq Nat, A # {}, NEW m \in Nat, \A h \in A : h <= m
  PROVE  \E x \in A : \A y \in A : y <= x
<1> DEFINE T == {m - h : h \in A}
<1>1. \A h \in A : m - h \in Nat
  OBVIOUS
<1>2. T \subseteq Nat /\ T # {}
  BY <1>1
<1>3. PICK t \in T : \A u \in T : t <= u
  BY <1>2, LeastExists
<1>4. PICK x \in A : t = m - x
  OBVIOUS
<1>5. ASSUME NEW y \in A PROVE y <= x
  <2>1. m - y \in T
    OBVIOUS
  <2>2. m - x <= m - y
    BY <1>3, <1>4, <2>1
  <2> QED BY <2>2
<1> QED BY <1>5

\* Induction, of a set: what has 0 and with every number the next has them all.
LEMMA NatSteps ==
  ASSUME NEW T, 0 \in T, \A n \in Nat : n \in T => n + 1 \in T
  PROVE  Nat \subseteq T
<1> SUFFICES ASSUME Nat \ T # {} PROVE FALSE
  OBVIOUS
<1>1. PICK x \in Nat \ T : \A y \in Nat \ T : x <= y
  BY LeastExists
<1>2. x # 0 /\ x - 1 \in Nat
  BY <1>1
<1>3. x - 1 \in T
  BY <1>1, <1>2
<1> QED
  BY <1>1, <1>2, <1>3

-----------------------------------------------------------------------------
(* What a selection keeps *)

\* What is picked of the first n.
IsPick(s, n, places, t) ==
  \E g \in [1..Len(t) -> places \cap (1..n)] :
    /\ \A k \in 1..Len(t) : t[k] = s[g[k]]
    /\ \A k, l \in 1..Len(t) : k < l => g[k] < g[l]
    /\ \A i \in places \cap (1..n) : \E k \in 1..Len(t) : g[k] = i

PicksUpTo(f, s, n, places) ==
  f = [m \in 0..n |-> IF m = 0 THEN << >>
                      ELSE IF m \in places THEN Append(f[m - 1], s[m]) ELSE f[m - 1]]

LEMMA PicksExist ==
  ASSUME NEW s, NEW places
  PROVE  \A n \in Nat : \E f : PicksUpTo(f, s, n, places)
<1> DEFINE T == {n \in Nat : \E f : PicksUpTo(f, s, n, places)}
<1>1. 0 \in T
  <2>1. PicksUpTo([m \in 0..0 |-> << >>], s, 0, places)
    BY DEF PicksUpTo
  <2> QED
    BY <2>1
<1>2. ASSUME NEW n \in Nat, n \in T
      PROVE  n + 1 \in T
  <2>1. PICK f : PicksUpTo(f, s, n, places)
    BY <1>2
  <2> DEFINE last == IF n + 1 \in places THEN Append(f[n], s[n + 1]) ELSE f[n]
             h == [m \in 0..(n + 1) |-> IF m = n + 1 THEN last ELSE f[m]]
             step(m) == IF m = 0 THEN << >>
                        ELSE IF m \in places THEN Append(h[m - 1], s[m]) ELSE h[m - 1]
  <2>2. \A m \in 0..(n + 1) : h[m] = step(m)
    <3> SUFFICES ASSUME NEW m \in 0..(n + 1) PROVE h[m] = step(m)
      OBVIOUS
    <3>1. CASE m = n + 1
      BY <3>1
    <3>2. CASE m # n + 1
      <4>1. m \in 0..n /\ h[m] = f[m] /\ (m # 0 => h[m - 1] = f[m - 1])
        BY <3>2
      <4>2. f[m] = IF m = 0 THEN << >>
                   ELSE IF m \in places THEN Append(f[m - 1], s[m]) ELSE f[m - 1]
        BY <2>1, <4>1 DEF PicksUpTo
      <4> HIDE DEF h
      <4> QED
        BY <4>1, <4>2
    <3> QED
      BY <3>1, <3>2
  <2>3. h = [m \in 0..(n + 1) |-> step(m)]
    <3>1. h = [m \in 0..(n + 1) |-> h[m]]
      OBVIOUS
    <3> HIDE DEF h
    <3> QED
      BY <2>2, <3>1
  <2>4. PicksUpTo(h, s, n + 1, places)
    <3> HIDE DEF h
    <3> QED
      BY <2>3 DEF PicksUpTo
  <2> QED
    BY <2>4
<1> HIDE DEF T
<1>3. Nat \subseteq T
  BY <1>1, <1>2, NatSteps
<1> QED
  BY <1>3 DEF T

LEMMA PickGrows ==
  ASSUME NEW S, NEW s \in Seq(S), NEW places, NEW n \in Nat, n + 1 \in 1..Len(s),
         NEW t \in Seq(S), IsPick(s, n, places, t),
         NEW u, u = IF n + 1 \in places THEN Append(t, s[n + 1]) ELSE t
  PROVE  u \in Seq(S) /\ IsPick(s, n + 1, places, u)
<1>1. PICK g \in [1..Len(t) -> places \cap (1..n)] :
        /\ \A k \in 1..Len(t) : t[k] = s[g[k]]
        /\ \A k, l \in 1..Len(t) : k < l => g[k] < g[l]
        /\ \A i \in places \cap (1..n) : \E k \in 1..Len(t) : g[k] = i
  BY DEF IsPick
<1>2. CASE n + 1 \notin places
  <2>1. places \cap (1..n) = places \cap (1..(n + 1)) /\ u = t
    BY <1>2
  <2>2. IsPick(s, n + 1, places, t)
    <3>1. g \in [1..Len(t) -> places \cap (1..(n + 1))]
      BY <1>1, <2>1
    <3> QED
      BY <1>1, <2>1, <3>1 DEF IsPick
  <2> QED
    BY <2>1, <2>2
<1>3. CASE n + 1 \in places
  <2> DEFINE m == Len(t)
             h == [k \in 1..(m + 1) |-> IF k = m + 1 THEN n + 1 ELSE g[k]]
  <2>1. u \in Seq(S) /\ Len(u) = m + 1 /\ m \in Nat /\ u[m + 1] = s[n + 1]
        /\ \A k \in 1..m : u[k] = t[k]
    BY <1>3
  <2>2. h \in [1..Len(u) -> places \cap (1..(n + 1))]
    BY <1>1, <1>3, <2>1
  <2>3. \A k \in 1..Len(u) : u[k] = s[h[k]]
    BY <1>1, <2>1
  <2>4. \A k, l \in 1..Len(u) : k < l => h[k] < h[l]
    <3> SUFFICES ASSUME NEW k \in 1..(m + 1), NEW l \in 1..(m + 1), k < l
                 PROVE  h[k] < h[l]
      BY <2>1
    <3>1. k \in 1..m /\ g[k] \in 1..n /\ h[k] = g[k]
      BY <1>1, <2>1
    <3> QED
      BY <1>1, <2>1, <3>1
  <2>5. ASSUME NEW i \in places \cap (1..(n + 1))
        PROVE  \E k \in 1..Len(u) : h[k] = i
    <3>1. CASE i = n + 1
      BY <2>1, <3>1
    <3>2. CASE i # n + 1
      <4>1. PICK k \in 1..m : g[k] = i
        BY <1>1, <3>2
      <4> QED
        BY <2>1, <4>1
    <3> QED
      BY <3>1, <3>2
  <2> HIDE DEF h
  <2> QED
    BY <2>1, <2>2, <2>3, <2>4, <2>5 DEF IsPick
<1> QED
  BY <1>2, <1>3

LEMMA PickedIsPick ==
  ASSUME NEW S, NEW s \in Seq(S), NEW places
  PROVE  Picked(s, places) \in Seq(S) /\ IsPick(s, Len(s), places, Picked(s, places))
<1> DEFINE f == CHOOSE f : PicksUpTo(f, s, Len(s), places)
<1>1. PicksUpTo(f, s, Len(s), places)
  BY PicksExist
<1>2. Picked(s, places) = f[Len(s)]
  BY DEF Picked, PicksUpTo
<1> DEFINE T == {n \in Nat : n <= Len(s) => f[n] \in Seq(S) /\ IsPick(s, n, places, f[n])}
<1> HIDE DEF f
<1>3. 0 \in T
  <2>1. f[0] = << >>
    BY <1>1 DEF PicksUpTo
  <2>2. IsPick(s, 0, places, << >>)
    <3> DEFINE g == [k \in 1..0 |-> 0]
    <3>1. Len(<< >>) = 0 /\ 1..0 = {}
      OBVIOUS
    <3>2. g \in [1..0 -> places \cap (1..0)]
      BY <3>1
    <3> HIDE DEF g
    <3> QED
      BY <3>1, <3>2 DEF IsPick
  <2>3. f[0] \in Seq(S) /\ IsPick(s, 0, places, f[0])
    BY <2>1, <2>2
  <2> QED
    BY <2>3
<1>4. ASSUME NEW n \in Nat, n \in T
      PROVE  n + 1 \in T
  <2> SUFFICES ASSUME n + 1 <= Len(s)
               PROVE  f[n + 1] \in Seq(S) /\ IsPick(s, n + 1, places, f[n + 1])
    OBVIOUS
  <2>1. f[n] \in Seq(S) /\ IsPick(s, n, places, f[n])
    BY <1>4
  <2>2. f[n + 1] = IF n + 1 \in places THEN Append(f[n], s[n + 1]) ELSE f[n]
    <3>1. n + 1 \in 0..Len(s) /\ n + 1 # 0 /\ (n + 1) - 1 = n
      OBVIOUS
    <3> QED
      BY <1>1, <3>1 DEF PicksUpTo
  <2>3. n + 1 \in 1..Len(s)
    OBVIOUS
  <2> HIDE DEF f
  <2> DEFINE t == f[n]
             u == f[n + 1]
  <2>4. t \in Seq(S) /\ IsPick(s, n, places, t)
    BY <2>1
  <2>5. u = IF n + 1 \in places THEN Append(t, s[n + 1]) ELSE t
    BY <2>2
  <2> HIDE DEF t, u
  <2>6. u \in Seq(S) /\ IsPick(s, n + 1, places, u)
    BY <2>3, <2>4, <2>5, PickGrows
  <2> QED
    BY <2>6 DEF u
<1> HIDE DEF T
<1>5. Nat \subseteq T
  BY <1>3, <1>4, NatSteps
<1> QED
  BY <1>2, <1>5 DEF T

\* To pick everything changes nothing.
LEMMA AllArePicked ==
  ASSUME NEW S, NEW s \in Seq(S)
  PROVE  Picked(s, DOMAIN s) = s
<1> DEFINE t == Picked(s, DOMAIN s)
<1>1. t \in Seq(S) /\ IsPick(s, Len(s), DOMAIN s, t)
  BY PickedIsPick
<1> HIDE DEF t
<1>2. PICK g \in [1..Len(t) -> DOMAIN s \cap (1..Len(s))] :
        /\ \A k \in 1..Len(t) : t[k] = s[g[k]]
        /\ \A k, l \in 1..Len(t) : k < l => g[k] < g[l]
        /\ \A i \in DOMAIN s \cap (1..Len(s)) : \E k \in 1..Len(t) : g[k] = i
  BY <1>1 DEF IsPick
<1>3. DOMAIN s = 1..Len(s) /\ Len(t) \in Nat /\ Len(s) \in Nat
  BY <1>1
\* A strictly increasing sequence is at least the identity ...
<1> DEFINE A == {n \in Nat : n + 1 <= Len(t) => g[n + 1] >= n + 1}
<1>4. Nat \subseteq A
  <2>1. 0 \in A
    BY <1>2, <1>3
  <2>2. ASSUME NEW n \in Nat, n \in A
        PROVE  n + 1 \in A
    <3> SUFFICES ASSUME (n + 1) + 1 <= Len(t) PROVE g[(n + 1) + 1] >= (n + 1) + 1
      OBVIOUS
    <3>1. n + 1 \in 1..Len(t) /\ (n + 1) + 1 \in 1..Len(t)
      BY <1>3
    <3>2. n + 1 < (n + 1) + 1
      OBVIOUS
    <3>3. g[n + 1] < g[(n + 1) + 1]
      BY <1>2, <3>1, <3>2
    <3>4. g[n + 1] \in Nat /\ g[(n + 1) + 1] \in Nat
      <4>1. g[n + 1] \in 1..Len(s) /\ g[(n + 1) + 1] \in 1..Len(s)
        BY <1>3, <3>1
      <4> QED
        BY <1>3, <4>1
    <3>5. g[n + 1] >= n + 1
      BY <2>2, <3>1
    <3> QED
      BY <3>3, <3>4, <3>5
  <2> HIDE DEF A
  <2> QED
    BY <2>1, <2>2, NatSteps
<1>5. \A k \in 1..Len(t) : g[k] >= k
  <2> SUFFICES ASSUME NEW k \in 1..Len(t) PROVE g[k] >= k
    OBVIOUS
  <2>1. k - 1 \in A
    BY <1>3, <1>4
  <2> QED
    BY <1>3, <2>1
\* ... and one onto its bound no more than that.
<1>6. ASSUME NEW n \in Nat, n + 1 <= Len(s), \A m \in 1..n : m <= Len(t) /\ g[m] = m
      PROVE  n + 1 <= Len(t) /\ g[n + 1] = n + 1
  <2>0. n + 1 \in DOMAIN s \cap (1..Len(s))
    BY <1>3, <1>6
  <2>1. PICK k \in 1..Len(t) : g[k] = n + 1
    BY <1>2, <2>0
  <2>2. k <= n + 1 /\ k \notin 1..n
    BY <1>3, <1>5, <1>6, <2>1
  <2> QED
    BY <1>3, <2>1, <2>2
<1> DEFINE C == {n \in Nat : n <= Len(s) => \A m \in 1..n : m <= Len(t) /\ g[m] = m}
<1>7. Nat \subseteq C
  <2>1. 0 \in C
    OBVIOUS
  <2>2. ASSUME NEW n \in Nat, n \in C
        PROVE  n + 1 \in C
    BY <1>3, <1>6, <2>2
  <2> HIDE DEF C
  <2> QED
    BY <2>1, <2>2, NatSteps
<1>8. \A m \in 1..Len(s) : m <= Len(t) /\ g[m] = m
  BY <1>3, <1>7
<1>9. Len(t) = Len(s)
  <2>1. Len(s) <= Len(t)
    BY <1>3, <1>8
  <2>2. CASE Len(t) > Len(s)
    <3>1. Len(t) \in 1..Len(t) /\ g[Len(t)] \in 1..Len(s) /\ g[Len(t)] >= Len(t)
      BY <1>2, <1>3, <1>5, <2>2
    <3> QED
      BY <1>3, <2>2, <3>1
  <2> QED
    BY <1>3, <2>1, <2>2
<1>10. \A m \in 1..Len(s) : t[m] = s[m]
  BY <1>2, <1>8, <1>9
<1>11. t = s
  BY <1>1, <1>9, <1>10
<1> QED
  BY <1>11 DEF t

\* To pick nothing leaves nothing.
LEMMA NoneArePicked ==
  ASSUME NEW S, NEW s \in Seq(S)
  PROVE  Picked(s, {}) = << >>
<1> DEFINE t == Picked(s, {})
<1>1. t \in Seq(S) /\ IsPick(s, Len(s), {}, t)
  BY PickedIsPick
<1> HIDE DEF t
<1>2. PICK g : g \in [1..Len(t) -> {} \cap (1..Len(s))]
  BY <1>1 DEF IsPick
<1>3. Len(t) = 0
  <2>1. Len(t) \in Nat
    BY <1>1
  <2>2. CASE Len(t) # 0
    <3>1. 1 \in 1..Len(t)
      BY <2>1, <2>2
    <3> QED
      BY <1>2, <3>1
  <2> QED
    BY <2>2
<1> QED
  BY <1>1, <1>3 DEF t

-----------------------------------------------------------------------------
(* The clock and the alerts of a key *)

\* The clock is doubted only after a power cut.
ClockInv == suspect \in BOOLEAN /\ cuts \in Nat /\ (cuts = 0 => ~suspect)

AlertRows == [age : 0..Oldest, suspect : BOOLEAN, open : BOOLEAN]

\* Doubtful dates come first, and only the latest row may be open.
AlertInv ==
  /\ alerts \in Seq(AlertRows)
  /\ \A i, j \in DOMAIN alerts : i < j => alerts[i].suspect \/ ~alerts[j].suspect
  /\ \A i \in DOMAIN alerts : alerts[i].open => i = Len(alerts)

LEMMA ClockKeeps ==
  ASSUME ClockInv, [Next]_vars
  PROVE  ClockInv'
<1>1. CASE LosesClock
  BY <1>1 DEF LosesClock, ClockInv
<1>2. CASE IsSetRight
  BY <1>2 DEF IsSetRight, ClockInv
<1>3. CASE UNCHANGED clockVars
  BY <1>3 DEF clockVars, ClockInv
<1> QED
  BY <1>1, <1>2, <1>3
  DEF Next, vars, BayChanges, LoopRestarts, DiskChanges, JobRaises, GuardAcknowledges,
      PurgesHistory, PurgesAlerts, PowerCut, ClockSetRight, Tick, FallsQuiet,
      WritesBackup, ReadsPlates, RunsProcess


\* A row of today goes to the end, unless an earlier one has a date to trust and it has not.
LEMMA InsertedAtEnd ==
  ASSUME NEW S, NEW rows \in Seq(S), NEW row \in S,
         \A i \in DOMAIN rows : rows[i].suspect \/ ~row.suspect
  PROVE  Inserted(rows, row) = Append(rows, row)
<1> DEFINE earlier == {i \in DOMAIN rows : rows[i].suspect \/ ~row.suspect}
<1>1. earlier = DOMAIN rows /\ DOMAIN rows \ earlier = {}
  OBVIOUS
<1>2. Inserted(rows, row) = (rows \o <<row>>) \o << >>
  BY <1>1, AllArePicked, NoneArePicked DEF Inserted
<1> QED
  BY <1>2

\* A row is raised behind the rows that are there: with a doubted clock a latest row with
\* a date to trust is of the future, and still cools down.
LEMMA RaisedAtEnd ==
  ASSUME ClockInv, AlertInv, CreateDeduplicated
  PROVE  /\ alerts' = Append(alerts, [age |-> 0, suspect |-> suspect, open |-> TRUE])
         /\ \A i \in DOMAIN alerts : ~alerts[i].open /\ (alerts[i].suspect \/ ~suspect)
<1> DEFINE row == [age |-> 0, suspect |-> suspect, open |-> TRUE]
<1> USE OldestIsPositive, AlertBounds
<1>1. row \in AlertRows
  BY DEF AlertRows, ClockInv
<1>2. alerts' = Inserted(alerts, row)
  BY DEF CreateDeduplicated
<1>3. CASE alerts = << >>
  <2>1. DOMAIN alerts = {} /\ alerts \in Seq(AlertRows)
    BY <1>3 DEF AlertInv
  <2> HIDE DEF row
  <2>2. alerts' = Append(alerts, row)
    BY <1>1, <1>2, <2>1, InsertedAtEnd
  <2> QED
    BY <2>1, <2>2 DEF row
<1>4. CASE alerts # << >>
  <2> DEFINE last == alerts[Len(alerts)]
  <2>1. ~last.open /\ Age(last) >= Cooldown
    BY <1>4 DEF CreateDeduplicated, MayRaise, Last, StillOpen, CooldownElapsed
  <2>2. /\ Len(alerts) \in DOMAIN alerts /\ last \in AlertRows
        /\ \A i \in DOMAIN alerts : i <= Len(alerts) /\ i \in Nat
    BY <1>4 DEF AlertInv
  <2>3. last.suspect \/ ~suspect
    <3> SUFFICES ASSUME ~last.suspect, suspect PROVE FALSE
      OBVIOUS
    <3>1. Age(last) = -1
      BY <2>2 DEF Age, AlertRows, ClockInv
    <3> QED
      BY <2>1, <3>1
  <2>4. \A i \in DOMAIN alerts : ~alerts[i].open
    BY <2>1, <2>2 DEF AlertInv
  <2>5. \A i \in DOMAIN alerts : alerts[i].suspect \/ ~suspect
    <3> SUFFICES ASSUME NEW i \in DOMAIN alerts PROVE alerts[i].suspect \/ ~suspect
      OBVIOUS
    <3>1. CASE i = Len(alerts)
      BY <2>3, <3>1
    <3>2. CASE i < Len(alerts)
      BY <2>2, <2>3, <3>2 DEF AlertInv
    <3> QED
      BY <2>2, <3>1, <3>2
  <2> HIDE DEF row
  <2>6. \A i \in DOMAIN alerts : alerts[i].suspect \/ ~row.suspect
    BY <2>5 DEF row
  <2>7. alerts \in Seq(AlertRows)
    BY DEF AlertInv
  <2>8. alerts' = Append(alerts, row)
    BY <1>1, <1>2, <2>6, <2>7, InsertedAtEnd
  <2> QED
    BY <2>4, <2>5, <2>8 DEF row
<1> QED
  BY <1>3, <1>4

LEMMA RaisingKeeps ==
  ASSUME ClockInv, AlertInv, CreateDeduplicated
  PROVE  AlertInv'
<1>1. /\ alerts' = Append(alerts, [age |-> 0, suspect |-> suspect, open |-> TRUE])
      /\ \A i \in DOMAIN alerts : ~alerts[i].open /\ (alerts[i].suspect \/ ~suspect)
  BY RaisedAtEnd
<1>2. [age |-> 0, suspect |-> suspect, open |-> TRUE] \in AlertRows
  BY OldestIsPositive DEF AlertRows, ClockInv
<1> QED
  BY <1>1, <1>2 DEF AlertInv

LEMMA PurgeKeeps ==
  ASSUME AlertInv, NEW window, alerts' = AlertsKept(window)
  PROVE  AlertInv'
<1> DEFINE places == {i \in DOMAIN alerts : ~IsPurgeable(alerts[i], window)}
<1>1. alerts \in Seq(AlertRows)
  BY DEF AlertInv
<1>2. alerts' = Picked(alerts, places)
  BY DEF AlertsKept
<1> HIDE DEF places
<1>3. alerts' \in Seq(AlertRows) /\ IsPick(alerts, Len(alerts), places, alerts')
  BY <1>1, <1>2, PickedIsPick
<1>4. PICK g \in [1..Len(alerts') -> places \cap (1..Len(alerts))] :
        /\ \A k \in 1..Len(alerts') : alerts'[k] = alerts[g[k]]
        /\ \A k, l \in 1..Len(alerts') : k < l => g[k] < g[l]
  BY <1>3 DEF IsPick
<1>5. /\ DOMAIN alerts' = 1..Len(alerts') /\ Len(alerts') \in Nat
      /\ DOMAIN alerts = 1..Len(alerts) /\ Len(alerts) \in Nat
  BY <1>1, <1>3
<1>6. \A k \in DOMAIN alerts' : g[k] \in DOMAIN alerts
  BY <1>4, <1>5
<1>7. \A i, j \in DOMAIN alerts' : i < j => alerts'[i].suspect \/ ~alerts'[j].suspect
  BY <1>4, <1>5, <1>6 DEF AlertInv
<1>8. ASSUME NEW i \in DOMAIN alerts', alerts'[i].open
      PROVE  i = Len(alerts')
  <2>1. g[i] = Len(alerts)
    BY <1>4, <1>5, <1>6, <1>8 DEF AlertInv
  <2>2. CASE i < Len(alerts')
    <3>1. Len(alerts') \in 1..Len(alerts') /\ g[i] < g[Len(alerts')]
      BY <1>4, <1>5, <2>2
    <3>2. g[Len(alerts')] \in 1..Len(alerts)
      BY <1>4, <1>5, <3>1
    <3> QED
      BY <1>5, <2>1, <3>1, <3>2
  <2> QED
    BY <1>5, <2>2
<1> QED
  BY <1>3, <1>7, <1>8 DEF AlertInv

LEMMA AlertsKeep ==
  ASSUME ClockInv, AlertInv, [Next]_vars
  PROVE  AlertInv'
<1>1. CASE CreateDeduplicated
  BY <1>1, RaisingKeeps
<1>2. ASSUME NEW i \in DOMAIN alerts, Acknowledges(i)
      PROVE  AlertInv'
  <2>1. alerts' = [alerts EXCEPT ![i].open = FALSE]
    BY <1>2 DEF Acknowledges
  <2>2. alerts \in Seq(AlertRows) /\ alerts[i] \in AlertRows
    BY DEF AlertInv
  <2>3. [alerts[i] EXCEPT !.open = FALSE] \in AlertRows
    BY <2>2 DEF AlertRows
  <2>4. alerts' \in Seq(AlertRows) /\ Len(alerts') = Len(alerts) /\ DOMAIN alerts' = DOMAIN alerts
    BY <2>1, <2>2, <2>3
  <2>5. \A j \in DOMAIN alerts : alerts'[j].suspect = alerts[j].suspect
                              /\ (alerts'[j].open => alerts[j].open)
    BY <2>1, <2>2 DEF AlertRows
  <2> QED
    BY <2>4, <2>5 DEF AlertInv
<1>3. CASE PurgesAlerts
  BY <1>3, PurgeKeeps DEF PurgesAlerts
<1>4. CASE Tick
  <2>1. alerts' = [i \in DOMAIN alerts |-> Older(alerts[i])]
    BY <1>4 DEF Tick, AlertsOlder
  <2>2. \A row \in AlertRows :
          /\ Older(row) \in AlertRows
          /\ Older(row).suspect = row.suspect /\ Older(row).open = row.open
    BY OldestIsPositive DEF Older, AlertRows
  <2>3. alerts' \in Seq(AlertRows) /\ Len(alerts') = Len(alerts) /\ DOMAIN alerts' = DOMAIN alerts
    BY <2>1, <2>2 DEF AlertInv
  <2>4. \A i \in DOMAIN alerts : alerts'[i].suspect = alerts[i].suspect
                              /\ alerts'[i].open = alerts[i].open
    BY <2>1, <2>2 DEF AlertInv
  <2> QED
    BY <2>3, <2>4 DEF AlertInv
<1>5. CASE UNCHANGED alerts
  BY <1>5 DEF AlertInv
<1>6. \/ CreateDeduplicated \/ (\E i \in DOMAIN alerts : Acknowledges(i))
      \/ PurgesAlerts \/ Tick \/ UNCHANGED alerts
  BY DEF Next, vars, alertVars, BayChanges, LoopRestarts, DiskChanges, DiskFills, JobRaises,
         OverstayJob, DiskJob, GuardAcknowledges, PurgesHistory, PowerCut, ClockSetRight,
         FallsQuiet, WritesBackup, ReadsPlates, RunsProcess
<1> QED
  BY <1>1, <1>2, <1>3, <1>4, <1>5, <1>6

-----------------------------------------------------------------------------
(* The backups *)

Whats == {"partial", "good", "broken", "empty"}

Hands == Writers \cup {Nobody}

FileRows == [what : Whats, by : Hands, suspect : BOOLEAN]

BackupTypes ==
  /\ files \in Seq(FileRows)
  /\ writer \in [Writers -> [at : {"idle", "copying", "verifying", "rotating"},
                             suspect : BOOLEAN]]
  /\ alone \in BOOLEAN /\ hadGood \in BOOLEAN

\* A writer at work has the latest file, which is whole once it has been copied.
WriterHasLatest ==
  /\ \A v, w \in Writers : writer[v].at # "idle" /\ writer[w].at # "idle" => v = w
  /\ \A i \in DOMAIN files : files[i].by # Nobody =>
       i = Len(files) /\ writer[files[i].by].at # "idle"
  /\ \A w \in Writers : writer[w].at # "idle" =>
       /\ files # << >> /\ files[Len(files)].by = w
       /\ writer[w].at \in {"verifying", "rotating"} => files[Len(files)].what = "good"

\* A whole backup remains beside the one that may yet turn out torn.
GoodIsSafe ==
  hadGood => \E i \in DOMAIN files :
    /\ files[i].what = "good"
    /\ files[i].by = Nobody \/ writer[files[i].by].at = "rotating"

BackupInv == BackupTypes /\ (alone /\ cuts = 0 => WriterHasLatest /\ GoodIsSafe)

\* What With makes of a file.
LEMMA WithIsTyped ==
  ASSUME NEW dir \in Seq(FileRows), NEW w \in Writers,
         NEW what \in Whats, NEW by \in Hands
  PROVE  /\ With(dir, w, what, by) \in Seq(FileRows)
         /\ Len(With(dir, w, what, by)) = Len(dir)
         /\ DOMAIN With(dir, w, what, by) = DOMAIN dir
         /\ \A i \in DOMAIN dir :
              /\ dir[i].by = w => /\ With(dir, w, what, by)[i].what = what
                                  /\ With(dir, w, what, by)[i].by = by
              /\ dir[i].by # w => With(dir, w, what, by)[i] = dir[i]
<1> DEFINE turned(row) == [row EXCEPT !.what = what, !.by = by]
           t == [i \in DOMAIN dir |-> IF dir[i].by = w THEN turned(dir[i]) ELSE dir[i]]
<1>1. \A i \in DOMAIN dir : dir[i] \in FileRows
  OBVIOUS
<1>2. \A row \in FileRows : /\ turned(row) \in FileRows
                            /\ turned(row).what = what /\ turned(row).by = by
  BY DEF FileRows
<1>3. With(dir, w, what, by) = t
  BY DEF With
<1> HIDE DEF turned
<1>4. \A i \in DOMAIN dir : t[i] = IF dir[i].by = w THEN turned(dir[i]) ELSE dir[i]
  OBVIOUS
<1>5. t \in Seq(FileRows) /\ Len(t) = Len(dir) /\ DOMAIN t = DOMAIN dir
  BY <1>1, <1>2
<1> HIDE DEF t
<1> QED
  BY <1>1, <1>2, <1>3, <1>4, <1>5

LEMMA GoesIsTyped ==
  ASSUME BackupTypes, NEW w \in Writers, NEW at \in {"idle", "verifying", "rotating"},
         Goes(w, at)
  PROVE  /\ writer' \in [Writers -> [at : {"idle", "copying", "verifying", "rotating"},
                                     suspect : BOOLEAN]]
         /\ writer'[w].at = at /\ \A v \in Writers : v # w => writer'[v] = writer[v]
<1>1. [writer[w] EXCEPT !.at = at] \in [at : {"idle", "copying", "verifying", "rotating"},
                                       suspect : BOOLEAN]
  BY DEF BackupTypes
<1>2. writer' = [writer EXCEPT ![w] = [writer[w] EXCEPT !.at = at]]
  BY DEF Goes
<1> QED
  BY <1>1, <1>2 DEF BackupTypes

\* A file is put somewhere among the others.
LEMMA PicksAreTyped ==
  ASSUME NEW S, NEW s \in Seq(S), NEW row \in S, NEW p, NEW q
  PROVE  Picked(s, p) \o <<row>> \o Picked(s, q) \in Seq(S)
<1>1. Picked(s, p) \in Seq(S) /\ Picked(s, q) \in Seq(S)
  BY PickedIsPick
<1> QED
  BY <1>1

LEMMA BackupStepIsTyped ==
  ASSUME ClockInv, BackupTypes, BackupNext
  PROVE  BackupTypes'
<1> PICK w \in Writers :
      StartsCopy(w) \/ CopyEnds(w) \/ CopyFails(w) \/ Verifies(w) \/ FindsItTorn(w) \/ Rotates(w)
  BY DEF BackupNext
<1> USE DEF BackupTypes
<1>1. CASE StartsCopy(w)
  <2> DEFINE row == [what |-> "partial", by |-> w, suspect |-> suspect]
  <2>1. row \in FileRows
    BY DEF FileRows, Whats, Hands, ClockInv
  <2> HIDE DEF row
  <2>2. Inserted(files, row) \in Seq(FileRows)
    BY <2>1, PicksAreTyped DEF Inserted
  <2>3. files' = Inserted(files, row)
    BY <1>1 DEF StartsCopy, row
  <2> QED
    BY <1>1, <2>2, <2>3 DEF StartsCopy, ClockInv
<1>2. CASE CopyEnds(w)
  <2>1. files' = With(files, w, "good", w) /\ Goes(w, "verifying") /\ UNCHANGED <<alone, hadGood>>
    BY <1>2 DEF CopyEnds
  <2>2. files' \in Seq(FileRows)
    BY <2>1, WithIsTyped DEF Whats, Hands
  <2> QED
    BY <2>1, <2>2, GoesIsTyped
<1>3. CASE CopyFails(w)
  <2>1. files' = With(files, w, "broken", Nobody) /\ Goes(w, "idle") /\ UNCHANGED <<alone, hadGood>>
    BY <1>3 DEF CopyFails
  <2>2. files' \in Seq(FileRows)
    BY <2>1, WithIsTyped DEF Whats, Hands
  <2> QED
    BY <2>1, <2>2, GoesIsTyped
<1>4. CASE Verifies(w)
  <2> DEFINE row == [what |-> "empty", by |-> w, suspect |-> writer[w].suspect]
  <2>1. row \in FileRows
    BY DEF FileRows, Whats, Hands
  <2> HIDE DEF row
  <2>2. MadeAgain(w) \in Seq(FileRows)
    BY <2>1, PicksAreTyped DEF MadeAgain, row
  <2>3. /\ Goes(w, "rotating") /\ files' \in Seq(FileRows)
        /\ alone' \in BOOLEAN /\ hadGood' \in BOOLEAN
    BY <1>4, <2>2 DEF Verifies
  <2> QED
    BY <2>3, GoesIsTyped
<1>5. CASE FindsItTorn(w)
  <2>1. files' = With(files, w, "broken", Nobody) /\ Goes(w, "idle") /\ UNCHANGED <<alone, hadGood>>
    BY <1>5 DEF FindsItTorn
  <2>2. files' \in Seq(FileRows)
    BY <2>1, WithIsTyped DEF Whats, Hands
  <2> QED
    BY <2>1, <2>2, GoesIsTyped
<1>6. CASE Rotates(w)
  <2> DEFINE kept == IF Len(files) > Keep THEN Newest(files) ELSE files
  <2>1. kept \in Seq(FileRows)
    BY BackupBounds DEF Newest
  <2> HIDE DEF kept
  <2>2. files' = With(kept, w, IF IsEmptied(w) THEN "empty" ELSE "good", Nobody)
    BY <1>6 DEF Rotates, kept
  <2>3. files' \in Seq(FileRows)
    <3> DEFINE what == IF IsEmptied(w) THEN "empty" ELSE "good"
    <3>1. what \in Whats /\ Nobody \in Hands
      BY DEF Whats, Hands
    <3> HIDE DEF what
    <3>2. With(kept, w, what, Nobody) \in Seq(FileRows)
      BY <2>1, <3>1, WithIsTyped
    <3> QED
      BY <2>2, <3>2 DEF what
  <2>4. Goes(w, "idle") /\ UNCHANGED <<alone, hadGood>>
    BY <1>6 DEF Rotates
  <2> QED
    BY <2>3, <2>4, GoesIsTyped
<1> QED
  BY <1>1, <1>2, <1>3, <1>4, <1>5, <1>6

LEMMA BackupStepKeeps ==
  ASSUME ClockInv, BackupTypes, BackupTypes', BackupNext, UNCHANGED cuts,
         alone', cuts = 0, alone => WriterHasLatest /\ GoodIsSafe
  PROVE  WriterHasLatest' /\ GoodIsSafe'
<1> PICK w \in Writers :
      StartsCopy(w) \/ CopyEnds(w) \/ CopyFails(w) \/ Verifies(w) \/ FindsItTorn(w) \/ Rotates(w)
  BY DEF BackupNext
<1>1. alone /\ WriterHasLatest /\ GoodIsSafe
  BY DEF StartsCopy, CopyEnds, CopyFails, Verifies, FindsItTorn, Rotates
<1>2. w # Nobody /\ files \in Seq(FileRows) /\ Len(files) \in Nat /\ DOMAIN files = 1..Len(files)
      /\ writer[w].at \in {"idle", "copying", "verifying", "rotating"}
      /\ \A i \in DOMAIN files : files[i] \in FileRows /\ files[i].by \in Hands
  <2>1. w # Nobody /\ files \in Seq(FileRows)
        /\ writer[w].at \in {"idle", "copying", "verifying", "rotating"}
    BY BackupBounds DEF BackupTypes
  <2>2. \A i \in DOMAIN files : files[i] \in FileRows
    BY <2>1
  <2>3. \A row \in FileRows : row.by \in Hands
    BY DEF FileRows, Whats, Hands
  <2> QED
    BY <2>1, <2>2, <2>3
<1>3. ASSUME writer[w].at # "idle"
      PROVE  /\ Len(files) \in DOMAIN files /\ files[Len(files)].by = w
             /\ \A i \in DOMAIN files : i # Len(files) => files[i].by = Nobody
             /\ \A v \in Writers : v # w => writer[v].at = "idle"
  BY <1>1, <1>2, <1>3 DEF WriterHasLatest
\* A step that turns the latest file, which is w's, and leaves the others.
<1>4. ASSUME NEW what \in Whats, NEW by \in {w, Nobody},
             NEW at \in {"idle", "verifying", "rotating"}, writer[w].at # "idle",
             files' = With(files, w, what, by), Goes(w, at), by = Nobody <=> at = "idle",
             by = w => what = "good",
             hadGood' => \/ what = "good" /\ at # "verifying"
                         \/ \E i \in DOMAIN files : files[i].what = "good" /\ files[i].by = Nobody
      PROVE  WriterHasLatest' /\ GoodIsSafe'
  <2> DEFINE n == Len(files)
  <2>1. /\ Len(files') = n /\ DOMAIN files' = DOMAIN files
        /\ files'[n].what = what /\ files'[n].by = by
        /\ \A i \in DOMAIN files : i # n => files'[i] = files[i] /\ files[i].by = Nobody
    <3>1. by \in Hands /\ n \in DOMAIN files /\ files[n].by = w
      BY <1>3, <1>4 DEF Hands
    <3>2. /\ Len(files') = n /\ DOMAIN files' = DOMAIN files
          /\ \A i \in DOMAIN files :
               /\ files[i].by = w => files'[i].what = what /\ files'[i].by = by
               /\ files[i].by # w => files'[i] = files[i]
      <4>1. files' = With(files, w, what, by) /\ files \in Seq(FileRows)
        BY <1>2, <1>4
      <4>2. /\ Len(With(files, w, what, by)) = Len(files)
            /\ DOMAIN With(files, w, what, by) = DOMAIN files
            /\ \A i \in DOMAIN files :
                 /\ files[i].by = w => /\ With(files, w, what, by)[i].what = what
                                       /\ With(files, w, what, by)[i].by = by
                 /\ files[i].by # w => With(files, w, what, by)[i] = files[i]
        BY <3>1, <4>1, WithIsTyped
      <4> QED
        BY <4>1, <4>2
    <3>3. \A i \in DOMAIN files : i # n => files[i].by = Nobody
      BY <1>3, <1>4
    <3> QED
      BY <1>2, <3>1, <3>2, <3>3
  <2>2. writer'[w].at = at /\ \A v \in Writers : v # w => writer'[v].at = "idle"
    BY <1>3, <1>4, GoesIsTyped
  <2>3. n \in DOMAIN files /\ files # << >> /\ files' # << >>
    BY <1>2, <1>3, <1>4, <2>1
  <2>4. WriterHasLatest'
    BY <1>2, <1>4, <2>1, <2>2, <2>3 DEF WriterHasLatest
  <2>5. ASSUME hadGood'
        PROVE  \E i \in DOMAIN files' :
                 /\ files'[i].what = "good"
                 /\ files'[i].by = Nobody \/ writer'[files'[i].by].at = "rotating"
    <3>1. CASE what = "good" /\ at # "verifying"
      BY <1>4, <2>1, <2>2, <2>3, <3>1
    <3>2. CASE \E i \in DOMAIN files : files[i].what = "good" /\ files[i].by = Nobody
      BY <1>2, <1>3, <1>4, <2>1, <3>2
    <3> QED
      BY <1>4, <2>5, <3>1, <3>2
  <2> QED
    BY <2>4, <2>5 DEF GoodIsSafe
\* Before the latest file is known to be whole another one is.
<1>5. ASSUME hadGood, writer[w].at \in {"copying", "verifying"}
      PROVE  \E i \in DOMAIN files : files[i].what = "good" /\ files[i].by = Nobody
  <2>1. PICK i \in DOMAIN files :
          files[i].what = "good" /\ (files[i].by = Nobody \/ writer[files[i].by].at = "rotating")
    BY <1>1, <1>5 DEF GoodIsSafe
  <2>2. i = Len(files) => files[i].by = w
    BY <1>3, <1>5
  <2> QED
    BY <1>2, <1>3, <1>5, <2>1, <2>2
<1>6. CASE StartsCopy(w)
  <2> DEFINE row == [what |-> "partial", by |-> w, suspect |-> suspect]
             n == Len(files)
  <2>1. row \in FileRows /\ ~row.suspect
    BY DEF FileRows, Whats, Hands, ClockInv
  <2>2. files' = Inserted(files, row)
    BY <1>6 DEF StartsCopy
  <2> HIDE DEF row
  <2>3. files' = Append(files, row)
    BY <1>2, <2>1, <2>2, InsertedAtEnd
  <2>4. \A v \in Writers : writer[v].at = "idle"
    BY <1>6 DEF StartsCopy
  <2>5. writer'[w].at = "copying" /\ \A v \in Writers : v # w => writer'[v].at = "idle"
    BY <1>6, <2>4 DEF StartsCopy, BackupTypes
  <2>6. \A i \in DOMAIN files : files[i].by = Nobody
    BY <1>1, <1>2, <2>4 DEF WriterHasLatest, Hands
  <2>7. /\ Len(files') = n + 1 /\ DOMAIN files' = 1..(n + 1)
        /\ \A i \in 1..n : files'[i] = files[i]
        /\ files'[n + 1].by = w
    BY <1>2, <2>1, <2>3 DEF row
  <2>8. WriterHasLatest'
    BY <1>2, <2>5, <2>6, <2>7 DEF WriterHasLatest
  <2>9. GoodIsSafe'
    BY <1>1, <1>2, <1>6, <2>6, <2>7 DEF GoodIsSafe, StartsCopy
  <2> QED
    BY <2>8, <2>9
<1>7. CASE CopyEnds(w)
  <2>1. /\ writer[w].at = "copying" /\ hadGood' = hadGood
        /\ files' = With(files, w, "good", w) /\ Goes(w, "verifying")
    BY <1>7 DEF CopyEnds
  <2> QED
    BY <1>2, <1>4, <1>5, <2>1 DEF Whats
<1>8. CASE CopyFails(w)
  <2>1. /\ writer[w].at = "copying" /\ hadGood' = hadGood
        /\ files' = With(files, w, "broken", Nobody) /\ Goes(w, "idle")
    BY <1>8 DEF CopyFails
  <2> QED
    BY <1>2, <1>4, <1>5, <2>1 DEF Whats
<1>9. CASE FindsItTorn(w)
  <2>1. /\ writer[w].at = "verifying" /\ hadGood' = hadGood
        /\ files' = With(files, w, "broken", Nobody) /\ Goes(w, "idle")
    BY <1>9 DEF FindsItTorn
  <2> QED
    BY <1>2, <1>4, <1>5, <2>1 DEF Whats
<1>10. CASE Verifies(w)
  <2>1. writer[w].at = "verifying" /\ IsThere(w) /\ files' = files /\ Goes(w, "rotating")
    BY <1>3, <1>10 DEF Verifies, IsThere
  <2>2. writer'[w].at = "rotating" /\ \A v \in Writers : v # w => writer'[v] = writer[v]
    BY <2>1 DEF Goes, BackupTypes
  <2>3. files[Len(files)].what = "good"
    BY <1>1, <2>1 DEF WriterHasLatest
  <2>4. WriterHasLatest'
    BY <1>1, <1>2, <1>3, <2>1, <2>2, <2>3 DEF WriterHasLatest
  <2>5. GoodIsSafe'
    BY <1>3, <2>1, <2>2, <2>3 DEF GoodIsSafe
  <2> QED
    BY <2>4, <2>5
<1>11. CASE Rotates(w)
  <2> DEFINE kept == IF Len(files) > Keep THEN Newest(files) ELSE files
             k == Len(kept)
  <2>1. writer[w].at = "rotating" /\ Goes(w, "idle")
    BY <1>11 DEF Rotates
  <2>2. files[Len(files)].what = "good" /\ files[Len(files)].by = w
    BY <1>1, <2>1 DEF WriterHasLatest
  <2>3. ~IsEmptied(w)
    BY <1>2, <1>3, <2>1, <2>2 DEF IsEmptied
  <2>4. files' = With(kept, w, "good", Nobody)
    BY <1>11, <2>3 DEF Rotates
  <2>5. /\ kept \in Seq(FileRows) /\ k \in DOMAIN kept /\ kept[k] = files[Len(files)]
        /\ DOMAIN kept = 1..k
        /\ \A i \in DOMAIN kept : i # k => kept[i].by = Nobody
    <3>1. CASE Len(files) > Keep
      <4>1. kept = SubSeq(files, Len(files) - Keep + 1, Len(files))
        BY <3>1 DEF Newest
      <4>2. Len(files) - Keep + 1 \in 1..Len(files) /\ Keep \in Nat \ {0}
        BY <1>2, <3>1, BackupBounds
      <4>3. /\ kept \in Seq(FileRows) /\ k = Keep
            /\ \A i \in 1..Keep : kept[i] = files[Len(files) - Keep + i]
        <5>1. Len(files) - Keep + 1 \in 1..(Len(files) + 1) /\ Len(files) \in 0..Len(files)
          BY <1>2, <4>2
        <5>2. Len(files) - (Len(files) - Keep + 1) + 1 = Keep
              /\ \A i \in 1..Keep : (Len(files) - Keep + 1) + i - 1 = Len(files) - Keep + i
          BY <1>2, <4>2
        <5> QED
          <6> DEFINE from == Len(files) - Keep + 1
                     to == Len(files)
          <6>1. /\ from \in Int /\ to \in Int /\ from <= to
                /\ \A i \in from..to : files[i] \in FileRows
            BY <1>2, <4>2
          <6>2. /\ SubSeq(files, from, to) \in Seq(FileRows)
                /\ Len(SubSeq(files, from, to)) = to - from + 1
                /\ \A i \in 1..(to - from + 1) : SubSeq(files, from, to)[i] = files[from + i - 1]
            <7> HIDE DEF from, to
            <7> QED
              BY <6>1, SubSeqProperties
          <6> QED
            BY <4>1, <5>2, <6>2
      <4>4. \A i \in 1..Keep : Len(files) - Keep + i \in DOMAIN files
                            /\ (Len(files) - Keep + i = Len(files) => i = Keep)
        BY <1>2, <3>1, <4>2
      <4> HIDE DEF kept
      <4>5. DOMAIN kept = 1..k /\ k \in DOMAIN kept
        BY <4>2, <4>3
      <4> QED
        BY <1>2, <1>3, <2>1, <4>2, <4>3, <4>4, <4>5
    <3>2. CASE ~(Len(files) > Keep)
      BY <1>2, <1>3, <2>1, <3>2
    <3> QED
      BY <3>1, <3>2
  <2> HIDE DEF kept
  <2>6. /\ Len(files') = k /\ DOMAIN files' = DOMAIN kept
        /\ files'[k].what = "good" /\ files'[k].by = Nobody
        /\ \A i \in DOMAIN kept : i # k => files'[i] = kept[i]
    <3>1. /\ Len(files') = k /\ DOMAIN files' = DOMAIN kept
          /\ \A i \in DOMAIN kept :
               /\ kept[i].by = w => files'[i].what = "good" /\ files'[i].by = Nobody
               /\ kept[i].by # w => files'[i] = kept[i]
      <4>1. "good" \in Whats /\ Nobody \in Hands
        BY DEF Whats, Hands
      <4> QED
        BY <2>4, <2>5, <4>1, WithIsTyped
    <3> QED
      BY <1>2, <2>2, <2>5, <3>1
  <2>7. \A i \in DOMAIN files' : files'[i].by = Nobody
    BY <2>5, <2>6
  <2>8. \A v \in Writers : writer'[v].at = "idle"
    BY <1>3, <2>1 DEF Goes, BackupTypes
  <2>9. WriterHasLatest'
    BY <2>7, <2>8 DEF WriterHasLatest
  <2>10. GoodIsSafe'
    BY <2>5, <2>6 DEF GoodIsSafe
  <2> QED
    BY <2>9, <2>10
<1> QED
  BY <1>6, <1>7, <1>8, <1>9, <1>10, <1>11

LEMMA BackupsKeep ==
  ASSUME ClockInv, ClockInv', BackupInv, [Next]_vars
  PROVE  BackupInv'
<1>1. CASE WritesBackup
  <2>1. BackupNext /\ UNCHANGED cuts
    BY <1>1 DEF WritesBackup, clockVars
  <2>2. BackupTypes'
    BY <2>1, BackupStepIsTyped DEF BackupInv
  <2>3. ASSUME alone', cuts' = 0
        PROVE  WriterHasLatest' /\ GoodIsSafe'
    BY <2>1, <2>2, <2>3, BackupStepKeeps DEF BackupInv
  <2> QED
    BY <2>2, <2>3 DEF BackupInv
<1>2. CASE PowerCut
  <2> DEFINE cut(row) == IF row.what = "partial" THEN [row EXCEPT !.what = "broken", !.by = Nobody]
                         ELSE [row EXCEPT !.by = Nobody]
  <2>1. files' = [i \in DOMAIN files |-> cut(files[i])]
    BY <1>2 DEF PowerCut
  <2>2. \A row \in FileRows : cut(row) \in FileRows
    BY DEF FileRows, Whats, Hands
  <2> HIDE DEF cut
  <2>3. files' \in Seq(FileRows)
    BY <2>1, <2>2 DEF BackupInv, BackupTypes
  <2>4. cuts' # 0
    BY <1>2 DEF PowerCut, LosesClock, ClockInv
  <2> QED
    BY <1>2, <2>3, <2>4 DEF PowerCut, BackupInv, BackupTypes
<1>3. CASE UNCHANGED backupVars /\ UNCHANGED cuts
  BY <1>3 DEF backupVars, BackupInv, BackupTypes, WriterHasLatest, GoodIsSafe
<1>4. WritesBackup \/ PowerCut \/ (UNCHANGED backupVars /\ UNCHANGED cuts)
  BY DEF Next, vars, clockVars, BayChanges, LoopRestarts, DiskChanges, JobRaises, IsSetRight,
         GuardAcknowledges, PurgesHistory, PurgesAlerts, ClockSetRight, Tick, FallsQuiet,
         ReadsPlates, RunsProcess
<1> QED
  BY <1>1, <1>2, <1>3, <1>4

-----------------------------------------------------------------------------
(* The plate that is answered with *)

ReadRows == [plate : Cars, conf : Nat, of : Cars \cup {Empty}, fresh : BOOLEAN]

PlateRead == [plate : Cars, conf : Nat]

Ats == {"idle", "detecting", "reading", "writing"}

Sides == [at : Ats, car : Cars \cup {Empty}, read : PlateRead \cup {NoRead}]

\* What was read since the bay last changed, and what is being read, is of the car in
\* whose picture it was found occupied.
PlateInv ==
  /\ reads \in Seq(ReadRows)
  /\ detector \in Sides
  /\ detector.at = "writing" => detector.read \in PlateRead
  /\ parked \in Cars \cup {Empty}
  /\ detector.at \in {"reading", "writing"} => detector.car = found
  /\ \A i \in DOMAIN reads : reads[i].fresh => reads[i].of = found

\* A row that is in reads.
LEMMA ReadsAreTyped ==
  ASSUME reads \in Seq(ReadRows)
  PROVE  /\ Len(reads) \in Nat /\ DOMAIN reads = 1..Len(reads)
         /\ \A i \in DOMAIN reads : /\ reads[i] \in ReadRows /\ reads[i].conf \in Nat
                                   /\ i \in Nat /\ 1 <= i /\ i <= Len(reads)
<1>1. \A i \in DOMAIN reads : reads[i] \in ReadRows
  OBVIOUS
<1>2. \A row \in ReadRows : row.conf \in Nat
  BY DEF ReadRows
<1> QED
  BY <1>1, <1>2

LEMMA PlateStepKeeps ==
  ASSUME PlateInv, PlateNext
  PROVE  PlateInv'
<1> USE DEF PlateInv
<1>0. Idle \in Sides /\ Idle.at \notin {"reading", "writing"}
  BY DEF Idle, Sides, Ats
<1>1. CASE CarMoves
  BY <1>1 DEF CarMoves
<1>2. CASE StartsDetection
  <2>1. detector' = [at |-> "detecting", car |-> parked, read |-> NoRead]
        /\ UNCHANGED <<parked, reads, found>>
    BY <1>2 DEF StartsDetection
  <2>2. detector' \in Sides /\ detector'.at \notin {"reading", "writing"}
    BY <2>1 DEF Sides, Ats
  <2> QED
    BY <2>1, <2>2
<1>3. CASE SettlesNothing \/ StateWriteFails \/ GivesReadUp \/ LoopIsRebuilt
  <2>1. detector' = Idle /\ UNCHANGED <<parked, reads, found>>
    BY <1>3 DEF SettlesNothing, StateWriteFails, GivesReadUp, LoopIsRebuilt
  <2> QED
    BY <1>0, <2>1
<1>4. CASE ChangesState
  <2>1. reads' \in Seq(ReadRows) /\ \A i \in DOMAIN reads' : ~reads'[i].fresh
    <3>1. \A row \in ReadRows : [row EXCEPT !.fresh = FALSE] \in ReadRows
                             /\ ~[row EXCEPT !.fresh = FALSE].fresh
      BY DEF ReadRows
    <3>2. reads' = [i \in DOMAIN reads |-> [reads[i] EXCEPT !.fresh = FALSE]]
      BY <1>4 DEF ChangesState, Stale
    <3>3. \A i \in 1..Len(reads) : reads[i] \in ReadRows
      BY ReadsAreTyped
    <3>4. reads' \in [1..Len(reads) -> ReadRows] /\ Len(reads) \in Nat
      BY <3>1, <3>2, <3>3, ReadsAreTyped
    <3>5. reads' \in Seq(ReadRows) /\ DOMAIN reads' = 1..Len(reads)
      BY <3>4, SeqDef
    <3>6. \A i \in 1..Len(reads) : reads'[i] = [reads[i] EXCEPT !.fresh = FALSE]
      BY <3>2, ReadsAreTyped
    <3>7. ASSUME NEW i \in DOMAIN reads'
          PROVE  ~reads'[i].fresh
      <4>1. reads[i] \in ReadRows /\ reads'[i] = [reads[i] EXCEPT !.fresh = FALSE]
        BY <3>3, <3>5, <3>6
      <4> QED
        BY <3>1, <4>1
    <3> QED
      BY <3>5, <3>7
  <2>2. CASE Seen = "OCCUPIED"
    <3>1. /\ found' = detector.car /\ detector' = [detector EXCEPT !.at = "reading"]
          /\ parked' = parked
      BY <1>4, <2>2 DEF ChangesState
    <3>2. /\ detector' \in Sides /\ detector'.at # "writing" /\ detector'.car = detector.car
      BY <3>1 DEF Sides, Ats
    <3> QED
      BY <2>1, <3>1, <3>2
  <2>3. CASE Seen # "OCCUPIED"
    <3>1. detector' = Idle /\ parked' = parked
      BY <1>4, <2>3 DEF ChangesState
    <3> QED
      BY <1>0, <2>1, <3>1
  <2> QED
    BY <2>2, <2>3
<1>5. ASSUME NEW plate \in Cars, NEW conf \in Confidences, ReadsPlate(plate, conf)
      PROVE  PlateInv'
  <2>1. [plate |-> plate, conf |-> conf] \in PlateRead
    BY PlateBounds DEF PlateRead
  <2>2. /\ detector' = [detector EXCEPT !.at = "writing", !.read = [plate |-> plate, conf |-> conf]]
        /\ detector.at = "reading" /\ UNCHANGED <<parked, reads, found>>
    BY <1>5 DEF ReadsPlate
  <2> DEFINE read == [plate |-> plate, conf |-> conf]
  <2> HIDE DEF read
  <2>3. /\ detector' \in Sides /\ detector'.read \in PlateRead /\ detector'.car = detector.car
    BY <2>1, <2>2 DEF Sides, Ats, read
  <2> QED
    BY <2>2, <2>3
<1>6. CASE RecordsPlateRead
  <2> DEFINE row == [plate |-> detector.read.plate, conf |-> detector.read.conf,
                     of |-> detector.car, fresh |-> TRUE]
  <2>1. row \in ReadRows /\ row.of = found
    <3>1. detector.at = "writing"
      BY <1>6 DEF RecordsPlateRead
    <3>2. detector.read \in PlateRead /\ detector.car = found /\ detector.car \in Cars \cup {Empty}
      BY <3>1 DEF Sides
    <3>3. detector.read.plate \in Cars /\ detector.read.conf \in Nat
      BY <3>2 DEF PlateRead
    <3> QED
      BY <3>2, <3>3 DEF ReadRows
  <2>2. reads' = Append(reads, row) /\ detector' = Idle /\ UNCHANGED <<parked, found>>
    BY <1>6 DEF RecordsPlateRead
  <2> HIDE DEF row
  <2>3. reads' \in Seq(ReadRows) /\ DOMAIN reads' = 1..(Len(reads) + 1)
        /\ \A i \in DOMAIN reads' : reads'[i] = IF i \in DOMAIN reads THEN reads[i] ELSE row
    BY <2>1, <2>2
  <2> QED
    BY <1>0, <2>1, <2>2, <2>3
<1>7. CASE LeavesWindow
  <2>1. reads' = Tail(reads) /\ reads # << >> /\ UNCHANGED <<parked, detector, found>>
    BY <1>7 DEF LeavesWindow
  <2>2. /\ reads' \in Seq(ReadRows)
        /\ \A i \in DOMAIN reads' : i + 1 \in DOMAIN reads /\ reads'[i] = reads[i + 1]
    BY <2>1
  <2> QED
    BY <2>1, <2>2
<1> QED
  BY <1>1, <1>2, <1>3, <1>4, <1>5, <1>6, <1>7 DEF PlateNext

LEMMA PlatesKeep ==
  ASSUME PlateInv, [Next]_vars
  PROVE  PlateInv'
<1>1. CASE ReadsPlates
  BY <1>1, PlateStepKeeps DEF ReadsPlates
<1>2. CASE UNCHANGED plateVars
  BY <1>2 DEF plateVars, PlateInv
<1> QED
  BY <1>1, <1>2
  DEF Next, vars, BayChanges, LoopRestarts, DiskChanges, JobRaises, GuardAcknowledges,
      PurgesHistory, PurgesAlerts, PowerCut, ClockSetRight, Tick, FallsQuiet,
      WritesBackup, RunsProcess

\* Numbers read off a sequence have a greatest.
LEMMA ConfidenceIsBounded ==
  ASSUME reads \in Seq(ReadRows)
  PROVE  \E m \in Nat : \A i \in DOMAIN reads : reads[i].conf <= m
<1> DEFINE T == {n \in Nat : \E m \in Nat : \A i \in DOMAIN reads : i <= n => reads[i].conf <= m}
<1>1. 0 \in T
  OBVIOUS
<1>2. ASSUME NEW n \in Nat, n \in T
      PROVE  n + 1 \in T
  <2>1. PICK m \in Nat : \A i \in DOMAIN reads : i <= n => reads[i].conf <= m
    BY <1>2
  <2>2. \A i \in DOMAIN reads : reads[i].conf \in Nat /\ i \in Nat
    BY ReadsAreTyped
  <2>3. CASE n + 1 \in DOMAIN reads
    <3> DEFINE l == m + reads[n + 1].conf
    <3> HIDE DEF l
    <3>1. l \in Nat /\ \A i \in DOMAIN reads : i <= n + 1 => reads[i].conf <= l
      <4> USE DEF l
      <4>1. reads[n + 1].conf \in Nat
        BY <2>2, <2>3
      <4>2. ASSUME NEW i \in DOMAIN reads, i <= n + 1
            PROVE  reads[i].conf <= l
        <5>1. CASE i = n + 1
          BY <4>1, <5>1
        <5>2. CASE i # n + 1
          <6>1. reads[i].conf \in Nat /\ reads[i].conf <= m
            BY <2>1, <2>2, <4>2, <5>2
          <6> QED
            BY <4>1, <6>1
        <5> QED
          BY <5>1, <5>2
      <4> QED
        BY <4>1, <4>2
    <3> QED
      BY <3>1
  <2>4. CASE n + 1 \notin DOMAIN reads
    <3>1. \A i \in DOMAIN reads : i <= n + 1 => i <= n
      BY <2>2, <2>4
    <3> QED
      BY <2>1, <3>1, SMTT(30)
  <2> QED
    BY <2>3, <2>4
<1> HIDE DEF T
<1>3. Len(reads) \in T
  BY <1>1, <1>2, NatSteps
<1> QED
  BY <1>3 DEF T

\* Of things ranked by three bounded numbers one is highest.
LEMMA HighestExists ==
  ASSUME NEW P, P # {}, NEW r, NEW m \in Nat,
         \A p \in P : \A n \in 1..3 : r[p][n] \in Nat /\ r[p][n] <= m
  PROVE  \E best \in P : \A p \in P : ~IsHigher(r[p], r[best])
<1>1. ASSUME NEW Q, Q # {}, Q \subseteq P, NEW n \in 1..3
      PROVE  \E q \in Q : \A p \in Q : r[p][n] <= r[q][n]
  <2> DEFINE K == {r[q][n] : q \in Q}
  <2>1. K \subseteq Nat /\ K # {} /\ \A h \in K : h <= m
    BY <1>1
  <2> HIDE DEF K
  <2>2. PICK x \in K : \A y \in K : y <= x
    BY <2>1, GreatestExists
  <2> QED
    BY <2>2 DEF K
<1>2. PICK a \in P : \A p \in P : r[p][1] <= r[a][1]
  BY <1>1
<1> DEFINE Q == {p \in P : r[p][1] = r[a][1]}
<1>3. PICK b \in Q : \A p \in Q : r[p][2] <= r[b][2]
  <2>1. Q # {} /\ Q \subseteq P /\ 2 \in 1..3
    OBVIOUS
  <2> HIDE DEF Q
  <2> QED
    BY <1>1, <2>1
<1> DEFINE R == {p \in Q : r[p][2] = r[b][2]}
<1>4. PICK c \in R : \A p \in R : r[p][3] <= r[c][3]
  <2>1. R # {} /\ R \subseteq P /\ 3 \in 1..3
    OBVIOUS
  <2> HIDE DEF R
  <2> QED
    BY <1>1, <2>1
<1>5. ASSUME NEW p \in P, IsHigher(r[p], r[c])
      PROVE  FALSE
  <2>1. PICK n \in 1..3 : r[p][n] > r[c][n] /\ \A k \in 1..(n - 1) : r[p][k] = r[c][k]
    BY <1>5 DEF IsHigher
  <2>2. \A k \in 1..3 : r[p][k] \in Nat /\ r[c][k] \in Nat
    OBVIOUS
  <2>3. r[p][1] <= r[c][1]
    BY <1>2, <1>4
  <2>4. n # 1
    BY <2>1, <2>2, <2>3
  <2>5. p \in Q
    BY <1>4, <2>1, <2>4
  <2>6. r[p][2] <= r[c][2]
    BY <1>3, <1>4, <2>5
  <2>7. n # 2
    BY <2>1, <2>2, <2>6
  <2>8. p \in R
    BY <1>4, <2>1, <2>4, <2>5, <2>7
  <2>9. n # 3
    BY <1>4, <2>1, <2>2, <2>8
  <2> QED
    BY <2>4, <2>7, <2>9
<1> QED
  BY <1>4, <1>5

\* A vote has a read that is the most confident and, of those, the newest.
LEMMA BestReadExists ==
  ASSUME reads \in Seq(ReadRows), NEW V, V \subseteq DOMAIN reads, V # {}
  PROVE  \E i \in V : \A j \in V :
           ~IsHigher(<<reads[j].conf, j, 0>>, <<reads[i].conf, i, 0>>)
<1>1. PICK m \in Nat : \A i \in DOMAIN reads : reads[i].conf <= m
  BY ConfidenceIsBounded
<1> DEFINE r == [i \in V |-> <<reads[i].conf, i, 0>>]
           l == m + Len(reads)
<1>2. l \in Nat /\ \A i \in V : \A n \in 1..3 : r[i][n] \in Nat /\ r[i][n] <= l
  BY <1>1, ReadsAreTyped
<1>3. \A i \in V : r[i] = <<reads[i].conf, i, 0>>
  OBVIOUS
<1> HIDE DEF r, l
<1>4. \E i \in V : \A j \in V : ~IsHigher(r[j], r[i])
  BY <1>2, HighestExists
<1> QED
  BY <1>3, <1>4

\* The votes for a plate have ranks, and some plate has the highest.
LEMMA RankIsTyped ==
  ASSUME reads \in Seq(ReadRows), NEW plate, VotesFor(plate) # {}, Voting \subseteq DOMAIN reads
  PROVE  /\ Rank(plate)[1] \in Nat /\ Rank(plate)[2] \in Nat /\ Rank(plate)[3] \in Nat
         /\ Rank(plate)[1] <= Len(reads) /\ Rank(plate)[3] <= Len(reads)
         /\ \E i \in DOMAIN reads : Rank(plate)[2] = reads[i].conf
<1> DEFINE V == VotesFor(plate)
           C == {reads[i].conf : i \in V}
<1>1. V \subseteq 1..Len(reads) /\ Len(reads) \in Nat
  BY DEF VotesFor
<1>2. Cardinality(V) \in Nat /\ Cardinality(V) <= Len(reads)
  <2> HIDE DEF V
  <2> DEFINE N == Len(reads)
  <2>0. 1 \in Int /\ N \in Int /\ N \in Nat
    BY <1>1
  <2> HIDE DEF N
  <2>1. IsFiniteSet(1..N) /\ Cardinality(1..N) = IF 1 > N THEN 0 ELSE N - 1 + 1
    BY <2>0, FS_Interval
  <2>2. Cardinality(1..N) = N
    BY <2>0, <2>1
  <2>3. IsFiniteSet(V) /\ Cardinality(V) <= Cardinality(1..N)
    BY <1>1, <2>1, FS_Subset DEF N
  <2> QED
    BY <2>2, <2>3, FS_CardinalityType DEF N
<1>3. Max(C) \in C
  <2>2. PICK m \in Nat : \A i \in DOMAIN reads : reads[i].conf <= m
    BY ConfidenceIsBounded
  <2>3. C \subseteq Nat /\ C # {} /\ \A h \in C : h <= m
    BY <1>1, <2>2, ReadsAreTyped
  <2> HIDE DEF C
  <2>4. PICK c \in C : \A d \in C : d <= c
    BY <2>3, GreatestExists
  <2>5. \A d \in C : c >= d
    BY <2>3, <2>4
  <2> QED
    BY <2>4, <2>5 DEF Max
<1>4. Max(V) \in V
  <2>1. V \subseteq Nat /\ V # {} /\ \A h \in V : h <= Len(reads)
    BY <1>1
  <2> HIDE DEF V
  <2>2. PICK c \in V : \A d \in V : d <= c
    BY <1>1, <2>1, GreatestExists
  <2>3. \A d \in V : c >= d
    BY <2>1, <2>2
  <2> QED
    BY <2>2, <2>3 DEF Max
<1>5. Rank(plate) = <<Cardinality(V), Max(C), Max(V)>>
  BY DEF Rank
<1>6. \A c \in C : c \in Nat /\ \E i \in DOMAIN reads : c = reads[i].conf
  BY <1>1, ReadsAreTyped
<1> HIDE DEF C, V
<1>7. /\ Max(C) \in Nat /\ Max(V) \in Nat /\ Max(V) <= Len(reads)
      /\ \E i \in DOMAIN reads : Max(C) = reads[i].conf
  <2>1. Max(C) \in Nat /\ \E i \in DOMAIN reads : Max(C) = reads[i].conf
    BY <1>3, <1>6
  <2>2. Max(V) \in 1..Len(reads)
    BY <1>1, <1>4
  <2> QED
    BY <1>1, <2>1, <2>2
<1> QED
  BY <1>2, <1>5, <1>7

\* Everybody who votes has a plate, and if anything was read since the bay last changed,
\* it votes alone.
LEMMA VotingIsChosen ==
  ASSUME reads \in Seq(ReadRows)
  PROVE  /\ Voting \subseteq DOMAIN reads
         /\ reads # << >> => Voting # {}
         /\ (\E i \in DOMAIN reads : reads[i].fresh) => \A i \in Voting : reads[i].fresh
         /\ \A i \in Voting : reads[i].plate \in Cars
<1> DEFINE now == OrAll({i \in DOMAIN reads : reads[i].fresh}, DOMAIN reads)
<1>1. /\ now \subseteq DOMAIN reads
      /\ reads # << >> => now # {}
      /\ (\E i \in DOMAIN reads : reads[i].fresh) => \A i \in now : reads[i].fresh
  BY DEF OrAll
<1>2. Voting \subseteq now /\ (now # {} => Voting # {})
  BY DEF Voting, OrAll
<1>3. \A i \in DOMAIN reads : reads[i].plate \in Cars
  BY ReadsAreTyped DEF ReadRows
<1> HIDE DEF now
<1> QED
  BY <1>1, <1>2, <1>3

LEMMA BestPlateIsVoted ==
  ASSUME reads \in Seq(ReadRows), reads # << >>
  PROVE  VotesFor(BestPlate) # {}
<1> DEFINE P == {plate \in Cars : VotesFor(plate) # {}}
           r == [plate \in P |-> Rank(plate)]
<1>1. P # {}
  BY VotingIsChosen DEF VotesFor
<1>2. PICK m \in Nat : \A i \in DOMAIN reads : reads[i].conf <= m
  BY ConfidenceIsBounded
<1> DEFINE l == m + Len(reads)
<1>3. l \in Nat
  BY ReadsAreTyped
<1>4. ASSUME NEW plate \in P
      PROVE  \A n \in 1..3 : r[plate][n] \in Nat /\ r[plate][n] <= l
  <2>1. /\ Rank(plate)[1] \in Nat /\ Rank(plate)[2] \in Nat /\ Rank(plate)[3] \in Nat
        /\ Rank(plate)[1] <= Len(reads) /\ Rank(plate)[3] <= Len(reads)
        /\ \E i \in DOMAIN reads : Rank(plate)[2] = reads[i].conf
    BY RankIsTyped, VotingIsChosen
  <2>2. r[plate] = Rank(plate) /\ Len(reads) \in Nat
    BY ReadsAreTyped
  <2>3. Rank(plate)[2] <= m
    BY <1>2, <2>1
  <2> QED
    BY <2>1, <2>2, <2>3
<1>5. \A plate \in P : r[plate] = Rank(plate)
  OBVIOUS
<1> HIDE DEF r, P, l
<1>6. \E best \in P : \A plate \in P : ~IsHigher(r[plate], r[best])
  BY <1>1, <1>3, <1>4, HighestExists
<1>7. PICK best \in P : \A plate \in P : ~IsHigher(Rank(plate), Rank(best))
  BY <1>5, <1>6
<1>8. /\ best \in Cars /\ VotesFor(best) # {}
      /\ \A other \in Cars : VotesFor(other) # {} => ~IsHigher(Rank(other), Rank(best))
  BY <1>7 DEF P
<1> QED
  BY <1>8 DEF BestPlate

LEMMA FreshReadIsFound ==
  ASSUME PlateInv
  PROVE  FreshReadIsOfTheCar
<1> SUFFICES ASSUME Answers, \E i \in DOMAIN reads : reads[i].fresh
             PROVE  reads[Answer].of = found
  BY DEF FreshReadIsOfTheCar
<1>1. reads \in Seq(ReadRows) /\ reads # << >>
  BY DEF PlateInv, Answers
<1> DEFINE V == VotesFor(BestPlate)
<1>2. V # {} /\ V \subseteq Voting /\ V \subseteq DOMAIN reads
  BY <1>1, BestPlateIsVoted, VotingIsChosen DEF VotesFor
<1> HIDE DEF V
<1>3. \E i \in V : \A j \in V : ~IsHigher(<<reads[j].conf, j, 0>>, <<reads[i].conf, i, 0>>)
  BY <1>1, <1>2, BestReadExists
<1>4. Answer \in V
  BY <1>3 DEF Answer, V
<1>5. reads[Answer].fresh /\ Answer \in DOMAIN reads
  BY <1>1, <1>2, <1>4, VotingIsChosen
<1> QED
  BY <1>5 DEF PlateInv

-----------------------------------------------------------------------------
(* The shutdown *)

WorkRows == [what : {"job", "health", "state"}, of : Loops \cup Jobs]
LoopStates == {"looping", "health", "draining", "ended"}
DetectionStates == {"none", "detecting", "writing"}

Queued(row) == \E i \in DOMAIN dbPool : dbPool[i] = row

\* A loop has ended without a detection, all have when the contexts are closed, and a change
\* that is not in the database is still queued, or was a cancelled loop's.
ProcessInv ==
  /\ dbPool \in Seq(WorkRows) /\ model \in Seq(Loops)
  /\ loop \in [Loops -> LoopStates] /\ detection \in [Loops -> DetectionStates]
  /\ \A c \in Loops : loop[c] = "ended" => detection[c] = "none"
  /\ phase \in AfterLoops => \A c \in Loops : loop[c] = "ended"
  /\ unwritten \subseteq Loops
  /\ \A c \in unwritten : c \in cutShort \/ Queued(Work("state", c))
  /\ phase = "disposed" => dbPool = << >>

\* What leaves a queue was cancelled.
LEMMA WithoutKeeps ==
  ASSUME NEW S, NEW queue \in Seq(S), NEW cancelled
  PROVE  /\ Without(queue, cancelled) \in Seq(S)
         /\ \A i \in DOMAIN queue : queue[i] \notin cancelled =>
              \E j \in DOMAIN Without(queue, cancelled) : Without(queue, cancelled)[j] = queue[i]
         /\ queue = << >> => Without(queue, cancelled) = << >>
<1> DEFINE places == {i \in DOMAIN queue : i = 1 \/ queue[i] \notin cancelled}
           t == Picked(queue, places)
<1>1. t \in Seq(S) /\ IsPick(queue, Len(queue), places, t)
  BY PickedIsPick
<1>2. /\ places \subseteq 1..Len(queue)
      /\ \A i \in DOMAIN queue : queue[i] \notin cancelled => i \in places
  OBVIOUS
<1> HIDE DEF t, places
<1>3. PICK g \in [1..Len(t) -> places \cap (1..Len(queue))] :
        /\ \A k \in 1..Len(t) : t[k] = queue[g[k]]
        /\ \A i \in places \cap (1..Len(queue)) : \E k \in 1..Len(t) : g[k] = i
  BY <1>1 DEF IsPick
<1>4. ASSUME NEW i \in DOMAIN queue, queue[i] \notin cancelled
      PROVE  \E j \in DOMAIN t : t[j] = queue[i]
  <2>1. PICK k \in 1..Len(t) : g[k] = i
    BY <1>2, <1>3, <1>4
  <2> QED
    BY <1>1, <1>3, <2>1
<1>5. ASSUME queue = << >>
      PROVE  t = << >>
  <2>1. places \cap (1..Len(queue)) = {}
    BY <1>2, <1>5
  <2>2. 1 \notin 1..Len(t) /\ Len(t) \in Nat
    BY <1>1, <1>3, <2>1
  <2> QED
    BY <1>1, <2>2
<1> QED
  BY <1>1, <1>4, <1>5 DEF Without, t, places

LEMMA ProcessStepKeeps ==
  ASSUME ProcessInv, ProcessNext
  PROVE  ProcessInv'
<1> USE DEF ProcessInv
<1>0. /\ dbPool \in Seq(WorkRows) /\ model \in Seq(Loops)
      /\ loop \in [Loops -> LoopStates] /\ detection \in [Loops -> DetectionStates]
  OBVIOUS
<1>1. ASSUME NEW row \in WorkRows, dbPool' = Append(dbPool, row)
      PROVE  /\ dbPool' \in Seq(WorkRows) /\ Queued(row)'
             /\ \A other : Queued(other) => Queued(other)'
  <2>1. /\ dbPool' \in Seq(WorkRows) /\ Len(dbPool) \in Nat
        /\ DOMAIN dbPool = 1..Len(dbPool) /\ DOMAIN dbPool' = 1..(Len(dbPool) + 1)
        /\ \A i \in 1..Len(dbPool) : dbPool'[i] = dbPool[i]
        /\ dbPool'[Len(dbPool) + 1] = row
    BY <1>1
  <2> QED
    BY <2>1 DEF Queued
<1>2. \A c \in Loops \cup Jobs : /\ Work("job", c) \in WorkRows /\ Work("health", c) \in WorkRows
                                 /\ Work("state", c) \in WorkRows
  BY DEF Work, WorkRows
<1>3. ASSUME NEW j \in Jobs, JobIsDue(j)
      PROVE  ProcessInv'
  <2>1. /\ dbPool' = Append(dbPool, Work("job", j)) /\ phase = "serving"
        /\ UNCHANGED <<phase, model, loop, detection, unwritten, cutShort>>
    BY <1>3 DEF JobIsDue
  <2>2. /\ dbPool' \in Seq(WorkRows) /\ \A other : Queued(other) => Queued(other)'
    BY <1>1, <1>2, <2>1
  <2> QED
    BY <2>1, <2>2
<1>4. ASSUME NEW c \in Loops, Detects(c)
      PROVE  ProcessInv'
  <2>1. /\ loop[c] = "looping" /\ detection' = [detection EXCEPT ![c] = "detecting"]
        /\ model' = Append(model, c)
        /\ UNCHANGED <<phase, dbPool, loop, unwritten, cutShort>>
    BY <1>4 DEF Detects
  <2>2. model' \in Seq(Loops)
    BY <2>1
  <2>3. detection' \in [Loops -> DetectionStates]
    BY <2>1 DEF DetectionStates
  <2>4. \A d \in Loops : loop'[d] = "ended" => detection'[d] = "none"
    BY <2>1
  <2> QED
    BY <2>1, <2>2, <2>3, <2>4 DEF Queued
<1>5. ASSUME NEW c \in Loops, RecordsHealth(c)
      PROVE  ProcessInv'
  <2>1. /\ loop[c] = "looping" /\ loop' = [loop EXCEPT ![c] = "health"]
        /\ dbPool' = Append(dbPool, Work("health", c))
        /\ UNCHANGED <<phase, model, detection, unwritten, cutShort>>
    BY <1>5 DEF RecordsHealth
  <2>2. /\ dbPool' \in Seq(WorkRows) /\ \A other : Queued(other) => Queued(other)'
    BY <1>1, <1>2, <2>1
  <2>3. loop' \in [Loops -> LoopStates]
    BY <2>1 DEF LoopStates
  <2>4. \A d \in Loops : loop'[d] = "ended" => loop[d] = "ended"
    BY <2>1
  <2>5. phase \notin AfterLoops
    BY <2>1
  <2>6. phase # "disposed"
    BY <2>5 DEF AfterLoops
  <2> QED
    BY <2>1, <2>2, <2>3, <2>4, <2>5, <2>6
<1>6. ASSUME NEW c \in Loops, Winds(c)
      PROVE  ProcessInv'
  <2>1. /\ UNCHANGED <<phase, dbPool, model, detection, unwritten, cutShort>>
        /\ \/ loop[c] = "looping" /\ loop' = [loop EXCEPT ![c] = "draining"]
           \/ detection[c] = "none" /\ loop' = [loop EXCEPT ![c] = "ended"]
    BY <1>6 DEF Winds, SeesStop, Drained, Awaited
  <2>2. loop' \in [Loops -> LoopStates]
    BY <2>1 DEF LoopStates
  <2>3. \A d \in Loops : loop'[d] = "ended" => detection[d] = "none"
    BY <2>1
  <2>4. (\A d \in Loops : loop[d] = "ended") => \A d \in Loops : loop'[d] = "ended"
    BY <2>1
  <2> QED
    BY <2>1, <2>2, <2>3, <2>4 DEF Queued
<1>7. ASSUME NEW changed \in BOOLEAN, DetectionEnds(changed)
      PROVE  ProcessInv'
  <2>0. PICK c \in Loops : c = Head(model)
    BY <1>7 DEF DetectionEnds
  <2> DEFINE writes == changed /\ detection[c] = "detecting"
  <2>1. c \in Loops /\ model' \in Seq(Loops)
    BY <1>7 DEF DetectionEnds
  <2>2. /\ detection' = [detection EXCEPT ![c] = IF writes THEN "writing" ELSE "none"]
        /\ dbPool' = IF writes THEN Append(dbPool, Work("state", c)) ELSE dbPool
        /\ unwritten' = IF writes THEN unwritten \cup {c} ELSE unwritten
        /\ UNCHANGED <<phase, loop, cutShort>>
    BY <1>7, <2>0 DEF DetectionEnds
  <2>3. detection' \in [Loops -> DetectionStates]
    BY <2>1, <2>2 DEF DetectionStates
  <2>4. writes => loop[c] # "ended"
    BY <2>1
  <2>5. \A d \in Loops : loop[d] = "ended" => detection'[d] = "none"
    BY <2>1, <2>2, <2>4
  <2>6. CASE writes
    <3>1. dbPool' = Append(dbPool, Work("state", c)) /\ unwritten' = unwritten \cup {c}
      BY <2>2, <2>6
    <3>2. /\ dbPool' \in Seq(WorkRows) /\ Queued(Work("state", c))'
          /\ \A other : Queued(other) => Queued(other)'
      BY <1>1, <1>2, <2>1, <3>1
    <3>3. phase \notin AfterLoops
      BY <2>1, <2>4, <2>6
    <3>4. phase # "disposed"
      BY <3>3 DEF AfterLoops
    <3>5. \A d \in unwritten' : d \in cutShort' \/ Queued(Work("state", d))'
      BY <2>2, <3>1, <3>2
    <3> QED
      BY <2>1, <2>2, <2>3, <2>5, <3>2, <3>3, <3>4, <3>5
  <2>7. CASE ~writes
    <3>1. UNCHANGED <<dbPool, unwritten>>
      BY <2>2, <2>7
    <3> QED
      BY <2>1, <2>2, <2>3, <2>5, <3>1 DEF Queued
  <2> QED
    BY <2>6, <2>7
<1>8. CASE WorkEnds
  <2> DEFINE w == Head(dbPool)
  <2>1. /\ dbPool # << >> /\ dbPool' = Tail(dbPool)
        /\ loop' = [c \in Loops |-> IF w = Work("health", c) /\ loop[c] = "health"
                                    THEN "looping" ELSE loop[c]]
        /\ detection' = [c \in Loops |->
             IF w = Work("state", c) /\ detection[c] = "writing" THEN "none" ELSE detection[c]]
        /\ unwritten' = unwritten \ {c \in Loops : w = Work("state", c)}
        /\ UNCHANGED <<phase, model, cutShort>>
    BY <1>8 DEF WorkEnds
  <2>2. w = dbPool[1] /\ dbPool' \in Seq(WorkRows) /\ Len(dbPool) \in Nat
        /\ DOMAIN dbPool = 1..Len(dbPool) /\ DOMAIN dbPool' = 1..(Len(dbPool) - 1)
        /\ \A i \in 1..(Len(dbPool) - 1) : dbPool'[i] = dbPool[i + 1]
    BY <2>1
  <2> HIDE DEF w
  <2>3. loop' \in [Loops -> LoopStates]
    BY <2>1 DEF LoopStates
  <2>4. detection' \in [Loops -> DetectionStates]
    BY <2>1 DEF DetectionStates
  <2>5. \A c \in Loops : /\ loop'[c] = "ended" => loop[c] = "ended"
                         /\ loop[c] = "ended" => loop'[c] = "ended"
                         /\ detection[c] = "none" => detection'[c] = "none"
    BY <2>1
  <2>6. ASSUME NEW c \in unwritten', c \notin cutShort
        PROVE  Queued(Work("state", c))'
    <3>1. PICK i \in 1..Len(dbPool) : dbPool[i] = Work("state", c)
      BY <2>1, <2>2, <2>6 DEF Queued
    <3>2. w # Work("state", c)
      BY <2>1, <2>6
    <3>3. i - 1 \in 1..(Len(dbPool) - 1) /\ (i - 1) + 1 = i
      BY <2>2, <3>1, <3>2
    <3>4. dbPool'[i - 1] = Work("state", c)
      BY <2>2, <3>1, <3>3
    <3> QED
      BY <2>2, <3>3, <3>4 DEF Queued
  <2>7. phase # "disposed"
    BY <2>1
  <2> QED
    BY <2>1, <2>2, <2>3, <2>4, <2>5, <2>6, <2>7
<1>9. CASE StopIsAsked
  <2> DEFINE gone == {Work("job", j) : j \in Jobs}
  <2>1. /\ phase' = "loops" /\ dbPool' = Without(dbPool, gone)
        /\ UNCHANGED <<model, loop, detection, unwritten, cutShort>>
    BY <1>9 DEF StopIsAsked
  <2>2. \A c \in Loops : Work("state", c) \notin gone
    BY DEF Work
  <2> HIDE DEF gone
  <2>3. /\ dbPool' \in Seq(WorkRows)
        /\ \A i \in DOMAIN dbPool : dbPool[i] \notin gone =>
             \E j \in DOMAIN dbPool' : dbPool'[j] = dbPool[i]
    BY <1>0, <2>1, WithoutKeeps
  <2>4. \A c \in unwritten' : c \in cutShort' \/ Queued(Work("state", c))'
    BY <2>1, <2>2, <2>3 DEF Queued
  <2> QED
    BY <2>1, <2>3, <2>4 DEF AfterLoops
<1>10. CASE TimesOut
  <2> DEFINE draining == {c \in Loops : loop[c] = "draining"}
             gone == {Work("health", c) : c \in Loops} \cup {Work("state", c) : c \in draining}
  <2>1. /\ loop' = [c \in Loops |->
              IF c \in draining \/ loop[c] = "ended" THEN "ended" ELSE "draining"]
        /\ detection' = [c \in Loops |-> IF c \in draining THEN "none" ELSE detection[c]]
        /\ dbPool' = Without(dbPool, gone) /\ model' = Without(model, draining)
        /\ cutShort' = cutShort \cup draining /\ phase' = "late" /\ unwritten' = unwritten
    BY <1>10 DEF TimesOut
  <2>2. \A c \in Loops : c \notin draining => Work("state", c) \notin gone
    BY DEF Work
  <2> HIDE DEF gone, draining
  <2>3. /\ dbPool' \in Seq(WorkRows)
        /\ \A i \in DOMAIN dbPool : dbPool[i] \notin gone =>
             \E j \in DOMAIN dbPool' : dbPool'[j] = dbPool[i]
    BY <1>0, <2>1, WithoutKeeps
  <2>4. model' \in Seq(Loops)
    BY <1>0, <2>1, WithoutKeeps
  <2>5. loop' \in [Loops -> LoopStates]
    BY <2>1 DEF LoopStates
  <2>6. detection' \in [Loops -> DetectionStates]
    BY <2>1 DEF DetectionStates
  <2>7. \A c \in Loops : loop'[c] = "ended" => detection'[c] = "none"
    BY <2>1
  <2>8. \A c \in unwritten' : c \in cutShort' \/ Queued(Work("state", c))'
    BY <2>1, <2>2, <2>3 DEF Queued
  <2> QED
    BY <2>1, <2>3, <2>4, <2>5, <2>6, <2>7, <2>8 DEF AfterLoops
<1>11. CASE LoopsAreDone
  <2>1. /\ phase' = "closed" /\ \A c \in Loops : loop[c] = "ended"
        /\ UNCHANGED <<dbPool, model, loop, detection, unwritten, cutShort>>
    BY <1>11 DEF LoopsAreDone
  <2> QED
    BY <2>1 DEF Queued
<1>12. CASE InferenceIsCancelled
  <2>1. /\ phase = "closed" /\ phase' = "joining" /\ model' = Without(model, Loops)
        /\ UNCHANGED <<dbPool, loop, detection, unwritten, cutShort>>
    BY <1>12 DEF InferenceIsCancelled
  <2>2. model' \in Seq(Loops)
    BY <1>0, <2>1, WithoutKeeps
  <2> QED
    BY <2>1, <2>2 DEF Queued, AfterLoops
<1>13. CASE InferenceIsDown \/ EngineIsDisposed
  <2>1. /\ phase \in AfterLoops /\ (phase' = "disposed" => dbPool = << >>)
        /\ UNCHANGED <<dbPool, model, loop, detection, unwritten, cutShort>>
    BY <1>13 DEF InferenceIsDown, EngineIsDisposed, AfterLoops
  <2> QED
    BY <2>1 DEF Queued
<1> QED
  BY <1>3, <1>4, <1>5, <1>6, <1>7, <1>8, <1>9, <1>10, <1>11, <1>12, <1>13
  DEF ProcessNext, TearsDown

LEMMA ProcessKeeps ==
  ASSUME ProcessInv, [Next]_vars
  PROVE  ProcessInv'
<1>1. CASE RunsProcess
  BY <1>1, ProcessStepKeeps DEF RunsProcess
<1>2. CASE UNCHANGED processVars
  BY <1>2 DEF processVars, ProcessInv, Queued
<1> QED
  BY <1>1, <1>2
  DEF Next, vars, BayChanges, LoopRestarts, DiskChanges, JobRaises, GuardAcknowledges,
      PurgesHistory, PurgesAlerts, PowerCut, ClockSetRight, Tick, FallsQuiet,
      WritesBackup, ReadsPlates

\* What StopIsOrderly says at every moment of a shutdown.
LoopsEndFirst == phase \in AfterLoops => \A c \in Loops : detection[c] = "none"

ChangesAreWritten == phase = "disposed" => unwritten \subseteq cutShort

LEMMA ShutdownIsInOrder ==
  ASSUME ProcessInv
  PROVE  LoopsEndFirst /\ ChangesAreWritten
<1>1. LoopsEndFirst
  BY DEF ProcessInv, LoopsEndFirst
<1>2. ASSUME phase = "disposed"
      PROVE  unwritten \subseteq cutShort
  <2>1. dbPool = << >>
    BY <1>2 DEF ProcessInv
  <2>2. \A row : ~Queued(row)
    BY <2>1 DEF Queued
  <2> QED
    BY <2>2 DEF ProcessInv
<1> QED
  BY <1>1, <1>2 DEF ChangesAreWritten

-----------------------------------------------------------------------------
(* The parking sessions of a bay *)

States == {"UNKNOWN", "FREE", "OCCUPIED"}

SessionRows == [start : Nat, end : Nat, gap : BOOLEAN, suspect : BOOLEAN]

\* Somebody is there after n rows, since the i-th.
StaysSince(rows, i, n) ==
  i \in 1..n /\ Opens(rows, i) /\ \A k \in (i + 1)..n : rows[k].state # "FREE"

\* After n rows nobody is.
NobodyIsThere(rows, n) ==
  \A j \in 1..n : rows[j].state = "OCCUPIED" => \E k \in (j + 1)..n : rows[k].state = "FREE"

\* A stay as far as n rows tell of it.
StayUpTo(rows, i, n) ==
  [start |-> i, end |-> 0,
   gap |-> \E k \in i..n : rows[k].state = "UNKNOWN",
   suspect |-> \E k \in i..n : rows[k].suspect]

\* The stays that are over after n rows.
Ended(rows, n) ==
  {i \in 1..n : Opens(rows, i) /\ \E k \in (i + 1)..n : rows[k].state = "FREE"}

\* The sessions are the stays that begin at these places, each once.
AreStays(sessions, rows, places) ==
  /\ ToSet(sessions) = {Stay(rows, i) : i \in places}
  /\ Len(sessions) = Cardinality(places)

\* What _derive_for_one_slot knows after n rows.
Derived(rows, n, acc) ==
  /\ acc = [row |-> n, current |-> acc.current, sessions |-> acc.sessions]
  /\ acc.sessions \in Seq(SessionRows)
  /\ \/ acc.current = NoSession /\ NobodyIsThere(rows, n)
     \/ \E i \in 1..n : StaysSince(rows, i, n) /\ acc.current = StayUpTo(rows, i, n)
  /\ AreStays(acc.sessions, rows, Ended(rows, n))

AreRows(rows) ==
  /\ Len(rows) \in Nat /\ DOMAIN rows = 1..Len(rows)
  /\ \A i \in 1..Len(rows) : rows[i].state \in States /\ rows[i].suspect \in BOOLEAN

LEMMA OneMore ==
  ASSUME NEW n \in Nat, NEW i \in Nat
  PROVE  /\ \A k \in i..(n + 1) : k \in i..n \/ k = n + 1
         /\ \A k \in i..n : k \in i..(n + 1)
         /\ i <= n + 1 => n + 1 \in i..(n + 1)
OBVIOUS

\* Only a departure ends a stay, and only that of somebody who is there.
LEMMA EndedStay ==
  ASSUME NEW rows, NEW n \in Nat,
         NobodyIsThere(rows, n) \/ rows[n + 1].state # "FREE"
  PROVE  Ended(rows, n + 1) = Ended(rows, n)
<1>1. ASSUME NEW i \in Ended(rows, n + 1)
      PROVE  i \in Ended(rows, n)
  <2>1. PICK k \in (i + 1)..(n + 1) : rows[k].state = "FREE"
    BY DEF Ended
  <2>2. i \in 1..(n + 1) /\ Opens(rows, i) /\ rows[i].state = "OCCUPIED"
    BY DEF Ended, Opens
  <2>3. i \in 1..n
    BY <2>1, <2>2
  <2>4. \E m \in (i + 1)..n : rows[m].state = "FREE"
    <3>1. CASE NobodyIsThere(rows, n)
      BY <2>2, <2>3, <3>1 DEF NobodyIsThere
    <3>2. CASE rows[n + 1].state # "FREE"
      BY <2>1, <2>3, <3>2
    <3> QED
      BY <3>1, <3>2
  <2> QED
    BY <2>2, <2>3, <2>4 DEF Ended
<1>2. ASSUME NEW i \in Ended(rows, n)
      PROVE  i \in Ended(rows, n + 1)
  BY DEF Ended
<1> QED
  BY <1>1, <1>2

LEMMA EndedGrows ==
  ASSUME NEW rows, NEW n \in Nat, NEW i, StaysSince(rows, i, n), rows[n + 1].state = "FREE"
  PROVE  Ended(rows, n + 1) = Ended(rows, n) \cup {i} /\ i \notin Ended(rows, n)
<1>1. i \in 1..n /\ Opens(rows, i) /\ \A k \in (i + 1)..n : rows[k].state # "FREE"
  BY DEF StaysSince
<1>2. i \notin Ended(rows, n)
  BY <1>1 DEF Ended
<1>3. i \in Ended(rows, n + 1)
  <2>1. n + 1 \in (i + 1)..(n + 1) /\ i \in 1..(n + 1)
    BY <1>1
  <2> QED
    BY <1>1, <2>1 DEF Ended
<1>4. ASSUME NEW j \in Ended(rows, n + 1), j # i
      PROVE  j \in Ended(rows, n)
  <2>1. PICK k \in (j + 1)..(n + 1) : rows[k].state = "FREE"
    BY DEF Ended
  <2>2. j \in 1..n /\ Opens(rows, j)
    BY <2>1 DEF Ended
  <2>3. CASE j < i
    \* Somebody left between the two arrivals.
    <3>1. \E m \in (j + 1)..(i - 1) : rows[m].state = "FREE"
      <4>1. j \in 1..(i - 1) /\ rows[j].state = "OCCUPIED"
        BY <1>1, <2>2, <2>3 DEF Opens
      <4> QED
        BY <1>1, <4>1 DEF Opens
    <3> QED
      BY <1>1, <2>2, <3>1 DEF Ended
  <2>4. CASE i < j
    <3>1. i \in 1..(j - 1) /\ rows[i].state = "OCCUPIED"
      BY <1>1, <2>2, <2>4 DEF Opens
    <3>2. PICK m \in (i + 1)..(j - 1) : rows[m].state = "FREE"
      BY <2>2, <3>1 DEF Opens
    <3> QED
      BY <1>1, <2>2, <3>2
  <2> QED
    BY <1>1, <1>4, <2>2, <2>3, <2>4
<1>5. Ended(rows, n) \subseteq Ended(rows, n + 1)
  BY DEF Ended
<1> QED
  BY <1>2, <1>3, <1>4, <1>5

LEMMA EndedIsFinite ==
  ASSUME NEW rows, NEW n \in Nat
  PROVE  IsFiniteSet(Ended(rows, n)) /\ Cardinality(Ended(rows, n)) \in Nat
<1>1. IsFiniteSet(1..n) /\ Ended(rows, n) \subseteq 1..n
  BY FS_Interval DEF Ended
<1> QED
  BY <1>1, FS_Subset, FS_CardinalityType

\* One stay more.
LEMMA StaysGrow ==
  ASSUME NEW rows, NEW sessions \in Seq(SessionRows), NEW places, IsFiniteSet(places),
         AreStays(sessions, rows, places), NEW i, i \notin places,
         Stay(rows, i) \in SessionRows
  PROVE  /\ Append(sessions, Stay(rows, i)) \in Seq(SessionRows)
         /\ AreStays(Append(sessions, Stay(rows, i)), rows, places \cup {i})
<1> DEFINE stay == Stay(rows, i)
           more == Append(sessions, stay)
<1>1. more \in Seq(SessionRows) /\ Len(more) = Len(sessions) + 1
  BY DEF AreStays
<1>2. Cardinality(places \cup {i}) = Cardinality(places) + 1
  BY FS_AddElement
<1>3. ToSet(more) = ToSet(sessions) \cup {stay}
  <2> HIDE DEF stay
  <2>1. /\ \A k \in 1..Len(sessions) : more[k] = sessions[k]
        /\ more[Len(sessions) + 1] = stay
        /\ DOMAIN more = 1..(Len(sessions) + 1) /\ DOMAIN sessions = 1..Len(sessions)
        /\ Len(sessions) \in Nat
    BY <1>1
  <2> QED
    BY <2>1 DEF ToSet
<1>4. {Stay(rows, j) : j \in places \cup {i}} = {Stay(rows, j) : j \in places} \cup {stay}
  OBVIOUS
<1> QED
  BY <1>1, <1>2, <1>3, <1>4 DEF AreStays

\* A stay that the next row ends.
LEMMA StayEnds ==
  ASSUME NEW rows, AreRows(rows), NEW n \in Nat, n + 1 <= Len(rows), NEW i,
         StaysSince(rows, i, n), rows[n + 1].state = "FREE"
  PROVE  Stay(rows, i) = [start |-> i, end |-> n + 1,
                          gap |-> \E k \in i..n : rows[k].state = "UNKNOWN",
                          suspect |-> (\E k \in i..n : rows[k].suspect) \/ rows[n + 1].suspect]
<1> DEFINE later == {k \in (i + 1)..Len(rows) : rows[k].state = "FREE"}
<1>1. i \in 1..n /\ \A k \in (i + 1)..n : rows[k].state # "FREE"
  BY DEF StaysSince
<1>2. n + 1 \in later /\ \A k \in later : n + 1 <= k /\ k \in Nat
  BY <1>1 DEF AreRows
<1>3. LeavesAt(rows, i) = n + 1
  <2>1. LeavesAt(rows, i) = CHOOSE k \in later : \A l \in later : k <= l
    BY <1>2 DEF LeavesAt
  <2> HIDE DEF later
  <2>2. \A k \in later : (\A l \in later : k <= l) => k = n + 1
    BY <1>2
  <2> QED
    BY <1>2, <2>1, <2>2
<1> DEFINE gap(m) == \E k \in i..m : rows[k].state = "UNKNOWN"
           doubt(m) == \E k \in i..m : rows[k].suspect
<1>4. /\ gap(n + 1) \in BOOLEAN /\ gap(n) \in BOOLEAN
      /\ doubt(n + 1) \in BOOLEAN /\ doubt(n) \in BOOLEAN
      /\ gap(n + 1) <=> gap(n)
      /\ doubt(n + 1) <=> doubt(n) \/ rows[n + 1].suspect
  <2>1. i \in Nat /\ i <= n + 1
    BY <1>1
  <2>2. /\ \A k \in i..(n + 1) : k \in i..n \/ k = n + 1
        /\ \A k \in i..n : k \in i..(n + 1)
        /\ n + 1 \in i..(n + 1)
    BY <2>1, OneMore
  <2> QED
    BY <2>2
<1>5. Stay(rows, i) = [start |-> i, end |-> n + 1, gap |-> gap(n + 1), suspect |-> doubt(n + 1)]
  <2> DEFINE last == IF LeavesAt(rows, i) = 0 THEN Len(rows) ELSE LeavesAt(rows, i)
  <2>1. Stay(rows, i) = [start |-> i, end |-> LeavesAt(rows, i),
                         gap |-> gap(last), suspect |-> doubt(last)]
    BY DEF Stay
  <2>2. last = n + 1
    BY <1>3
  <2> HIDE DEF gap, doubt, last
  <2> QED
    BY <1>3, <2>1, <2>2
<1>6. Stay(rows, i) = [start |-> i, end |-> n + 1, gap |-> gap(n),
                       suspect |-> doubt(n) \/ rows[n + 1].suspect]
  <2> HIDE DEF gap, doubt
  <2> QED
    BY <1>4, <1>5
<1> QED
  BY <1>6

\* A row more is derived right.
LEMMA DeriveStep ==
  ASSUME NEW rows, AreRows(rows), NEW n \in Nat, n + 1 <= Len(rows), NEW acc,
         Derived(rows, n, acc)
  PROVE  Derived(rows, n + 1, Derive(acc, rows[n + 1]))
<1> DEFINE row == rows[n + 1]
           next == Derive(acc, row)
           moved == [row |-> n + 1, current |-> acc.current, sessions |-> acc.sessions]
<1>0. SUFFICES Derived(rows, n + 1, next)
  OBVIOUS
<1>1. row.state \in States /\ row.suspect \in BOOLEAN
  BY DEF AreRows
<1>2. acc = [row |-> n, current |-> acc.current, sessions |-> acc.sessions]
  BY DEF Derived
<1>3. [acc EXCEPT !.row = @ + 1] = moved
  BY <1>2
<1>4. acc.sessions \in Seq(SessionRows) /\ AreStays(acc.sessions, rows, Ended(rows, n))
  BY DEF Derived
<1>5. CASE acc.current = NoSession /\ NobodyIsThere(rows, n)
  <2>1. acc.current.start = 0
    BY <1>5 DEF NoSession
  <2>2. Ended(rows, n + 1) = Ended(rows, n)
    BY <1>5, EndedStay
  <2>3. CASE row.state = "OCCUPIED"
    <3>1. next = [row |-> n + 1,
                  current |-> [start |-> n + 1, end |-> 0, gap |-> FALSE,
                               suspect |-> row.suspect],
                  sessions |-> acc.sessions]
      BY <1>3, <2>1, <2>3 DEF Derive, Opened, NoSession
    <3>2. StaysSince(rows, n + 1, n + 1)
      <4>1. Opens(rows, n + 1)
        <5>1. (n + 1) - 1 = n
          OBVIOUS
        <5> QED
          BY <1>5, <2>3, <5>1 DEF Opens, NobodyIsThere
      <4> QED
        BY <4>1 DEF StaysSince
    <3>3. StayUpTo(rows, n + 1, n + 1) = next.current
      <4>1. (n + 1)..(n + 1) = {n + 1}
        OBVIOUS
      <4> DEFINE gap == \E k \in (n + 1)..(n + 1) : rows[k].state = "UNKNOWN"
                 doubt == \E k \in (n + 1)..(n + 1) : rows[k].suspect
      <4>2. /\ gap \in BOOLEAN /\ (gap <=> FALSE)
            /\ doubt \in BOOLEAN /\ (doubt <=> row.suspect)
        BY <2>3, <4>1
      <4>3. StayUpTo(rows, n + 1, n + 1)
              = [start |-> n + 1, end |-> 0, gap |-> gap, suspect |-> doubt]
        BY DEF StayUpTo
      <4> HIDE DEF gap, doubt, next
      <4> QED
        BY <1>1, <3>1, <4>2, <4>3
    <3> HIDE DEF next
    <3>4. n + 1 \in 1..(n + 1)
      OBVIOUS
    <3> QED
      BY <1>4, <2>2, <3>1, <3>2, <3>3, <3>4 DEF Derived
  <2>4. CASE row.state # "OCCUPIED"
    <3>1. next = moved
      BY <1>3, <2>1, <2>4 DEF Derive
    <3>2. NobodyIsThere(rows, n + 1)
      <4> SUFFICES ASSUME NEW j \in 1..(n + 1), rows[j].state = "OCCUPIED"
                   PROVE  \E k \in (j + 1)..(n + 1) : rows[k].state = "FREE"
        BY DEF NobodyIsThere
      <4>1. j \in 1..n
        BY <2>4
      <4>2. PICK k \in (j + 1)..n : rows[k].state = "FREE"
        BY <1>5, <4>1 DEF NobodyIsThere
      <4> QED
        BY <4>2
    <3> HIDE DEF next
    <3> QED
      BY <1>4, <1>5, <2>2, <3>1, <3>2 DEF Derived
  <2> QED
    BY <2>3, <2>4
<1>6. ASSUME NEW i \in 1..n, StaysSince(rows, i, n), acc.current = StayUpTo(rows, i, n)
      PROVE  Derived(rows, n + 1, next)
  <2> DEFINE gap == \E k \in i..n : rows[k].state = "UNKNOWN"
             doubt == \E k \in i..n : rows[k].suspect
  <2>1. acc.current = [start |-> i, end |-> 0, gap |-> gap, suspect |-> doubt]
    BY <1>6 DEF StayUpTo
  <2>2. /\ gap \in BOOLEAN /\ doubt \in BOOLEAN /\ i \in Nat /\ i # 0
        /\ (\E k \in i..(n + 1) : rows[k].state = "UNKNOWN") <=> gap \/ row.state = "UNKNOWN"
        /\ (\E k \in i..(n + 1) : rows[k].suspect) <=> doubt \/ row.suspect
    <3>1. i \in Nat /\ i <= n + 1 /\ i # 0
      OBVIOUS
    <3>2. /\ \A k \in i..(n + 1) : k \in i..n \/ k = n + 1
          /\ \A k \in i..n : k \in i..(n + 1)
          /\ n + 1 \in i..(n + 1)
      BY <3>1, OneMore
    <3> QED
      BY <3>1, <3>2
  <2>3. StayUpTo(rows, i, n + 1)
          = [start |-> i, end |-> 0, gap |-> gap \/ row.state = "UNKNOWN",
             suspect |-> doubt \/ row.suspect]
    BY <2>2 DEF StayUpTo
  <2>4. Marked(moved, row)
          = [row |-> n + 1,
             current |-> [start |-> i, end |-> 0, gap |-> gap, suspect |-> doubt \/ row.suspect],
             sessions |-> acc.sessions]
    <3> HIDE DEF gap, doubt
    <3> QED
      BY <2>1 DEF Marked
  <2>5. acc.current.start # 0
    BY <2>1, <2>2
  <2>6. ASSUME row.state # "FREE",
               next = [row |-> n + 1, current |-> StayUpTo(rows, i, n + 1),
                       sessions |-> acc.sessions]
        PROVE  Derived(rows, n + 1, next)
    <3>1. Ended(rows, n + 1) = Ended(rows, n)
      BY <2>6, EndedStay
    <3>2. StaysSince(rows, i, n + 1) /\ i \in 1..(n + 1)
      BY <1>6, <2>6 DEF StaysSince
    <3> HIDE DEF next
    <3> QED
      BY <1>4, <2>6, <3>1, <3>2 DEF Derived
  <2>7. CASE row.state = "OCCUPIED"
    <3>1. next = Marked(moved, row)
      BY <1>3, <2>5, <2>7 DEF Derive, SeenAgain
    <3>2. gap \/ row.state = "UNKNOWN" <=> gap
      BY <2>7
    <3>3. next = [row |-> n + 1, current |-> StayUpTo(rows, i, n + 1), sessions |-> acc.sessions]
      <4> HIDE DEF gap, doubt, next
      <4> QED
        BY <2>2, <2>3, <2>4, <3>1, <3>2
    <3> QED
      BY <2>6, <2>7, <3>3
  <2>8. CASE row.state = "UNKNOWN"
    <3>1. next = [Marked(moved, row) EXCEPT !.current.gap = TRUE]
      BY <1>3, <2>5, <2>8 DEF Derive
    <3> DEFINE marked == TRUE
    <3>2. marked \in BOOLEAN /\ (gap \/ row.state = "UNKNOWN" <=> marked)
      BY <2>8
    <3>3. next = [Marked(moved, row) EXCEPT !.current.gap = marked]
      BY <3>1
    <3>4. next = [row |-> n + 1, current |-> StayUpTo(rows, i, n + 1), sessions |-> acc.sessions]
      <4> HIDE DEF gap, doubt, next, marked
      <4>1. StayUpTo(rows, i, n + 1)
              = [start |-> i, end |-> 0, gap |-> marked, suspect |-> doubt \/ row.suspect]
        BY <2>2, <2>3, <3>2
      <4>2. next = [row |-> n + 1,
                    current |-> [start |-> i, end |-> 0, gap |-> marked,
                                 suspect |-> doubt \/ row.suspect],
                    sessions |-> acc.sessions]
        BY <2>4, <3>3
      <4> QED
        BY <4>1, <4>2
    <3> QED
      BY <2>6, <2>8, <3>4
  <2>9. CASE row.state = "FREE"
    <3>1. next = Closed(moved, row)
      BY <1>3, <2>5, <2>9 DEF Derive
    <3>2. Stay(rows, i) = [start |-> i, end |-> n + 1, gap |-> gap,
                           suspect |-> doubt \/ row.suspect]
      BY <1>6, <2>9, StayEnds
    <3>3. next = [row |-> n + 1, current |-> NoSession,
                  sessions |-> Append(acc.sessions, Stay(rows, i))]
      <4> HIDE DEF gap, doubt, next
      <4>1. [Marked(moved, row).current EXCEPT !.end = n + 1] = Stay(rows, i)
        BY <2>4, <3>2
      <4> QED
        BY <3>1, <4>1 DEF Closed
    <3>4. Ended(rows, n + 1) = Ended(rows, n) \cup {i} /\ i \notin Ended(rows, n)
      BY <1>6, <2>9, EndedGrows
    <3>5. Stay(rows, i) \in SessionRows
      <4> HIDE DEF gap, doubt
      <4> QED
        BY <1>1, <2>2, <3>2 DEF SessionRows
    <3>6. /\ Append(acc.sessions, Stay(rows, i)) \in Seq(SessionRows)
          /\ AreStays(Append(acc.sessions, Stay(rows, i)), rows, Ended(rows, n + 1))
      BY <1>4, <3>4, <3>5, EndedIsFinite, StaysGrow
    <3>7. NobodyIsThere(rows, n + 1)
      <4> SUFFICES ASSUME NEW j \in 1..(n + 1), rows[j].state = "OCCUPIED"
                   PROVE  \E k \in (j + 1)..(n + 1) : rows[k].state = "FREE"
        BY DEF NobodyIsThere
      <4>1. n + 1 \in (j + 1)..(n + 1)
        BY <2>9
      <4> QED
        BY <2>9, <4>1
    <3> HIDE DEF next
    <3> QED
      BY <3>3, <3>6, <3>7 DEF Derived
  <2> QED
    BY <1>1, <2>7, <2>8, <2>9 DEF States
<1> QED
  BY <1>5, <1>6 DEF Derived

\* The sessions that are derived from a bay's rows are the stays they tell of.
LEMMA SessionsTellStays ==
  ASSUME NEW rows, AreRows(rows)
  PROVE  AreStays(DeriveSessions(rows), rows, {i \in DOMAIN rows : Opens(rows, i)})
<1> DEFINE N == Len(rows)
           first == [row |-> 0, current |-> NoSession, sessions |-> << >>]
           IsRun(f, m) == f = [n \in 0..m |-> IF n = 0 THEN first ELSE Derive(f[n - 1], rows[n])]
           f == CHOOSE g : IsRun(g, N)
           acc == f[N]
<1>1. N \in Nat /\ DOMAIN rows = 1..N
  BY DEF AreRows
<1>2. DeriveSessions(rows)
        = IF acc.current.start = 0 THEN acc.sessions ELSE Append(acc.sessions, acc.current)
  BY DEF DeriveSessions
<1>3. \A m \in Nat : \E g : IsRun(g, m)
  <2> DEFINE T == {m \in Nat : \E g : IsRun(g, m)}
  <2>1. 0 \in T
    <3>1. IsRun([n \in 0..0 |-> first], 0)
      OBVIOUS
    <3> QED
      BY <3>1
  <2>2. ASSUME NEW m \in T
        PROVE  m + 1 \in T
    <3>1. PICK g : IsRun(g, m)
      OBVIOUS
    <3> DEFINE h == [n \in 0..(m + 1) |-> IF n = m + 1 THEN Derive(g[m], rows[n]) ELSE g[n]]
    <3>2. \A n \in 0..(m + 1) : h[n] = IF n = 0 THEN first ELSE Derive(h[n - 1], rows[n])
      <4> SUFFICES ASSUME NEW n \in 0..(m + 1)
                   PROVE  h[n] = IF n = 0 THEN first ELSE Derive(h[n - 1], rows[n])
        OBVIOUS
      <4> HIDE DEF first
      <4>1. CASE n = m + 1
        <5>1. n - 1 = m /\ n - 1 \in 0..(m + 1) /\ n - 1 # m + 1 /\ n # 0
          BY <4>1
        <5> QED
          BY <4>1, <5>1
      <4>2. CASE n # m + 1 /\ n # 0
        <5>1. n \in 0..m /\ n - 1 \in 0..(m + 1) /\ n - 1 # m + 1
          BY <4>2
        <5> QED
          BY <3>1, <4>2, <5>1
      <4>3. CASE n = 0
        <5>1. n \in 0..m /\ n # m + 1
          BY <4>3
        <5> QED
          BY <3>1, <4>3, <5>1
      <4> QED
        BY <4>1, <4>2, <4>3
    <3>3. IsRun(h, m + 1)
      <4> HIDE DEF first
      <4> QED
        BY <3>2
    <3> HIDE DEF IsRun, h
    <3> QED
      BY <3>3
  <2> HIDE DEF T
  <2>3. \A m \in Nat : m \in T => m + 1 \in T
    BY <2>2
  <2>4. Nat \subseteq T
    BY <2>1, <2>3, NatSteps
  <2> HIDE DEF IsRun
  <2> QED
    BY <2>4 DEF T
<1>4. IsRun(f, N)
  <2> HIDE DEF IsRun, N
  <2> QED
    BY <1>1, <1>3
<1> HIDE DEF f
<1> DEFINE U == {n \in Nat : n <= N => Derived(rows, n, f[n])}
<1>5. 0 \in U
  <2>1. f[0] = first
    BY <1>1, <1>4
  <2>2. Ended(rows, 0) = {} /\ NobodyIsThere(rows, 0)
    BY DEF Ended, NobodyIsThere
  <2>3. AreStays(<< >>, rows, {})
    BY FS_EmptySet DEF AreStays, ToSet
  <2>4. Derived(rows, 0, first)
    BY <2>2, <2>3 DEF Derived
  <2> QED
    BY <2>1, <2>4
<1>6. ASSUME NEW n \in U
      PROVE  n + 1 \in U
  <2> SUFFICES ASSUME n + 1 <= N PROVE Derived(rows, n + 1, f[n + 1])
    OBVIOUS
  <2>1. n \in Nat /\ n <= N /\ n + 1 \in 0..N /\ n + 1 # 0 /\ (n + 1) - 1 = n
    BY <1>1
  <2>2. f[n + 1] = Derive(f[n], rows[n + 1])
    <3> HIDE DEF first, N
    <3> QED
      BY <1>4, <2>1
  <2>3. Derived(rows, n, f[n])
    BY <1>6, <2>1
  <2> QED
    BY <2>1, <2>2, <2>3, DeriveStep
<1>7. Derived(rows, N, acc)
  <2> HIDE DEF U
  <2>1. \A n \in Nat : n \in U => n + 1 \in U
    BY <1>6
  <2>2. Nat \subseteq U
    BY <1>5, <2>1, NatSteps
  <2> HIDE DEF N
  <2> QED
    BY <1>1, <2>2 DEF U
<1> HIDE DEF acc
<1> DEFINE arrivals == {i \in DOMAIN rows : Opens(rows, i)}
<1>8. CASE acc.current = NoSession /\ NobodyIsThere(rows, N)
  <2>1. Ended(rows, N) = arrivals
    BY <1>1, <1>8 DEF Ended, NobodyIsThere, Opens
  <2>2. DeriveSessions(rows) = acc.sessions
    BY <1>2, <1>8 DEF NoSession
  <2> QED
    BY <1>7, <2>1, <2>2 DEF Derived
<1>9. ASSUME NEW i \in 1..N, StaysSince(rows, i, N), acc.current = StayUpTo(rows, i, N)
      PROVE  AreStays(DeriveSessions(rows), rows, arrivals)
  <2>1. Opens(rows, i) /\ \A k \in (i + 1)..N : rows[k].state # "FREE"
    BY <1>9 DEF StaysSince
  <2>2. acc.current = Stay(rows, i) /\ Stay(rows, i) \in SessionRows /\ acc.current.start # 0
    <3>1. LeavesAt(rows, i) = 0
      BY <2>1 DEF LeavesAt
    <3>2. Stay(rows, i) = StayUpTo(rows, i, N)
      BY <3>1 DEF Stay, StayUpTo
    <3>3. StayUpTo(rows, i, N) \in SessionRows
      BY DEF StayUpTo, SessionRows
    <3>4. StayUpTo(rows, i, N).start = i /\ i # 0
      BY <1>1 DEF StayUpTo
    <3> QED
      BY <1>9, <3>2, <3>3, <3>4
  <2>3. i \notin Ended(rows, N) /\ Ended(rows, N) \cup {i} = arrivals
    <3>1. i \notin Ended(rows, N)
      BY <2>1 DEF Ended
    <3>2. Ended(rows, N) \cup {i} \subseteq arrivals
      BY <1>1, <2>1 DEF Ended
    <3>3. ASSUME NEW j \in arrivals, j # i
          PROVE  j \in Ended(rows, N)
      <4>1. j \in 1..N /\ Opens(rows, j)
        BY <1>1
      <4>2. CASE j < i
        <5>1. j \in 1..(i - 1) /\ rows[j].state = "OCCUPIED"
          BY <1>1, <4>1, <4>2 DEF Opens
        <5>2. PICK m \in (j + 1)..(i - 1) : rows[m].state = "FREE"
          BY <2>1, <5>1 DEF Opens
        <5>3. m \in (j + 1)..N
          BY <1>1, <5>2
        <5> QED
          BY <4>1, <5>2, <5>3 DEF Ended
      <4>3. CASE i < j
        <5>1. i \in 1..(j - 1) /\ rows[i].state = "OCCUPIED"
          BY <1>1, <2>1, <4>1, <4>3 DEF Opens
        <5>2. PICK m \in (i + 1)..(j - 1) : rows[m].state = "FREE"
          BY <4>1, <5>1 DEF Opens
        <5> QED
          BY <1>1, <2>1, <4>1, <5>2
      <4> QED
        BY <1>1, <3>3, <4>1, <4>2, <4>3
    <3> QED
      BY <3>1, <3>2, <3>3
  <2>4. DeriveSessions(rows) = Append(acc.sessions, Stay(rows, i))
    BY <1>2, <2>2
  <2>5. acc.sessions \in Seq(SessionRows) /\ AreStays(acc.sessions, rows, Ended(rows, N))
    BY <1>7 DEF Derived
  <2> HIDE DEF N, arrivals
  <2> QED
    BY <1>1, <2>2, <2>3, <2>4, <2>5, EndedIsFinite, StaysGrow
<1> QED
  BY <1>7, <1>8, <1>9 DEF Derived

BayRows == [state : Resolved, age : 0..Oldest, suspect : BOOLEAN]

BayInv == history \in Seq(BayRows)

LEMMA BayKeeps ==
  ASSUME ClockInv, BayInv, [Next]_vars
  PROVE  BayInv'
<1>1. ASSUME NEW state \in Resolved, Persists(state)
      PROVE  BayInv'
  <2> DEFINE row == [state |-> state, age |-> 0, suspect |-> suspect]
             earlier == {i \in DOMAIN history : history[i].suspect \/ ~row.suspect}
  <2>1. row \in BayRows
    BY OldestIsPositive DEF BayRows, ClockInv
  <2>2. history' = Picked(history, earlier) \o <<row>> \o Picked(history, DOMAIN history \ earlier)
    BY <1>1 DEF Persists, Inserted
  <2> HIDE DEF row, earlier
  <2>3. /\ Picked(history, earlier) \in Seq(BayRows)
        /\ Picked(history, DOMAIN history \ earlier) \in Seq(BayRows)
    BY PickedIsPick DEF BayInv
  <2>4. <<row>> \in Seq(BayRows)
    BY <2>1
  <2> QED
    BY <2>2, <2>3, <2>4 DEF BayInv
<1>2. ASSUME NEW window, history' = HistoryKept(window)
      PROVE  BayInv'
  BY <1>2, PickedIsPick DEF HistoryKept, BayInv
<1>3. CASE Tick
  <2>1. history' = [i \in DOMAIN history |-> Older(history[i])]
    BY <1>3 DEF Tick, BayOlder
  <2>2. \A row \in BayRows : Older(row) \in BayRows
    BY OldestIsPositive DEF Older, BayRows
  <2> QED
    BY <2>1, <2>2 DEF BayInv
<1>4. CASE UNCHANGED history
  BY <1>4 DEF BayInv
<1>5. \/ \E state \in Resolved : Persists(state)
      \/ \E window \in Windows : history' = HistoryKept(window)
      \/ Tick \/ UNCHANGED history
  BY DEF Next, vars, bayVars, BayChanges, LosesChange, LoopRestarts, LoopIsBuilt, DiskChanges,
         JobRaises, GuardAcknowledges, PurgesHistory, PurgesAlerts, PowerCut, ClockSetRight,
         FallsQuiet, WritesBackup, ReadsPlates, RunsProcess
<1> QED
  BY <1>1, <1>2, <1>3, <1>4, <1>5

LEMMA WindowsAreStays ==
  ASSUME BayInv
  PROVE  SessionsAreStays
<1> SUFFICES ASSUME NEW first \in 1..Len(history), NEW last \in first..Len(history)
             PROVE  LET rows == RangeOf(history, first, last)
                    IN  AreStays(DeriveSessions(rows), rows, {n \in DOMAIN rows : Opens(rows, n)})
  BY DEF SessionsAreStays, AreStays
<1> DEFINE rows == RangeOf(history, first, last)
<1>1. rows \in Seq(BayRows)
  <2>1. first \in Nat /\ last \in Nat /\ first >= 1 /\ last <= Len(history)
    BY DEF BayInv
  <2>2. \A i \in first..last : history[i] \in BayRows
    BY <2>1 DEF BayInv
  <2> QED
    BY <2>1, <2>2 DEF RangeOf, BayInv
<1> HIDE DEF rows
<1>2. \A i \in DOMAIN rows : rows[i] \in BayRows
  BY <1>1
<1>3. AreRows(rows)
  BY <1>1, <1>2 DEF AreRows, BayRows, Resolved, States
<1> QED
  BY <1>3, SessionsTellStays DEF rows

-----------------------------------------------------------------------------
(* Theorems about Operations *)

OperationsInv == ClockInv /\ AlertInv /\ BayInv /\ BackupInv /\ PlateInv /\ ProcessInv

LEMMA OperationsStart == Init => OperationsInv
<1> SUFFICES ASSUME Init PROVE OperationsInv
  OBVIOUS
<1>1. ClockInv
  BY DEF Init, ClockInit, ClockInv
<1>2. AlertInv
  BY DEF Init, AlertInit, AlertInv
<1>3. BackupInv
  <2>1. files = << >> /\ alone = TRUE /\ hadGood = FALSE
        /\ writer = [w \in Writers |-> [at |-> "idle", suspect |-> FALSE]]
    BY DEF Init, BackupInit
  <2>2. BackupTypes
    <3>1. files \in Seq(FileRows)
      BY <2>1
    <3>2. [at |-> "idle", suspect |-> FALSE]
            \in [at : {"idle", "copying", "verifying", "rotating"}, suspect : BOOLEAN]
      OBVIOUS
    <3> QED
      BY <2>1, <3>1, <3>2, Zenon DEF BackupTypes
  <2>3. GoodIsSafe
    BY <2>1 DEF GoodIsSafe
  <2>4. \A w \in Writers : writer[w].at = "idle"
    BY <2>1
  <2>5. WriterHasLatest
    BY <2>1, <2>4 DEF WriterHasLatest
  <2> QED
    BY <2>2, <2>3, <2>5 DEF BackupInv
<1>4. PlateInv
  <2>1. detector = Idle /\ reads = << >> /\ parked = Empty
    BY DEF Init, PlateInit
  <2> QED
    BY <2>1 DEF PlateInv, Idle, Sides, Ats
<1>5. ProcessInv
  <2>1. /\ phase = "serving" /\ dbPool = << >> /\ model = << >> /\ unwritten = {}
        /\ loop = [c \in Loops |-> "looping"] /\ detection = [c \in Loops |-> "none"]
    BY DEF Init, ProcessInit
  <2> QED
    BY <2>1 DEF ProcessInv, LoopStates, DetectionStates, AfterLoops
<1>6. BayInv
  BY DEF Init, BayInit, BayInv
<1> QED
  BY <1>1, <1>2, <1>3, <1>4, <1>5, <1>6 DEF OperationsInv

LEMMA OperationsKeep == OperationsInv /\ [Next]_vars => OperationsInv'
<1> SUFFICES ASSUME OperationsInv, [Next]_vars PROVE OperationsInv'
  OBVIOUS
<1>1. ClockInv'
  BY ClockKeeps DEF OperationsInv
<1>2. AlertInv'
  BY AlertsKeep DEF OperationsInv
<1>3. BackupInv'
  BY <1>1, BackupsKeep DEF OperationsInv
<1>4. PlateInv'
  BY PlatesKeep DEF OperationsInv
<1>5. ProcessInv'
  BY ProcessKeeps DEF OperationsInv
<1>6. BayInv'
  BY BayKeeps DEF OperationsInv
<1> QED
  BY <1>1, <1>2, <1>3, <1>4, <1>5, <1>6 DEF OperationsInv

THEOREM OperationsInductive == Spec => []OperationsInv
<1> QED
  BY OperationsStart, OperationsKeep, PTL DEF Spec

\* A key never has two open alerts (alert_service.py, create_deduplicated): only the latest
\* may be open, for the rows are in the order in which they were raised, whatever the
\* clock says.
THEOREM OneAlertIsOpen == Spec => []OneOpenAlert
<1>1. OperationsInv => OneOpenAlert
  BY DEF OperationsInv, AlertInv, OneOpenAlert
<1> QED
  BY <1>1, OperationsInductive, PTL

\* In every window asked for, the sessions are the stays its rows tell of, each once and
\* marked when a row of it is doubtful (session_derivation_service.py): after each row
\* _derive_for_one_slot knows who is there, and has derived the stays that are over.
THEOREM SessionsTellOfStays == Spec => []SessionsAreStays
<1>1. OperationsInv => SessionsAreStays
  BY WindowsAreStays DEF OperationsInv
<1> QED
  BY <1>1, OperationsInductive, PTL

\* Once a backup has passed its check, one that is whole stays (backup_service.py,
\* create_backup_and_audit), for the rotation counts the new one, which comes last, and
\* keeps at least one.
THEOREM BackupRemains == Spec => []GoodBackupRemains
<1>1. OperationsInv => GoodBackupRemains
  BY DEF OperationsInv, BackupInv, GoodIsSafe, GoodBackupRemains
<1> QED
  BY <1>1, OperationsInductive, PTL

\* A plate read since the bay last changed is the one that is answered with
\* (plate_search_service.py), and it was read from the car the bay was found occupied by
\* (plate_capture.py).
THEOREM PlateIsOfTheCar == Spec => []FreshReadIsOfTheCar
<1>1. OperationsInv => FreshReadIsOfTheCar
  BY FreshReadIsFound DEF OperationsInv
<1> QED
  BY <1>1, OperationsInductive, PTL

\* No detection is in flight when the contexts are closed, and every change a tracker knows
\* is written before the engine is disposed of, save those of loops that were cancelled
\* while they drained (lifespan.py): what StopIsOrderly says of safety.
THEOREM StopLosesNothing == Spec => [](LoopsEndFirst /\ ChangesAreWritten)
<1>1. OperationsInv => LoopsEndFirst /\ ChangesAreWritten
  BY ShutdownIsInOrder DEF OperationsInv
<1> QED
  BY <1>1, OperationsInductive, PTL

-----------------------------------------------------------------------------
(* The hours that are aggregated: HourlyStatistics *)

\* Times and hours are natural numbers, and some hour bounds those in use.
HoursAreSane ==
  /\ clock \in Nat
  /\ latest \in Nat
  /\ \A r \in recorded : r.at \in Nat
  /\ Aggregated \subseteq Nat
  /\ left \subseteq Nat
  /\ rebuilt \subseteq Nat
  /\ \E m \in Nat : \A h \in Aggregated \cup left : h <= m

\* The hours a run has yet to do were never done, save by command.
LeftIsNew == left \cap (Aggregated \ rebuilt) = {}

\* ... they are consecutive ...
LeftIsContiguous == \A g, h \in left : \A k \in g..h : k \in left

\* ... and as long as no hour was computed by command they come after the hours done,
\* with no plausible hour missed in between.
LeftFollowsDone ==
  rebuilt = {} =>
    /\ \A g \in Aggregated, h \in left : g < h
    /\ \A g \in Aggregated, h \in Aggregated \cup left :
         \A k \in g..h : k >= FirstPlausible => k \in Aggregated \cup left

StatisticsInv == HoursAreSane /\ LeftIsNew /\ LeftIsContiguous /\ LeftFollowsDone

-----------------------------------------------------------------------------
(* Hours *)

\* A tick is in an hour.
LEMMA HourIsNat ==
  ASSUME NEW t \in Nat
  PROVE  Hour(t) \in Nat
BY StatisticsBounds DEF Hour

-----------------------------------------------------------------------------
(* What its operators give *)

\* The hour that is next is the least one left.
LEMMA NextIsLeast ==
  ASSUME left \subseteq Nat, left # {}
  PROVE  NextLeft \in left /\ \A h \in left : NextLeft <= h
<1>1. \E x \in left : \A y \in left : x <= y
  BY LeastExists
<1> QED BY <1>1 DEF NextLeft

\* Pending hours follow every hour done, without a gap.
LEMMA PendingFollowDone ==
  ASSUME HoursAreSane
  PROVE  /\ HoursPending \subseteq Nat
         /\ \E m \in Nat : \A h \in HoursPending : h <= m
         /\ \A g, h \in HoursPending : \A k \in g..h : k \in HoursPending
         /\ \A g \in Aggregated, h \in HoursPending : g < h
         /\ \A h \in HoursPending, k \in Nat :
              k <= h /\ k \notin HoursPending /\ Aggregated # {}
                => \E g \in Aggregated : k <= g
<1>1. CASE Aggregated = {} /\ recorded = {}
  BY <1>1 DEF HoursPending
<1>2. CASE Aggregated # {}
  <2> DEFINE last == CHOOSE h \in Aggregated : \A g \in Aggregated : g <= h
  <2>1. \E x \in Aggregated : \A y \in Aggregated : y <= x
    <3>1. PICK m \in Nat : \A h \in Aggregated : h <= m
      BY DEF HoursAreSane
    <3> QED BY <1>2, <3>1, GreatestExists DEF HoursAreSane
  <2>2. last \in Aggregated /\ \A g \in Aggregated : g <= last
    BY <2>1
  <2>3. FirstPending = last + 1
    BY <1>2 DEF FirstPending
  <2>4. last \in Nat /\ Hour(clock) \in Nat /\ Aggregated \subseteq Nat
    BY <2>2, HourIsNat DEF HoursAreSane
  <2>5. HoursPending = {h \in last + 1 .. Hour(clock) - 1 : h < last + 1 + HoursPerRun}
    BY <1>2, <2>3 DEF HoursPending
  <2> HIDE DEF last
  <2>6. HoursPending \subseteq Nat /\ \A h \in HoursPending : h <= Hour(clock)
    BY <2>4, <2>5
  <2>7. \A g, h \in HoursPending : \A k \in g..h : k \in HoursPending
    BY <2>4, <2>5, StatisticsBounds
  <2>8. \A g \in Aggregated, h \in HoursPending : g < h
    BY <2>2, <2>4, <2>5
  <2>9. ASSUME NEW h \in HoursPending, NEW k \in Nat, k <= h, k \notin HoursPending
        PROVE  k <= last
    BY <2>4, <2>5, <2>9, StatisticsBounds
  <2> QED BY <2>2, <2>4, <2>6, <2>7, <2>8, <2>9
<1>3. CASE Aggregated = {} /\ recorded # {}
  <2> DEFINE first == CHOOSE r \in recorded : \A q \in recorded : r.at <= q.at
             times == {r.at : r \in recorded}
  <2>1. \E r \in recorded : \A q \in recorded : r.at <= q.at
    <3>1. times \subseteq Nat /\ times # {}
      BY <1>3 DEF HoursAreSane
    <3>2. PICK t \in times : \A u \in times : t <= u
      BY <3>1, LeastExists
    <3> QED BY <3>2
  <2>2. first \in recorded
    BY <2>1
  <2>3. Hour(first.at) \in Nat /\ Hour(clock) \in Nat
    BY <2>2, HourIsNat DEF HoursAreSane
  <2>4. HoursPending = {h \in Hour(first.at) .. Hour(clock) - 1 :
                          h < Hour(first.at) + HoursPerRun}
    BY <1>3 DEF HoursPending, FirstPending
  <2> HIDE DEF first
  <2>5. HoursPending \subseteq Nat /\ \A h \in HoursPending : h <= Hour(clock)
    BY <2>3, <2>4
  <2>6. \A g, h \in HoursPending : \A k \in g..h : k \in HoursPending
    BY <2>3, <2>4, StatisticsBounds
  <2> QED BY <1>3, <2>3, <2>5, <2>6
<1> QED BY <1>1, <1>2, <1>3

\* An hour is skipped, or it is added and no other changes.
LEMMA DoneOrSkipped ==
  ASSUME NEW h, AggregateOneHour(h)
  PROVE  \/ AllSuspect(h) /\ stats' = stats
         \/ /\ ~AllSuspect(h)
            /\ Aggregated' = Aggregated \cup {h}
            /\ \A g \in Aggregated : g # h => stats'[g] = stats[g]
BY DEF AggregateOneHour, Upsert, Aggregated

\* Only an hour of an implausible clock is skipped.
LEMMA SkippedIsSuspect ==
  ASSUME NEW h, AllSuspect(h)
  PROVE  h < FirstPlausible
BY DEF AllSuspect, EventsIn, Suspect

-----------------------------------------------------------------------------
(* Its invariant is inductive *)

LEMMA StatisticsStart == StatisticsInit => StatisticsInv
<1> SUFFICES ASSUME StatisticsInit PROVE StatisticsInv
  OBVIOUS
<1>1. clock = 0 /\ latest = 0 /\ recorded = {} /\ Aggregated = {} /\ left = {} /\ rebuilt = {}
  BY DEF StatisticsInit, Aggregated
<1> QED BY <1>1 DEF StatisticsInv, HoursAreSane, LeftIsNew, LeftIsContiguous, LeftFollowsDone

\* A step that leaves the hours alone keeps what is said of them.
LEMMA HoursUntouched ==
  ASSUME StatisticsInv, UNCHANGED <<stats, left, rebuilt>>,
         clock' \in Nat, latest' \in Nat, \A r \in recorded' : r.at \in Nat
  PROVE  StatisticsInv'
BY DEF StatisticsInv, HoursAreSane, LeftIsNew, LeftIsContiguous, LeftFollowsDone, Aggregated

\* The run starts with the hours pending.
LEMMA RunStartsKeepsHours ==
  ASSUME StatisticsInv, RunStarts
  PROVE  StatisticsInv'
<1>1. /\ HoursAreSane /\ left = {} /\ left' = HoursPending
      /\ UNCHANGED <<clock, latest, recorded, stats, rebuilt>>
  BY DEF RunStarts, DatabaseThreadIsFree, StatisticsInv
<1>2. Aggregated' = Aggregated
  BY <1>1 DEF Aggregated
<1> DEFINE P == HoursPending
<1>3. /\ P \subseteq Nat
      /\ \E m \in Nat : \A h \in P : h <= m
      /\ \A g, h \in P : \A k \in g..h : k \in P
      /\ \A g \in Aggregated, h \in P : g < h
      /\ \A h \in P, k \in Nat : k <= h /\ k \notin P /\ Aggregated # {}
                                  => \E g \in Aggregated : k <= g
  BY <1>1, PendingFollowDone
<1>4. left' = P
  BY <1>1
<1> HIDE DEF P
<1>5. HoursAreSane'
  <2>1. PICK m \in Nat : \A h \in Aggregated : h <= m
    BY <1>1 DEF HoursAreSane
  <2>2. PICK n \in Nat : \A h \in P : h <= n
    BY <1>3
  <2>3. \A h \in Aggregated' \cup left' : h <= m + n
    BY <1>1, <1>2, <1>3, <1>4, <2>1, <2>2 DEF HoursAreSane
  <2>4. m + n \in Nat
    OBVIOUS
  <2> QED BY <1>1, <1>2, <1>3, <1>4, <2>3, <2>4 DEF HoursAreSane
<1>6. LeftIsNew'
  BY <1>1, <1>2, <1>3, <1>4 DEF LeftIsNew, HoursAreSane
<1>7. LeftIsContiguous'
  BY <1>3, <1>4 DEF LeftIsContiguous
<1>8. LeftFollowsDone'
  <2> SUFFICES ASSUME rebuilt = {}, NEW g \in Aggregated, NEW h \in Aggregated \cup P,
                      NEW k \in g..h, k >= FirstPlausible, k \notin P
               PROVE  k \in Aggregated
    BY <1>1, <1>2, <1>3, <1>4 DEF LeftFollowsDone
  <2>1. \A a \in Aggregated, b \in Aggregated : \A c \in a..b :
          c >= FirstPlausible => c \in Aggregated
    BY <1>1 DEF StatisticsInv, LeftFollowsDone
  <2>2. g \in Nat /\ h \in Nat /\ k \in Nat
    BY <1>1, <1>3 DEF HoursAreSane
  <2>3. \E b \in Aggregated : k <= b
    BY <1>3, <2>2
  <2>4. PICK b \in Aggregated : k \in g..b
    BY <1>1, <2>2, <2>3 DEF HoursAreSane
  <2> QED BY <2>1, <2>4
<1> QED BY <1>5, <1>6, <1>7, <1>8 DEF StatisticsInv

\* The next hour leaves the hours left and joins those done, or is skipped.
LEMMA HourIsDoneKeepsHours ==
  ASSUME StatisticsInv, HourIsDone
  PROVE  StatisticsInv'
<1> DEFINE n == NextLeft
<1>1. /\ n \in left
      /\ \A h \in left : n <= h
      /\ AggregateOneHour(n)
      /\ left' = left \ {n}
      /\ UNCHANGED <<clock, latest, recorded, rebuilt>>
  BY NextIsLeast DEF HourIsDone, StatisticsInv, HoursAreSane
<1>2. /\ Aggregated \subseteq Aggregated'
      /\ Aggregated' \subseteq Aggregated \cup {n}
      /\ n \in Aggregated' \/ n < FirstPlausible
  BY <1>1, DoneOrSkipped, SkippedIsSuspect DEF Aggregated
<1>3. Aggregated \subseteq Nat /\ left \subseteq Nat /\ n \in Nat
  BY <1>1 DEF StatisticsInv, HoursAreSane
<1> HIDE DEF n
<1>4. HoursAreSane'
  BY <1>1, <1>2, <1>3 DEF StatisticsInv, HoursAreSane
<1>5. LeftIsNew'
  BY <1>1, <1>2 DEF StatisticsInv, LeftIsNew
<1>6. LeftIsContiguous'
  BY <1>1, <1>3 DEF StatisticsInv, LeftIsContiguous
<1>7. LeftFollowsDone'
  <2> SUFFICES ASSUME rebuilt = {}
               PROVE  /\ \A g \in Aggregated', h \in left' : g < h
                      /\ \A g \in Aggregated', h \in Aggregated' \cup left' :
                           \A k \in g..h : k >= FirstPlausible => k \in Aggregated' \cup left'
    BY <1>1 DEF LeftFollowsDone
  <2>1. /\ \A g \in Aggregated, h \in left : g < h
        /\ \A g \in Aggregated, h \in Aggregated \cup left :
             \A k \in g..h : k >= FirstPlausible => k \in Aggregated \cup left
    BY DEF StatisticsInv, LeftFollowsDone
  <2>2. \A g \in Aggregated', h \in left' : g < h
    BY <1>1, <1>2, <1>3, <2>1
  <2>3. ASSUME NEW g \in Aggregated', NEW h \in Aggregated' \cup left', NEW k \in g..h,
               k >= FirstPlausible
        PROVE  k \in Aggregated' \cup left'
    <3>1. Aggregated \cup left \subseteq Aggregated' \cup left' \cup {n}
      BY <1>1, <1>2
    <3>2. h \in Aggregated \cup left
      BY <1>1, <1>2
    <3>3. k \in Aggregated \cup left
      <4>1. CASE g \in Aggregated
        BY <2>1, <2>3, <3>2, <4>1
      <4>2. CASE g = n /\ h \in left
        BY <1>1, <2>3, <4>2 DEF StatisticsInv, LeftIsContiguous
      <4>3. CASE g = n /\ h \in Aggregated
        \* Then h is before n, and nothing is in between.
        BY <1>1, <1>3, <2>1, <4>3
      <4> QED BY <1>2, <3>2, <4>1, <4>2, <4>3
    <3>4. k = n => k \in Aggregated'
      BY <1>2, <1>3, <2>3, StatisticsBounds
    <3> QED BY <3>1, <3>3, <3>4
  <2> QED BY <2>2, <2>3
<1> QED BY <1>4, <1>5, <1>6, <1>7 DEF StatisticsInv

\* An hour computed by command is marked as such.
LEMMA RebuildKeepsHours ==
  ASSUME StatisticsInv, NEW n \in Hours, Rebuild(n)
  PROVE  StatisticsInv'
<1>1. /\ AggregateOneHour(n)
      /\ rebuilt' = IF AllSuspect(n) THEN rebuilt ELSE rebuilt \cup {n}
      /\ UNCHANGED <<clock, latest, recorded, left>>
      /\ n \in Nat
  BY DEF Rebuild, Hours
<1>2. CASE AllSuspect(n)
  <2>1. UNCHANGED <<stats, left, rebuilt, clock, latest, recorded>>
    BY <1>1, <1>2, DoneOrSkipped
  <2> QED BY <2>1, HoursUntouched DEF StatisticsInv, HoursAreSane
<1>3. CASE ~AllSuspect(n)
  <2>1. rebuilt' = rebuilt \cup {n} /\ Aggregated' = Aggregated \cup {n}
    BY <1>1, <1>3, DoneOrSkipped
  <2>2. HoursAreSane'
    <3>1. PICK m \in Nat : \A h \in Aggregated \cup left : h <= m
      BY DEF StatisticsInv, HoursAreSane
    <3>2. \A h \in Aggregated' \cup left' : h <= m + n
      BY <1>1, <2>1, <3>1 DEF StatisticsInv, HoursAreSane
    <3>3. m + n \in Nat
      BY <1>1
    <3> QED BY <1>1, <2>1, <3>2, <3>3 DEF StatisticsInv, HoursAreSane
  <2> QED BY <1>1, <2>1, <2>2 DEF StatisticsInv, LeftIsNew, LeftIsContiguous, LeftFollowsDone
<1> QED BY <1>2, <1>3

\* After a crash no hour is left, and those done are still without a gap.
LEMMA BootKeepsHours ==
  ASSUME StatisticsInv, Boot
  PROVE  StatisticsInv'
<1>1. left' = {} /\ clock' \in Nat /\ UNCHANGED <<latest, recorded, stats, rebuilt>>
  BY DEF Boot, StatisticsInv, HoursAreSane
<1>2. Aggregated' = Aggregated
  BY <1>1 DEF Aggregated
<1>3. LeftFollowsDone'
  BY <1>1, <1>2 DEF StatisticsInv, HoursAreSane, LeftFollowsDone
<1> QED BY <1>1, <1>2, <1>3 DEF StatisticsInv, HoursAreSane, LeftIsNew, LeftIsContiguous

LEMMA StatisticsKeep == StatisticsInv /\ [StatisticsNext]_statisticsVars => StatisticsInv'
<1> SUFFICES ASSUME StatisticsInv, [StatisticsNext]_statisticsVars PROVE StatisticsInv'
  OBVIOUS
<1>0. clock \in Nat /\ latest \in Nat /\ \A r \in recorded : r.at \in Nat
  BY DEF StatisticsInv, HoursAreSane
<1>1. CASE ClockRuns
  BY <1>0, <1>1, HoursUntouched DEF ClockRuns
<1>2. CASE ClockIsSet
  <2>1. clock' \in Nat
    BY <1>2, StatisticsBounds DEF ClockIsSet, StatisticsInv, HoursAreSane
  <2> QED BY <1>0, <1>2, <2>1, HoursUntouched DEF ClockIsSet
<1>3. CASE Boot
  BY <1>3, BootKeepsHours
<1>4. ASSUME NEW s \in Slots, WriteRow(s)
      PROVE  StatisticsInv'
  <2>1. \A r \in recorded' : r \in recorded \/ r.at = clock
    BY <1>4 DEF WriteRow
  <2> QED BY <1>0, <1>4, <2>1, HoursUntouched DEF WriteRow
<1>5. CASE RunStarts
  BY <1>5, RunStartsKeepsHours
<1>6. CASE HourIsDone
  BY <1>6, HourIsDoneKeepsHours
<1>7. ASSUME NEW h \in Hours, Rebuild(h)
      PROVE  StatisticsInv'
  BY <1>7, RebuildKeepsHours
<1>8. CASE Purge
  <2>1. \A r \in recorded' : r \in recorded
    BY <1>8 DEF Purge, PurgeStarts, PurgeBatch, PurgeEnds
  <2>2. UNCHANGED <<stats, left, rebuilt, clock, latest>>
    BY <1>8 DEF Purge, PurgeStarts, PurgeBatch, PurgeEnds
  <2> QED BY <1>0, <2>1, <2>2, HoursUntouched
<1>9. CASE UNCHANGED statisticsVars
  BY <1>0, <1>9, HoursUntouched DEF statisticsVars
<1> QED BY <1>1, <1>2, <1>3, <1>4, <1>5, <1>6, <1>7, <1>8, <1>9 DEF StatisticsNext

THEOREM StatisticsInductive == StatisticsSpec => []StatisticsInv
<1> QED BY StatisticsStart, StatisticsKeep, PTL DEF StatisticsSpec

-----------------------------------------------------------------------------
(* Theorems about HourlyStatistics *)

\* Between two hours done every plausible hour is done, whatever crashes and run limits
\* cut short: hours_pending resumes right after the newest one.
THEOREM NoHourLeftOut == StatisticsSpec => []NoHourIsLeftOut
<1>1. StatisticsInv => NoHourIsLeftOut
  <2> SUFFICES ASSUME StatisticsInv, rebuilt = {}, NEW g \in Aggregated, NEW h \in Aggregated,
                      NEW k \in g..h, k >= FirstPlausible
               PROVE  k \in Aggregated
    BY DEF NoHourIsLeftOut
  <2>1. k \in Aggregated \cup left
    BY DEF StatisticsInv, LeftFollowsDone
  <2>2. k \notin left
    \* An hour left comes after h.
    BY DEF StatisticsInv, LeftFollowsDone, HoursAreSane
  <2> QED BY <2>1, <2>2
<1> QED BY <1>1, StatisticsInductive, PTL

\* No run of the job computes an hour that a run has done before (hours_pending,
\* aggregate_pending_hours).
THEOREM DoneOnce == StatisticsSpec => AggregatedOnce
<1> DEFINE A == \A h \in Aggregated \ rebuilt : stats'[h] = stats[h] \/ h \in rebuilt'
<1>1. StatisticsInv /\ [StatisticsNext]_statisticsVars => [A]_statisticsVars
  <2> SUFFICES ASSUME StatisticsInv, [StatisticsNext]_statisticsVars, NEW h \in Aggregated \ rebuilt
               PROVE  stats'[h] = stats[h] \/ h \in rebuilt'
    OBVIOUS
  <2>1. CASE HourIsDone
    <3>1. NextLeft # h
      BY <2>1, NextIsLeast DEF HourIsDone, StatisticsInv, HoursAreSane, LeftIsNew
    <3> QED BY <2>1, <3>1, DoneOrSkipped DEF HourIsDone
  <2>2. ASSUME NEW n \in Hours, Rebuild(n)
        PROVE  stats'[h] = stats[h] \/ h \in rebuilt'
    <3>1. AggregateOneHour(n) /\ (AllSuspect(n) \/ n \in rebuilt')
      BY <2>2 DEF Rebuild
    <3>2. AllSuspect(n) => stats' = stats
      BY <3>1, DoneOrSkipped
    <3>3. n # h => stats'[h] = stats[h]
      BY <3>1, DoneOrSkipped
    <3> QED BY <3>1, <3>2, <3>3
  <2>3. CASE stats' = stats
    BY <2>3
  <2>4. HourIsDone \/ (\E n \in Hours : Rebuild(n)) \/ stats' = stats
    BY DEF StatisticsNext, statisticsVars, ClockRuns, ClockIsSet, Boot, WriteRow, RunStarts,
           Purge, PurgeStarts, PurgeBatch, PurgeEnds
  <2> QED BY <2>1, <2>2, <2>3, <2>4
<1> QED BY <1>1, StatisticsInductive, PTL DEF StatisticsSpec, AggregatedOnce

-----------------------------------------------------------------------------
(* What an hour's sweep computes *)

\* Rows of a slot are at different times.
RowsSane(rows) ==
  \A r \in rows : /\ r.at \in Nat /\ r.slot \in Slots /\ r.new \in {"FREE", "OCCUPIED"}
                  /\ \A q \in rows : q.slot = r.slot /\ q.at = r.at => q = r

\* The row that says what the slot is at that time.
IsLatest(rows, s, t, r) ==
  /\ r \in rows /\ r.slot = s /\ r.at <= t
  /\ \A q \in rows : q.slot = s /\ q.at <= t => q.at <= r.at

LEMMA LatestIsOne ==
  ASSUME NEW rows, RowsSane(rows), NEW s, NEW t, NEW r, NEW q,
         IsLatest(rows, s, t, r), IsLatest(rows, s, t, q)
  PROVE  r = q
<1>1. r.at <= q.at /\ q.at <= r.at /\ r.at \in Nat /\ q.at \in Nat
  BY DEF IsLatest, RowsSane
<1>2. r.at = q.at
  BY <1>1
<1> QED
  BY <1>2 DEF IsLatest, RowsSane

LEMMA LatestExists ==
  ASSUME NEW rows, RowsSane(rows), NEW s, NEW t \in Int,
         NEW q \in rows, q.slot = s, q.at <= t
  PROVE  \E r \in rows : IsLatest(rows, s, t, r)
<1> DEFINE before == {r \in rows : r.slot = s /\ r.at <= t}
           times == {r.at : r \in before}
<1>1. times \subseteq Nat /\ times # {} /\ t \in Nat /\ \A n \in times : n <= t
  BY DEF RowsSane
<1>2. PICK n \in times : \A m \in times : m <= n
  <2> HIDE DEF times
  <2> QED
    BY <1>1, GreatestExists
<1>3. PICK r \in before : r.at = n
  BY <1>2
<1>4. \A p \in rows : p.slot = s /\ p.at <= t => p.at <= r.at
  BY <1>2, <1>3
<1> QED
  BY <1>3, <1>4 DEF IsLatest

LEMMA StateIs ==
  ASSUME NEW rows, RowsSane(rows), NEW s, NEW t, NEW r, IsLatest(rows, s, t, r)
  PROVE  StateAt(rows, s, t) = r.new
<1> DEFINE upTo == {q \in rows : q.slot = s /\ q.at <= t}
           c == CHOOSE p \in upTo : \A q \in upTo : q.at <= p.at
<1>1. r \in upTo /\ \A q \in upTo : q.at <= r.at
  BY DEF IsLatest
<1>2. c \in upTo /\ \A q \in upTo : q.at <= c.at
  <2> HIDE DEF upTo
  <2> QED
    BY <1>1
<1>3. StateAt(rows, s, t) = c.new
  BY <1>1 DEF StateAt
<1> HIDE DEF c
<1>4. IsLatest(rows, s, t, c)
  BY <1>2 DEF IsLatest
<1>5. c = r
  BY <1>4, LatestIsOne
<1> QED
  BY <1>3, <1>5

LEMMA StateUnknown ==
  ASSUME NEW rows, NEW s, NEW t, \A q \in rows : ~(q.slot = s /\ q.at <= t)
  PROVE  StateAt(rows, s, t) = "UNKNOWN"
<1>1. {q \in rows : q.slot = s /\ q.at <= t} = {}
  OBVIOUS
<1> QED
  BY <1>1 DEF StateAt

LEMMA StateIsState ==
  ASSUME NEW rows, RowsSane(rows), NEW s, NEW t \in Int
  PROVE  StateAt(rows, s, t) \in SlotStates
<1>1. CASE \E q \in rows : q.slot = s /\ q.at <= t
  <2>1. PICK r \in rows : IsLatest(rows, s, t, r)
    BY <1>1, LatestExists
  <2>2. StateAt(rows, s, t) = r.new /\ r.new \in {"FREE", "OCCUPIED"}
    BY <2>1, StateIs DEF RowsSane
  <2> QED
    BY <2>2 DEF SlotStates
<1>2. CASE ~\E q \in rows : q.slot = s /\ q.at <= t
  BY <1>2, StateUnknown DEF SlotStates
<1> QED
  BY <1>1, <1>2

\* Where the latest rows are the same, the state is.
LEMMA SameState ==
  ASSUME NEW rows, RowsSane(rows), NEW more, RowsSane(more), NEW s, NEW t \in Int, NEW u \in Int,
         \A r \in rows : IsLatest(rows, s, t, r) => IsLatest(more, s, u, r),
         \A r \in more : IsLatest(more, s, u, r) => IsLatest(rows, s, t, r)
  PROVE  StateAt(rows, s, t) = StateAt(more, s, u)
<1>1. CASE \E q \in rows : q.slot = s /\ q.at <= t
  <2>1. PICK r \in rows : IsLatest(rows, s, t, r)
    BY <1>1, LatestExists
  <2>2. IsLatest(more, s, u, r)
    BY <2>1
  <2> QED
    BY <2>1, <2>2, StateIs
<1>2. CASE ~\E q \in rows : q.slot = s /\ q.at <= t
  <2>1. ~\E q \in more : q.slot = s /\ q.at <= u
    <3> SUFFICES ASSUME NEW q \in more, q.slot = s, q.at <= u PROVE FALSE
      OBVIOUS
    <3>1. PICK r \in more : IsLatest(more, s, u, r)
      BY LatestExists
    <3>2. IsLatest(rows, s, t, r)
      BY <3>1
    <3> QED
      BY <1>2, <3>2 DEF IsLatest
  <2> QED
    BY <1>2, <2>1, StateUnknown
<1> QED
  BY <1>1, <1>2

\* An hour begins where the one before it ends.
LEMMA HoursFollow ==
  ASSUME NEW h \in Nat
  PROVE  /\ Start(h) \in Nat /\ Start(h + 1) \in Nat /\ Start(h) < Start(h + 1)
         /\ \A t \in Nat : Hour(t) \in Nat /\ (Hour(t) < h <=> t < Start(h))
<1> DEFINE n == TicksPerHour
<1>1. n \in Nat \ {0}
  BY StatisticsBounds
<1>2. Start(h) = h * n /\ Start(h + 1) = (h + 1) * n /\ \A t : Hour(t) = t \div n
  BY DEF Start, Hour
<1> HIDE DEF n
<1>3. (h + 1) * n = h * n + n /\ h * n \in Nat
  BY <1>1
<1>4. ASSUME NEW t \in Nat
      PROVE  Hour(t) \in Nat /\ (Hour(t) < h <=> t < Start(h))
  <2> DEFINE m == t \div n
  <2>1. m \in Nat /\ m * n <= t /\ t < m * n + n
    BY <1>1
  <2> HIDE DEF m
  <2>2. CASE m < h
    <3>1. PICK d \in Nat : h = m + 1 + d
      <4>1. h - (m + 1) \in Nat /\ h = m + 1 + (h - (m + 1))
        BY <2>1, <2>2
      <4> QED
        BY <4>1
    <3>2. h * n = m * n + n + d * n /\ d * n \in Nat /\ m * n \in Nat
      BY <1>1, <2>1, <3>1
    <3>3. t < h * n
      BY <1>1, <2>1, <3>2
    <3> QED
      BY <1>2, <2>1, <2>2, <3>3 DEF m
  <2>3. CASE ~(m < h)
    <3>1. PICK d \in Nat : m = h + d
      <4>1. m - h \in Nat /\ m = h + (m - h)
        BY <2>1, <2>3
      <4> QED
        BY <4>1
    <3>2. m * n = h * n + d * n /\ d * n \in Nat
      BY <1>1, <3>1
    <3>3. ~(t < h * n)
      BY <1>3, <2>1, <3>2
    <3> QED
      BY <1>2, <2>1, <2>3, <3>3 DEF m
  <2> QED
    BY <2>2, <2>3
<1> QED
  BY <1>1, <1>2, <1>3, <1>4

LEMMA EventsAre ==
  ASSUME NEW rows, RowsSane(rows), NEW h \in Nat
  PROVE  EventsIn(rows, h) = {r \in rows : Start(h) <= r.at /\ r.at < Start(h + 1)}
<1> SUFFICES ASSUME NEW r \in rows
             PROVE  Hour(r.at) = h <=> Start(h) <= r.at /\ r.at < Start(h + 1)
  BY DEF EventsIn
<1>1. r.at \in Nat
  BY DEF RowsSane
<1>2. /\ Hour(r.at) \in Nat /\ Start(h) \in Nat /\ Start(h + 1) \in Nat
      /\ Hour(r.at) < h <=> r.at < Start(h)
      /\ Hour(r.at) < h + 1 <=> r.at < Start(h + 1)
  <2>1. h + 1 \in Nat
    OBVIOUS
  <2> QED
    BY <1>1, <2>1, HoursFollow
<1> QED
  BY <1>1, <1>2

\* The ticks from one to another that the slot spends in each state.
Spent(rows, s, from, to) ==
  [x \in SlotStates |-> Cardinality({u \in from..to : StateAt(rows, s, u) = x})]

\* A stretch in one state adds to that one.
LEMMA SpentGrows ==
  ASSUME NEW rows, NEW s, NEW a \in Int, NEW c \in Int, NEW t \in Int, a <= c, c <= t,
         NEW state \in SlotStates, \A u \in c..(t - 1) : StateAt(rows, s, u) = state
  PROVE  Spent(rows, s, a, t - 1) = Add(Spent(rows, s, a, c - 1), state, t - c)
<1> DEFINE S(x) == {u \in a..(c - 1) : StateAt(rows, s, u) = x}
           T(x) == {u \in a..(t - 1) : StateAt(rows, s, u) = x}
           C == c..(t - 1)
<1>1. IsFiniteSet(C) /\ Cardinality(C) = t - c
  <2>1. t - 1 \in Int
    OBVIOUS
  <2>2. IsFiniteSet(C) /\ Cardinality(C) = IF c > t - 1 THEN 0 ELSE t - 1 - c + 1
    BY <2>1, FS_Interval
  <2> HIDE DEF C
  <2> QED
    BY <2>2
<1>2. ASSUME NEW x \in SlotStates
      PROVE  /\ IsFiniteSet(S(x)) /\ Cardinality(S(x)) \in Nat
             /\ Cardinality(T(x)) = IF x = state THEN Cardinality(S(x)) + (t - c)
                                    ELSE Cardinality(S(x))
  <2>1. IsFiniteSet(S(x)) /\ Cardinality(S(x)) \in Nat
    <3>1. IsFiniteSet(a..(c - 1)) /\ S(x) \subseteq a..(c - 1)
      BY FS_Interval
    <3> HIDE DEF S
    <3> QED
      BY <3>1, FS_Subset, FS_CardinalityType
  <2>2. CASE x = state
    <3>1. T(x) = S(x) \cup C /\ S(x) \cap C = {}
      BY <2>2
    <3> HIDE DEF S, T, C
    <3>2. /\ Cardinality(S(x) \cup C)
               = Cardinality(S(x)) + Cardinality(C) - Cardinality(S(x) \cap C)
          /\ Cardinality({}) = 0
      BY <1>1, <2>1, FS_Union, FS_EmptySet
    <3>3. Cardinality(T(x)) = Cardinality(S(x)) + Cardinality(C)
      BY <1>1, <2>1, <3>1, <3>2
    <3> QED
      BY <1>1, <2>1, <2>2, <3>3
  <2>3. CASE x # state
    <3>1. T(x) = S(x)
      BY <2>3
    <3> QED
      BY <2>1, <2>3, <3>1
  <2> QED
    BY <2>1, <2>2, <2>3
<1> DEFINE before == Spent(rows, s, a, c - 1)
           after == Spent(rows, s, a, t - 1)
<1>3. /\ before = [x \in SlotStates |-> Cardinality(S(x))]
      /\ after = [x \in SlotStates |-> Cardinality(T(x))]
  BY DEF Spent
<1> HIDE DEF S, T, before, after
<1>4. Add(before, state, t - c)
        = [x \in SlotStates |-> IF x = state THEN before[x] + (t - c) ELSE before[x]]
  BY <1>3 DEF Add
<1>5. after = Add(before, state, t - c)
  BY <1>2, <1>3, <1>4
<1> QED
  BY <1>5 DEF before, after

\* The events of a slot in an hour, up to a tick.
EventsUpTo(rows, h, s, t) == {r \in EventsIn(rows, h) : r.slot = s /\ r.at <= t}

SinceAt(rows, h, s, t) ==
  IF EventsUpTo(rows, h, s, t) = {} THEN Start(h)
  ELSE (CHOOSE r \in rows : IsLatest(rows, s, t, r)).at

\* What the sweep has seen of a slot by a tick.
SeenAt(rows, h, s, t) ==
  [state |-> StateAt(rows, s, t), since |-> SinceAt(rows, h, s, t),
   spent |-> Spent(rows, s, Start(h), SinceAt(rows, h, s, t) - 1)]

\* From its latest event on, or from the hour's start, a slot's state stays.
LEMMA SinceIsSteady ==
  ASSUME NEW rows, RowsSane(rows), NEW h \in Nat, NEW s,
         NEW t \in Int, Start(h) - 1 <= t, t < Start(h + 1)
  PROVE  /\ SinceAt(rows, h, s, t) \in Int /\ Start(h) <= SinceAt(rows, h, s, t)
         /\ SinceAt(rows, h, s, t) <= t + 1
         /\ \A u \in SinceAt(rows, h, s, t)..t : StateAt(rows, s, u) = StateAt(rows, s, t)
<1> DEFINE a == Start(h)
           E == EventsUpTo(rows, h, s, t)
<1>1. a \in Nat /\ Start(h + 1) \in Nat
  BY HoursFollow
<1>2. E = {r \in rows : r.slot = s /\ a <= r.at /\ r.at <= t}
  <2>1. \A r \in rows : r.at \in Nat
    BY DEF RowsSane
  <2> QED
    BY <1>1, <2>1, EventsAre DEF EventsUpTo
<1>3. CASE E = {}
  <2>1. SinceAt(rows, h, s, t) = a
    BY <1>3 DEF SinceAt
  <2>2. ASSUME NEW u \in a..t
        PROVE  StateAt(rows, s, u) = StateAt(rows, s, t)
    <3>1. \A q \in rows : q.slot = s => (q.at <= u <=> q.at <= t)
      BY <1>1, <1>2, <1>3, <2>2 DEF RowsSane
    <3>2. \A r \in rows : IsLatest(rows, s, u, r) <=> IsLatest(rows, s, t, r)
      BY <3>1 DEF IsLatest
    <3>3. u \in Int
      BY <1>1
    <3> QED
      BY <3>2, <3>3, SameState
  <2> HIDE DEF a
  <2> QED
    BY <1>1, <2>1, <2>2 DEF a
<1>4. CASE E # {}
  <2>1. PICK e \in rows : e.slot = s /\ a <= e.at /\ e.at <= t
    BY <1>2, <1>4
  <2> DEFINE c == CHOOSE r \in rows : IsLatest(rows, s, t, r)
  <2>2. c \in rows /\ IsLatest(rows, s, t, c)
    BY <2>1, LatestExists
  <2>3. SinceAt(rows, h, s, t) = c.at
    BY <1>4 DEF SinceAt
  <2> HIDE DEF c
  <2>4. c.at \in Nat /\ a <= c.at /\ c.at <= t
    BY <1>1, <2>1, <2>2 DEF IsLatest, RowsSane
  <2>5. ASSUME NEW u \in c.at..t
        PROVE  StateAt(rows, s, u) = StateAt(rows, s, t)
    <3>1. IsLatest(rows, s, u, c)
      BY <2>2, <2>4, <2>5 DEF IsLatest, RowsSane
    <3> QED
      BY <2>2, <3>1, StateIs
  <2> QED
    BY <2>3, <2>4, <2>5
<1> QED
  BY <1>3, <1>4
\* What the sweep makes of a tick, given what it has seen before.
SweepStep(rows, h, s, seen, t) ==
  IF t < Start(h)
  THEN [state |-> Seed(rows, h, s), since |-> Start(h),
        spent |-> [x \in SlotStates |-> 0]]
  ELSE LET events == {r \in EventsIn(rows, h) : r.slot = s /\ r.at = t}
       IN  IF events = {} THEN seen[t - 1]
           ELSE [state |-> (CHOOSE r \in events : TRUE).new, since |-> t,
                 spent |-> Add(seen[t - 1].spent, seen[t - 1].state,
                               t - seen[t - 1].since)]

\* Before the hour the sweep has its seed and nothing else.
LEMMA SeenFirst ==
  ASSUME NEW rows, RowsSane(rows), NEW h \in Nat, NEW s
  PROVE  SeenAt(rows, h, s, Start(h) - 1)
           = [state |-> Seed(rows, h, s), since |-> Start(h),
              spent |-> [x \in SlotStates |-> 0]]
<1> DEFINE a == Start(h)
<1>1. a \in Nat /\ \A r \in rows : r.at \in Nat
  BY HoursFollow DEF RowsSane
<1>2. StateAt(rows, s, a - 1) = Seed(rows, h, s)
  <2> DEFINE upTo == {r \in rows : r.slot = s /\ r.at <= a - 1}
             before == {r \in rows : r.slot = s /\ r.at < a}
             NewOf(R) == IF R = {} THEN "UNKNOWN"
                         ELSE (CHOOSE r \in R : \A q \in R : q.at <= r.at).new
  <2>1. upTo = before
    BY <1>1
  <2>2. StateAt(rows, s, a - 1) = NewOf(upTo) /\ Seed(rows, h, s) = NewOf(before)
    BY DEF StateAt, Seed
  <2> HIDE DEF upTo, before, NewOf
  <2> QED
    BY <2>1, <2>2
<1>3. SinceAt(rows, h, s, a - 1) = a
  <2>1. \A r \in EventsIn(rows, h) : r \in rows /\ r.at >= a
    BY EventsAre
  <2>2. EventsUpTo(rows, h, s, a - 1) = {}
    BY <1>1, <2>1 DEF EventsUpTo
  <2> QED
    BY <2>2 DEF SinceAt
<1>4. Spent(rows, s, a, a - 1) = [x \in SlotStates |-> 0]
  <2>1. \A x : {u \in a..(a - 1) : StateAt(rows, s, u) = x} = {}
    BY <1>1
  <2> QED
    BY <2>1, FS_EmptySet DEF Spent
<1> QED
  BY <1>2, <1>3, <1>4 DEF SeenAt

\* At a tick without an event of the slot nothing changes.
LEMMA SeenStays ==
  ASSUME NEW rows, RowsSane(rows), NEW h \in Nat, NEW s,
         NEW t \in Nat, Start(h) <= t, t < Start(h + 1),
         \A r \in rows : ~(r.slot = s /\ r.at = t)
  PROVE  SeenAt(rows, h, s, t) = SeenAt(rows, h, s, t - 1)
<1>1. \A r \in rows : r.slot = s => (r.at <= t <=> r.at <= t - 1)
  BY DEF RowsSane
<1>2. \A r : IsLatest(rows, s, t, r) <=> IsLatest(rows, s, t - 1, r)
  BY <1>1 DEF IsLatest
<1>3. StateAt(rows, s, t) = StateAt(rows, s, t - 1)
  <2>1. t - 1 \in Int
    OBVIOUS
  <2> QED
    BY <1>2, <2>1, SameState
<1>4. EventsUpTo(rows, h, s, t) = EventsUpTo(rows, h, s, t - 1)
  BY <1>1 DEF EventsUpTo, EventsIn
<1>5. SinceAt(rows, h, s, t) = SinceAt(rows, h, s, t - 1)
  <2>1. CASE EventsUpTo(rows, h, s, t) = {}
    BY <1>4, <2>1 DEF SinceAt
  <2>2. CASE EventsUpTo(rows, h, s, t) # {}
    <3>1. PICK e \in rows : e.slot = s /\ e.at <= t
      BY <2>2 DEF EventsUpTo, EventsIn
    <3>2. PICK r \in rows : IsLatest(rows, s, t, r)
      BY <3>1, LatestExists
    <3> DEFINE c == CHOOSE q \in rows : IsLatest(rows, s, t, q)
               d == CHOOSE q \in rows : IsLatest(rows, s, t - 1, q)
    <3>3. IsLatest(rows, s, t, c) /\ IsLatest(rows, s, t - 1, d)
      BY <1>2, <3>2
    <3>4. SinceAt(rows, h, s, t) = c.at /\ SinceAt(rows, h, s, t - 1) = d.at
      BY <1>4, <2>2 DEF SinceAt
    <3> HIDE DEF c, d
    <3>5. c = d
      BY <1>2, <3>3, LatestIsOne
    <3> QED
      BY <3>4, <3>5
  <2> QED
    BY <2>1, <2>2
<1> QED
  BY <1>3, <1>5 DEF SeenAt

\* An event closes the stretch before it.
LEMMA SeenChanges ==
  ASSUME NEW rows, RowsSane(rows), NEW h \in Nat, NEW s,
         NEW t \in Nat, Start(h) <= t, t < Start(h + 1),
         NEW e \in rows, e.slot = s, e.at = t
  PROVE  LET before == SeenAt(rows, h, s, t - 1)
         IN  SeenAt(rows, h, s, t)
               = [state |-> e.new, since |-> t,
                  spent |-> Add(before.spent, before.state, t - before.since)]
<1> DEFINE a == Start(h)
           c == SinceAt(rows, h, s, t - 1)
<1>1. a \in Nat /\ IsLatest(rows, s, t, e)
  BY HoursFollow DEF IsLatest, RowsSane
<1>2. StateAt(rows, s, t) = e.new
  BY <1>1, StateIs
<1>3. SinceAt(rows, h, s, t) = t
  <2>1. e \in EventsUpTo(rows, h, s, t)
    BY EventsAre DEF EventsUpTo
  <2> DEFINE d == CHOOSE q \in rows : IsLatest(rows, s, t, q)
  <2>2. IsLatest(rows, s, t, d)
    BY <1>1
  <2>3. SinceAt(rows, h, s, t) = d.at
    BY <2>1 DEF SinceAt
  <2> HIDE DEF d
  <2>4. d = e
    BY <1>1, <2>2, LatestIsOne
  <2> QED
    BY <2>3, <2>4
<1>4. /\ c \in Int /\ a <= c /\ c <= t
      /\ \A u \in c..(t - 1) : StateAt(rows, s, u) = StateAt(rows, s, t - 1)
  <2>0. Start(h + 1) \in Nat
    BY HoursFollow
  <2>1. t - 1 \in Int /\ Start(h) - 1 <= t - 1 /\ t - 1 < Start(h + 1)
    BY <1>1, <2>0
  <2>2. /\ c \in Int /\ a <= c /\ c <= (t - 1) + 1
        /\ \A u \in c..(t - 1) : StateAt(rows, s, u) = StateAt(rows, s, t - 1)
    BY <2>1, SinceIsSteady
  <2> QED
    BY <2>2
<1>5. StateAt(rows, s, t - 1) \in SlotStates
  BY StateIsState
<1> HIDE DEF c
<1>6. Spent(rows, s, a, t - 1) = Add(Spent(rows, s, a, c - 1), StateAt(rows, s, t - 1), t - c)
  BY <1>1, <1>4, <1>5, SpentGrows
<1> QED
  BY <1>2, <1>3, <1>6 DEF SeenAt, c

\* What the sweep computes of an hour is the time the slot spent in each state.
LEMMA SweepIsSpent ==
  ASSUME NEW rows, RowsSane(rows), NEW h \in Nat, NEW s
  PROVE  Sweep(rows, h, s) = Spent(rows, s, Start(h), Start(h + 1) - 1)
<1> DEFINE a == Start(h)
           b == Start(h + 1)
           D == a - 1 .. b - 1
           G == [t \in D |-> SeenAt(rows, h, s, t)]
           F == CHOOSE f : f = [t \in D |-> SweepStep(rows, h, s, f, t)]
<1>1. a \in Nat /\ b \in Nat /\ a < b
  BY HoursFollow
<1>2. Sweep(rows, h, s) = Add(F[b - 1].spent, F[b - 1].state, b - F[b - 1].since)
  BY DEF Sweep, SweepStep
<1>3. ASSUME NEW f, NEW t \in D, t >= a => f[t - 1] = SeenAt(rows, h, s, t - 1)
      PROVE  SweepStep(rows, h, s, f, t) = SeenAt(rows, h, s, t)
  <2>1. CASE t < a
    <3>1. t = a - 1
      BY <1>1, <2>1
    <3> QED
      BY <2>1, <3>1, SeenFirst DEF SweepStep
  <2>2. CASE t >= a
    <3> DEFINE events == {r \in EventsIn(rows, h) : r.slot = s /\ r.at = t}
    <3>1. t \in Nat /\ a <= t /\ t < b /\ ~(t < a)
      BY <1>1, <2>2
    <3>2. events = {r \in rows : r.slot = s /\ r.at = t}
      BY <1>1, <3>1, EventsAre
    <3>3. CASE events = {}
      <4>1. SweepStep(rows, h, s, f, t) = f[t - 1]
        BY <3>1, <3>3 DEF SweepStep
      <4>2. \A r \in rows : ~(r.slot = s /\ r.at = t)
        BY <3>2, <3>3
      <4>3. SeenAt(rows, h, s, t) = SeenAt(rows, h, s, t - 1)
        BY <3>1, <4>2, SeenStays
      <4> QED
        BY <1>3, <2>2, <4>1, <4>3
    <3>4. CASE events # {}
      <4> DEFINE e == CHOOSE r \in events : TRUE
      <4>1. SweepStep(rows, h, s, f, t)
              = [state |-> e.new, since |-> t,
                 spent |-> Add(f[t - 1].spent, f[t - 1].state, t - f[t - 1].since)]
        BY <3>1, <3>4 DEF SweepStep
      <4>2. e \in events
        BY <3>4
      <4>3. e \in rows /\ e.slot = s /\ e.at = t
        BY <3>2, <4>2
      <4> HIDE DEF e
      <4>4. LET before == SeenAt(rows, h, s, t - 1)
            IN  SeenAt(rows, h, s, t)
                  = [state |-> e.new, since |-> t,
                     spent |-> Add(before.spent, before.state, t - before.since)]
        BY <3>1, <4>3, SeenChanges
      <4> QED
        BY <1>3, <2>2, <4>1, <4>4
    <3> QED
      BY <3>3, <3>4
  <2> QED
    BY <1>1, <2>1, <2>2
<1>4. G = [t \in D |-> SweepStep(rows, h, s, G, t)]
  <2>1. ASSUME NEW t \in D
        PROVE  SweepStep(rows, h, s, G, t) = SeenAt(rows, h, s, t)
    <3>1. t >= a => t - 1 \in D
      BY <1>1
    <3>2. t >= a => G[t - 1] = SeenAt(rows, h, s, t - 1)
      BY <3>1
    <3> HIDE DEF G, D
    <3> QED
      BY <1>3, <3>2
  <2> QED
    BY <2>1
<1> HIDE DEF G
<1>5. F = [t \in D |-> SweepStep(rows, h, s, F, t)]
  BY <1>4
<1> HIDE DEF F
<1> DEFINE T == {n \in Nat : a - 1 + n \in D => F[a - 1 + n] = SeenAt(rows, h, s, a - 1 + n)}
<1>6. Nat \subseteq T
  <2>1. 0 \in T
    <3>1. a - 1 \in D /\ ~(a - 1 >= a)
      BY <1>1
    <3>2. F[a - 1] = SweepStep(rows, h, s, F, a - 1)
      BY <1>5, <3>1
    <3>3. F[a - 1] = SeenAt(rows, h, s, a - 1)
      <4> HIDE DEF D
      <4> QED
        BY <1>3, <3>1, <3>2
    <3>4. a - 1 + 0 = a - 1
      BY <1>1
    <3> QED
      BY <3>3, <3>4
  <2>2. ASSUME NEW n \in T
        PROVE  n + 1 \in T
    <3> SUFFICES ASSUME a - 1 + (n + 1) \in D
                 PROVE  F[a - 1 + (n + 1)] = SeenAt(rows, h, s, a - 1 + (n + 1))
      OBVIOUS
    <3> DEFINE t == a - 1 + (n + 1)
    <3>1. t \in D /\ t - 1 = a - 1 + n /\ t - 1 \in D
      BY <1>1
    <3>2. F[t - 1] = SeenAt(rows, h, s, t - 1)
      BY <3>1
    <3>3. F[t] = SweepStep(rows, h, s, F, t)
      BY <1>5, <3>1
    <3> HIDE DEF t, D
    <3>4. F[t] = SeenAt(rows, h, s, t)
      BY <1>3, <3>1, <3>2, <3>3
    <3> QED
      BY <3>4 DEF t
  <2> HIDE DEF T
  <2>3. \A n \in Nat : n \in T => n + 1 \in T
    BY <2>2
  <2> QED
    BY <2>1, <2>3, NatSteps
<1> DEFINE e == b - 1
           c == SinceAt(rows, h, s, e)
<1>7. F[e] = SeenAt(rows, h, s, e)
  <2>1. b - a \in Nat /\ a - 1 + (b - a) = e /\ e \in D
    BY <1>1
  <2>2. b - a \in T
    BY <1>6, <2>1
  <2> QED
    BY <2>1, <2>2
<1>8. /\ c \in Int /\ a <= c /\ c <= b
      /\ \A u \in c..(b - 1) : StateAt(rows, s, u) = StateAt(rows, s, e)
  <2>1. e \in Int /\ a - 1 <= e /\ e < b /\ e + 1 = b
    BY <1>1
  <2> HIDE DEF e
  <2>2. /\ c \in Int /\ a <= c /\ c <= e + 1
        /\ \A u \in c..e : StateAt(rows, s, u) = StateAt(rows, s, e)
    BY <2>1, SinceIsSteady
  <2> QED
    BY <2>1, <2>2 DEF e
<1>9. StateAt(rows, s, e) \in SlotStates
  BY <1>1, StateIsState
<1> HIDE DEF c
<1>10. Spent(rows, s, a, b - 1) = Add(Spent(rows, s, a, c - 1), StateAt(rows, s, e), b - c)
  BY <1>1, <1>8, <1>9, SpentGrows
<1> QED
  BY <1>2, <1>7, <1>10 DEF SeenAt, c

\* ... and so is what its rows should say.
LEMMA ReferenceIsSpent ==
  ASSUME NEW h, NEW s
  PROVE  Reference(h, s) = Spent(recorded \cup erased, s, Start(h), Start(h + 1) - 1)
BY DEF Reference, Spent
-----------------------------------------------------------------------------
(* Why the statistics match the history *)

\* A plausible clock shows the latest time there was.
PlausibleIsLatest == Hour(clock) >= FirstPlausible => clock = latest

\* An hour is not aggregated before it is over.
ClosedBehind ==
  \A h \in (Aggregated \ rebuilt) \cup left :
    h >= FirstPlausible => Start(h + 1) <= latest

HistoryInv ==
  /\ RowsSane(recorded \cup erased)
  /\ PlausibleIsLatest
  /\ ClosedBehind
  /\ StatsMatchHistory
\* An hour that ends after a tick is not over.
LEMMA NotOver ==
  ASSUME NEW t \in Nat, NEW h \in Nat
  PROVE  /\ h < Hour(t) => Start(h + 1) <= t
         /\ Hour(t) < h => t < Start(h)
<1>1. h + 1 \in Nat
  OBVIOUS
<1>2. Hour(t) \in Nat /\ Start(h + 1) \in Nat /\ (Hour(t) < h + 1 <=> t < Start(h + 1))
  BY <1>1, HoursFollow
<1>3. Hour(t) < h <=> t < Start(h)
  BY HoursFollow
<1> QED
  BY <1>2, <1>3

\* The rows an hour needs say of its ticks what all rows do.
LEMMA NeededSuffices ==
  ASSUME NEW rows, RowsSane(rows), NEW h \in Nat, NEW some, some \subseteq rows,
         Needed(rows, h) \subseteq some, NEW s, NEW t \in Nat, Start(h) <= t, t < Start(h + 1)
  PROVE  StateAt(some, s, t) = StateAt(rows, s, t)
<1>1. RowsSane(some)
  BY DEF RowsSane
<1>2. ASSUME NEW r \in rows, IsLatest(rows, s, t, r)
      PROVE  IsLatest(some, s, t, r)
  <2>1. r.at \in Nat /\ Start(h) \in Nat /\ Start(h + 1) \in Nat
    BY HoursFollow DEF RowsSane
  <2>2. CASE r.at >= Start(h)
    <3>1. r \in EventsIn(rows, h)
      BY <1>2, <2>1, <2>2, EventsAre DEF IsLatest
    <3> QED
      BY <1>2, <3>1 DEF Needed, IsLatest
  <2>3. CASE r.at < Start(h)
    <3>1. \A q \in rows : q.slot = r.slot /\ q.at < Start(h) => q.at <= r.at
      BY <1>2, <2>1 DEF IsLatest, RowsSane
    <3>2. r \in Needed(rows, h)
      BY <2>3, <3>1 DEF Needed
    <3> QED
      BY <1>2, <3>2 DEF IsLatest
  <2> QED
    BY <2>1, <2>2, <2>3
<1>3. ASSUME NEW r \in some, IsLatest(some, s, t, r)
      PROVE  IsLatest(rows, s, t, r)
  <2>1. r \in rows /\ r.slot = s /\ r.at <= t
    BY <1>3 DEF IsLatest
  <2>2. PICK q \in rows : IsLatest(rows, s, t, q)
    BY <2>1, LatestExists
  <2>3. IsLatest(some, s, t, q)
    BY <1>2, <2>2
  <2>4. q = r
    BY <1>1, <1>3, <2>3, LatestIsOne
  <2> QED
    BY <2>2, <2>4
<1> QED
  BY <1>1, <1>2, <1>3, SameState

\* The time spent follows from the states.
LEMMA SameSpent ==
  ASSUME NEW rows, NEW more, NEW s, NEW a, NEW b,
         \A t \in a..b : StateAt(rows, s, t) = StateAt(more, s, t)
  PROVE  Spent(rows, s, a, b) = Spent(more, s, a, b)
<1>1. \A x : {t \in a..b : StateAt(rows, s, t) = x} = {t \in a..b : StateAt(more, s, t) = x}
  OBVIOUS
<1> QED
  BY <1>1 DEF Spent

\* A row leaves the hour alone that it comes after, or before whose start it is not the
\* slot's latest.
LEMMA OthersUndisturbed ==
  ASSUME NEW rows, NEW row, RowsSane(rows \cup {row}), NEW h \in Nat,
         \/ Start(h + 1) <= row.at
         \/ Hour(row.at) < h /\ row \notin Needed(rows \cup {row}, h),
         NEW s, NEW t \in Nat, Start(h) <= t, t < Start(h + 1)
  PROVE  StateAt(rows \cup {row}, s, t) = StateAt(rows, s, t)
<1> DEFINE more == rows \cup {row}
<1>0. RowsSane(rows) /\ RowsSane(more) /\ row \in more /\ row.at \in Nat
      /\ Start(h) \in Nat /\ Start(h + 1) \in Nat
  BY HoursFollow DEF RowsSane
<1>1. ~IsLatest(more, s, t, row) \/ row \in rows
  <2>1. CASE Start(h + 1) <= row.at
    BY <1>0, <2>1 DEF IsLatest
  <2>2. CASE Hour(row.at) < h /\ row \notin Needed(more, h)
    <3>1. row.at < Start(h)
      BY <1>0, <2>2, NotOver
    <3>2. PICK q \in more : q.slot = row.slot /\ q.at < Start(h) /\ ~(q.at <= row.at)
      BY <1>0, <2>2, <3>1 DEF Needed
    <3>3. q.at \in Nat
      BY <1>0 DEF RowsSane
    <3> QED
      BY <1>0, <3>2, <3>3 DEF IsLatest
  <2> QED
    BY <2>1, <2>2
<1>2. ASSUME NEW r \in more, IsLatest(more, s, t, r)
      PROVE  IsLatest(rows, s, t, r)
  BY <1>1, <1>2 DEF IsLatest
<1>3. ASSUME NEW r \in rows, IsLatest(rows, s, t, r)
      PROVE  IsLatest(more, s, t, r)
  <2>1. r \in more /\ r.slot = s /\ r.at <= t
    BY <1>3 DEF IsLatest
  <2> HIDE DEF more
  <2>2. PICK q \in more : IsLatest(more, s, t, q)
    BY <1>0, <2>1, LatestExists
  <2>3. IsLatest(rows, s, t, q)
    BY <1>2, <2>2
  <2>4. q = r
    BY <1>0, <1>3, <2>3, LatestIsOne
  <2> QED
    BY <2>2, <2>4
<1> HIDE DEF more
<1>4. StateAt(more, s, t) = StateAt(rows, s, t)
  BY <1>0, <1>2, <1>3, SameState
<1> QED
  BY <1>4 DEF more

\* Where no row is added and no hour computed nothing changes.
LEMMA HistoryUntouched ==
  ASSUME StatisticsInv, HistoryInv, UNCHANGED <<stats, rebuilt, blurred>>,
         recorded' \cup erased' = recorded \cup erased,
         PlausibleIsLatest', ClosedBehind'
  PROVE  HistoryInv'
<1>1. RowsSane(recorded \cup erased)'
  BY DEF HistoryInv, RowsSane
<1>2. \A h, s : Reference(h, s)' = Reference(h, s)
  <2>1. \A h, s : Reference(h, s) = Spent(recorded \cup erased, s, Start(h), Start(h + 1) - 1)
    BY ReferenceIsSpent
  <2>2. \A h, s : Reference(h, s)'
                   = Spent(recorded' \cup erased', s, Start(h), Start(h + 1) - 1)
    BY DEF Reference, Spent, Start
  <2> QED
    BY <2>1, <2>2
<1>3. StatsMatchHistory'
  <2>1. Aggregated' = Aggregated
    BY DEF Aggregated
  <2> QED
    BY <1>2, <2>1 DEF HistoryInv, StatsMatchHistory
<1> QED
  BY <1>1, <1>3 DEF HistoryInv

\* An hour that is aggregated from all rows it needs is what its rows say.
LEMMA AggregationKeepsHistory ==
  ASSUME StatisticsInv, HistoryInv, NEW n \in Nat, AggregateOneHour(n),
         UNCHANGED <<recorded, erased>>, rebuilt \subseteq rebuilt',
         PlausibleIsLatest', ClosedBehind'
  PROVE  HistoryInv'
<1> DEFINE all == recorded \cup erased
<1>1. RowsSane(all) /\ RowsSane(recorded)
  BY DEF HistoryInv, RowsSane
<1>2. RowsSane(recorded \cup erased)'
  BY <1>1 DEF RowsSane
<1>3. \A h, s : Reference(h, s)' = Reference(h, s)
  BY DEF Reference, StateAt
<1>4. CASE AllSuspect(n)
  <2>1. UNCHANGED <<stats, blurred>>
    BY <1>4 DEF AggregateOneHour
  <2>2. Aggregated' = Aggregated
    BY <2>1 DEF Aggregated
  <2>3. StatsMatchHistory'
    BY <1>3, <2>1, <2>2 DEF HistoryInv, StatsMatchHistory
  <2> QED
    BY <1>2, <2>3 DEF HistoryInv
<1>5. CASE ~AllSuspect(n)
  <2>1. /\ stats' = [g \in Aggregated \cup {n} |->
                       IF g = n THEN [s \in Slots |-> Sweep(recorded, n, s)] ELSE stats[g]]
        /\ blurred' = IF Needed(all, n) \subseteq recorded
                      THEN blurred \ {n} ELSE blurred \cup {n}
    BY <1>5 DEF AggregateOneHour, Upsert
  <2>2. Aggregated' = Aggregated \cup {n}
    BY <2>1 DEF Aggregated
  <2>3. ASSUME Needed(all, n) \subseteq recorded, NEW s \in Slots
        PROVE  Sweep(recorded, n, s) = Reference(n, s)
    <3> DEFINE a == Start(n)
               b == Start(n + 1) - 1
    <3>1. Sweep(recorded, n, s) = Spent(recorded, s, a, b)
      BY <1>1, SweepIsSpent
    <3>2. Reference(n, s) = Spent(all, s, a, b)
      BY ReferenceIsSpent
    <3>3. ASSUME NEW t \in a..b
          PROVE  StateAt(recorded, s, t) = StateAt(all, s, t)
      <4>1. Start(n) \in Nat /\ Start(n + 1) \in Nat
        BY HoursFollow
      <4>2. t \in Nat /\ Start(n) <= t /\ t < Start(n + 1) /\ recorded \subseteq all
        BY <4>1
      <4> HIDE DEF all
      <4> QED
        BY <1>1, <2>3, <4>2, NeededSuffices
    <3>4. Spent(recorded, s, a, b) = Spent(all, s, a, b)
      <4> HIDE DEF a, b, all
      <4> QED
        BY <3>3, SameSpent
    <3> QED
      BY <3>1, <3>2, <3>4
  <2>4. ASSUME NEW h \in Aggregated' \ (rebuilt' \cup blurred'), h >= FirstPlausible,
               NEW s \in Slots
        PROVE  stats'[h][s] = Reference(h, s)'
    <3>1. CASE h = n
      <4>1. Needed(all, n) \subseteq recorded
        BY <2>1, <2>4, <3>1
      <4>2. stats'[n][s] = Sweep(recorded, n, s)
        BY <2>1
      <4> QED
        BY <1>3, <2>3, <3>1, <4>1, <4>2
    <3>2. CASE h # n
      <4>1. h \in Aggregated \ (rebuilt \cup blurred)
        BY <2>1, <2>2, <2>4, <3>2
      <4>2. stats'[h] = stats[h]
        BY <2>1, <3>2, <4>1
      <4> QED
        BY <1>3, <2>4, <4>1, <4>2 DEF HistoryInv, StatsMatchHistory
    <3> QED
      BY <3>1, <3>2
  <2>5. StatsMatchHistory'
    BY <2>4 DEF StatsMatchHistory
  <2> QED
    BY <1>2, <2>5 DEF HistoryInv
<1> QED
  BY <1>4, <1>5

\* A new row disturbs no hour that is not marked.
LEMMA WriteRowKeepsHistory ==
  ASSUME StatisticsInv, HistoryInv, NEW w \in Slots, WriteRow(w)
  PROVE  HistoryInv'
<1> DEFINE all == recorded \cup erased
<1>1. PICK new \in {"FREE", "OCCUPIED"} :
        LET row == [slot |-> w, at |-> clock, new |-> new]
        IN  /\ recorded' = recorded \cup {row}
            /\ blurred' = blurred \cup {h \in Aggregated :
                 Suspect(row) /\ row \in Needed(all \cup {row}, h)}
  BY DEF WriteRow
<1> DEFINE row == [slot |-> w, at |-> clock, new |-> new]
<1>2. /\ row.slot = w /\ row.at = clock /\ row.new = new /\ clock \in Nat
      /\ recorded' \cup erased' = all \cup {row}
      /\ \A r \in all : ~(r.slot = w /\ r.at = clock)
      /\ UNCHANGED <<clock, latest, stats, left, erased, rebuilt>>
  BY <1>1 DEF WriteRow, StatisticsInv, HoursAreSane
<1>3. blurred' = blurred \cup {h \in Aggregated :
                   Suspect(row) /\ row \in Needed(all \cup {row}, h)}
  BY <1>1
<1>4. RowsSane(all)
  BY DEF HistoryInv
<1> HIDE DEF row, all
<1>5. RowsSane(all \cup {row})
  BY <1>2, <1>4 DEF RowsSane
<1>6. Aggregated' = Aggregated
  BY <1>2 DEF Aggregated
<1>7. ASSUME NEW h \in Aggregated \ (rebuilt \cup blurred'), h >= FirstPlausible, NEW s \in Slots
      PROVE  Reference(h, s)' = Reference(h, s)
  <2>1. h \in Nat /\ latest \in Nat /\ Start(h + 1) <= latest
    BY <1>7 DEF StatisticsInv, HoursAreSane, HistoryInv, ClosedBehind
  <2>2. \/ Start(h + 1) <= row.at
        \/ Hour(row.at) < h /\ row \notin Needed(all \cup {row}, h)
    <3>1. CASE Suspect(row)
      <4>1. Hour(row.at) \in Nat
        BY <1>2, HourIsNat
      <4> QED
        BY <1>3, <1>7, <2>1, <3>1, <4>1, StatisticsBounds DEF Suspect
    <3>2. CASE ~Suspect(row)
      <4>1. Hour(clock) \in Nat
        BY <1>2, HourIsNat
      <4>2. Hour(clock) >= FirstPlausible
        BY <1>2, <3>2, <4>1, StatisticsBounds DEF Suspect
      <4>3. clock = latest
        BY <4>2 DEF HistoryInv, PlausibleIsLatest
      <4> QED
        BY <1>2, <2>1, <4>3
    <3> QED
      BY <3>1, <3>2
  <2> DEFINE a == Start(h)
             b == Start(h + 1) - 1
  <2>3. ASSUME NEW t \in a..b
        PROVE  StateAt(all \cup {row}, s, t) = StateAt(all, s, t)
    <3>1. Start(h) \in Nat /\ Start(h + 1) \in Nat
      BY <2>1, HoursFollow
    <3>2. t \in Nat /\ Start(h) <= t /\ t < Start(h + 1)
      BY <3>1
    <3> QED
      BY <1>5, <2>1, <2>2, <3>2, OthersUndisturbed
  <2>4. Spent(all \cup {row}, s, a, b) = Spent(all, s, a, b)
    <3> HIDE DEF a, b
    <3> QED
      BY <2>3, SameSpent
  <2>5. Reference(h, s) = Spent(all, s, a, b)
    BY ReferenceIsSpent DEF all
  <2>6. Reference(h, s)' = Spent(all \cup {row}, s, a, b)
    BY <1>2 DEF Reference, Spent, Start
  <2> QED
    BY <2>4, <2>5, <2>6
<1>8. StatsMatchHistory'
  <2> SUFFICES ASSUME NEW h \in Aggregated \ (rebuilt \cup blurred'), h >= FirstPlausible,
                      NEW s \in Slots
               PROVE  stats[h][s] = Reference(h, s)'
    BY <1>2, <1>6 DEF StatsMatchHistory
  <2>1. h \in Aggregated \ (rebuilt \cup blurred)
    BY <1>3
  <2>2. stats[h][s] = Reference(h, s)
    BY <2>1 DEF HistoryInv, StatsMatchHistory
  <2> QED
    BY <1>7, <2>2
<1>9. RowsSane(recorded \cup erased)'
  BY <1>2, <1>5 DEF RowsSane
<1>10. PlausibleIsLatest' /\ ClosedBehind'
  BY <1>2, <1>6 DEF HistoryInv, PlausibleIsLatest, ClosedBehind, Start, Hour
<1> QED
  BY <1>8, <1>9, <1>10 DEF HistoryInv

LEMMA HistoryStart == StatisticsInit => HistoryInv
<1> SUFFICES ASSUME StatisticsInit PROVE HistoryInv
  OBVIOUS
<1>1. /\ clock = 0 /\ latest = 0 /\ recorded \cup erased = {}
      /\ Aggregated = {} /\ left = {} /\ rebuilt = {}
  BY DEF StatisticsInit, Aggregated
<1> QED
  BY <1>1 DEF HistoryInv, RowsSane, PlausibleIsLatest, ClosedBehind, StatsMatchHistory

LEMMA HistoryKeeps == StatisticsInv /\ HistoryInv /\ [StatisticsNext]_statisticsVars => HistoryInv'
<1> SUFFICES ASSUME StatisticsInv, HistoryInv, [StatisticsNext]_statisticsVars PROVE HistoryInv'
  OBVIOUS
<1>0. /\ clock \in Nat /\ latest \in Nat /\ Aggregated \subseteq Nat /\ left \subseteq Nat
      /\ PlausibleIsLatest /\ ClosedBehind
      /\ FirstPlausible \in Nat \ {0}
  BY StatisticsBounds DEF StatisticsInv, HoursAreSane, HistoryInv
<1>1. ASSUME UNCHANGED <<stats, rebuilt>>, left' = left \/ left' = {},
             latest' \in Nat, latest <= latest'
      PROVE  ClosedBehind'
  <2>1. Aggregated' = Aggregated
    BY <1>1 DEF Aggregated
  <2>2. \A h \in Nat : Start(h + 1) \in Nat
    BY HoursFollow
  <2>3. SUFFICES ASSUME NEW h \in (Aggregated \ rebuilt) \cup left, h >= FirstPlausible
                 PROVE  Start(h + 1) <= latest'
    BY <1>1, <2>1 DEF ClosedBehind, Start
  <2>4. Start(h + 1) <= latest /\ Start(h + 1) \in Nat
    BY <1>0, <2>2, <2>3 DEF ClosedBehind
  <2> QED
    BY <1>0, <1>1, <2>4
<1>2. CASE ClockRuns
  <2>1. /\ UNCHANGED <<recorded, stats, left, erased, rebuilt, blurred>>
        /\ Hour(clock) < FirstPlausible => Hour(clock + 1) < FirstPlausible
        /\ clock' = clock + 1
        /\ latest' = IF Hour(clock) >= FirstPlausible THEN clock + 1 ELSE latest
    BY <1>2 DEF ClockRuns
  <2>2. Hour(clock) \in Nat /\ Hour(clock') \in Nat /\ Hour(clock)' = Hour(clock')
    BY <1>0, <2>1, HourIsNat DEF Hour
  <2>3. PlausibleIsLatest' /\ latest' \in Nat /\ latest <= latest'
    <3>1. CASE Hour(clock) >= FirstPlausible
      BY <1>0, <2>1, <2>2, <3>1 DEF PlausibleIsLatest
    <3>2. CASE ~(Hour(clock) >= FirstPlausible)
      BY <1>0, <2>1, <2>2, <3>2 DEF PlausibleIsLatest
    <3> QED
      BY <3>1, <3>2
  <2>4. ClosedBehind'
    BY <1>1, <2>1, <2>3
  <2> QED
    BY <2>1, <2>3, <2>4, HistoryUntouched
<1>3. CASE ClockIsSet
  <2>1. /\ UNCHANGED <<recorded, stats, left, erased, rebuilt, blurred>>
        /\ clock' \in latest..MaxTick /\ latest' = clock'
    BY <1>3 DEF ClockIsSet
  <2>2. latest' \in Nat /\ latest <= latest' /\ PlausibleIsLatest'
    BY <1>0, <2>1, StatisticsBounds DEF PlausibleIsLatest
  <2>3. ClosedBehind'
    BY <1>1, <2>1, <2>2
  <2> QED
    BY <2>1, <2>2, <2>3, HistoryUntouched
<1>4. CASE Boot
  <2>1. /\ UNCHANGED <<latest, recorded, stats, erased, rebuilt, blurred>>
        /\ clock' \in {clock, 0} /\ left' = {}
    BY <1>4 DEF Boot
  <2>2. PlausibleIsLatest'
    <3>1. CASE clock' = clock
      BY <1>0, <2>1, <3>1 DEF PlausibleIsLatest, Hour
    <3>2. CASE clock' = 0
      <4>1. Hour(0) = 0
        BY StatisticsBounds DEF Hour
      <4>2. Hour(clock)' = Hour(0)
        BY <3>2 DEF Hour
      <4> QED
        BY <1>0, <4>1, <4>2 DEF PlausibleIsLatest
    <3> QED
      BY <2>1, <3>1, <3>2
  <2>3. ClosedBehind'
    BY <1>0, <1>1, <2>1
  <2> QED
    BY <2>1, <2>2, <2>3, HistoryUntouched
<1>5. ASSUME NEW s \in Slots, WriteRow(s)
      PROVE  HistoryInv'
  BY <1>5, WriteRowKeepsHistory
<1>6. CASE RunStarts
  <2>1. /\ UNCHANGED <<clock, latest, recorded, stats, erased, rebuilt, blurred>>
        /\ left' = HoursPending
    BY <1>6 DEF RunStarts
  <2>2. Aggregated' = Aggregated /\ HoursPending \subseteq Nat
    BY <2>1, PendingFollowDone DEF Aggregated, StatisticsInv
  <2>3. ASSUME NEW h \in HoursPending, h >= FirstPlausible
        PROVE  Start(h + 1) <= latest
    <3>1. h \in Nat /\ Hour(clock) \in Nat /\ h < Hour(clock)
      BY <1>0, <2>2, HourIsNat DEF HoursPending
    <3>2. clock = latest
      BY <1>0, <2>3, <3>1 DEF PlausibleIsLatest
    <3> QED
      BY <1>0, <3>1, <3>2, NotOver
  <2>4. ClosedBehind'
    BY <1>0, <2>1, <2>2, <2>3 DEF ClosedBehind, Start
  <2>5. PlausibleIsLatest'
    BY <1>0, <2>1 DEF PlausibleIsLatest, Hour
  <2> QED
    BY <2>1, <2>4, <2>5, HistoryUntouched
<1>7. CASE HourIsDone
  <2> DEFINE n == NextLeft
  <2>1. /\ n \in left /\ AggregateOneHour(n) /\ left' = left \ {n}
        /\ UNCHANGED <<clock, latest, recorded, erased, rebuilt>>
    BY <1>0, <1>7, NextIsLeast DEF HourIsDone
  <2> HIDE DEF n
  <2>2. Aggregated' \subseteq Aggregated \cup {n}
    BY <2>1, DoneOrSkipped DEF Aggregated
  <2>3. ClosedBehind'
    BY <1>0, <2>1, <2>2 DEF ClosedBehind, Start
  <2>4. PlausibleIsLatest'
    BY <1>0, <2>1 DEF PlausibleIsLatest, Hour
  <2> QED
    BY <1>0, <2>1, <2>3, <2>4, AggregationKeepsHistory
<1>8. ASSUME NEW n \in Hours, Rebuild(n)
      PROVE  HistoryInv'
  <2>1. /\ n \in Nat /\ AggregateOneHour(n)
        /\ rebuilt' = IF AllSuspect(n) THEN rebuilt ELSE rebuilt \cup {n}
        /\ UNCHANGED <<clock, latest, recorded, left, erased>>
    BY <1>8 DEF Rebuild, Hours
  <2>2. Aggregated' \ rebuilt' \subseteq Aggregated \ rebuilt
    BY <2>1, DoneOrSkipped DEF Aggregated
  <2>3. ClosedBehind'
    BY <1>0, <2>1, <2>2 DEF ClosedBehind, Start
  <2>4. PlausibleIsLatest'
    BY <1>0, <2>1 DEF PlausibleIsLatest, Hour
  <2> QED
    BY <2>1, <2>3, <2>4, AggregationKeepsHistory
<1>9. CASE Purge
  <2>1. /\ UNCHANGED <<clock, latest, stats, left, rebuilt, blurred>>
        /\ recorded' \cup erased' = recorded \cup erased
    BY <1>9 DEF Purge, PurgeStarts, PurgeBatch, PurgeEnds, Old
  <2>2. PlausibleIsLatest'
    BY <1>0, <2>1 DEF PlausibleIsLatest, Hour
  <2>3. ClosedBehind'
    BY <1>0, <1>1, <2>1
  <2> QED
    BY <2>1, <2>2, <2>3, HistoryUntouched
<1>10. CASE UNCHANGED statisticsVars
  <2>1. UNCHANGED <<clock, latest, recorded, stats, left, erased, rebuilt, blurred>>
    BY <1>10 DEF statisticsVars
  <2>2. PlausibleIsLatest'
    BY <1>0, <2>1 DEF PlausibleIsLatest, Hour
  <2>3. ClosedBehind'
    BY <1>0, <1>1, <2>1
  <2> QED
    BY <2>1, <2>2, <2>3, HistoryUntouched
<1> QED
  BY <1>2, <1>3, <1>4, <1>5, <1>6, <1>7, <1>8, <1>9, <1>10 DEF StatisticsNext

\* What the job recorded of a plausible hour is what the rows of its slots say tick by
\* tick, for ever, whatever is written, purged or lost later: the sweep adds up the
\* stretches right, and no row comes for an hour that is over (compute_hour_timeline,
\* _aggregate_one_hour, hours_pending).
THEOREM StatisticsAreHistory == StatisticsSpec => []StatsMatchHistory
<1>1. HistoryInv => StatsMatchHistory
  BY DEF HistoryInv
<1>2. StatisticsSpec => []HistoryInv
  BY StatisticsInductive, HistoryStart, HistoryKeeps, PTL DEF StatisticsSpec
<1> QED
  BY <1>1, <1>2, PTL
=============================================================================
