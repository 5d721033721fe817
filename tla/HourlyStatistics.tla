-------------------------- MODULE HourlyStatistics --------------------------
(***************************************************************************)
(* From the history of slot states to hourly statistics: the aggregation   *)
(* job (services/hourly_aggregation_service.py, hourly_timeline.py), the   *)
(* command that computes hours again (cli/rebuild_stats_command.py), the   *)
(* purge of old history (services/retention_service.py), and a clock that  *)
(* starts in the past after a power cut (db/clock_guard.py).               *)
(*                                                                         *)
(* Time is counted in ticks, so fine that a slot changes at most once in   *)
(* one.  The job, the purge and the writes of state changes take turns in  *)
(* the one database thread; the command is another process and may compute *)
(* an hour between any two commits of theirs.                              *)
(***************************************************************************)
EXTENDS Integers, FiniteSets

CONSTANTS
  Slots,          \* active slots
  TicksPerHour,
  FirstPlausible, \* MIN_PLAUSIBLE_DATE, as an hour: clocks before it are suspect
                  \* (a board that lost its power starts before it)
  HoursPerRun,    \* MAX_HOURS_PER_RUN
  Retention,      \* the shortest retention a purge is asked for, in ticks
  BatchSize,      \* HISTORY_BATCH_SIZE
  MaxTick,        \* bound: the last tick of the clock
  MaxRecorded,    \* bound: history rows
  MaxBoots,       \* bound: restarts of the process or of the board, and failed jobs
  MaxRebuilds     \* bound: hours computed again by command

ASSUME StatisticsBounds ==
  /\ TicksPerHour \in Nat \ {0}
  /\ HoursPerRun \in Nat \ {0}
  /\ BatchSize \in Nat \ {0}
  /\ FirstPlausible \in Nat \ {0}
  /\ {Retention, MaxTick, MaxRecorded, MaxBoots, MaxRebuilds} \subseteq Nat

VARIABLES
  clock,    \* what the system clock shows
  latest,   \* the latest plausible tick it has shown: the real time is not earlier
  recorded, \* slot_state_history
  stats,    \* hourly_stats: per hour that has a SITE row, the seconds of every slot
  left,     \* the hours a run of the job has yet to aggregate
  cutoff,   \* of the purge that is under way, 0 when none is
  boots,    \* restarts, and jobs that failed
  erased,   \* history: the rows that were purged
  rebuilt,  \* history: the hours that were computed again
  blurred   \* history: the hours aggregated when rows they depend on had been purged,
            \* or were still to come from a suspect clock

statisticsVars ==
  <<clock, latest, recorded, stats, left, cutoff, boots, erased, rebuilt, blurred>>

SlotStates == {"UNKNOWN", "FREE", "OCCUPIED"}

Rows == [slot : Slots, at : 0..MaxTick, new : {"FREE", "OCCUPIED"}]

Hour(tick) == tick \div TicksPerHour
Start(h) == h * TicksPerHour
Hours == 0..Hour(MaxTick)
Aggregated == DOMAIN stats

\* db/clock_guard.py: a row written under an implausible clock is flagged.
Suspect(row) == Hour(row.at) < FirstPlausible

-----------------------------------------------------------------------------
(* One hour: events_in_hour, seed_states_before and compute_hour_timeline. *)

EventsIn(rows, h) == {r \in rows : Hour(r.at) = h}

\* A seed that may be taken from the hour itself.
SeedUpToStart(rows, h, s) ==
  LET before == {r \in rows : r.slot = s /\ r.at <= Start(h) + 1}
  IN  IF before = {} THEN "UNKNOWN"
      ELSE (CHOOSE r \in before : \A q \in before : q.at <= r.at).new

\* The slot's latest row strictly before the hour.
Seed(rows, h, s) ==
  LET before == {r \in rows : r.slot = s /\ r.at < Start(h)}
  IN  IF before = {} THEN "UNKNOWN"
      ELSE (CHOOSE r \in before : \A q \in before : q.at <= r.at).new

\* SlotHourAccumulator.add
Add(spent, state, ticks) == [spent EXCEPT ![state] = @ + ticks]

\* The sweep: an event closes the stretch since the slot's event before it, the end of
\* the hour closes the last one.
Sweep(rows, h, s) ==
  LET seen[t \in Start(h) - 1 .. Start(h + 1) - 1] ==
        IF t < Start(h)
        THEN [state |-> Seed(rows, h, s), since |-> Start(h),
              spent |-> [x \in SlotStates |-> 0]]
        ELSE LET events == {r \in EventsIn(rows, h) : r.slot = s /\ r.at = t}
             IN  IF events = {} THEN seen[t - 1]
                 ELSE [state |-> (CHOOSE r \in events : TRUE).new, since |-> t,
                       spent |-> Add(seen[t - 1].spent, seen[t - 1].state,
                                     t - seen[t - 1].since)]
      last == seen[Start(h + 1) - 1]
  IN  Add(last.spent, last.state, Start(h + 1) - last.since)

\* The rows an hour depends on: those in it, and each slot's latest before it.
Needed(rows, h) ==
  EventsIn(rows, h) \cup
  {r \in rows : /\ r.at < Start(h)
                /\ \A q \in rows : q.slot = r.slot /\ q.at < Start(h) => q.at <= r.at}

\* The test without the question whether the hour has a row at all.
SuspectOrQuiet(h) == \A r \in EventsIn(recorded, h) : Suspect(r)

\* Every row of the hour was written under an implausible clock.
AllSuspect(h) ==
  EventsIn(recorded, h) # {} /\ \A r \in EventsIn(recorded, h) : Suspect(r)

\* upsert: the hour's row is written over, or added.
Upsert(h, row) == stats' = [g \in Aggregated \cup {h} |-> IF g = h THEN row ELSE stats[g]]

\* _aggregate_one_hour: the SLOT rows; FLOOR and SITE rows are sums of them, and all
\* are one commit.
AggregateOneHour(h) ==
  IF AllSuspect(h)
  THEN UNCHANGED <<stats, blurred>>
  ELSE /\ Upsert(h, [s \in Slots |-> Sweep(recorded, h, s)])
       /\ blurred' = IF Needed(recorded \cup erased, h) \subseteq recorded
                     THEN blurred \ {h} ELSE blurred \cup {h}

-----------------------------------------------------------------------------
(* The clock, and the database thread's other work. *)

ClockRuns ==
  /\ clock < MaxTick
  /\ Hour(clock) < FirstPlausible => Hour(clock + 1) < FirstPlausible
  /\ clock' = clock + 1
  /\ latest' = IF Hour(clock) >= FirstPlausible THEN clock + 1 ELSE latest
  /\ UNCHANGED <<recorded, stats, left, cutoff, boots, erased, rebuilt, blurred>>

\* NTP catches up.
ClockIsSet ==
  /\ Hour(clock) < FirstPlausible
  /\ clock' \in latest..MaxTick
  /\ Hour(clock') >= FirstPlausible
  /\ latest' = clock'
  /\ UNCHANGED <<recorded, stats, left, cutoff, boots, erased, rebuilt, blurred>>

\* No job is under way in the database thread.
DatabaseThreadIsFree == left = {} /\ cutoff = 0

\* persist_state_changes, for one slot of its batch.
WriteRow(s) ==
  /\ DatabaseThreadIsFree
  /\ Cardinality(recorded \cup erased) < MaxRecorded
  /\ ~\E r \in recorded \cup erased : r.slot = s /\ r.at = clock
  /\ \E new \in {"FREE", "OCCUPIED"} :
       LET row == [slot |-> s, at |-> clock, new |-> new]
       IN  /\ recorded' = recorded \cup {row}
           /\ blurred' = blurred \cup {h \in Aggregated :
                Suspect(row) /\ row \in Needed(recorded \cup erased \cup {row}, h)}
  /\ UNCHANGED <<clock, latest, stats, left, cutoff, boots, erased, rebuilt>>

-----------------------------------------------------------------------------
(* The aggregation job. *)

\* Where hours_pending begins: after the newest hour done, or with the oldest row.
FirstPending ==
  IF Aggregated # {}
  THEN (CHOOSE h \in Aggregated : \A g \in Aggregated : g <= h) + 1
  ELSE Hour((CHOOSE r \in recorded : \A q \in recorded : r.at <= q.at).at)

\* A rule that goes back to hours that were left out.
PendingAgain ==
  IF Aggregated = {} /\ recorded = {} THEN {}
  ELSE {h \in FirstPending - 1 .. Hour(clock) - 1 : h < FirstPending - 1 + HoursPerRun}

HoursPending ==
  IF Aggregated = {} /\ recorded = {} THEN {}
  ELSE {h \in FirstPending .. Hour(clock) - 1 : h < FirstPending + HoursPerRun}

RunStarts ==
  /\ DatabaseThreadIsFree
  /\ left' = HoursPending
  /\ UNCHANGED <<clock, latest, recorded, stats, cutoff, boots, erased, rebuilt, blurred>>

\* The newest pending hour first.
NewestLeft == CHOOSE h \in left : \A g \in left : g <= h

\* Oldest first.
NextLeft == CHOOSE h \in left : \A g \in left : h <= g

HourIsDone ==
  /\ left # {}
  /\ AggregateOneHour(NextLeft)
  /\ left' = left \ {NextLeft}
  /\ UNCHANGED <<clock, latest, recorded, cutoff, boots, erased, rebuilt>>

\* rebuild_hours, for one hour of its range: up to the hour of now.
Rebuild(h) ==
  /\ h \in 0..Hour(clock)
  /\ Cardinality(rebuilt) < MaxRebuilds
  /\ AggregateOneHour(h)
  /\ rebuilt' = IF AllSuspect(h) THEN rebuilt ELSE rebuilt \cup {h}
  /\ UNCHANGED <<clock, latest, recorded, left, cutoff, boots, erased>>

-----------------------------------------------------------------------------
(* The purge: retention_service.purge, which commits batch by batch. *)

PurgeStarts ==
  /\ DatabaseThreadIsFree
  /\ cutoff' \in 1 .. clock - Retention
  /\ UNCHANGED <<clock, latest, recorded, stats, left, boots, erased, rebuilt, blurred>>

Old == {r \in recorded : r.at < cutoff}

PurgeBatch ==
  /\ Old # {}
  /\ \E batch \in SUBSET Old :
       /\ Cardinality(batch) <= BatchSize
       /\ Cardinality(batch) = BatchSize \/ batch = Old
       /\ recorded' = recorded \ batch
       /\ erased' = erased \cup batch
  /\ UNCHANGED <<clock, latest, stats, left, cutoff, boots, rebuilt, blurred>>

PurgeEnds ==
  /\ cutoff # 0
  /\ Old = {}
  /\ cutoff' = 0
  /\ UNCHANGED <<clock, latest, recorded, stats, left, boots, erased, rebuilt, blurred>>

\* A job raises and is given up, the process is killed, or the board loses power and
\* with it the time.
Boot ==
  /\ boots < MaxBoots
  /\ boots' = boots + 1
  /\ clock' \in {clock, 0}
  /\ left' = {}
  /\ cutoff' = 0
  /\ UNCHANGED <<latest, recorded, stats, erased, rebuilt, blurred>>

-----------------------------------------------------------------------------
\* A board that is switched on for the first time.
StatisticsInit ==
  /\ clock = 0
  /\ latest = 0
  /\ recorded = {}
  /\ stats = [h \in {} |-> 0]
  /\ left = {}
  /\ cutoff = 0
  /\ boots = 0
  /\ erased = {}
  /\ rebuilt = {}
  /\ blurred = {}

Purge == PurgeStarts \/ PurgeBatch \/ PurgeEnds

StatisticsNext ==
  \/ ClockRuns \/ ClockIsSet \/ Boot
  \/ \E s \in Slots : WriteRow(s)
  \/ RunStarts \/ HourIsDone \/ \E h \in Hours : Rebuild(h)
  \/ Purge

StatisticsSpec == StatisticsInit /\ [][StatisticsNext]_statisticsVars

\* The scheduler submits the job again and again, the thread's queue is first come
\* first served, and what has started goes on.
FairStatisticsSpec ==
  /\ StatisticsSpec
  /\ SF_statisticsVars(RunStarts) /\ WF_statisticsVars(HourIsDone)
  /\ WF_statisticsVars(PurgeBatch \/ PurgeEnds)

-----------------------------------------------------------------------------
(* Properties *)

\* The state of a slot during a tick, read straight off the rows.
StateAt(rows, s, tick) ==
  LET upTo == {r \in rows : r.slot = s /\ r.at <= tick}
  IN  IF upTo = {} THEN "UNKNOWN"
      ELSE (CHOOSE r \in upTo : \A q \in upTo : q.at <= r.at).new

\* What an hour's rows should say, tick by tick, of everything that was ever written.
Reference(h, s) ==
  [x \in SlotStates |->
     Cardinality({t \in Start(h) .. Start(h + 1) - 1 :
                    StateAt(recorded \cup erased, s, t) = x})]

\* What the job has recorded of a plausible hour is what its slots' rows say tick by
\* tick, for ever: no plausible row arrives for an hour that is closed, and a purge
\* that runs meanwhile does no harm, unless it took rows the hour depends on before
\* the hour was aggregated (_aggregate_one_hour, compute_hour_timeline).
StatsMatchHistory ==
  \A h \in Aggregated \ (rebuilt \cup blurred) :
    h >= FirstPlausible => \A s \in Slots : stats[h][s] = Reference(h, s)

\* Between two hours that the job aggregated every plausible hour is there too, also
\* when runs are cut short by their limit or a crash: the job goes on after the newest
\* hour done and would never come back for one it left out (hours_pending).
NoHourIsLeftOut ==
  rebuilt = {} =>
    \A g, h \in Aggregated : \A k \in g..h : k >= FirstPlausible => k \in Aggregated

\* An hour is aggregated once: no later run, whatever crashed before it, touches it
\* again (hours_pending).
AggregatedOnce ==
  [][\A h \in Aggregated \ rebuilt : stats'[h] = stats[h] \/ h \in rebuilt']_statisticsVars

\* Runs do not get past the hours of a suspect clock.
SuspectBacklog == HoursPending # {} /\ \A h \in HoursPending : h < FirstPlausible

ClosedHours ==
  {h \in FirstPlausible .. Hour(clock) - 1 :
     \E r \in recorded : ~Suspect(r) /\ Hour(r.at) <= h}

\* Every closed hour since the first plausible row is aggregated in the end, unless the job is
\* stuck behind suspect hours or an hour was computed by command before its turn.
HoursAreAggregated ==
  <>[](SuspectBacklog \/ rebuilt # {} \/ ClosedHours \subseteq Aggregated)
=============================================================================
