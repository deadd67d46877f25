----------------------------- MODULE UsageRollup -----------------------------
(***************************************************************************)
(* The daily rollup: a timer on every edge, and a one-shot backfill,       *)
(* recompute `usage_daily` from `tunnel_log` inside one transaction under  *)
(* an advisory lock.  The log is written meanwhile, by actions of          *)
(* UsageAccount that carry the timestamps the servers chose.               *)
(*                                                                         *)
(* A tick of the clock is the database's microsecond; a day has DayLength  *)
(* ticks and a month MonthLength days.                                     *)
(* (db/usage_rollup.rs, billing.rs, main.rs)                               *)
(***************************************************************************)
EXTENDS UsageAccount, Integers, FiniteSets, FiniteSetsExt

CONSTANTS
  DayLength,     \* ticks in a UTC day
  MonthLength,   \* days in a UTC month
  MaxTime,       \* the clock stops here
  Backfills,     \* the <<from, to>> an operator may pass
  Lookback       \* usage_rollup.lookback_days after the clamp: at least 2

ASSUME RollupBounds ==
  /\ DayLength \in Nat \ {0, 1} /\ MonthLength \in Nat \ {0}
  /\ MaxTime \in Nat /\ Lookback \in Nat \ {0, 1}
ASSUME RollupLog == IsFiniteSet(Tunnels) /\ MaxBytes \in Nat

VARIABLES
  clock,         \* UTC
  opened,        \* registered_at
  closed,        \* unregistered_at, chosen when the close statement is sent
  closing,       \* tunnels whose close statement is on its way
  roll,          \* what each rollup task is doing
  daily          \* usage_daily.bytes_proxied per day, over all grouping columns

rollupVars == <<used, rows, clock, opened, closed, closing, roll, daily>>

Rollers == {"timer", "backfill"}
Day(time) == time \div DayLength
Days == 0 .. Day(MaxTime)
ASSUME BackfillRange == Backfills \subseteq Days \X Days

DayStart(d) == d * DayLength
DayEnd(d) == DayStart(d + 1)
IdleRoll == [pc |-> "idle", now |-> 0, from |-> 0, to |-> 0]

RollupInit ==
  /\ AccountInit
  /\ clock = 0
  /\ opened = [t \in Tunnels |-> 0] /\ closed = [t \in Tunnels |-> 0]
  /\ closing = {}
  /\ roll = [r \in Rollers |-> IdleRoll]
  /\ daily = [d \in Days |-> 0]

logVars == <<used, rows, opened, closed, closing>>

-----------------------------------------------------------------------------
(* The log, written by the servers                                         *)

Tick ==
  /\ clock < MaxTime
  /\ clock' = clock + 1
  /\ UNCHANGED <<logVars, roll, daily>>

\* Ids are numbered as they are issued.
LogOpen(t) ==
  /\ \A u \in Tunnels : u < t => rows[u].state # "none"
  /\ OpenRow(t)
  /\ opened' = [opened EXCEPT ![t] = clock]
  /\ UNCHANGED <<clock, closed, closing, roll, daily>>

\* bind(Utc::now()) in log_tunnel_unregistered: the timestamp is the server's,
\* taken before the statement reaches the database.
SendClose(t) ==
  /\ rows[t].state = "open" /\ t \notin closing
  /\ closing' = closing \cup {t}
  /\ closed' = [closed EXCEPT ![t] = clock]
  /\ UNCHANGED <<used, rows, clock, opened, roll, daily>>

\* The close reaches the log.  The rollup reads the bytes of closed rows only,
\* so the tunnel's traffic and its earlier flushes are taken with it.
LogClose(t) ==
  /\ t \in closing
  /\ used' = [used EXCEPT ![t] = MaxBytes]
  /\ rows' = [rows EXCEPT ![t] = [state |-> "closed", bytes |-> MaxBytes]]
  /\ closing' = closing \ {t}
  /\ UNCHANGED <<clock, opened, closed, roll, daily>>

-----------------------------------------------------------------------------
(* ROLLUP_INSERT_SQL                                                       *)

Closed(t) == rows[t].state = "closed"
Min2(a, b) == IF a <= b THEN a ELSE b
Max2(a, b) == IF a >= b THEN a ELSE b

\* COALESCE(unregistered_at, now)
EndAt(t, now) == IF Closed(t) THEN closed[t] ELSE now

OverlapStart(t, d) == Max2(opened[t], DayStart(d))
OverlapEnd(t, d, now) == Min2(Min2(EndAt(t, now), DayEnd(d)), now)

\* The `clipped` join and the `overlapping` filter.
Overlapping(d, now) ==
  {t \in Tunnels :
     /\ rows[t].state # "none"
     /\ Closed(t) => closed[t] > opened[t]
     /\ opened[t] < DayEnd(d) /\ EndAt(t, now) > DayStart(d)
     /\ OverlapEnd(t, d, now) > OverlapStart(t, d)}

\* attribute_bytes: the day of the last instant the tunnel was open.
\* Variant: the day of unregistered_at itself.
AttributedTo_close_instant(t, d) == Closed(t) /\ Day(closed[t]) = d
AttributedTo(t, d) == Closed(t) /\ (closed[t] - 1) \div DayLength = d

\* The sum of the counters of S: how many bytes the rows of S stand for.
BytesOf(S) == Cardinality(UNION {{t} \X (1 .. rows[t].bytes) : t \in S})

\* Variant: every overlapped day gets the bytes.
DayBytes_every_day(d, now) == BytesOf({t \in Overlapping(d, now) : Closed(t)})
DayBytes(d, now) == BytesOf({t \in Overlapping(d, now) : AttributedTo(t, d)})

\* The window function of the peaks: +1 at a start, -1 at an end, running sum
\* in the order (ts, delta).
Events(S, d, now) ==
  {[ts |-> OverlapStart(t, d), delta |-> 1, id |-> t] : t \in S}
  \cup {[ts |-> OverlapEnd(t, d, now), delta |-> -1, id |-> t] : t \in S}

\* Variant: at equal times a start is counted before an end.
NotAfter_starts_first(e, f) == e.ts < f.ts \/ (e.ts = f.ts /\ e.delta >= f.delta)
NotAfter(e, f) == e.ts < f.ts \/ (e.ts = f.ts /\ e.delta <= f.delta)

Concurrent(E, f) ==
  Cardinality({e \in E : e.delta = 1 /\ NotAfter(e, f)})
    - Cardinality({e \in E : e.delta = -1 /\ NotAfter(e, f)})

DayPeak(d, now) ==
  LET S == Overlapping(d, now)
      E == Events(S, d, now)
  IN  IF E = {} THEN 0 ELSE Max({Concurrent(E, f) : f \in E})

-----------------------------------------------------------------------------
(* The rollup transaction                                                  *)

\* pg_try_advisory_xact_lock: no waiting.
Locked == \E r \in Rollers : roll[r].pc = "locked"

\* A tick of an edge's timer: the clock is read, rollup_window is computed and
\* the transaction takes the lock.  An edge that loses the lock skips the tick.
RollupTick ==
  /\ roll["timer"].pc = "idle" /\ ~Locked
  /\ roll' = [roll EXCEPT !["timer"] =
       [pc |-> "locked", now |-> clock, to |-> Day(clock),
        from |-> Max2(0, Day(clock) - (Lookback - 1))]]
  /\ UNCHANGED <<logVars, clock, daily>>

Finished(r) == [IdleRoll EXCEPT !.pc = IF r = "timer" THEN "idle" ELSE "done"]

\* The operator's `backfill --from a --to b`.
StartBackfill(a, b) ==
  /\ roll["backfill"].pc = "idle"
  /\ a <= b
  /\ roll' = [roll EXCEPT !["backfill"] = [pc |-> "begin", now |-> clock, from |-> a, to |-> b]]
  /\ UNCHANGED <<logVars, clock, daily>>

\* The backfill's transaction.  When the lock is taken it tries again with a
\* new clock reading, and gives up after five attempts.
BackfillLock ==
  /\ roll["backfill"].pc = "begin"
  /\ \/ ~Locked /\ roll' = [roll EXCEPT !["backfill"].pc = "locked"]
     \/ Locked /\ roll' = [roll EXCEPT !["backfill"].now = clock]
     \/ Locked /\ roll' = [roll EXCEPT !["backfill"] = Finished("backfill")]
  /\ UNCHANGED <<logVars, clock, daily>>

\* DELETE, INSERT, COMMIT; days without an overlapping row have no row.
\* Variant: the window ends with yesterday.
Recompute_not_today(r) ==
  daily' = [d \in Days |->
    IF d \in roll[r].from .. roll[r].to - 1
    THEN DayBytes(d, roll[r].now)
    ELSE daily[d]]
Recompute(r) ==
  daily' = [d \in Days |->
    IF d \in roll[r].from .. roll[r].to
    THEN DayBytes(d, roll[r].now)
    ELSE daily[d]]

CommitRollup(r) ==
  /\ roll[r].pc = "locked"
  /\ Recompute(r)
  /\ roll' = [roll EXCEPT ![r] = Finished(r)]
  /\ UNCHANGED <<logVars, clock>>

\* A failed statement: the transaction rolls back and the timer tries again.
RollbackRollup(r) ==
  /\ roll[r].pc = "locked"
  /\ roll' = [roll EXCEPT ![r] = Finished(r)]
  /\ UNCHANGED <<logVars, clock, daily>>

RollupNext ==
  \/ Tick \/ RollupTick
  \/ \E t \in Tunnels : LogOpen(t) \/ SendClose(t) \/ LogClose(t)
  \/ \E w \in Backfills : StartBackfill(w[1], w[2])
  \/ BackfillLock
  \/ \E r \in Rollers : CommitRollup(r) \/ RollbackRollup(r)

\* The timer ticks, a backfill's transaction is decided, and the database does
\* not fail the timer's every attempt.
RollupFairness ==
  /\ WF_rollupVars(RollupTick)
  /\ WF_rollupVars(CommitRollup("backfill") \/ RollbackRollup("backfill"))
  /\ SF_rollupVars(CommitRollup("timer"))

RollupSpec == RollupInit /\ [][RollupNext]_rollupVars /\ RollupFairness

-----------------------------------------------------------------------------
(* billing.rs: month_bytes_proxied_at                                      *)

MonthStart(m) == m * MonthLength * DayLength
MonthDays(m) == m * MonthLength .. (m + 1) * MonthLength - 1
\* Closed rows the month's sum includes (open rows count in the current month).
InMonth(t, m) == Closed(t) /\ closed[t] \in MonthStart(m) .. MonthStart(m + 1) - 1

-----------------------------------------------------------------------------
(* Properties                                                              *)

RollupTypeOK ==
  /\ used \in [Tunnels -> 0 .. MaxBytes]
  /\ rows \in [Tunnels -> [state : RowStates, bytes : 0 .. MaxBytes]]
  /\ clock \in 0 .. MaxTime
  /\ opened \in [Tunnels -> 0 .. MaxTime] /\ closed \in [Tunnels -> 0 .. MaxTime]
  /\ closing \subseteq OpenRows
  /\ roll \in [Rollers -> [pc : {"idle", "begin", "locked", "done"}, now : 0 .. MaxTime,
                           from : Days, to : Days]]
  /\ daily \in [Days -> 0 .. MaxBytes * Cardinality(Tunnels)]

\* No byte is billed on two days: the days together never show more than the
\* closed rows hold, whichever windows were recomputed, in whatever order and
\* with whatever clock reading.
NoDoubleBilling ==
  Cardinality(UNION {{d} \X (1 .. daily[d]) : d \in Days}) <= BytesOf({t \in Tunnels : Closed(t)})

Idle == \A r \in Rollers : roll[r].pc \in {"idle", "done"}

\* A closed row that was open for a while belongs to exactly one day, and the
\* month that billing counts it in is the month of that day, except for a row
\* closed at the first instant of a month (billing.rs:311 against the
\* microsecond taken off in ROLLUP_INSERT_SQL).
OneDayOneMonth ==
  Idle => \A t \in Tunnels : Closed(t) /\ closed[t] > opened[t] =>
    /\ \E d \in Days : /\ t \in Overlapping(d, clock) /\ AttributedTo(t, d)
                       /\ \A e \in Days \ {d} : ~ (t \in Overlapping(e, clock) /\ AttributedTo(t, e))
    /\ \A m \in 0 .. Day(MaxTime) : InMonth(t, m) =>
         \/ \E d \in MonthDays(m) : AttributedTo(t, d)
         \/ closed[t] = MonthStart(m)

\* The running sum over start and end events gives the number of tunnels that
\* were open at the same instant, also when one ends as another
\* starts (stated where no rollup is under way: it is about the log alone).
PeakIsConcurrency ==
  Idle => \A d \in Days :
    LET S == Overlapping(d, clock)
        OpenAt(i) == {t \in S : OverlapStart(t, d) <= i /\ i < OverlapEnd(t, d, clock)}
    IN  DayPeak(d, clock) = Max({Cardinality(OpenAt(i)) : i \in DayStart(d) .. DayEnd(d)})

\* Once the log is quiet, the timer alone brings the days of its window to
\* what the log says; late commits, lost races for the lock and failed
\* transactions only delay it.
Settled(d) == daily[d] = BytesOf({t \in Tunnels : Closed(t) /\ closed[t] > opened[t] /\ AttributedTo(t, d)})
RecentDaysSettle ==
  <>[](\A d \in (Day(clock) - 1 .. Day(clock)) \cap Days : Settled(d))

\* What the days say is what the log says: each byte on one day and in one
\* month, and the peak of each day a number of tunnels that were open together
\* (ROLLUP_INSERT_SQL).
UsageIsExact == RollupTypeOK /\ NoDoubleBilling /\ OneDayOneMonth /\ PeakIsConcurrency

=============================================================================
