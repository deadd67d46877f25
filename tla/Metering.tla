------------------------------ MODULE Metering ------------------------------
(***************************************************************************)
(* From the in-memory counters of a tunnel to its `tunnel_log` row.  Three *)
(* kinds of task write one row: the session that registered the tunnel     *)
(* (insert, close on unregister, close at the end of the session), the     *)
(* periodic flush, and the shutdown sequence of main.  Each works on a     *)
(* snapshot it took before its own database round trip.  The process may   *)
(* crash at any point; a restart closes the rows it finds open.            *)
(* (db/metering.rs, db/mod.rs, main.rs, control/session.rs, billing.rs)    *)
(***************************************************************************)
EXTENDS Naturals, FiniteSets

CONSTANTS
  Sessions,      \* control sessions of one Hobby user on this edge
  Tunnels,       \* tunnel ids, numbered as they are issued
  MaxTunnels,    \* plans.max_tunnels of the user's plan
  Busy,          \* the tunnels that carry traffic in this instance
  MaxBytes,      \* bound on the bytes one tunnel carries
  MaxStops       \* bound on the exits and crashes of the server process

ASSUME IdsAreNumbers  == Tunnels \subseteq Nat
ASSUME PlanIsPositive == MaxTunnels \in Nat \ {0}
ASSUME MeterBounds    == MaxBytes \in Nat /\ MaxStops \in Nat
ASSUME SessionsFinite == IsFiniteSet(Sessions) /\ "timer" \notin Sessions /\ "main" \notin Sessions

VARIABLES
  phase,         \* the server process: serving, one of main's shutdown steps, or down
  stops,         \* exits and crashes so far
  sess,          \* what each session task is doing
  own,           \* session.tunnels: what each session ever registered
  todo,          \* the snapshots a task still has to write, per task
  live,          \* tunnels in TunnelCore's routing tables
  issued,        \* tunnel ids handed out so far
  counted,       \* tunnels whose counters this process has in memory
  meter,         \* TunnelInfo.bytes_in + bytes_out
  rows,          \* the tunnel_log table
  elsewhere,     \* the user's tunnel on another edge: its registration and row
  unclosed       \* history: rows whose closing statement failed

meterVars == <<phase, stops, sess, own, todo, live, issued, counted, meter, rows, elsewhere, unclosed>>

Flushers == {"timer", "main"}
Tasks    == Sessions \cup Flushers
Empty    == [t \in {} |-> 0]
OpenRows == {t \in Tunnels : rows[t].state = "open"}
Running  == phase # "down"

MeterInit ==
  /\ phase = "serving"
  /\ stops = 0
  /\ sess = [s \in Sessions |-> "loop"]
  /\ own = [s \in Sessions |-> {}]
  /\ todo = [k \in Tasks |-> Empty]
  /\ live = {} /\ issued = {} /\ counted = {}
  /\ meter = [t \in Tunnels |-> 0]
  /\ rows = [t \in Tunnels |-> [state |-> "none", bytes |-> 0]]
  /\ elsewhere = "none"
  /\ unclosed = {}

processVars == <<phase, stops, elsewhere>>
tableVars   == <<live, issued, counted, own>>

\* TunnelCore::tunnel_meter: a tunnel no longer in the tables reads as zero.
tunnel_meter(t) == IF t \in live THEN meter[t] ELSE 0
live_tunnel_meters == [t \in live |-> meter[t]]

Greatest(a, b) == IF a >= b THEN a ELSE b

\* UPDATE ... SET bytes = GREATEST(bytes, n) WHERE tunnel_id = t AND unregistered_at IS NULL
\* Variant: the snapshot is stored as it is, without GREATEST.
WriteCounters_overwrite(t, n) ==
  rows' = IF rows[t].state = "open" THEN [rows EXCEPT ![t].bytes = n] ELSE rows
WriteCounters(t, n) ==
  rows' = IF rows[t].state = "open" THEN [rows EXCEPT ![t].bytes = Greatest(@, n)] ELSE rows

\* log_tunnel_unregistered: the same with unregistered_at = now.
WriteClose(t, n) ==
  rows' = IF rows[t].state = "open"
          THEN [rows EXCEPT ![t] = [state |-> "closed", bytes |-> Greatest(@.bytes, n)]]
          ELSE rows

Drop(f, t) == [u \in DOMAIN f \ {t} |-> f[u]]
Done(k, t) == todo' = [todo EXCEPT ![k] = Drop(@, t)]

-----------------------------------------------------------------------------
(* Traffic and the session task                                            *)

\* TransferMeter::add from a proxy task, which keeps its Arc of the counters
\* after the tunnel left the tables.
Transfer(t) ==
  /\ Running /\ t \in counted \cap Busy
  /\ meter[t] < MaxBytes
  /\ meter' = [meter EXCEPT ![t] = @ + 1]
  /\ UNCHANGED <<processVars, tableVars, sess, todo, rows, unclosed>>

\* Uuid::new_v4: the next id, never issued twice.
NewId(t) == t \notin issued /\ \A u \in Tunnels : u < t => u \in issued

\* blocking_limit on the COUNT(*) of open rows of the user.
UserRows == Cardinality(OpenRows) + (IF elsewhere = "open" THEN 1 ELSE 0)
\* Variant: the limit itself is still allowed.
WithinPlan_off_by_one == UserRows <= MaxTunnels
WithinPlan == UserRows < MaxTunnels

\* RegisterTunnel: evaluate_hobby_limits, then register_*_tunnel.  The tunnel
\* is live before its row is inserted.  A refusal changes nothing.
RegisterTunnel(s, t) ==
  /\ Running /\ sess[s] = "loop"
  /\ WithinPlan
  /\ NewId(t)
  /\ live' = live \cup {t} /\ counted' = counted \cup {t} /\ issued' = issued \cup {t}
  /\ own' = [own EXCEPT ![s] = @ \cup {t}]
  /\ todo' = [todo EXCEPT ![s] = [u \in {t} |-> 0]]
  /\ sess' = [sess EXCEPT ![s] = "insert"]
  /\ UNCHANGED <<processVars, meter, rows, unclosed>>

\* log_tunnel_registered; its error is ignored.
InsertRow(s) ==
  /\ Running /\ sess[s] = "insert"
  /\ \E t \in DOMAIN todo[s] :
       /\ Done(s, t)
       /\ rows' = [rows EXCEPT ![t].state = "open"] \/ UNCHANGED rows
  /\ sess' = [sess EXCEPT ![s] = "loop"]
  /\ UNCHANGED <<processVars, tableVars, meter, unclosed>>

\* One closing statement of task k, or its ignored error.
CloseStatement(k, t) ==
  /\ Done(k, t)
  /\ \/ WriteClose(t, todo[k][t]) /\ UNCHANGED unclosed
     \/ unclosed' = unclosed \cup {t} /\ UNCHANGED rows

\* UnregisterTunnel: the counters are read before the statement is awaited.
Unregister(s, t) ==
  /\ Running /\ sess[s] = "loop" /\ t \in own[s]
  /\ todo' = [todo EXCEPT ![s] = [u \in {t} |-> tunnel_meter(t)]]
  /\ sess' = [sess EXCEPT ![s] = "unregister"]
  /\ UNCHANGED <<processVars, tableVars, meter, rows, unclosed>>

FinishUnregister(s) ==
  /\ Running /\ sess[s] = "unregister"
  /\ \E t \in DOMAIN todo[s] : CloseStatement(s, t) /\ live' = live \ {t}
  /\ sess' = [sess EXCEPT ![s] = "loop"]
  /\ UNCHANGED <<processVars, issued, counted, own, meter>>

\* The end of main_loop: counters of every tunnel the session registered.
\* Variant: only tunnels still in the tables are collected.
Remaining_live(s) == own[s] \cap live
Remaining(s) == own[s]

CollectRemaining(s) ==
  /\ Running /\ sess[s] = "loop"
  /\ todo' = [todo EXCEPT ![s] = [t \in Remaining(s) |-> tunnel_meter(t)]]
  /\ sess' = [sess EXCEPT ![s] = "ending"]
  /\ UNCHANGED <<processVars, tableVars, meter, rows, unclosed>>

CloseRemaining(s) ==
  /\ Running /\ sess[s] = "ending"
  /\ \E t \in DOMAIN todo[s] : CloseStatement(s, t)
  /\ UNCHANGED <<processVars, tableVars, sess, meter>>

\* remove_session, once every row is written.
RemoveSession(s) ==
  /\ Running /\ sess[s] = "ending" /\ todo[s] = Empty
  /\ live' = live \ own[s]
  /\ own' = [own EXCEPT ![s] = {}]
  /\ sess' = [sess EXCEPT ![s] = "gone"]
  /\ UNCHANGED <<processVars, issued, counted, todo, meter, rows, unclosed>>

\* The dashboard's force_close_tunnel: no row is written.
ForceClose(t) ==
  /\ Running /\ t \in live
  /\ live' = live \ {t}
  /\ UNCHANGED <<processVars, issued, counted, own, sess, todo, meter, rows, unclosed>>

\* A session of the same user on another edge: the same check, insert and
\* close.  Its row carries another region_id, so nothing here touches it.
Elsewhere ==
  /\ \/ elsewhere = "none" /\ WithinPlan /\ elsewhere' = "checked"
     \/ elsewhere = "checked" /\ elsewhere' = "open"
     \/ elsewhere = "open" /\ elsewhere' = "closed"
  /\ UNCHANGED <<phase, stops, tableVars, sess, todo, meter, rows, unclosed>>

-----------------------------------------------------------------------------
(* The periodic flush and main's shutdown sequence                         *)

\* A tick of the meter task; ticks missed during a slow flush are skipped.
FlushTick ==
  /\ Running /\ todo["timer"] = Empty
  /\ live # {}
  /\ todo' = [todo EXCEPT !["timer"] = live_tunnel_meters]
  /\ UNCHANGED <<processVars, tableVars, sess, meter, rows, unclosed>>

\* flush_live_meters: one statement of task f.
\* Variant: the statement is sent for no row at all.
FlushOne_skips(f, t) == t \in DOMAIN todo[f] /\ Done(f, t) /\ UNCHANGED rows
FlushOne(f, t) ==
  /\ t \in DOMAIN todo[f]
  /\ WriteCounters(t, todo[f][t])
  /\ Done(f, t)

\* The first error ends the round.
Abandon(f) ==
  /\ todo[f] # Empty
  /\ todo' = [todo EXCEPT ![f] = Empty]
  /\ UNCHANGED rows

TimerFlush(t) ==
  /\ Running
  /\ FlushOne("timer", t)
  /\ UNCHANGED <<processVars, tableVars, sess, meter, unclosed>>

TimerError ==
  /\ Running
  /\ Abandon("timer")
  /\ UNCHANGED <<processVars, tableVars, sess, meter, unclosed>>

\* SIGTERM: main flushes, asks the sessions to exit and waits (those that get
\* the message take CollectRemaining; the accept loops never end, so the wait always
\* times out), then flushes and closes what is still registered.
Signal ==
  /\ phase = "serving" /\ stops < MaxStops
  /\ phase' = "flush"
  /\ todo' = [todo EXCEPT !["main"] = live_tunnel_meters]
  /\ UNCHANGED <<stops, elsewhere, tableVars, sess, meter, rows, unclosed>>

ShutdownFlush ==
  /\ phase = "flush"
  /\ (\E t \in Tunnels : FlushOne("main", t)) \/ Abandon("main")
  /\ UNCHANGED <<processVars, tableVars, sess, meter, unclosed>>

DrainTimeout ==
  /\ phase = "flush" /\ todo["main"] = Empty
  /\ phase' = "close"
  /\ todo' = [todo EXCEPT !["main"] = live_tunnel_meters]
  /\ UNCHANGED <<stops, elsewhere, tableVars, sess, meter, rows, unclosed>>

\* flush_and_close_live_meters; an error of either statement ends it.
ShutdownClose ==
  /\ phase = "close"
  /\ \/ \E t \in DOMAIN todo["main"] : WriteClose(t, todo["main"][t]) /\ Done("main", t)
     \/ Abandon("main")
  /\ UNCHANGED <<processVars, tableVars, sess, meter, unclosed>>

\* The process is gone, and with it all that was only in memory.
Down ==
  /\ phase' = "down"
  /\ stops' = stops + 1
  /\ sess' = [s \in Sessions |-> "gone"]
  /\ own' = [s \in Sessions |-> {}]
  /\ todo' = [k \in Tasks |-> Empty]
  /\ live' = {} /\ counted' = {}
  /\ UNCHANGED <<issued, elsewhere, meter, rows, unclosed>>

Exit == phase = "close" /\ todo["main"] = Empty /\ Down

Crash == Running /\ stops < MaxStops /\ Down

\* close_stale_tunnels, before anything listens.
CloseStale ==
  rows' = [t \in Tunnels |-> IF t \in OpenRows THEN [rows[t] EXCEPT !.state = "closed"] ELSE rows[t]]

Restart ==
  /\ phase = "down"
  /\ CloseStale
  /\ phase' = "serving" /\ unclosed' = {}
  /\ UNCHANGED <<stops, elsewhere, tableVars, sess, todo, meter>>

SessionStep(s) ==
  \/ InsertRow(s) \/ FinishUnregister(s)
  \/ CollectRemaining(s) \/ CloseRemaining(s) \/ RemoveSession(s)
  \/ \E t \in Tunnels : RegisterTunnel(s, t) \/ Unregister(s, t)

ShutdownStep == Signal \/ ShutdownFlush \/ DrainTimeout \/ ShutdownClose \/ Exit

MeterNext ==
  \/ \E s \in Sessions : SessionStep(s)
  \/ \E t \in Tunnels : Transfer(t) \/ ForceClose(t) \/ TimerFlush(t)
  \/ FlushTick \/ TimerError \/ ShutdownStep
  \/ Crash \/ Restart \/ Elsewhere

\* The interval keeps ticking, and the database does not fail every time the
\* flush reaches a given row.
MeterFairness ==
  /\ WF_meterVars(FlushTick)
  /\ WF_meterVars(\E t \in Tunnels : TimerFlush(t))
  /\ \A t \in Tunnels : SF_meterVars(TimerFlush(t))

MeterSpec == MeterInit /\ [][MeterNext]_meterVars
MeterFairSpec == MeterSpec /\ MeterFairness

-----------------------------------------------------------------------------
(* Properties                                                              *)

MeterTypeOK ==
  /\ phase \in {"serving", "flush", "close", "down"}
  /\ stops \in 0 .. MaxStops
  /\ sess \in [Sessions -> {"gone", "loop", "insert", "unregister", "ending"}]
  /\ own \in [Sessions -> SUBSET Tunnels]
  /\ \A k \in Tasks : DOMAIN todo[k] \subseteq Tunnels
                      /\ \A t \in DOMAIN todo[k] : todo[k][t] \in 0 .. MaxBytes
  /\ live \subseteq counted /\ counted \subseteq issued /\ issued \subseteq Tunnels
  /\ meter \in [Tunnels -> 0 .. MaxBytes]
  /\ rows \in [Tunnels -> [state : {"none", "open", "closed"}, bytes : 0 .. MaxBytes]]
  /\ elsewhere \in {"none", "checked", "open", "closed"}
  /\ unclosed \subseteq Tunnels

\* The table implements the account promised to billing: counters only grow,
\* never beyond what was carried, and a closed row is final, whichever of the
\* racing snapshots is written last and wherever the process dies
\* (the claim of db/metering.rs:3-10).
Account == INSTANCE UsageAccount WITH used <- meter
AccountRefined == Account!AccountSpec

\* While the server runs, an open row belongs to a session that still has the
\* tunnel in its list and will close it, so a user's plan is not used up by
\* tunnels that are gone; only a failed closing statement leaves one behind.
RowsFollowSessions ==
  Running => \A t \in OpenRows : t \in unclosed \/ \E s \in Sessions : t \in own[s]

\* Sessions check the plan and insert later.  Each can overtake the limit by
\* its own registration, and by no more: the open rows of a user stay below
\* the plan's limit plus the number of his sessions, wherever they are.
PlanOverrunBounded == UserRows <= MaxTunnels + Cardinality(Sessions)

\* What a live tunnel with an open row has counted reaches its row, unless the
\* tunnel, the row or the process goes first (the flush task of main.rs).
CountedBytesReachTheRow ==
  \A t \in Tunnels : \A n \in 1 .. MaxBytes :
    (t \in live /\ rows[t].state = "open" /\ meter[t] = n)
      ~> (rows[t].bytes >= n \/ t \notin live \/ rows[t].state # "open" \/ ~Running)

\* The open rows of a user, which the plan's limit counts, are those of the
\* tunnels he has, and exceed the limit by no more than the race of his sessions
\* (gate_tunnel_registration, log_tunnel_unregistered).
RowsAccounted == MeterTypeOK /\ RowsFollowSessions /\ PlanOverrunBounded

=============================================================================
