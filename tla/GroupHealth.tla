----------------------------- MODULE GroupHealth -----------------------------
(***************************************************************************)
(* Health of a load-balancing group: the client's probe loop               *)
(* (rustunnel-client health.rs), the reports it sends over the control     *)
(* connection, the member's health bit and timeline (core/tunnel.rs), the  *)
(* debounced zero-healthy alert (core/router.rs, control/session.rs) and   *)
(* the dispatch of public traffic.                                         *)
(*                                                                         *)
(* Each member belongs to a session of its own, whose task handles its     *)
(* reports in order; the tasks of two members interleave between the       *)
(* atomics they share.                                                     *)
(***************************************************************************)
EXTENDS Integers, Sequences, FiniteSets, SequencesExt

CONSTANTS
    Members,        \* tunnels registered with a health check
    MaxFailed,      \* ProbeSpec.max_failed
    ReportCapacity, \* bound: reports between the probe and its session's task
    TimelineSize    \* HEALTH_EVENT_RING_SIZE

ASSUME MembersFinite == IsFiniteSet(Members)
ASSUME HealthBounds == {MaxFailed, ReportCapacity, TimelineSize} \subseteq Nat \ {0}

VARIABLES
    service,    \* service[m]: whether the local service answers a probe
    was,        \* was_healthy of the probe loop: "none", "up" or "down"
    streak,     \* consecutive_failures of the probe loop
    answered,   \* members whose service has answered a probe (history)
    reports,    \* reports[m]: TunnelHealthy / TunnelUnhealthy frames on their way
    joined,     \* joined[m]: "new", "in" the group, or "out"
    healthy,    \* GroupMember.healthy
    timeline,   \* GroupMember.health_events
    task,       \* task[m]: where the session's handler stands
    generation, \* which TunnelGroup object serves the label
    alerted,    \* its zero_healthy_alerted flag
    outage,     \* "none", "reported" by a member going down, or "alerted" (history)
    twice,      \* whether one outage was alerted twice (history)
    picked      \* the member the last public connection was given to

probeVars == <<service, was, streak, answered>>
memberVars == <<joined, healthy, timeline>>
alertVars == <<generation, alerted, outage, twice>>
healthVars == <<probeVars, reports, memberVars, task, alertVars, picked>>

Resting == [at |-> "rest", group |-> 0]
Nobody == "nobody"

HealthInit ==
    /\ service \in [Members -> BOOLEAN]
    /\ was = [m \in Members |-> "none"] /\ streak = [m \in Members |-> 0]
    /\ answered = {}
    /\ reports = [m \in Members |-> <<>>]
    /\ joined = [m \in Members |-> "new"] /\ healthy = [m \in Members |-> FALSE]
    /\ timeline = [m \in Members |-> <<>>]
    /\ task = [m \in Members |-> Resting]
    /\ generation = 0 /\ alerted = FALSE /\ outage = "none" /\ twice = FALSE
    /\ picked = Nobody

In == {m \in Members : joined[m] = "in"}
healthy_count(bits) == Cardinality({m \in In : bits[m]})

----------------------------------------------------------------------------
(* The client                                                              *)

ServiceFlips(m) ==
    /\ service' = [service EXCEPT ![m] = ~@]
    /\ UNCHANGED <<was, streak, answered, reports, memberVars, task, alertVars, picked>>

Capped(n) == IF n < MaxFailed THEN n ELSE MaxFailed

\* The streak after a probe: only a success that follows an earlier report of
\* the loop clears it.
NextStreak(m, up) ==
    IF ~up THEN Capped(streak[m] + 1)
    ELSE IF was[m] = "none" THEN streak[m] ELSE 0

\* What the loop reports after a probe, if anything: an edge.
\* Variant: a recovery is taken for the steady state.
Edge_misses_recovery(m, up) ==
    CASE up /\ was[m] = "none" -> "up"
      [] ~up /\ was[m] # "down" /\ streak[m] + 1 >= MaxFailed -> "down"
      [] OTHER -> "none"
Edge(m, up) ==
    CASE up /\ was[m] # "up" -> "up"
      [] ~up /\ was[m] # "down" /\ streak[m] + 1 >= MaxFailed -> "down"
      [] OTHER -> "none"

\* One turn of run_probe_loop; frame_tx.send waits while the channel is full.
run_probe_loop(m) ==
    /\ joined[m] = "in" /\ Len(reports[m]) < ReportCapacity
    /\ LET up == service[m]
           edge == Edge(m, up)
       IN  /\ streak' = [streak EXCEPT ![m] = NextStreak(m, up)]
           /\ answered' = IF up THEN answered \cup {m} ELSE answered
           /\ was' = [was EXCEPT ![m] = IF edge = "none" THEN @ ELSE edge]
           /\ reports' = [reports EXCEPT ![m] = IF edge = "none" THEN @ ELSE Append(@, edge)]
    /\ UNCHANGED <<service, memberVars, task, alertVars, picked>>

----------------------------------------------------------------------------
(* Registration                                                            *)

\* Variant: a member that asked for probes is trusted at once.
InitiallyHealthy_trusted == TRUE
\* GroupMember::with_health_spec: not trusted before its first report.
InitiallyHealthy == FALSE

\* The first member creates the group object, with a cleared flag.
Join(m) ==
    /\ joined[m] = "new" /\ joined' = [joined EXCEPT ![m] = "in"]
    /\ healthy' = [healthy EXCEPT ![m] = InitiallyHealthy]
    /\ timeline' = [timeline EXCEPT ![m] = <<InitiallyHealthy>>]
    /\ IF In = {} THEN generation' = generation + 1 /\ alerted' = FALSE /\ outage' = "none"
       ELSE UNCHANGED <<generation, alerted, outage>>
    /\ UNCHANGED <<probeVars, reports, task, twice, picked>>

\* remove_tunnel, also by a forced close while the session's task is busy. A
\* departure is no report: it ends the wait for the alert of one.
LeaveGroup(m) ==
    /\ joined[m] = "in" /\ joined' = [joined EXCEPT ![m] = "out"]
    /\ outage' = IF outage = "reported" THEN "none" ELSE outage
    /\ UNCHANGED <<probeVars, reports, healthy, timeline, task, generation, alerted, twice, picked>>

----------------------------------------------------------------------------
(* The session's handler                                                   *)

\* record_health_event: edges only, the oldest entry gives way.
\* Variant: every report is recorded.
Recorded_always(m, bit) ==
    Append(IF Len(timeline[m]) >= TimelineSize THEN Tail(timeline[m]) ELSE timeline[m], bit)
Recorded(m, bit) ==
    IF healthy[m] = bit THEN timeline[m]
    ELSE Append(IF Len(timeline[m]) >= TimelineSize THEN Tail(timeline[m]) ELSE timeline[m], bit)

Take(m, report) ==
    /\ task[m] = Resting /\ reports[m] # <<>> /\ Head(reports[m]) = report
    /\ reports' = [reports EXCEPT ![m] = Tail(@)]

\* A report for a tunnel that is no longer there is ignored.
Ignore(m) ==
    /\ m \notin In /\ \E report \in {"up", "down"} : Take(m, report)
    /\ UNCHANGED <<probeVars, memberVars, task, alertVars, picked>>

\* set_tunnel_healthy: the bit first ...
set_tunnel_healthy(m) ==
    /\ m \in In /\ Take(m, "up")
    /\ healthy' = [healthy EXCEPT ![m] = TRUE]
    /\ timeline' = [timeline EXCEPT ![m] = Recorded(m, TRUE)]
    /\ outage' = "none"
    /\ task' = [task EXCEPT ![m].at = "rearm"]
    /\ UNCHANGED <<probeVars, joined, generation, alerted, twice, picked>>

\* ... then the flag of the group the tunnel is in by now, if any.
Rearm(m) ==
    /\ task[m].at = "rearm" /\ task' = [task EXCEPT ![m] = Resting]
    /\ alerted' = IF m \in In THEN FALSE ELSE alerted
    /\ UNCHANGED <<probeVars, reports, memberVars, generation, outage, twice, picked>>

\* Variant: the last healthy member of a group is kept in service.
set_tunnel_unhealthy_spares(m) ==
    /\ m \in In /\ Take(m, "down")
    /\ LET bit == healthy[m] /\ healthy_count(healthy) = 1
       IN  /\ healthy' = [healthy EXCEPT ![m] = bit]
           /\ timeline' = [timeline EXCEPT ![m] = Recorded(m, bit)]
    /\ task' = [task EXCEPT ![m].at = "count"]
    /\ UNCHANGED <<probeVars, joined, alertVars, picked>>
\* set_tunnel_unhealthy.
set_tunnel_unhealthy(m) ==
    /\ m \in In /\ Take(m, "down")
    /\ healthy' = [healthy EXCEPT ![m] = FALSE]
    /\ timeline' = [timeline EXCEPT ![m] = Recorded(m, FALSE)]
    /\ outage' = IF healthy[m] /\ healthy_count(healthy') = 0 THEN "reported" ELSE outage
    /\ task' = [task EXCEPT ![m].at = "count"]
    /\ UNCHANGED <<probeVars, joined, generation, alerted, twice, picked>>

\* pop_zero_healthy_alert reads the count of the group it finds ...
CountHealthy(m) ==
    /\ task[m].at = "count"
    /\ task' = [task EXCEPT ![m] = IF m \in In /\ healthy_count(healthy) = 0
                                   THEN [at |-> "arm", group |-> generation] ELSE Resting]
    /\ UNCHANGED <<probeVars, reports, memberVars, alertVars, picked>>

\* Variant: the flag is read and set in two steps, here by not looking at it.
Armed_blindly(m) == TRUE
Armed(m) == ~alerted

\* ... and arms its flag with a compare-exchange; the alert is sent if the
\* tunnel can still be named.
Arm(m) ==
    /\ task[m].at = "arm" /\ task' = [task EXCEPT ![m] = Resting]
    /\ IF task[m].group = generation /\ Armed(m)
       THEN /\ alerted' = TRUE
            /\ IF m \in In /\ healthy_count(healthy) = 0
               THEN twice' = (twice \/ outage = "alerted") /\ outage' = "alerted"
               ELSE UNCHANGED <<outage, twice>>
       ELSE UNCHANGED <<alerted, outage, twice>>
    /\ UNCHANGED <<probeVars, reports, memberVars, generation, picked>>

----------------------------------------------------------------------------
\* dispatch_member: any healthy member of the group.
dispatch_member(m) ==
    /\ m \in In /\ healthy[m]
    /\ picked' = m
    /\ UNCHANGED <<probeVars, reports, memberVars, task, alertVars>>

MemberStep(m) ==
    \/ ServiceFlips(m) \/ run_probe_loop(m) \/ Join(m) \/ LeaveGroup(m)
    \/ Ignore(m) \/ set_tunnel_healthy(m) \/ Rearm(m)
    \/ set_tunnel_unhealthy(m) \/ CountHealthy(m) \/ Arm(m)
    \/ dispatch_member(m)

HealthNext == \E m \in Members : MemberStep(m)

Handle(m) ==
    \/ Ignore(m) \/ set_tunnel_healthy(m) \/ Rearm(m)
    \/ set_tunnel_unhealthy(m) \/ CountHealthy(m) \/ Arm(m)

\* The probe's ticker and the session's task run on.
HealthFairness == \A m \in Members : WF_healthVars(run_probe_loop(m)) /\ WF_healthVars(Handle(m))

HealthSpec == HealthInit /\ [][HealthNext]_healthVars
HealthFairSpec == HealthSpec /\ HealthFairness

----------------------------------------------------------------------------
\* Type invariant; neither a report channel nor a timeline outgrows its size.
HealthTypeOK ==
    /\ was \in [Members -> {"none", "up", "down"}]
    /\ streak \in [Members -> 0..MaxFailed]
    /\ \A m \in Members :
          /\ Len(reports[m]) <= ReportCapacity /\ ToSet(reports[m]) \subseteq {"up", "down"}
          /\ Len(timeline[m]) <= TimelineSize
          /\ joined[m] \in {"new", "in", "out"} /\ healthy[m] \in BOOLEAN
          /\ task[m].at \in {"rest", "rearm", "count", "arm"}
    /\ generation \in 0..Cardinality(Members) /\ alerted \in BOOLEAN
    /\ outage \in {"none", "reported", "alerted"}

\* A public connection is only given to a member whose local service has
\* answered a probe (with_health_spec, dispatch_member): a freshly registered
\* backend gets no traffic on trust.
OnlyProbedMembersServe == picked # Nobody => picked \in answered

\* Once a member's reports have been handled, the server's bit is what its
\* probe loop last said: no edge is lost or overtaken between health.rs and
\* the routing table.
QuietAgreement ==
    \A m \in In : reports[m] = <<>> /\ task[m] = Resting /\ was[m] # "none"
                      => healthy[m] = (was[m] = "up")

\* The timeline shows transitions only, and ends with the present state
\* (record_health_event, health_events_snapshot).
TimelineAlternates ==
    \A m \in In :
        /\ \A i \in 1..(Len(timeline[m]) - 1) : timeline[m][i] # timeline[m][i + 1]
        /\ Last(timeline[m]) = healthy[m]

\* An outage is alerted at most once, whichever members' reports race for the
\* debounce flag (pop_zero_healthy_alert).
OneAlertPerOutage == ~twice

\* A member whose service stays up for good ends up healthy, and stays so.
StableServiceIsServed ==
    \A m \in Members : <>[](joined[m] = "in" /\ service[m]) => <>[](healthy[m])

\* Probes, member flags, timelines and alerts tell one story: no unprobed member
\* is served, flags agree with probes when reports have arrived, timelines
\* alternate, and an outage is alerted once.
HealthIsConsistent ==
    /\ HealthTypeOK /\ OnlyProbedMembersServe /\ QuietAgreement
    /\ TimelineAlternates /\ OneAlertPerOutage

=============================================================================
