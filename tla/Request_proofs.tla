---------------------------- MODULE Request_proofs ----------------------------
(***************************************************************************)
(* Proofs about the public side of an HTTP tunnel: the health of a group   *)
(* of any number of members (GroupHealth), and the limits, permits and     *)
(* captures of any number of requests (HttpEdge).                          *)
(***************************************************************************)
EXTENDS HttpEdge, GroupHealth, FiniteSetTheorems, SequenceTheorems, TLAPS

-----------------------------------------------------------------------------
(* GroupHealth: the inductive invariant *)

\* The entries of a timeline.
Bits == BOOLEAN

HealthShape ==
  /\ service \in [Members -> BOOLEAN]
  /\ was \in [Members -> {"none", "up", "down"}]
  /\ streak \in [Members -> 0 .. MaxFailed]
  /\ answered \subseteq Members
  /\ reports \in [Members -> Seq({"up", "down"})]
  /\ joined \in [Members -> {"new", "in", "out"}]
  /\ healthy \in [Members -> BOOLEAN]
  /\ timeline \in [Members -> Seq(Bits)]
  /\ task \in [Members -> [at : {"rest", "rearm", "count", "arm"}, group : Nat]]
  /\ generation \in Nat
  /\ alerted \in BOOLEAN /\ twice \in BOOLEAN
  /\ outage \in {"none", "reported", "alerted"}

Sizes ==
  \A m \in Members : Len(reports[m]) <= ReportCapacity /\ Len(timeline[m]) <= TimelineSize

\* A group object is created by a member that joins, and no member joins twice.
Seen == {m \in Members : joined[m] # "new"}
GenerationsCounted == generation <= Cardinality(Seen)

\* The member's bit is the last word of its probe loop, once the reports on
\* their way have been handled.
BitFollowsReports ==
  \A m \in In :
    /\ was[m] = "none" => reports[m] = <<>>
    /\ reports[m] # <<>> => reports[m][Len(reports[m])] = was[m]
    /\ reports[m] = <<>> /\ was[m] # "none" => healthy[m] = (was[m] = "up")

\* Nothing is on its way for a member that has not joined.
NewIsQuiet == \A m \in Members : joined[m] = "new" => was[m] = "none" /\ reports[m] = <<>>

\* Neither a good report nor the bit it sets comes from a service that never
\* answered.
GoodNewsIsProbed ==
  \A m \in Members :
    healthy[m] \/ (\E i \in 1 .. Len(reports[m]) : reports[m][i] = "up") => m \in answered

TimelineInv ==
  \A m \in In :
    /\ Len(timeline[m]) > 0 /\ timeline[m][Len(timeline[m])] = healthy[m]
    /\ \A i \in 1 .. (Len(timeline[m]) - 1) : timeline[m][i] # timeline[m][i + 1]

\* An alerted outage has its flag armed and no healthy member; a handler about
\* to clear the flag has a healthy member behind it.
AlertInv ==
  /\ ~twice
  /\ \A m \in Members : joined[m] = "new" => task[m].at = "rest"
  /\ \A m \in In : task[m].at = "rearm" => healthy[m]
  /\ outage = "alerted" => alerted /\ \A m \in In : ~healthy[m]

HealthInv ==
  /\ HealthShape /\ Sizes /\ GenerationsCounted /\ BitFollowsReports /\ NewIsQuiet
  /\ GoodNewsIsProbed /\ OnlyProbedMembersServe /\ TimelineInv /\ AlertInv

-----------------------------------------------------------------------------
(* A bounded history that gives up its oldest entry *)

Alternates(q) == \A i \in 1 .. (Len(q) - 1) : q[i] # q[i + 1]
Rolled(q, x, size) == Append(IF Len(q) >= size THEN Tail(q) ELSE q, x)

LEMMA RolledSeq ==
  ASSUME NEW S, NEW q \in Seq(S), NEW x \in S, NEW size \in Nat \ {0}, Len(q) <= size
  PROVE  /\ Rolled(q, x, size) \in Seq(S)
         /\ Len(Rolled(q, x, size)) \in 1 .. size
         /\ Rolled(q, x, size)[Len(Rolled(q, x, size))] = x
<1>1. CASE Len(q) >= size
  <2>1. Tail(q) \in Seq(S) /\ Len(Tail(q)) = Len(q) - 1
    BY <1>1
  <2> QED
    BY <1>1, <2>1 DEF Rolled
<1>2. CASE ~(Len(q) >= size)
  BY <1>2 DEF Rolled
<1> QED
  BY <1>1, <1>2

LEMMA RolledAlternates ==
  ASSUME NEW S, NEW q \in Seq(S), NEW x \in S, NEW size \in Nat \ {0}, Len(q) <= size,
         Len(q) > 0, Alternates(q), q[Len(q)] # x
  PROVE  Alternates(Rolled(q, x, size))
<1>1. CASE Len(q) >= size
  <2>1. /\ Tail(q) \in Seq(S) /\ Len(Tail(q)) = Len(q) - 1
        /\ \A i \in 1 .. (Len(q) - 1) : Tail(q)[i] = q[i + 1]
    BY <1>1
  <2> DEFINE t == Tail(q)
  <2>2. /\ Len(Append(t, x)) = Len(q) /\ Append(t, x)[Len(q)] = x
        /\ \A i \in 1 .. (Len(q) - 1) : Append(t, x)[i] = t[i]
    BY <2>1
  <2>3. SUFFICES ASSUME NEW i \in 1 .. (Len(q) - 1) PROVE Append(t, x)[i] # Append(t, x)[i + 1]
    BY <1>1, <2>2 DEF Rolled, Alternates
  <2>4. CASE i = Len(q) - 1
    BY <2>1, <2>2, <2>4
  <2>5. CASE i < Len(q) - 1
    <3> HIDE DEF t
    <3>1. i \in 1 .. (Len(q) - 1) /\ i + 1 \in 1 .. (Len(q) - 1)
      BY <2>5
    <3>2. Append(t, x)[i] = q[i + 1] /\ Append(t, x)[i + 1] = q[i + 1 + 1]
      BY <2>1, <2>2, <3>1 DEF t
    <3> QED
      BY <3>1, <3>2 DEF Alternates
  <2> QED
    BY <2>4, <2>5
<1>2. CASE ~(Len(q) >= size)
  BY <1>2 DEF Rolled, Alternates
<1> QED
  BY <1>1, <1>2

-----------------------------------------------------------------------------
(* GroupHealth: initial states and steps *)

LEMMA HealthStarts == HealthInit => HealthInv
<1> SUFFICES ASSUME HealthInit PROVE HealthInv
  OBVIOUS
<1>1. HealthShape
  <2>1. task \in [Members -> [at : {"rest", "rearm", "count", "arm"}, group : Nat]]
    BY DEF HealthInit, Resting
  <2>2. healthy \in [Members -> BOOLEAN] /\ alerted \in BOOLEAN /\ twice \in BOOLEAN
    BY Zenon DEF HealthInit
  <2>3. timeline \in [Members -> Seq(Bits)] /\ reports \in [Members -> Seq({"up", "down"})]
    BY DEF HealthInit
  <2> QED
    BY <2>1, <2>2, <2>3, HealthBounds DEF HealthInit, HealthShape
<1>2. Sizes /\ BitFollowsReports /\ NewIsQuiet /\ GoodNewsIsProbed /\ OnlyProbedMembersServe
  BY HealthBounds DEF HealthInit, Sizes, BitFollowsReports, NewIsQuiet, GoodNewsIsProbed,
     OnlyProbedMembersServe, In
<1>3. TimelineInv /\ AlertInv
  BY DEF HealthInit, TimelineInv, AlertInv, In, Resting
<1>4. GenerationsCounted
  <2>1. Seen = {}
    BY DEF HealthInit, Seen
  <2> QED
    BY <2>1, FS_EmptySet DEF HealthInit, GenerationsCounted
<1> QED
  BY <1>1, <1>2, <1>3, <1>4 DEF HealthInv

\* What Take leaves of a queue.
LEMMA TakenReport ==
  ASSUME NEW m \in Members, NEW report, HealthShape, Take(m, report)
  PROVE  /\ reports' \in [Members -> Seq({"up", "down"})]
         /\ \A n \in Members \ {m} : reports'[n] = reports[n]
         /\ Len(reports[m]) > 0 /\ reports[m][1] = report
         /\ Len(reports'[m]) = Len(reports[m]) - 1
         /\ \A i \in 1 .. Len(reports'[m]) : reports'[m][i] = reports[m][i + 1]
BY DEF Take, HealthShape

LEMMA TakenSizes ==
  ASSUME NEW m \in Members, NEW report, HealthShape, Sizes, Take(m, report)
  PROVE  /\ reports' \in [Members -> Seq({"up", "down"})]
         /\ \A n \in Members : Len(reports'[n]) <= ReportCapacity
<1>1. /\ reports' \in [Members -> Seq({"up", "down"})]
      /\ \A n \in Members \ {m} : reports'[n] = reports[n]
      /\ Len(reports'[m]) = Len(reports[m]) - 1
  BY TakenReport
<1>2. \A n \in Members : Len(reports[n]) <= ReportCapacity /\ Len(reports[n]) \in Nat
  BY DEF HealthShape, Sizes
<1>3. ReportCapacity \in Nat
  BY HealthBounds
<1> QED
  BY <1>1, <1>2, <1>3

\* What recording a bit makes of a timeline.
LEMMA RecordedTimeline ==
  ASSUME NEW m \in Members, NEW bit, bit \in Bits, HealthShape, Sizes
  PROVE  /\ Recorded(m, bit) \in Seq(Bits)
         /\ Len(Recorded(m, bit)) <= TimelineSize
         /\ Len(timeline[m]) > 0 /\ Alternates(timeline[m]) /\ timeline[m][Len(timeline[m])] = healthy[m]
              => /\ Len(Recorded(m, bit)) > 0 /\ Alternates(Recorded(m, bit))
                 /\ Recorded(m, bit)[Len(Recorded(m, bit))] = bit
<1>1. timeline[m] \in Seq(Bits) /\ Len(timeline[m]) <= TimelineSize
  BY DEF HealthShape, Sizes
<1>2. TimelineSize \in Nat \ {0}
  BY HealthBounds
<1>3. CASE healthy[m] = bit
  <2>1. Recorded(m, bit) = timeline[m]
    BY <1>3, Zenon DEF Recorded
  <2> QED
    BY <1>1, <1>3, <2>1, Zenon
<1>4. CASE healthy[m] # bit
  <2>1. Recorded(m, bit) = Rolled(timeline[m], bit, TimelineSize)
    BY <1>4, Zenon DEF Recorded, Rolled
  <2>2. /\ Rolled(timeline[m], bit, TimelineSize) \in Seq(Bits)
        /\ Len(Rolled(timeline[m], bit, TimelineSize)) \in 1 .. TimelineSize
        /\ Rolled(timeline[m], bit, TimelineSize)[Len(Rolled(timeline[m], bit, TimelineSize))] = bit
    BY <1>1, <1>2, RolledSeq
  <2>3. \A n \in 1 .. TimelineSize : n > 0 /\ n <= TimelineSize
    BY <1>2
  <2>4. Len(timeline[m]) > 0 /\ Alternates(timeline[m]) /\ timeline[m][Len(timeline[m])] = healthy[m]
          => Alternates(Rolled(timeline[m], bit, TimelineSize))
    BY <1>1, <1>2, <1>4, RolledAlternates, Zenon
  <2> QED
    BY <2>1, <2>2, <2>3, <2>4, Zenon
<1> QED
  BY <1>3, <1>4

LEMMA ShapeStep ==
  ASSUME HealthShape, Sizes, NEW m \in Members, MemberStep(m)
  PROVE  HealthShape' /\ Sizes'
<1>1. CASE ServiceFlips(m)
  BY <1>1 DEF ServiceFlips, HealthShape, Sizes, memberVars, alertVars
<1>2. CASE run_probe_loop(m)
  <2>1. Edge(m, service[m]) \in {"none", "up", "down"}
    BY DEF Edge
  <2>2. NextStreak(m, service[m]) \in 0 .. MaxFailed
    BY HealthBounds DEF NextStreak, Capped, HealthShape
  <2> QED
    BY <1>2, <2>1, <2>2, HealthBounds DEF run_probe_loop, HealthShape, Sizes, memberVars, alertVars
<1>3. CASE Join(m)
  <2>1. healthy' \in [Members -> BOOLEAN]
    BY <1>3 DEF Join, HealthShape, InitiallyHealthy
  <2>2. FALSE \in Bits
    BY DEF Bits
  <2>3. timeline' \in [Members -> Seq(Bits)] /\ \A n \in Members : Len(timeline'[n]) <= TimelineSize
    <3> DEFINE t == <<FALSE>>
    <3> HIDE DEF t
    <3>1. timeline' = [timeline EXCEPT ![m] = t]
      BY <1>3, Zenon DEF Join, InitiallyHealthy, t
    <3>2. t \in Seq(Bits) /\ Len(t) = 1
      <4>1. \A x \in Bits : <<x>> \in Seq(Bits) /\ Len(<<x>>) = 1
        OBVIOUS
      <4> QED
        BY <2>2, <4>1, Zenon DEF t
    <3>3. timeline \in [Members -> Seq(Bits)] /\ \A n \in Members : Len(timeline[n]) <= TimelineSize
      BY DEF HealthShape, Sizes
    <3>4. 1 <= TimelineSize
      BY HealthBounds
    <3> QED
      BY <3>1, <3>2, <3>3, <3>4
  <2>4. /\ joined' = [joined EXCEPT ![m] = "in"]
        /\ generation' \in {generation, generation + 1} /\ outage' \in {outage, "none"}
    BY <1>3, Zenon DEF Join
  <2>6. alerted' \in BOOLEAN
    BY <1>3, Zenon DEF Join, HealthShape
  <2>5. UNCHANGED <<service, was, streak, answered, reports, task, twice>>
    BY <1>3 DEF Join, probeVars
  <2> QED
    BY <2>1, <2>3, <2>4, <2>5, <2>6 DEF HealthShape, Sizes
<1>4. CASE LeaveGroup(m)
  BY <1>4 DEF LeaveGroup, HealthShape, Sizes, probeVars
<1>5. CASE Ignore(m)
  <2>1. PICK report \in {"up", "down"} : Take(m, report)
    BY <1>5 DEF Ignore
  <2>2. reports' \in [Members -> Seq({"up", "down"})] /\ \A n \in Members : Len(reports'[n]) <= ReportCapacity
    BY <2>1, TakenSizes
  <2> QED
    BY <1>5, <2>2 DEF Ignore, HealthShape, Sizes, probeVars, memberVars, alertVars
<1>6. ASSUME NEW bit, bit \in Bits, NEW report, Take(m, report),
             healthy' = [healthy EXCEPT ![m] = bit],
             timeline' = [timeline EXCEPT ![m] = Recorded(m, bit)]
      PROVE  /\ healthy' \in [Members -> BOOLEAN] /\ timeline' \in [Members -> Seq(Bits)]
             /\ reports' \in [Members -> Seq({"up", "down"})] /\ Sizes'
  <2>1. PICK t : t = Recorded(m, bit)
    OBVIOUS
  <2>2. t \in Seq(Bits) /\ Len(t) <= TimelineSize
    BY <1>6, <2>1, RecordedTimeline, Zenon
  <2>3. timeline' = [timeline EXCEPT ![m] = t]
    BY <1>6, <2>1, Zenon
  <2>4. timeline' \in [Members -> Seq(Bits)] /\ \A n \in Members : Len(timeline'[n]) <= TimelineSize
    BY <2>2, <2>3 DEF HealthShape, Sizes
  <2>5. healthy' \in [Members -> BOOLEAN]
    BY <1>6 DEF HealthShape, Bits
  <2>6. reports' \in [Members -> Seq({"up", "down"})] /\ \A n \in Members : Len(reports'[n]) <= ReportCapacity
    BY <1>6, TakenSizes
  <2> QED
    BY <2>4, <2>5, <2>6 DEF Sizes
<1>7. CASE set_tunnel_healthy(m)
  <2>1. /\ healthy' \in [Members -> BOOLEAN] /\ timeline' \in [Members -> Seq(Bits)]
        /\ reports' \in [Members -> Seq({"up", "down"})] /\ Sizes'
    BY <1>6, <1>7, Zenon DEF set_tunnel_healthy, Bits
  <2>2. task' \in [Members -> [at : {"rest", "rearm", "count", "arm"}, group : Nat]]
    BY <1>7 DEF set_tunnel_healthy, HealthShape
  <2> QED
    BY <1>7, <2>1, <2>2 DEF set_tunnel_healthy, HealthShape, probeVars
<1>8. CASE Rearm(m)
  BY <1>8 DEF Rearm, HealthShape, Sizes, probeVars, memberVars, Resting
<1>9. CASE set_tunnel_unhealthy(m)
  <2>1. /\ healthy' \in [Members -> BOOLEAN] /\ timeline' \in [Members -> Seq(Bits)]
        /\ reports' \in [Members -> Seq({"up", "down"})] /\ Sizes'
    BY <1>6, <1>9, Zenon DEF set_tunnel_unhealthy, Bits
  <2>2. task' \in [Members -> [at : {"rest", "rearm", "count", "arm"}, group : Nat]]
    BY <1>9 DEF set_tunnel_unhealthy, HealthShape
  <2>3. outage' \in {"none", "reported", "alerted"}
    BY <1>9, Zenon DEF set_tunnel_unhealthy, HealthShape
  <2> QED
    BY <1>9, <2>1, <2>2, <2>3, Zenon DEF set_tunnel_unhealthy, HealthShape, probeVars
<1>10. CASE CountHealthy(m)
  BY <1>10 DEF CountHealthy, HealthShape, Sizes, probeVars, memberVars, alertVars, Resting
<1>11. CASE Arm(m)
  BY <1>11 DEF Arm, HealthShape, Sizes, probeVars, memberVars, Resting
<1>12. CASE dispatch_member(m)
  BY <1>12 DEF dispatch_member, HealthShape, Sizes, probeVars, memberVars, alertVars
<1> QED
  BY <1>1, <1>2, <1>3, <1>4, <1>5, <1>7, <1>8, <1>9, <1>10, <1>11, <1>12 DEF MemberStep

\* A step of one member leaves the others' reports, bits and handlers alone.
LEMMA OthersStay ==
  ASSUME HealthShape, NEW m \in Members, MemberStep(m), NEW n \in Members, n # m
  PROVE  /\ was'[n] = was[n] /\ reports'[n] = reports[n] /\ joined'[n] = joined[n]
         /\ healthy'[n] = healthy[n] /\ timeline'[n] = timeline[n] /\ task'[n] = task[n]
<1>1. was'[n] = was[n] /\ joined'[n] = joined[n] /\ task'[n] = task[n]
  BY DEF MemberStep, ServiceFlips, run_probe_loop, Join, LeaveGroup, Ignore, set_tunnel_healthy, Rearm,
     set_tunnel_unhealthy, CountHealthy, Arm, dispatch_member, HealthShape, probeVars, memberVars
<1>2. reports'[n] = reports[n]
  BY DEF MemberStep, ServiceFlips, run_probe_loop, Join, LeaveGroup, Ignore, set_tunnel_healthy, Rearm,
     set_tunnel_unhealthy, CountHealthy, Arm, dispatch_member, Take, HealthShape
<1>3. /\ healthy' = healthy \/ \E x : healthy' = [healthy EXCEPT ![m] = x]
      /\ timeline' = timeline \/ \E x : timeline' = [timeline EXCEPT ![m] = x]
  BY Zenon DEF MemberStep, ServiceFlips, run_probe_loop, Join, LeaveGroup, Ignore, set_tunnel_healthy,
     Rearm, set_tunnel_unhealthy, CountHealthy, Arm, dispatch_member, memberVars
<1>4. healthy'[n] = healthy[n] /\ timeline'[n] = timeline[n]
  BY <1>3 DEF HealthShape
<1> QED
  BY <1>1, <1>2, <1>4

LEMMA GenerationStep ==
  ASSUME HealthShape, GenerationsCounted, NEW m \in Members, MemberStep(m)
  PROVE  GenerationsCounted'
<1>1. IsFiniteSet(Seen)
  BY MembersFinite, FS_Subset DEF Seen
<1>2. Cardinality(Seen) \in Nat
  BY <1>1, FS_CardinalityType
<1>3. CASE Join(m)
  <2>1. Seen' = Seen \cup {m} /\ m \notin Seen
    BY <1>3 DEF Join, Seen, HealthShape
  <2>2. Cardinality(Seen') = Cardinality(Seen) + 1
    BY <1>1, <2>1, FS_AddElement, Zenon
  <2>3. generation' \in {generation, generation + 1}
    BY <1>3, Zenon DEF Join
  <2>4. \A g, h, c \in Nat : g <= c /\ h \in {g, g + 1} => h <= c + 1
    OBVIOUS
  <2>5. generation' \in Nat
    BY <2>3 DEF HealthShape
  <2> QED
    BY <1>2, <2>2, <2>3, <2>4, <2>5, Zenon DEF GenerationsCounted, HealthShape
<1>4. CASE ~Join(m)
  <2>1. generation' = generation
    BY <1>4, Zenon DEF MemberStep, ServiceFlips, run_probe_loop, LeaveGroup, Ignore, set_tunnel_healthy,
       Rearm, set_tunnel_unhealthy, CountHealthy, Arm, dispatch_member, alertVars
  <2>2. joined' = joined \/ (joined[m] = "in" /\ joined' = [joined EXCEPT ![m] = "out"])
    BY <1>4, Zenon DEF MemberStep, ServiceFlips, run_probe_loop, LeaveGroup, Ignore, set_tunnel_healthy,
       Rearm, set_tunnel_unhealthy, CountHealthy, Arm, dispatch_member, memberVars
  <2>3. Seen' = Seen
    BY <2>2 DEF Seen, HealthShape
  <2> QED
    BY <2>1, <2>3, Zenon DEF GenerationsCounted
<1> QED
  BY <1>3, <1>4

LEMMA ReportStep ==
  ASSUME HealthShape, BitFollowsReports, NewIsQuiet, NEW m \in Members, MemberStep(m), HealthShape'
  PROVE  BitFollowsReports' /\ NewIsQuiet'
<1> DEFINE Follows(w, q, h) ==
      /\ w = "none" => q = <<>>
      /\ q # <<>> => q[Len(q)] = w
      /\ q = <<>> /\ w # "none" => h = (w = "up")
           New(j, w, q) == j = "new" => w = "none" /\ q = <<>>
<1>1. SUFFICES /\ joined'[m] = "in" => Follows(was'[m], reports'[m], healthy'[m])
               /\ New(joined'[m], was'[m], reports'[m])
  <2>1. ASSUME NEW n \in Members, n # m
        PROVE  /\ joined'[n] = "in" => Follows(was'[n], reports'[n], healthy'[n])
               /\ New(joined'[n], was'[n], reports'[n])
    <3>1. was'[n] = was[n] /\ reports'[n] = reports[n] /\ joined'[n] = joined[n] /\ healthy'[n] = healthy[n]
      BY <2>1, OthersStay, Zenon
    <3>2. /\ joined[n] = "in" => Follows(was[n], reports[n], healthy[n])
          /\ New(joined[n], was[n], reports[n])
      BY Zenon DEF BitFollowsReports, NewIsQuiet, In
    <3> HIDE DEF Follows, New
    <3> QED
      BY <3>1, <3>2, Zenon
  <2> QED
    BY <1>1, <2>1, Zenon DEF BitFollowsReports, NewIsQuiet, In
<1>2. /\ joined[m] = "in" => Follows(was[m], reports[m], healthy[m])
      /\ New(joined[m], was[m], reports[m])
  BY Zenon DEF BitFollowsReports, NewIsQuiet, In
<1>3. CASE UNCHANGED <<was, reports, healthy>> /\ joined'[m] \in {joined[m], "out"}
  BY <1>2, <1>3, Zenon
<1>4. CASE run_probe_loop(m)
  <2>1. joined[m] = "in" /\ joined' = joined /\ healthy' = healthy
    BY <1>4 DEF run_probe_loop, memberVars
  <2>2. PICK e : e = Edge(m, service[m])
    OBVIOUS
  <2>3. e \in {"none", "up", "down"}
    BY <2>2 DEF Edge
  <2>4. CASE e = "none"
    <3>1. was'[m] = was[m] /\ reports'[m] = reports[m]
      BY <1>4, <2>2, <2>4 DEF run_probe_loop, HealthShape
    <3> QED
      BY <1>2, <2>1, <3>1, Zenon
  <2>5. CASE e # "none"
    <3>1. was'[m] = e /\ reports'[m] = Append(reports[m], e)
      BY <1>4, <2>2, <2>5 DEF run_probe_loop, HealthShape
    <3>2. reports'[m] # <<>> /\ reports'[m][Len(reports'[m])] = e
      <4>1. \A q \in Seq({"up", "down"}) : \A x \in {"up", "down"} :
              Append(q, x) # <<>> /\ Append(q, x)[Len(Append(q, x))] = x
        OBVIOUS
      <4>2. reports[m] \in Seq({"up", "down"}) /\ e \in {"up", "down"}
        BY <2>3, <2>5 DEF HealthShape
      <4> QED
        BY <3>1, <4>1, <4>2, Zenon
    <3> QED
      BY <2>1, <2>5, <3>1, <3>2, Zenon
  <2> QED
    BY <2>4, <2>5
<1>5. CASE Join(m)
  <2>1. /\ joined[m] = "new" /\ joined'[m] = "in" /\ was' = was /\ reports' = reports
    BY <1>5 DEF Join, HealthShape, probeVars
  <2> QED
    BY <1>2, <2>1, Zenon
<1>6. CASE Ignore(m)
  <2>1. joined' = joined /\ joined[m] # "in" /\ reports[m] # <<>>
    BY <1>6, Zenon DEF Ignore, Take, memberVars, In
  <2> QED
    BY <1>2, <2>1, Zenon
<1>7. ASSUME NEW report \in {"up", "down"}, Take(m, report), m \in In,
             was' = was, joined' = joined, healthy'[m] = (report = "up")
      PROVE  /\ joined'[m] = "in" => Follows(was'[m], reports'[m], healthy'[m])
             /\ New(joined'[m], was'[m], reports'[m])
  <2>1. /\ Len(reports[m]) > 0 /\ reports[m][1] = report
        /\ Len(reports'[m]) = Len(reports[m]) - 1
        /\ \A i \in 1 .. Len(reports'[m]) : reports'[m][i] = reports[m][i + 1]
    BY <1>7, TakenReport
  <2>2. reports[m] \in Seq({"up", "down"}) /\ reports'[m] \in Seq({"up", "down"})
    BY DEF HealthShape
  <2>3. reports[m] # <<>> /\ was[m] = reports[m][Len(reports[m])] /\ was[m] # "none"
    <3>1. reports[m] # <<>>
      BY <2>1, <2>2
    <3> QED
      BY <1>2, <1>7, <3>1, Zenon DEF In
  <2>4. reports'[m] # <<>> => reports'[m][Len(reports'[m])] = was[m]
    BY <2>1, <2>2, <2>3
  <2>5. reports'[m] = <<>> => was[m] = report
    BY <2>1, <2>2, <2>3
  <2>6. joined'[m] = "in"
    BY <1>7 DEF In
  <2> QED
    BY <1>7, <2>3, <2>4, <2>5, <2>6, Zenon
<1>8. CASE set_tunnel_healthy(m)
  <2>1. /\ Take(m, "up") /\ m \in In /\ was' = was /\ joined' = joined
    BY <1>8, Zenon DEF set_tunnel_healthy, probeVars
  <2>2. healthy'[m] = ("up" = "up")
    BY <1>8 DEF set_tunnel_healthy, HealthShape
  <2> QED
    BY <1>7, <2>1, <2>2, Zenon
<1>9. CASE set_tunnel_unhealthy(m)
  <2>1. /\ Take(m, "down") /\ m \in In /\ was' = was /\ joined' = joined
    BY <1>9, Zenon DEF set_tunnel_unhealthy, probeVars
  <2>2. healthy'[m] = ("down" = "up")
    BY <1>9 DEF set_tunnel_unhealthy, HealthShape
  <2> QED
    BY <1>7, <2>1, <2>2, Zenon
<1>10. ServiceFlips(m) \/ LeaveGroup(m) \/ Rearm(m) \/ CountHealthy(m) \/ Arm(m) \/ dispatch_member(m)
         => UNCHANGED <<was, reports, healthy>> /\ joined'[m] \in {joined[m], "out"}
  BY DEF ServiceFlips, LeaveGroup, Rearm, CountHealthy, Arm, dispatch_member, probeVars, memberVars,
     HealthShape
<1> QED
  BY <1>3, <1>4, <1>5, <1>6, <1>8, <1>9, <1>10, Zenon DEF MemberStep

LEMMA GoodNewsStep ==
  ASSUME HealthShape, GoodNewsIsProbed, OnlyProbedMembersServe, NEW m \in Members, MemberStep(m), HealthShape'
  PROVE  GoodNewsIsProbed' /\ OnlyProbedMembersServe'
<1> DEFINE Good(n) == \E i \in 1 .. Len(reports[n]) : reports[n][i] = "up"
<1>1. answered \subseteq answered'
  BY Zenon DEF MemberStep, ServiceFlips, run_probe_loop, Join, LeaveGroup, Ignore, set_tunnel_healthy,
     Rearm, set_tunnel_unhealthy, CountHealthy, Arm, dispatch_member, probeVars
<1>2. OnlyProbedMembersServe'
  <2>1. picked' = picked \/ (picked' = m /\ healthy[m])
    BY Zenon DEF MemberStep, ServiceFlips, run_probe_loop, Join, LeaveGroup, Ignore, set_tunnel_healthy,
       Rearm, set_tunnel_unhealthy, CountHealthy, Arm, dispatch_member
  <2> QED
    BY <1>1, <2>1, Zenon DEF OnlyProbedMembersServe, GoodNewsIsProbed
<1>3. ASSUME healthy'[m] \/ \E i \in 1 .. Len(reports'[m]) : reports'[m][i] = "up"
      PROVE  m \in answered'
  <2>1. CASE UNCHANGED <<reports, healthy>>
    BY <1>1, <1>3, <2>1, Zenon DEF GoodNewsIsProbed
  <2>2. CASE run_probe_loop(m)
    <3>1. CASE service[m]
      BY <2>2, <3>1 DEF run_probe_loop
    <3>2. CASE ~service[m]
      <4>1. PICK e : e = Edge(m, service[m])
        OBVIOUS
      <4>2. e \in {"none", "down"}
        BY <3>2, <4>1 DEF Edge
      <4>3. reports'[m] = IF e = "none" THEN reports[m] ELSE Append(reports[m], e)
        BY <2>2, <4>1 DEF run_probe_loop, HealthShape
      <4>4. \A q \in Seq({"up", "down"}) : \A i \in 1 .. Len(Append(q, "down")) :
              Append(q, "down")[i] = "up" => i \in 1 .. Len(q) /\ q[i] = "up"
        OBVIOUS
      <4>5. reports[m] \in Seq({"up", "down"})
        BY DEF HealthShape
      <4>6. (\E i \in 1 .. Len(reports'[m]) : reports'[m][i] = "up") => Good(m)
        BY <4>2, <4>3, <4>4, <4>5
      <4>7. healthy' = healthy
        BY <2>2 DEF run_probe_loop, memberVars
      <4> QED
        BY <1>1, <1>3, <4>6, <4>7, Zenon DEF GoodNewsIsProbed
    <3> QED
      BY <3>1, <3>2
  <2>3. CASE Join(m)
    <3>1. ~healthy'[m] /\ reports' = reports
      BY <2>3 DEF Join, InitiallyHealthy, HealthShape
    <3> QED
      BY <1>1, <1>3, <3>1, Zenon DEF GoodNewsIsProbed
  <2>4. ASSUME NEW report, Take(m, report), healthy'[m] => healthy[m] \/ report = "up"
        PROVE  m \in answered'
    <3>1. /\ Len(reports[m]) > 0 /\ reports[m][1] = report
          /\ Len(reports'[m]) = Len(reports[m]) - 1
          /\ \A i \in 1 .. Len(reports'[m]) : reports'[m][i] = reports[m][i + 1]
      BY <2>4, TakenReport
    <3>2. reports[m] \in Seq({"up", "down"})
      BY DEF HealthShape
    <3>3. (\E i \in 1 .. Len(reports'[m]) : reports'[m][i] = "up") => Good(m)
      BY <3>1, <3>2
    <3>4. report = "up" => Good(m)
      BY <3>1, <3>2
    <3> QED
      BY <1>1, <1>3, <2>4, <3>3, <3>4, Zenon DEF GoodNewsIsProbed
  <2>5. CASE Ignore(m)
    BY <2>4, <2>5, Zenon DEF Ignore, memberVars
  <2>6. CASE set_tunnel_healthy(m)
    BY <2>4, <2>6, Zenon DEF set_tunnel_healthy
  <2>7. CASE set_tunnel_unhealthy(m)
    <3>1. ~healthy'[m] /\ Take(m, "down")
      BY <2>7 DEF set_tunnel_unhealthy, HealthShape
    <3> QED
      BY <2>4, <3>1, Zenon
  <2>8. ServiceFlips(m) \/ LeaveGroup(m) \/ Rearm(m) \/ CountHealthy(m) \/ Arm(m) \/ dispatch_member(m)
          => UNCHANGED <<reports, healthy>>
    BY DEF ServiceFlips, LeaveGroup, Rearm, CountHealthy, Arm, dispatch_member, memberVars
  <2> QED
    BY <2>1, <2>2, <2>3, <2>5, <2>6, <2>7, <2>8, Zenon DEF MemberStep
<1>4. ASSUME NEW n \in Members, n # m, healthy'[n] \/ \E i \in 1 .. Len(reports'[n]) : reports'[n][i] = "up"
      PROVE  n \in answered'
  <2>1. reports'[n] = reports[n] /\ healthy'[n] = healthy[n]
    BY <1>4, OthersStay, Zenon
  <2> QED
    BY <1>1, <1>4, <2>1, Zenon DEF GoodNewsIsProbed
<1>5. GoodNewsIsProbed'
  BY <1>3, <1>4, Zenon DEF GoodNewsIsProbed
<1> QED
  BY <1>2, <1>5

LEMMA TimelineStep ==
  ASSUME HealthShape, Sizes, TimelineInv, NEW m \in Members, MemberStep(m)
  PROVE  TimelineInv'
<1> DEFINE Told(t, h) == Len(t) > 0 /\ t[Len(t)] = h /\ Alternates(t)
<1>1. SUFFICES joined'[m] = "in" => Told(timeline'[m], healthy'[m])
  <2>1. ASSUME NEW n \in Members, n # m, joined'[n] = "in"
        PROVE  Told(timeline'[n], healthy'[n])
    <3>1. timeline'[n] = timeline[n] /\ joined'[n] = joined[n] /\ healthy'[n] = healthy[n]
      BY <2>1, OthersStay, Zenon
    <3>2. joined[n] = "in" => Told(timeline[n], healthy[n])
      BY Zenon DEF TimelineInv, In, Alternates
    <3> HIDE DEF Told
    <3> QED
      BY <2>1, <3>1, <3>2, Zenon
  <2> QED
    BY <1>1, <2>1, Zenon DEF TimelineInv, In, Alternates
<1>2. joined[m] = "in" => Told(timeline[m], healthy[m])
  BY Zenon DEF TimelineInv, In, Alternates
<1>3. CASE UNCHANGED <<timeline, healthy>> /\ joined'[m] \in {joined[m], "out"}
  BY <1>2, <1>3, Zenon
<1>4. CASE Join(m)
  <2>1. timeline'[m] = <<FALSE>> /\ healthy'[m] = FALSE
    BY <1>4 DEF Join, InitiallyHealthy, HealthShape
  <2>2. \A x : Told(<<x>>, x)
    BY DEF Alternates
  <2> HIDE DEF Told
  <2> QED
    BY <2>1, <2>2, Zenon
<1>5. ASSUME NEW bit, bit \in Bits, m \in In,
             healthy' = [healthy EXCEPT ![m] = bit],
             timeline' = [timeline EXCEPT ![m] = Recorded(m, bit)]
      PROVE  Told(timeline'[m], healthy'[m])
  <2>1. timeline'[m] = Recorded(m, bit) /\ healthy'[m] = bit
    BY <1>5, Zenon DEF HealthShape
  <2>2. Told(timeline[m], healthy[m])
    BY <1>2, <1>5, Zenon DEF In
  <2>3. Told(Recorded(m, bit), bit)
    BY <1>5, <2>2, RecordedTimeline, Zenon
  <2> HIDE DEF Told
  <2> QED
    BY <2>1, <2>3, Zenon
<1>6. CASE set_tunnel_healthy(m)
  BY <1>5, <1>6, Zenon DEF set_tunnel_healthy, Bits
<1>7. CASE set_tunnel_unhealthy(m)
  BY <1>5, <1>7, Zenon DEF set_tunnel_unhealthy, Bits
<1>8. ServiceFlips(m) \/ run_probe_loop(m) \/ LeaveGroup(m) \/ Ignore(m) \/ Rearm(m) \/ CountHealthy(m)
        \/ Arm(m) \/ dispatch_member(m)
        => UNCHANGED <<timeline, healthy>> /\ joined'[m] \in {joined[m], "out"}
  BY DEF ServiceFlips, run_probe_loop, LeaveGroup, Ignore, Rearm, CountHealthy, Arm, dispatch_member,
     memberVars, HealthShape
<1> QED
  BY <1>3, <1>4, <1>6, <1>7, <1>8, Zenon DEF MemberStep

LEMMA NoneCounted ==
  ASSUME HealthShape, healthy_count(healthy) = 0
  PROVE  \A n \in In : ~healthy[n]
<1>1. {n \in In : healthy[n]} \subseteq Members
  BY DEF In
<1>2. IsFiniteSet({n \in In : healthy[n]})
  BY <1>1, MembersFinite, FS_Subset
<1>3. {n \in In : healthy[n]} = {}
  BY <1>2, FS_EmptySet, Zenon DEF healthy_count
<1> QED
  BY <1>3

LEMMA AlertStep ==
  ASSUME HealthShape, AlertInv, NEW m \in Members, MemberStep(m), HealthShape'
  PROVE  AlertInv'
<1> DEFINE Clears(n) == joined[n] = "in" /\ task[n].at = "rearm"
<1>1. \A n \in Members : Clears(n) => healthy[n]
  BY Zenon DEF AlertInv, In
<1>2. \A n \in Members : n # m =>
        (Clears(n) <=> Clears(n)') /\ (healthy'[n] <=> healthy[n]) /\ joined'[n] = joined[n]
  BY OthersStay, Zenon
<1>rest. \A n \in Members : joined'[n] = "new" => task'[n].at = "rest"
  <2>1. \A n \in Members : n # m => joined'[n] = joined[n] /\ task'[n] = task[n]
    BY OthersStay, Zenon
  <2>2. joined'[m] = "new" => joined[m] = "new" /\ task'[m].at \in {task[m].at, "rest"}
    <3>1. joined'[m] = "new" => joined' = joined /\ joined[m] = "new"
      BY DEF MemberStep, ServiceFlips, run_probe_loop, Join, LeaveGroup, Ignore, set_tunnel_healthy,
         Rearm, set_tunnel_unhealthy, CountHealthy, Arm, dispatch_member, memberVars, HealthShape
    <3>2. joined[m] = "new" => task' = task \/ Rearm(m) \/ CountHealthy(m) \/ Arm(m)
      BY Zenon DEF MemberStep, ServiceFlips, run_probe_loop, Join, LeaveGroup, Ignore, set_tunnel_healthy,
         set_tunnel_unhealthy, dispatch_member, In
    <3>3. joined[m] = "new" => ~(Rearm(m) \/ CountHealthy(m) \/ Arm(m))
      BY DEF AlertInv, Rearm, CountHealthy, Arm
    <3> QED
      BY <3>1, <3>2, <3>3, Zenon
  <2> QED
    BY <2>1, <2>2, Zenon DEF AlertInv
<1>3. CASE UNCHANGED <<healthy, alerted, outage, twice>> /\ joined' = joined
           /\ task'[m].at \notin {"rearm"} \ {task[m].at}
  <2>1. \A n \in Members : Clears(n)' => healthy'[n]
    BY <1>1, <1>2, <1>3, Zenon
  <2> QED
    BY <1>3, <2>1, <1>rest, Zenon DEF AlertInv, In
<1>4. CASE ServiceFlips(m) \/ run_probe_loop(m) \/ Ignore(m) \/ CountHealthy(m) \/ dispatch_member(m)
  <2>1. task'[m].at \notin {"rearm"} \ {task[m].at}
    BY <1>4 DEF ServiceFlips, run_probe_loop, Ignore, CountHealthy, dispatch_member, HealthShape, Resting
  <2>2. UNCHANGED <<healthy, alerted, outage, twice>> /\ joined' = joined
    BY <1>4 DEF ServiceFlips, run_probe_loop, Ignore, CountHealthy, dispatch_member, memberVars, alertVars
  <2> QED
    BY <1>3, <2>1, <2>2, Zenon
<1>5. CASE Join(m)
  <2>1. joined' = [joined EXCEPT ![m] = "in"] /\ task' = task /\ twice' = twice
    BY <1>5 DEF Join
  <2>2. ~healthy'[m]
    BY <1>5 DEF Join, InitiallyHealthy, HealthShape
  <2>3. outage' = "none" \/ (outage' = outage /\ (alerted' <=> alerted))
    BY <1>5, Zenon DEF Join
  <2> QED
    <3>1. ~Clears(m)' /\ joined'[m] = "in"
      BY <1>5, <2>1 DEF Join, AlertInv, HealthShape
    <3> QED
      BY <1>1, <1>2, <2>1, <2>2, <2>3, <3>1, <1>rest, Zenon DEF AlertInv, In
<1>6. CASE LeaveGroup(m)
  <2>1. joined'[m] = "out" /\ task' = task /\ twice' = twice /\ alerted' = alerted /\ healthy' = healthy
    BY <1>6 DEF LeaveGroup, HealthShape
  <2>2. outage' = outage \/ outage' = "none"
    BY <1>6 DEF LeaveGroup
  <2> QED
    BY <1>1, <1>2, <2>1, <2>2, <1>rest, Zenon DEF AlertInv, In
<1>7. CASE set_tunnel_healthy(m)
  <2>1. outage' = "none" /\ twice' = twice /\ joined' = joined
    BY <1>7 DEF set_tunnel_healthy
  <2>2. healthy'[m]
    BY <1>7 DEF set_tunnel_healthy, HealthShape
  <2> QED
    BY <1>1, <1>2, <2>1, <2>2, <1>rest, Zenon DEF AlertInv, In
<1>8. CASE Rearm(m)
  <2>1. /\ UNCHANGED <<healthy, joined, outage, twice>> /\ task'[m].at = "rest" /\ task[m].at = "rearm"
    BY <1>8 DEF Rearm, memberVars, HealthShape, Resting
  <2>2. m \notin In => alerted' = alerted
    BY <1>8, Zenon DEF Rearm
  <2> QED
    BY <1>1, <1>2, <2>1, <2>2, <1>rest, Zenon DEF AlertInv, In
<1>9. CASE set_tunnel_unhealthy(m)
  <2>1. twice' = twice /\ joined' = joined /\ alerted' = alerted
    BY <1>9 DEF set_tunnel_unhealthy
  <2>2. ~healthy'[m] /\ task'[m].at = "count"
    BY <1>9 DEF set_tunnel_unhealthy, HealthShape
  <2>3. outage' = outage \/ outage' = "reported"
    BY <1>9, Zenon DEF set_tunnel_unhealthy
  <2> QED
    BY <1>1, <1>2, <2>1, <2>2, <2>3, <1>rest, Zenon DEF AlertInv, In
<1>10. CASE Arm(m)
  <2>1. UNCHANGED <<healthy, joined>> /\ task'[m].at = "rest"
    BY <1>10 DEF Arm, memberVars, HealthShape, Resting
  <2>2. \A n \in Members : Clears(n)' => healthy'[n]
    BY <1>1, <1>2, <2>1, Zenon
  <2>3. CASE UNCHANGED <<alerted, outage, twice>>
    BY <2>1, <2>2, <2>3, <1>rest, Zenon DEF AlertInv, In
  <2>4. CASE ~alerted /\ alerted' /\ UNCHANGED <<outage, twice>>
    BY <2>1, <2>2, <2>4, <1>rest, Zenon DEF AlertInv, In
  <2>5. CASE /\ ~alerted /\ alerted' /\ healthy_count(healthy) = 0
             /\ twice' = (twice \/ outage = "alerted") /\ outage' = "alerted"
    <3>1. \A n \in In : ~healthy[n]
      BY <2>5, NoneCounted, Zenon
    <3> QED
      BY <2>1, <2>2, <2>5, <3>1, <1>rest, Zenon DEF AlertInv, In
  <2> QED
    BY <1>10, <2>3, <2>4, <2>5, Zenon DEF Arm, Armed
<1> QED
  BY <1>4, <1>5, <1>6, <1>7, <1>8, <1>9, <1>10, Zenon DEF MemberStep

LEMMA HealthStutter == ASSUME HealthInv, UNCHANGED healthVars PROVE HealthInv'
<1>1. HealthShape' /\ Sizes' /\ BitFollowsReports' /\ NewIsQuiet'
  BY Zenon DEF HealthInv, healthVars, probeVars, memberVars, alertVars, HealthShape, Sizes,
     BitFollowsReports, NewIsQuiet, In
<1>2. GenerationsCounted' /\ GoodNewsIsProbed' /\ OnlyProbedMembersServe' /\ TimelineInv'
  BY Zenon DEF HealthInv, healthVars, probeVars, memberVars, alertVars, GenerationsCounted, Seen,
     GoodNewsIsProbed, OnlyProbedMembersServe, TimelineInv, In
<1>3. AlertInv'
  BY Zenon DEF HealthInv, healthVars, memberVars, alertVars, AlertInv, In
<1> QED
  BY <1>1, <1>2, <1>3 DEF HealthInv

\* The inductive invariant of the group's health, for every group.
THEOREM HealthInvariant == HealthSpec => []HealthInv
<1>1. HealthInit => HealthInv
  BY HealthStarts
<1>2. HealthInv /\ [HealthNext]_healthVars => HealthInv'
  <2>1. ASSUME HealthInv, NEW m \in Members, MemberStep(m) PROVE HealthInv'
    <3>1. HealthShape' /\ Sizes'
      BY <2>1, ShapeStep DEF HealthInv
    <3>2. GenerationsCounted' /\ BitFollowsReports' /\ NewIsQuiet'
      BY <2>1, <3>1, GenerationStep, ReportStep DEF HealthInv
    <3>3. GoodNewsIsProbed' /\ OnlyProbedMembersServe' /\ TimelineInv' /\ AlertInv'
      BY <2>1, <3>1, GoodNewsStep, TimelineStep, AlertStep DEF HealthInv
    <3> QED
      BY <3>1, <3>2, <3>3 DEF HealthInv
  <2> QED
    BY <2>1, HealthStutter DEF HealthNext
<1> QED
  BY <1>1, <1>2, PTL DEF HealthSpec

LEMMA HealthTypes == ASSUME HealthInv PROVE HealthTypeOK
<1>1. generation \in 0 .. Cardinality(Members)
  <2>1. Cardinality(Seen) <= Cardinality(Members) /\ Cardinality(Seen) \in Nat /\ Cardinality(Members) \in Nat
    <3>1. Seen \in SUBSET Members
      BY DEF Seen
    <3> QED
      BY <3>1, MembersFinite, FS_Subset, FS_CardinalityType
  <2> QED
    BY <2>1 DEF HealthInv, GenerationsCounted, HealthShape
<1>2. ASSUME NEW m \in Members
      PROVE  /\ Len(reports[m]) <= ReportCapacity /\ ToSet(reports[m]) \subseteq {"up", "down"}
             /\ Len(timeline[m]) <= TimelineSize
             /\ joined[m] \in {"new", "in", "out"}
             /\ task[m].at \in {"rest", "rearm", "count", "arm"}
  BY DEF HealthInv, HealthShape, Sizes, ToSet
<1>3. alerted \in BOOLEAN /\ \A m \in Members : healthy[m] \in BOOLEAN
  BY DEF HealthInv, HealthShape
<1>4. /\ was \in [Members -> {"none", "up", "down"}] /\ streak \in [Members -> 0 .. MaxFailed]
      /\ outage \in {"none", "reported", "alerted"}
  BY DEF HealthInv, HealthShape
<1> QED
  BY <1>1, <1>2, <1>3, <1>4, Zenon DEF HealthTypeOK

\* The probes of any number of members, their reports, the members' bits and
\* timelines and the group's alerts agree (health.rs, tunnel.rs,
\* set_tunnel_healthy, pop_zero_healthy_alert): no unprobed member is served, a
\* bit is the last word of its probe loop, a timeline alternates and ends with
\* the bit, and an outage is alerted once.
THEOREM HealthStaysConsistent == HealthSpec => []HealthIsConsistent
<1>1. HealthInv => HealthIsConsistent
  <2>1. ASSUME HealthInv PROVE QuietAgreement
    BY <2>1, Zenon DEF HealthInv, QuietAgreement, BitFollowsReports
  <2>2. ASSUME HealthInv PROVE TimelineAlternates
    BY <2>2, Zenon DEF HealthInv, TimelineInv, TimelineAlternates, Last
  <2>3. ASSUME HealthInv PROVE OnlyProbedMembersServe /\ OneAlertPerOutage
    BY <2>3, Zenon DEF HealthInv, AlertInv, OneAlertPerOutage
  <2> QED
    BY <2>1, <2>2, <2>3, HealthTypes DEF HealthIsConsistent
<1> QED
  BY <1>1, HealthInvariant, PTL

-----------------------------------------------------------------------------
(* HttpEdge: the inductive invariant *)

Places == {"new", "gate", "resolve", "admit", "notify", "waiting", "stream", "body", "bridged", "done"}
Tunnels == {"tunnel", "nil"}
Events == [conn : Requests, tunnel : Tunnels]

EdgeShape ==
  /\ pc \in [Requests -> Places]
  /\ clock \in Nat
  /\ window \in Seq(Nat) /\ admitted \in Seq(Nat) /\ passed \in Seq(Nat)
  /\ bucket \in [tokens : Nat, last : Nat]
  /\ permits \in Nat /\ pending \subseteq Requests
  /\ control \in Seq(Requests) /\ Len(control) <= ControlCapacity
  /\ captureq \in Seq(Events) /\ Len(captureq) <= CaptureCapacity
  /\ storing \in Events \cup {NoRow}
  /\ ring \in Seq(Requests)
  /\ stored \in [Tunnels -> Seq(Requests)]

PermitInv == IsFiniteSet(Holding) /\ permits + Cardinality(Holding) = MaxConnections

\* The window is what is left of the admissions once the older ones are popped,
\* and an admission and the one a full window later are more than a window apart.
WindowInv ==
  /\ \A i, j \in 1 .. Len(admitted) : i <= j => admitted[i] <= admitted[j]
  /\ \A i \in 1 .. Len(admitted) : admitted[i] <= clock
  /\ MaxPerWindow > 0 =>
       /\ Len(window) <= MaxPerWindow /\ Len(window) <= Len(admitted)
       /\ \A i \in 1 .. Len(window) : window[i] = admitted[Len(admitted) - Len(window) + i]
       /\ \A i \in 1 .. (Len(admitted) - Len(window)) : admitted[i] + Window < clock
       /\ \A i \in 1 .. (Len(admitted) - MaxPerWindow) : admitted[i] + Window < admitted[i + MaxPerWindow]

\* Since an accepted request, what was taken and what is left came from a full
\* bucket and the refill for the time passed.
BucketInv ==
  /\ bucket.tokens <= Rps * Second /\ bucket.last <= clock
  /\ \A i \in 1 .. Len(passed) :
       /\ passed[i] <= bucket.last
       /\ bucket.tokens + Second * (Len(passed) - i + 1)
            <= Rps * Second + (bucket.last - passed[i]) * Rps
  /\ BucketHonoursRate

\* An event is in one place, once, and only of a request that is bridged or over.
Has(q, r) == \E i \in 1 .. Len(q) : q[i] = r
Once(q) == \A i, j \in 1 .. Len(q) : q[i] = q[j] => i = j
InQueue(r) == \E i \in 1 .. Len(captureq) : captureq[i].conn = r

Recordable(r) ==
  /\ Has(stored["tunnel"], r) => ~Has(stored["nil"], r) /\ ~InQueue(r)
  /\ Has(stored["nil"], r) => ~InQueue(r)
  /\ Has(stored["tunnel"], r) \/ Has(stored["nil"], r) \/ InQueue(r) => pc[r] \in {"bridged", "done"}

CaptureInv ==
  /\ Once(stored["tunnel"]) /\ Once(stored["nil"])
  /\ \A i, j \in 1 .. Len(captureq) : captureq[i].conn = captureq[j].conn => i = j
  /\ \A r \in Requests : Recordable(r)
  /\ \A r \in headed : r \in Requests /\
       \/ pc[r] = "body"
       \/ pc[r] = "done" /\ (Has(stored["tunnel"], r) \/ Has(stored["nil"], r) \/ InQueue(r) \/ r \in lost)

\* The ring g has the newest of the first n rows of q.
RingOf(g, q, n) ==
  /\ n \in Nat /\ Len(g) = Least(n, RingCapacity)
  /\ \A i \in 1 .. Len(g) : g[i] = q[n - Len(g) + i]

RingInv ==
  /\ storing.tunnel # "tunnel" => RingOf(ring, stored["tunnel"], Len(stored["tunnel"]))
  /\ storing.tunnel = "tunnel" =>
       /\ Len(stored["tunnel"]) > 0 /\ stored["tunnel"][Len(stored["tunnel"])] = storing.conn
       /\ RingOf(ring, stored["tunnel"], Len(stored["tunnel"]) - 1)

EdgeInv == EdgeShape /\ PermitInv /\ WindowInv /\ BucketInv /\ CaptureInv /\ RingInv

LEMMA EdgeStarts == Init => EdgeInv
<1> SUFFICES ASSUME Init PROVE EdgeInv
  OBVIOUS
<1>1. EdgeShape
  <2>1. bucket \in [tokens : Nat, last : Nat]
    BY EdgeBounds DEF Init, FullBucket
  <2> QED
    BY <2>1, EdgeBounds DEF Init, EdgeShape, Places, Tunnels
<1>2. PermitInv
  <2>1. Holding = {}
    BY DEF Init, Holding
  <2> QED
    BY <2>1, FS_EmptySet, EdgeBounds DEF Init, PermitInv
<1>3. WindowInv /\ BucketInv
  BY EdgeBounds DEF Init, WindowInv, BucketInv, BucketHonoursRate, FullBucket
<1>4. CaptureInv
  BY DEF Init, CaptureInv, Once, Recordable, Has, InQueue, At
<1>5. RingInv
  <2>1. storing.tunnel # "tunnel" /\ stored["tunnel"] = <<>> /\ ring = <<>>
    BY DEF Init, NoRow, Event
  <2>2. Least(0, RingCapacity) = 0
    BY EdgeBounds DEF Least
  <2> QED
    BY <2>1, <2>2 DEF RingInv, RingOf
<1> QED
  BY <1>1, <1>2, <1>3, <1>4, <1>5 DEF EdgeInv

-----------------------------------------------------------------------------
(* HttpEdge: the limiters *)

LEMMA UpTo == ASSUME NEW n \in Nat PROVE IsFiniteSet(1 .. n) /\ Cardinality(1 .. n) = n
BY FS_Interval

\* The popped entries are the first ones, and every one is older than the window.
LEMMA PoppedAreOld ==
  ASSUME NEW q \in Seq(Nat), clock \in Nat
  PROVE  /\ Cardinality(Popped(q)) \in 0 .. Len(q)
         /\ \A i \in 1 .. Cardinality(Popped(q)) : q[i] + Window < clock
<1> DEFINE c == Cardinality(Popped(q))
<1>1. Popped(q) \in SUBSET (1 .. Len(q)) /\ IsFiniteSet(1 .. Len(q)) /\ Cardinality(1 .. Len(q)) = Len(q)
  <2>1. Len(q) \in Nat
    OBVIOUS
  <2>2. IsFiniteSet(1 .. Len(q)) /\ Cardinality(1 .. Len(q)) = Len(q)
    BY <2>1, UpTo
  <2>3. Popped(q) \subseteq 1 .. Len(q)
    BY DEF Popped
  <2> QED
    BY <2>2, <2>3
<1>2. IsFiniteSet(Popped(q)) /\ c \in 0 .. Len(q)
  <2>1. IsFiniteSet(Popped(q)) /\ c <= Len(q)
    BY <1>1, FS_Subset
  <2>2. c \in Nat
    BY <2>1, FS_CardinalityType
  <2> QED
    BY <2>1, <2>2
<1>3. ASSUME NEW i \in 1 .. c, i \notin Popped(q) PROVE FALSE
  <2> HIDE DEF c
  <2>1. i \in Nat \ {0} /\ i <= Len(q)
    BY <1>2
  <2>2. Popped(q) \in SUBSET (1 .. (i - 1))
    BY <1>3, <2>1 DEF Popped
  <2>3. IsFiniteSet(1 .. (i - 1)) /\ Cardinality(1 .. (i - 1)) = i - 1
    BY <2>1, FS_Interval
  <2>4. c <= i - 1
    BY <2>2, <2>3, FS_Subset DEF c
  <2> QED
    BY <1>2, <2>4
<1>4. \A i \in Popped(q) : q[i] + Window < clock
  BY EdgeBounds DEF Popped
<1> QED
  BY <1>2, <1>3, <1>4

LEMMA InWindowSeq ==
  ASSUME NEW q \in Seq(Nat), clock \in Nat
  PROVE  \E c \in 0 .. Len(q) :
           /\ InWindow(q) \in Seq(Nat) /\ Len(InWindow(q)) = Len(q) - c
           /\ \A i \in 1 .. (Len(q) - c) : InWindow(q)[i] = q[c + i]
           /\ \A i \in 1 .. c : q[i] + Window < clock
<1>1. PICK c : c = Cardinality(Popped(q))
  OBVIOUS
<1>2. c \in 0 .. Len(q) /\ \A i \in 1 .. c : q[i] + Window < clock
  BY <1>1, PoppedAreOld
<1>3. InWindow(q) = SubSeq(q, c + 1, Len(q))
  BY <1>1, Zenon DEF InWindow
<1>4. /\ SubSeq(q, c + 1, Len(q)) \in Seq(Nat) /\ Len(SubSeq(q, c + 1, Len(q))) = Len(q) - c
      /\ \A i \in 1 .. (Len(q) - c) : SubSeq(q, c + 1, Len(q))[i] = q[c + i]
  BY <1>2
<1> QED
  BY <1>2, <1>3, <1>4

LEMMA SortedAppend ==
  ASSUME NEW q \in Seq(Nat), NEW t \in Nat,
         \A i, j \in 1 .. Len(q) : i <= j => q[i] <= q[j],
         \A i \in 1 .. Len(q) : q[i] <= t
  PROVE  /\ \A i, j \in 1 .. Len(Append(q, t)) : i <= j => Append(q, t)[i] <= Append(q, t)[j]
         /\ \A i \in 1 .. Len(Append(q, t)) : Append(q, t)[i] <= t
<1>1. /\ Len(Append(q, t)) = Len(q) + 1 /\ Append(q, t)[Len(q) + 1] = t
      /\ \A i \in 1 .. Len(q) : Append(q, t)[i] = q[i]
  OBVIOUS
<1>2. \A i \in 1 .. (Len(q) + 1) : i \in 1 .. Len(q) \/ i = Len(q) + 1
  OBVIOUS
<1>3. \A i \in 1 .. Len(Append(q, t)) : Append(q, t)[i] <= t
  BY <1>1, <1>2
<1>4. ASSUME NEW i \in 1 .. (Len(q) + 1), NEW j \in 1 .. (Len(q) + 1), i <= j
      PROVE  Append(q, t)[i] <= Append(q, t)[j]
  <2>1. CASE j = Len(q) + 1
    BY <1>1, <1>3, <2>1
  <2>2. CASE j # Len(q) + 1
    <3>1. i \in 1 .. Len(q) /\ j \in 1 .. Len(q)
      BY <1>4, <2>2
    <3> QED
      BY <1>1, <1>4, <3>1
  <2> QED
    BY <2>1, <2>2
<1> QED
  BY <1>1, <1>3, <1>4

\* A window that lets a request in, or not, keeps the admissions apart.
LEMMA CheckKeepsWindow ==
  ASSUME EdgeShape, WindowInv, NEW allowed \in BOOLEAN, check(allowed), clock' = clock
  PROVE  WindowInv' /\ window' \in Seq(Nat) /\ admitted' \in Seq(Nat)
<1>1. CASE MaxPerWindow = 0
  <2>1. window' = window /\ admitted' = Append(admitted, clock)
    BY <1>1 DEF check
  <2>2. admitted \in Seq(Nat) /\ clock \in Nat /\ window \in Seq(Nat)
    BY DEF EdgeShape
  <2>3. /\ admitted' \in Seq(Nat) /\ Len(admitted') = Len(admitted) + 1 /\ admitted'[Len(admitted) + 1] = clock
        /\ \A i \in 1 .. Len(admitted) : admitted'[i] = admitted[i]
    BY <2>1, <2>2
  <2>4. /\ \A i, j \in 1 .. Len(admitted) : i <= j => admitted[i] <= admitted[j]
        /\ \A i \in 1 .. Len(admitted) : admitted[i] <= clock
    BY DEF WindowInv
  <2>5. /\ \A i, j \in 1 .. Len(admitted') : i <= j => admitted'[i] <= admitted'[j]
        /\ \A i \in 1 .. Len(admitted') : admitted'[i] <= clock'
    BY <2>1, <2>2, <2>4, SortedAppend, Zenon
  <2> QED
    BY <1>1, <2>1, <2>2, <2>3, <2>5 DEF WindowInv
<1>2. CASE MaxPerWindow # 0
  <2>1. PICK c \in 0 .. Len(window) :
           /\ InWindow(window) \in Seq(Nat) /\ Len(InWindow(window)) = Len(window) - c
           /\ \A i \in 1 .. (Len(window) - c) : InWindow(window)[i] = window[c + i]
           /\ \A i \in 1 .. c : window[i] + Window < clock
    BY InWindowSeq DEF EdgeShape
  <2>2. PICK w : w = InWindow(window)
    OBVIOUS
  <2>3. /\ w \in Seq(Nat) /\ Len(w) = Len(window) - c /\ \A i \in 1 .. (Len(window) - c) : w[i] = window[c + i]
    BY <2>1, <2>2
  <2>n. PICK n \in Nat : n = Len(admitted)
    BY DEF EdgeShape
  <2>4. /\ admitted \in Seq(Nat) /\ window \in Seq(Nat) /\ clock \in Nat /\ MaxPerWindow \in Nat \ {0}
        /\ Window \in Nat
    BY <1>2, EdgeBounds DEF EdgeShape
  <2>w. /\ \A i, j \in 1 .. n : i <= j => admitted[i] <= admitted[j]
        /\ \A i \in 1 .. n : admitted[i] <= clock /\ admitted[i] \in Nat
        /\ Len(window) <= MaxPerWindow /\ Len(window) <= n /\ Len(window) \in Nat
        /\ \A i \in 1 .. Len(window) : window[i] = admitted[n - Len(window) + i]
        /\ \A i \in 1 .. (n - Len(window)) : admitted[i] + Window < clock
        /\ \A i \in 1 .. (n - MaxPerWindow) : admitted[i] + Window < admitted[i + MaxPerWindow]
    BY <2>n, <2>4 DEF WindowInv
  <2>5. /\ Len(w) <= MaxPerWindow /\ Len(w) <= n
        /\ \A i \in 1 .. Len(w) : w[i] = admitted[n - Len(w) + i]
        /\ \A i \in 1 .. (n - Len(w)) : admitted[i] + Window < clock
    <3>1. Len(w) <= MaxPerWindow /\ Len(w) <= n
      BY <2>1, <2>3, <2>4, <2>w
    <3>2. ASSUME NEW i \in 1 .. Len(w) PROVE w[i] = admitted[n - Len(w) + i]
      <4>1. c + i \in 1 .. Len(window) /\ n - Len(w) + i = n - Len(window) + (c + i)
        BY <2>1, <2>3, <2>4, <2>w
      <4>2. window[c + i] = admitted[n - Len(window) + (c + i)]
        BY <2>4, <2>w, <4>1
      <4> QED
        BY <2>3, <4>1, <4>2
    <3>3. ASSUME NEW i \in 1 .. (n - Len(w)) PROVE admitted[i] + Window < clock
      <4>1. CASE i <= n - Len(window)
        BY <2>4, <2>w, <4>1
      <4>2. CASE i > n - Len(window)
        <5> DEFINE k == i - (n - Len(window))
        <5>2. k \in 1 .. c /\ k \in 1 .. Len(window) /\ i = n - Len(window) + k
          BY <2>1, <2>3, <2>4, <2>w, <4>2
        <5> HIDE DEF k
        <5>3. window[k] = admitted[i]
          BY <2>4, <2>w, <5>2
        <5> QED
          BY <2>1, <5>2, <5>3
      <4> QED
        BY <2>3, <2>4, <2>w, <4>1, <4>2
    <3> QED
      BY <3>1, <3>2, <3>3
  <2>6. CASE ~allowed
    <3>1. window' = w /\ admitted' = admitted
      BY <1>2, <2>2, <2>6 DEF check
    <3> QED
      BY <2>n, <2>3, <2>4, <2>5, <2>w, <3>1 DEF WindowInv
  <2>7. CASE allowed
    <3>1. window' = Append(w, clock) /\ admitted' = Append(admitted, clock) /\ Len(w) < MaxPerWindow
      BY <1>2, <2>2, <2>7 DEF check
    <3>2. /\ admitted' \in Seq(Nat) /\ Len(admitted') = n + 1 /\ admitted'[n + 1] = clock
          /\ \A i \in 1 .. n : admitted'[i] = admitted[i]
      BY <2>n, <2>4, <3>1
    <3>3. /\ window' \in Seq(Nat) /\ Len(window') = Len(w) + 1 /\ window'[Len(w) + 1] = clock
          /\ \A i \in 1 .. Len(w) : window'[i] = w[i]
      BY <2>3, <2>4, <3>1
    <3>4. /\ \A i, j \in 1 .. Len(admitted') : i <= j => admitted'[i] <= admitted'[j]
          /\ \A i \in 1 .. Len(admitted') : admitted'[i] <= clock'
      BY <2>n, <2>4, <2>w, <3>1, SortedAppend, Zenon
    <3>5. /\ Len(w) \in Nat /\ Len(admitted') - Len(window') = n - Len(w)
          /\ n - Len(w) \in 0 .. n
      BY <2>3, <2>5, <3>2, <3>3
    <3>6. Len(window') <= MaxPerWindow /\ Len(window') <= Len(admitted')
      BY <2>3, <2>4, <2>5, <3>1, <3>2, <3>3
    <3>7. \A i \in 1 .. Len(window') : window'[i] = admitted'[Len(admitted') - Len(window') + i]
      <4>1. ASSUME NEW i \in 1 .. Len(window') PROVE window'[i] = admitted'[n - Len(w) + i]
        <5>1. CASE i = Len(w) + 1
          BY <3>2, <3>3, <3>5, <5>1
        <5>2. CASE i # Len(w) + 1
          <6>1. i \in 1 .. Len(w) /\ n - Len(w) + i \in 1 .. n
            BY <3>3, <3>5, <5>2
          <6> QED
            BY <2>5, <3>2, <3>3, <6>1
        <5> QED
          BY <5>1, <5>2
      <4> QED
        BY <3>5, <4>1
    <3>8. \A i \in 1 .. (Len(admitted') - Len(window')) : admitted'[i] + Window < clock'
      <4>1. \A i \in 1 .. (n - Len(w)) : i \in 1 .. n
        BY <3>5
      <4> QED
        BY <2>5, <3>2, <3>5, <4>1
    <3>9. ASSUME NEW i \in 1 .. (Len(admitted') - MaxPerWindow)
          PROVE  admitted'[i] + Window < admitted'[i + MaxPerWindow]
      <4>1. CASE i + MaxPerWindow = n + 1
        <5>1. i \in 1 .. (n - Len(w)) /\ i \in 1 .. n
          BY <2>3, <2>4, <3>1, <4>1, <3>2
        <5> QED
          BY <2>5, <3>2, <4>1, <5>1
      <4>2. CASE i + MaxPerWindow <= n
        <5>1. i \in 1 .. (n - MaxPerWindow) /\ i \in 1 .. n /\ i + MaxPerWindow \in 1 .. n
          BY <2>4, <3>2, <4>2
        <5> QED
          BY <2>4, <2>w, <3>2, <5>1
      <4> QED
        BY <2>4, <3>2, <4>1, <4>2
    <3> QED
      BY <3>2, <3>3, <3>4, <3>6, <3>7, <3>8, <3>9 DEF WindowInv
  <2> QED
    BY <2>6, <2>7
<1> QED
  BY <1>1, <1>2

\* Two admissions in one window are less than a full window of places apart, so
\* places counted round the window's size tell them apart.
LEMMA WindowCounts == ASSUME EdgeShape, WindowInv PROVE WindowIsExact
<1> SUFFICES ASSUME MaxPerWindow > 0, NEW i \in DOMAIN admitted
             PROVE  Cardinality({j \in DOMAIN admitted :
                                   admitted[j] \in admitted[i] .. (admitted[i] + Window)}) <= MaxPerWindow
  BY DEF WindowIsExact
<1> DEFINE S == {j \in DOMAIN admitted : admitted[j] \in admitted[i] .. (admitted[i] + Window)}
           T == (i - MaxPerWindow + 1) .. i
           f == [j \in S |-> IF j <= i THEN j ELSE j - MaxPerWindow]
<1>1. /\ admitted \in Seq(Nat) /\ MaxPerWindow \in Nat \ {0} /\ Window \in Nat
      /\ DOMAIN admitted = 1 .. Len(admitted) /\ Len(admitted) \in Nat
      /\ i \in 1 .. Len(admitted)
  <2>1. admitted \in Seq(Nat)
    BY DEF EdgeShape
  <2>2. DOMAIN admitted = 1 .. Len(admitted) /\ Len(admitted) \in Nat
    BY <2>1
  <2>3. MaxPerWindow \in Nat \ {0} /\ Window \in Nat
    BY EdgeBounds
  <2> QED
    BY <2>1, <2>2, <2>3
<1>2. ASSUME NEW j \in S, NEW k \in S, j + MaxPerWindow <= k PROVE FALSE
  <2>1. /\ j \in 1 .. Len(admitted) /\ k \in 1 .. Len(admitted)
        /\ admitted[i] <= admitted[j] /\ admitted[k] <= admitted[i] + Window
        /\ admitted[i] \in Nat /\ admitted[j] \in Nat /\ admitted[k] \in Nat
    BY <1>1
  <2> HIDE DEF S, T, f
  <2>2. j \in 1 .. (Len(admitted) - MaxPerWindow) /\ j + MaxPerWindow \in 1 .. Len(admitted)
    <3>1. \A n, m \in Nat : \A x, y \in 1 .. n : x + m <= y => x \in 1 .. (n - m) /\ x + m \in 1 .. n
      OBVIOUS
    <3> QED
      BY <1>1, <1>2, <2>1, <3>1
  <2>3. admitted[j] + Window < admitted[j + MaxPerWindow] /\ admitted[j + MaxPerWindow] \in Nat
    <3>1. \A x \in 1 .. (Len(admitted) - MaxPerWindow) : admitted[x] + Window < admitted[x + MaxPerWindow]
      BY DEF WindowInv
    <3>2. \A x \in 1 .. Len(admitted) : admitted[x] \in Nat
      BY <1>1
    <3> QED
      BY <2>2, <3>1, <3>2, Zenon
  <2>4. admitted[j + MaxPerWindow] <= admitted[k]
    <3>1. \A x, y \in 1 .. Len(admitted) : x <= y => admitted[x] <= admitted[y]
      BY DEF WindowInv
    <3> QED
      BY <1>2, <2>1, <2>2, <3>1, Zenon
  <2> QED
    <3>1. \A a, b, c, d, w \in Nat : ~(b + w < d /\ d <= c /\ a <= b /\ c <= a + w)
      OBVIOUS
    <3> QED
      BY <1>1, <2>1, <2>3, <2>4, <3>1, Zenon
<1>3. \A j \in S : j \in Int
  BY <1>1
<1>4. i \in S
  BY <1>1
<1>5. \A j, k \in S : j < k + MaxPerWindow
  BY <1>1, <1>2, <1>3
<1> HIDE DEF S
<1>6. f \in [S -> T]
  BY <1>1, <1>3, <1>4, <1>5
<1>7. ASSUME NEW j \in S, NEW k \in S, f[j] = f[k] PROVE j = k
  BY <1>1, <1>3, <1>4, <1>5, <1>7
<1>8. f \in Injection(S, T)
  <2> HIDE DEF f, T
  <2> QED
    BY <1>6, <1>7 DEF Injection, IsInjective
<1>9. IsFiniteSet(T) /\ Cardinality(T) = MaxPerWindow
  <2>1. /\ i \in Int /\ i - MaxPerWindow + 1 \in Int /\ ~(i - MaxPerWindow + 1 > i)
        /\ i - (i - MaxPerWindow + 1) + 1 = MaxPerWindow
    BY <1>1
  <2> QED
    BY <2>1, FS_Interval, Zenon
<1> HIDE DEF f, T
<1>10. Cardinality(S) <= MaxPerWindow
  BY <1>8, <1>9, FS_Injection
<1> QED
  BY <1>10 DEF S

LEMMA BucketArithmetic ==
  ASSUME NEW tokens \in Nat, NEW refill \in Nat, NEW taken \in Nat, NEW from \in Int, NEW last \in Int,
         NEW now \in Int, tokens + Second * taken <= Rps * Second + (last - from) * Rps,
         refill <= tokens + (now - last) * Rps
  PROVE  /\ refill + Second * taken <= Rps * Second + (now - from) * Rps
         /\ refill - Second + Second * (taken + 1) <= Rps * Second + (now - from) * Rps
<1>1. Rps \in Int /\ Second \in Int
  BY EdgeBounds
<1>2. (last - from) * Rps + (now - last) * Rps = (now - from) * Rps
  BY <1>1
<1>3. Second * (taken + 1) = Second * taken + Second
  BY <1>1
<1>4. PICK a \in Int, b \in Int, d \in Int, e \in Int, g \in Int, h \in Int :
        /\ a = (last - from) * Rps /\ b = (now - last) * Rps /\ d = (now - from) * Rps
        /\ e = Second * taken /\ g = Second * (taken + 1) /\ h = Rps * Second
  BY <1>1
<1>5. a + b = d /\ g = e + Second /\ tokens + e <= h + a /\ refill <= tokens + b
  BY <1>2, <1>3, <1>4
<1>6. refill + e <= h + d /\ refill - Second + g <= h + d
  BY <1>1, <1>5
<1> QED
  BY <1>4, <1>6

LEMMA RefillBounds ==
  ASSUME EdgeShape, BucketInv
  PROVE  /\ Refilled \in Nat /\ Refilled <= Rps * Second
         /\ Refilled <= bucket.tokens + (clock - bucket.last) * Rps
<1>1. Rps \in Nat /\ Second \in Nat /\ clock \in Nat /\ bucket.tokens \in Nat /\ bucket.last \in Nat
  BY EdgeBounds DEF EdgeShape
<1>2. clock - bucket.last \in Nat
  BY <1>1 DEF BucketInv
<1>3. (clock - bucket.last) * Rps \in Nat /\ Rps * Second \in Nat
  BY <1>1, <1>2
<1> QED
  BY <1>1, <1>3 DEF Refilled, Least

\* A request that takes its tokens, or finds too few, keeps the bucket's account.
LEMMA ConsumeKeepsBucket ==
  ASSUME EdgeShape, BucketInv, NEW allowed \in BOOLEAN, try_consume(allowed), clock' = clock
  PROVE  BucketInv' /\ bucket' \in [tokens : Nat, last : Nat] /\ passed' \in Seq(Nat)
<1>1. PICK refill : refill = Refilled
  OBVIOUS
<1>2. /\ refill \in Nat /\ refill <= Rps * Second
      /\ refill <= bucket.tokens + (clock - bucket.last) * Rps
  BY <1>1, RefillBounds
<1>3. /\ clock \in Nat /\ bucket.tokens \in Nat /\ bucket.last \in Nat /\ passed \in Seq(Nat)
      /\ Rps \in Nat /\ Second \in Nat /\ Rps * Second \in Nat
  BY EdgeBounds DEF EdgeShape
<1>4. /\ \A i \in 1 .. Len(passed) : passed[i] \in Nat /\ passed[i] <= clock
      /\ Len(passed) \in Nat
  <2>1. Len(passed) \in Nat /\ \A i \in 1 .. Len(passed) : passed[i] \in Nat
    BY <1>3
  <2>2. bucket.last <= clock /\ \A i \in 1 .. Len(passed) : passed[i] <= bucket.last
    BY DEF BucketInv
  <2> QED
    BY <1>3, <2>1, <2>2
<1>5. ASSUME NEW i \in 1 .. Len(passed)
      PROVE  /\ refill + Second * (Len(passed) - i + 1) <= Rps * Second + (clock - passed[i]) * Rps
             /\ refill - Second + Second * (Len(passed) - i + 1 + 1) <= Rps * Second + (clock - passed[i]) * Rps
  <2>1. Len(passed) - i + 1 \in Nat /\ passed[i] \in Int /\ clock \in Int /\ bucket.last \in Int
    BY <1>3, <1>4
  <2>2. bucket.tokens + Second * (Len(passed) - i + 1) <= Rps * Second + (bucket.last - passed[i]) * Rps
    BY DEF BucketInv
  <2> QED
    BY <1>2, <1>3, <2>1, <2>2, BucketArithmetic
<1>6. CASE ~allowed
  <2>1. bucket' = [tokens |-> refill, last |-> clock] /\ passed' = passed
    BY <1>1, <1>6 DEF try_consume
  <2>2. bucket'.tokens = refill /\ bucket'.last = clock
    BY <2>1
  <2>3. \A i \in 1 .. Len(passed') :
          /\ passed'[i] <= bucket'.last
          /\ bucket'.tokens + Second * (Len(passed') - i + 1)
               <= Rps * Second + (bucket'.last - passed'[i]) * Rps
    BY <1>4, <1>5, <2>1, <2>2
  <2>4. BucketHonoursRate'
    BY <2>1 DEF BucketInv, BucketHonoursRate
  <2>5. bucket'.tokens <= Rps * Second /\ bucket'.last <= clock'
    BY <1>2, <1>3, <2>2
  <2>6. bucket' \in [tokens : Nat, last : Nat] /\ passed' \in Seq(Nat)
    BY <1>2, <1>3, <2>1
  <2> QED
    BY <2>3, <2>4, <2>5, <2>6 DEF BucketInv
<1>7. CASE allowed
  <2>1. bucket' = [tokens |-> refill - Second, last |-> clock] /\ passed' = Append(passed, clock)
        /\ refill >= Second
    BY <1>1, <1>7 DEF try_consume
  <2>2. bucket'.tokens = refill - Second /\ bucket'.last = clock /\ refill - Second \in Nat
    BY <1>2, <1>3, <2>1
  <2>n. PICK n \in Nat : n = Len(passed)
    BY <1>4
  <2>3. /\ passed' \in Seq(Nat) /\ Len(passed') = n + 1 /\ passed'[n + 1] = clock
        /\ \A i \in 1 .. n : passed'[i] = passed[i]
    BY <1>3, <2>1, <2>n
  <2>4. ASSUME NEW i \in 1 .. (n + 1)
        PROVE  /\ passed'[i] <= clock /\ passed'[i] \in Nat
               /\ refill - Second + Second * (n + 1 - i + 1) <= Rps * Second + (clock - passed'[i]) * Rps
    <3>1. CASE i = n + 1
      <4>1. Second * (n + 1 - i + 1) = Second /\ (clock - passed'[i]) * Rps = 0
        <5>1. n + 1 - i + 1 = 1 /\ clock - passed'[i] = 0
          BY <1>3, <2>3, <3>1
        <5>2. Second * 1 = Second /\ 0 * Rps = 0
          BY <1>3
        <5> QED
          BY <5>1, <5>2, Zenon
      <4>2. passed'[i] <= clock /\ passed'[i] \in Nat
        BY <1>3, <2>3, <3>1
      <4>3. refill - Second + Second <= Rps * Second + 0
        BY <1>2, <1>3
      <4> QED
        BY <4>1, <4>2, <4>3, Zenon
    <3>2. CASE i # n + 1
      <4>1. i \in 1 .. n /\ n - i + 1 + 1 = n + 1 - i + 1
        BY <3>2
      <4>2. passed'[i] = passed[i] /\ passed[i] <= clock /\ passed[i] \in Nat
        BY <1>4, <2>n, <2>3, <4>1
      <4>3. refill - Second + Second * (n - i + 1 + 1) <= Rps * Second + (clock - passed[i]) * Rps
        BY <1>5, <2>n, <4>1, Zenon
      <4> QED
        BY <4>1, <4>2, <4>3
    <3> QED
      BY <3>1, <3>2
  <2>5. \A i \in 1 .. Len(passed') :
          /\ passed'[i] <= bucket'.last
          /\ bucket'.tokens + Second * (Len(passed') - i + 1)
               <= Rps * Second + (bucket'.last - passed'[i]) * Rps
    BY <2>2, <2>3, <2>4
  <2>6. ASSUME NEW i \in 1 .. Len(passed'), NEW j \in i .. Len(passed')
        PROVE  Second * (j - i + 1) <= Second * Rps + (passed'[j] - passed'[i]) * Rps
    <3>1. CASE j = n + 1
      <4>1. PICK a \in Int, b \in Int : a = Second * (n + 1 - i + 1) /\ b = (clock - passed'[i]) * Rps
        <5>1. passed'[i] \in Nat /\ n + 1 - i + 1 \in Int
          BY <2>3, <2>4
        <5> QED
          BY <1>3, <5>1
      <4>2. refill - Second + a <= Rps * Second + b
        BY <2>3, <2>4, <4>1
      <4>3. a <= Rps * Second + b
        BY <1>3, <2>2, <4>1, <4>2
      <4>4. Rps * Second = Second * Rps
        BY <1>3
      <4> QED
        BY <2>3, <3>1, <4>1, <4>3, <4>4
    <3>2. CASE j # n + 1
      <4>1. i \in 1 .. n /\ j \in i .. n /\ j \in 1 .. n
        BY <2>3, <3>2
      <4>2. passed'[i] = passed[i] /\ passed'[j] = passed[j]
        BY <2>3, <4>1
      <4>3. i \in DOMAIN passed /\ j \in i .. Len(passed)
        BY <1>3, <2>n, <4>1
      <4>4. Second * (j - i + 1) <= Second * Rps + (passed[j] - passed[i]) * Rps
        BY <4>3, Zenon DEF BucketInv, BucketHonoursRate
      <4> QED
        BY <4>2, <4>4
    <3> QED
      BY <3>1, <3>2
  <2>7. BucketHonoursRate'
    <3>1. DOMAIN passed' = 1 .. Len(passed')
      BY <2>3
    <3> QED
      BY <2>6, <3>1, Zenon DEF BucketHonoursRate
  <2>8. bucket'.tokens <= Rps * Second /\ bucket'.last <= clock'
    BY <1>2, <1>3, <2>2
  <2>9. bucket' \in [tokens : Nat, last : Nat]
    BY <1>3, <2>1, <2>2
  <2> QED
    BY <2>3, <2>5, <2>7, <2>8, <2>9 DEF BucketInv
<1> QED
  BY <1>6, <1>7

LEMMA LimiterStep ==
  ASSUME EdgeShape, WindowInv, BucketInv, Next
  PROVE  /\ WindowInv' /\ BucketInv'
         /\ clock' \in Nat /\ window' \in Seq(Nat) /\ admitted' \in Seq(Nat) /\ passed' \in Seq(Nat)
         /\ bucket' \in [tokens : Nat, last : Nat]
<1>1. CASE UNCHANGED limiterVars
  BY <1>1 DEF limiterVars, WindowInv, BucketInv, BucketHonoursRate, EdgeShape
<1>2. CASE Tick
  <2>1. /\ UNCHANGED <<window, admitted, bucket, passed>> /\ clock' = clock + 1
    BY <1>2 DEF Tick
  <2>2. BucketInv'
    BY <2>1 DEF BucketInv, BucketHonoursRate, EdgeShape
  <2>3. WindowInv'
    <3>1. \A t \in Nat : t <= clock => t <= clock + 1
      BY DEF EdgeShape
    <3>2. \A t \in Nat : t + Window < clock => t + Window < clock + 1
      BY EdgeBounds DEF EdgeShape
    <3>3. \A i \in 1 .. Len(admitted) : admitted[i] \in Nat
      BY DEF EdgeShape
    <3>4. \A i \in 1 .. Len(admitted) : admitted[i] <= clock'
      BY <2>1, <3>1, <3>3, Zenon DEF WindowInv
    <3>5. MaxPerWindow > 0 => \A i \in 1 .. (Len(admitted) - Len(window)) : admitted[i] + Window < clock'
      <4>1. \A i \in 1 .. (Len(admitted) - Len(window)) : i \in 1 .. Len(admitted)
        BY DEF EdgeShape
      <4> QED
        BY <2>1, <3>2, <3>3, <4>1, Zenon DEF WindowInv
    <3> QED
      BY <2>1, <3>4, <3>5, Zenon DEF WindowInv
  <2> QED
    BY <2>1, <2>2, <2>3 DEF EdgeShape
<1>3. CASE \E r \in Requests : Arrive(r)
  <2>1. PICK allowed \in BOOLEAN : check(allowed)
    BY <1>3, Zenon DEF Arrive
  <2>2. UNCHANGED <<clock, bucket, passed>>
    BY <1>3 DEF Arrive
  <2>3. WindowInv' /\ window' \in Seq(Nat) /\ admitted' \in Seq(Nat)
    BY <2>1, <2>2, CheckKeepsWindow
  <2>4. BucketInv'
    BY <2>2 DEF BucketInv, BucketHonoursRate
  <2> QED
    BY <2>2, <2>3, <2>4 DEF EdgeShape
<1>4. CASE \E r \in Requests : Admit(r)
  <2>1. PICK allowed \in BOOLEAN : try_consume(allowed)
    BY <1>4, Zenon DEF Admit
  <2>2. UNCHANGED <<clock, window, admitted>>
    BY <1>4 DEF Admit
  <2>3. BucketInv' /\ bucket' \in [tokens : Nat, last : Nat] /\ passed' \in Seq(Nat)
    BY <2>1, <2>2, ConsumeKeepsBucket
  <2>4. WindowInv'
    BY <2>2 DEF WindowInv
  <2> QED
    BY <2>2, <2>3, <2>4 DEF EdgeShape
<1> QED
  BY <1>1, <1>2, <1>3, <1>4, Zenon DEF Next, RequestStep, plain_http_request, Resolve, Notify, StreamArrives,
     SenderDropped, StreamTimeout, handle_ws_upgrade, ForwardFails, HeadArrives, BodyEnds, BridgeEnds,
     SessionDrain, persist_row, RingPush, HealthReport, SessionGone, RouteGone

-----------------------------------------------------------------------------
(* HttpEdge: the permits *)

LEMMA PermitStep ==
  ASSUME EdgeShape, PermitInv, Next
  PROVE  PermitInv' /\ permits' \in Nat
<1>0. /\ IsFiniteSet(Holding) /\ Cardinality(Holding) \in Nat /\ permits \in Nat
      /\ permits + Cardinality(Holding) = MaxConnections
  BY FS_CardinalityType DEF PermitInv, EdgeShape
<1>1. ASSUME permits' = permits, Holding' = Holding PROVE PermitInv' /\ permits' \in Nat
  BY <1>0, <1>1, Zenon DEF PermitInv
<1>2. ASSUME NEW r \in Requests, pc[r] \notin {"notify", "waiting", "stream"}, permits > 0,
             permits' = permits - 1, Go(r, "notify")
      PROVE  PermitInv' /\ permits' \in Nat
  <2>1. Holding' = Holding \cup {r} /\ r \notin Holding
    BY <1>2 DEF Holding, Go, EdgeShape
  <2>2. IsFiniteSet(Holding \cup {r}) /\ Cardinality(Holding \cup {r}) = Cardinality(Holding) + 1
    BY <1>0, <2>1, FS_AddElement, Zenon
  <2>3. PICK h : h = Holding \cup {r}
    OBVIOUS
  <2>4. permits' \in Nat /\ permits' + Cardinality(h) = MaxConnections
    BY <1>0, <1>2, <2>2, <2>3
  <2> QED
    BY <2>1, <2>2, <2>3, <2>4, Zenon DEF PermitInv
<1>3. ASSUME NEW r \in Requests, NEW there \in {"done", "body", "bridged"},
             pc[r] \in {"notify", "waiting", "stream"}, Leave(r, there)
      PROVE  PermitInv' /\ permits' \in Nat
  <2>1. Holding' = Holding \ {r} /\ r \in Holding
    BY <1>3 DEF Holding, Leave, Go, EdgeShape
  <2>2. IsFiniteSet(Holding \ {r}) /\ Cardinality(Holding \ {r}) = Cardinality(Holding) - 1
    BY <1>0, <2>1, FS_RemoveElement, Zenon
  <2>3. PICK h : h = Holding \ {r}
    OBVIOUS
  <2>4. permits' = permits + 1
    BY <1>3 DEF Leave
  <2>5. permits' \in Nat /\ permits' + Cardinality(h) = MaxConnections
    BY <1>0, <2>2, <2>3, <2>4
  <2> QED
    BY <2>1, <2>2, <2>3, <2>5, Zenon DEF PermitInv
<1>4. ASSUME NEW r \in Requests, NEW there \in Places, Go(r, there),
             pc[r] \in {"notify", "waiting", "stream"} <=> there \in {"notify", "waiting", "stream"}
      PROVE  Holding' = Holding
  BY <1>4 DEF Holding, Go, EdgeShape
<1>5. ASSUME UNCHANGED pc PROVE Holding' = Holding
  BY <1>5 DEF Holding
<1>6. ASSUME NEW r \in Requests, RequestStep(r) PROVE PermitInv' /\ permits' \in Nat
  <2>1. CASE Arrive(r) \/ plain_http_request(r) \/ Resolve(r) \/ BodyEnds(r) \/ BridgeEnds(r)
    <3>1. pc[r] \in {"new", "gate", "resolve", "body", "bridged"} /\ permits' = permits
      BY <2>1 DEF Arrive, plain_http_request, Resolve, BodyEnds, BridgeEnds, At, holdVars
    <3>2. \E there \in {"done", "gate", "resolve", "admit"} : Go(r, there)
      BY <2>1, Zenon DEF Arrive, plain_http_request, Resolve, BodyEnds, BridgeEnds
    <3>3. Holding' = Holding
      BY <1>4, <3>1, <3>2 DEF Places
    <3> QED
      BY <1>1, <3>1, <3>3
  <2>2. CASE Admit(r)
    <3>1. pc[r] = "admit"
      BY <2>2 DEF Admit, At
    <3>2. CASE permits' = permits /\ Go(r, "done")
      <4>1. Holding' = Holding
        BY <1>4, <3>1, <3>2 DEF Places
      <4> QED
        BY <1>1, <3>2, <4>1
    <3>3. CASE permits > 0 /\ permits' = permits - 1 /\ Go(r, "notify")
      BY <1>2, <3>1, <3>3
    <3> QED
      BY <2>2, <3>2, <3>3, Zenon DEF Admit
  <2>3. CASE Notify(r)
    <3>1. pc[r] = "notify"
      BY <2>3 DEF Notify, At
    <3>2. CASE permits' = permits /\ Go(r, "waiting")
      <4>1. Holding' = Holding
        BY <1>4, <3>1, <3>2 DEF Places
      <4> QED
        BY <1>1, <3>2, <4>1
    <3>3. CASE Leave(r, "done")
      BY <1>3, <3>1, <3>3
    <3> QED
      BY <2>3, <3>2, <3>3, Zenon DEF Notify
  <2>4. CASE StreamArrives(r)
    <3>1. pc[r] = "waiting" /\ permits' = permits /\ Go(r, "stream")
      BY <2>4 DEF StreamArrives, At
    <3>2. Holding' = Holding
      BY <1>4, <3>1 DEF Places
    <3> QED
      BY <1>1, <3>1, <3>2
  <2>5. CASE SenderDropped(r) \/ StreamTimeout(r)
    <3>1. pc[r] = "waiting" /\ Leave(r, "done")
      BY <2>5 DEF SenderDropped, StreamTimeout, At
    <3> QED
      BY <1>3, <3>1
  <2>6. CASE handle_ws_upgrade(r) \/ ForwardFails(r) \/ HeadArrives(r)
    <3>1. pc[r] = "stream"
      BY <2>6 DEF handle_ws_upgrade, ForwardFails, HeadArrives, At
    <3>2. \E there \in {"done", "body", "bridged"} : Leave(r, there)
      BY <2>6, Zenon DEF handle_ws_upgrade, ForwardFails, HeadArrives
    <3> QED
      BY <1>3, <3>1, <3>2
  <2> QED
    BY <1>6, <2>1, <2>2, <2>3, <2>4, <2>5, <2>6, Zenon DEF RequestStep
<1>7. CASE SessionDrain \/ persist_row \/ RingPush \/ HealthReport \/ SessionGone \/ RouteGone \/ Tick
  <2>1. permits' = permits /\ UNCHANGED pc
    BY <1>7 DEF SessionDrain, persist_row, RingPush, HealthReport, SessionGone, RouteGone, Tick, holdVars
  <2> QED
    BY <1>1, <1>5, <2>1
<1> QED
  BY <1>6, <1>7 DEF Next

-----------------------------------------------------------------------------
(* HttpEdge: the types of the hand-off and of the captures *)

LEMMA AppendBounded ==
  ASSUME NEW S, NEW q \in Seq(S), NEW x \in S, NEW cap \in Nat, Len(q) < cap
  PROVE  Append(q, x) \in Seq(S) /\ Len(Append(q, x)) <= cap
OBVIOUS

LEMMA TailBounded ==
  ASSUME NEW S, NEW q \in Seq(S), NEW cap \in Nat, Len(q) <= cap, q # <<>>
  PROVE  Tail(q) \in Seq(S) /\ Len(Tail(q)) <= cap
OBVIOUS

LEMMA EmitQueue ==
  ASSUME EdgeShape, NEW r \in Requests, NEW t \in Tunnels, emit_capture(Event(r, t))
  PROVE  captureq' \in Seq(Events) /\ Len(captureq') <= CaptureCapacity
<1>1. Event(r, t) \in Events
  BY DEF Event, Events
<1>2. /\ captureq \in Seq(Events) /\ Len(captureq) <= CaptureCapacity /\ CaptureCapacity \in Nat
  BY EdgeBounds DEF EdgeShape
<1>3. captureq' = captureq \/ (Len(captureq) < CaptureCapacity /\ captureq' = Append(captureq, Event(r, t)))
  BY Zenon DEF emit_capture
<1> QED
  BY <1>1, <1>2, <1>3, AppendBounded, Zenon

LEMMA RowTypes ==
  ASSUME EdgeShape, persist_row
  PROVE  /\ captureq' \in Seq(Events) /\ Len(captureq') = Len(captureq) - 1 /\ Len(captureq) > 0
         /\ captureq[1] \in Events /\ captureq[1].tunnel \in Tunnels /\ captureq[1].conn \in Requests
         /\ \A i \in 1 .. Len(captureq') : captureq'[i] = captureq[i + 1]
         /\ storing' = captureq[1]
         /\ stored' = [stored EXCEPT ![captureq[1].tunnel] = Append(@, captureq[1].conn)]
<1>1. captureq \in Seq(Events) /\ captureq # <<>>
  BY DEF persist_row, EdgeShape
<1>2. /\ Tail(captureq) \in Seq(Events) /\ Len(Tail(captureq)) = Len(captureq) - 1 /\ Len(captureq) > 0
      /\ Head(captureq) = captureq[1] /\ captureq[1] \in Events
      /\ \A i \in 1 .. Len(Tail(captureq)) : Tail(captureq)[i] = captureq[i + 1]
  BY <1>1
<1>3. captureq[1].tunnel \in Tunnels /\ captureq[1].conn \in Requests
  BY <1>2 DEF Events
<1> QED
  BY <1>2, <1>3, Zenon DEF persist_row

LEMMA EdgeShapeStep ==
  ASSUME EdgeShape, WindowInv, BucketInv, PermitInv, Next
  PROVE  EdgeShape'
<1>1. pc' \in [Requests -> Places]
  <2>1. UNCHANGED pc \/ \E r \in Requests, there \in Places : Go(r, there)
    <3>1. ASSUME NEW r \in Requests, RequestStep(r) PROVE \E there \in Places : Go(r, there)
      BY <3>1 DEF RequestStep, Arrive, plain_http_request, Resolve, Admit, Notify, StreamArrives, SenderDropped,
         StreamTimeout, handle_ws_upgrade, ForwardFails, HeadArrives, BodyEnds, BridgeEnds, Leave, Places
    <3> QED
      BY <3>1, Zenon DEF Next, SessionDrain, persist_row, RingPush, HealthReport, SessionGone, RouteGone, Tick
  <2> QED
    BY <2>1 DEF Go, EdgeShape
<1>2. pending' \subseteq Requests
  BY DEF EdgeShape, Next, RequestStep, Arrive, plain_http_request, Resolve, Admit, Notify, StreamArrives,
     SenderDropped, StreamTimeout, handle_ws_upgrade, ForwardFails, HeadArrives, BodyEnds, BridgeEnds,
     SessionDrain, persist_row, RingPush, HealthReport, SessionGone, RouteGone, Tick, holdVars
<1>3. control' \in Seq(Requests) /\ Len(control') <= ControlCapacity
  <2>1. \/ control' = control \/ control' = <<>> \/ (control # <<>> /\ control' = Tail(control))
        \/ \E r \in Requests : Len(control) < ControlCapacity /\ control' = Append(control, r)
    BY Zenon DEF Next, RequestStep, Arrive, plain_http_request, Resolve, Admit, Notify, StreamArrives,
       SenderDropped, StreamTimeout, handle_ws_upgrade, ForwardFails, HeadArrives, BodyEnds, BridgeEnds,
       SessionDrain, persist_row, RingPush, HealthReport, SessionGone, RouteGone, Tick, tunnelVars
  <2>2. control \in Seq(Requests) /\ Len(control) <= ControlCapacity /\ ControlCapacity \in Nat
    BY EdgeBounds DEF EdgeShape
  <2>3. <<>> \in Seq(Requests) /\ Len(<<>>) <= ControlCapacity
    BY <2>2
  <2> QED
    BY <2>1, <2>2, <2>3, AppendBounded, TailBounded, Zenon
<1>4. captureq' \in Seq(Events) /\ Len(captureq') <= CaptureCapacity
  <2>1. CASE captureq' = captureq
    BY <2>1 DEF EdgeShape
  <2>2. CASE \E r \in Requests : handle_ws_upgrade(r) \/ BodyEnds(r)
    <3>1. PICK r \in Requests, t \in Tunnels : emit_capture(Event(r, t))
      BY <2>2, Zenon DEF handle_ws_upgrade, BodyEnds, Tunnels
    <3> QED
      BY <3>1, EmitQueue
  <2>3. CASE persist_row
    <3>1. captureq' \in Seq(Events) /\ Len(captureq') = Len(captureq) - 1
      BY <2>3, RowTypes
    <3>2. Len(captureq) \in Nat /\ Len(captureq) <= CaptureCapacity /\ CaptureCapacity \in Nat
      BY EdgeBounds DEF EdgeShape
    <3> QED
      BY <3>1, <3>2
  <2> QED
    BY <2>1, <2>2, <2>3, Zenon DEF Next, RequestStep, Arrive, plain_http_request, Resolve, Admit, Notify,
       StreamArrives, SenderDropped, StreamTimeout, ForwardFails, HeadArrives, BridgeEnds,
       SessionDrain, RingPush, HealthReport, SessionGone, RouteGone, Tick, captureVars
<1>5. storing' \in Events \cup {NoRow} /\ ring' \in Seq(Requests) /\ stored' \in [Tunnels -> Seq(Requests)]
  <2>1. CASE UNCHANGED <<storing, ring, stored>>
    BY <2>1 DEF EdgeShape
  <2>2. CASE persist_row
    <3>1. ring' = ring
      BY <2>2 DEF persist_row
    <3>2. PICK t, c : t = captureq[1].tunnel /\ c = captureq[1].conn
      OBVIOUS
    <3>3. t \in Tunnels /\ c \in Requests /\ storing' \in Events
      BY <2>2, <3>2, RowTypes
    <3>4. stored' = [stored EXCEPT ![t] = Append(@, c)]
      BY <2>2, <3>2, RowTypes, Zenon
    <3>5. stored \in [Tunnels -> Seq(Requests)] /\ ring \in Seq(Requests)
      BY DEF EdgeShape
    <3>6. stored' \in [Tunnels -> Seq(Requests)]
      BY <3>3, <3>4, <3>5
    <3> QED
      BY <3>1, <3>3, <3>5, <3>6
  <2>3. CASE RingPush
    <3>1. /\ storing \in Events /\ storing' = NoRow /\ stored' = stored
      BY <2>3 DEF RingPush, EdgeShape
    <3>2. storing.conn \in Requests
      BY <3>1 DEF Events
    <3>3. ring' = ring \/ ring' = Rolled(ring, storing.conn, RingCapacity)
      BY <2>3, Zenon DEF RingPush, Rolled
    <3>4. Len(ring) >= RingCapacity => ring # <<>> /\ Tail(ring) \in Seq(Requests)
      BY EdgeBounds DEF EdgeShape
    <3>5. ring' \in Seq(Requests)
      <4>1. ring \in Seq(Requests)
        BY DEF EdgeShape
      <4>2. \A q \in Seq(Requests) : Append(q, storing.conn) \in Seq(Requests)
        BY <3>2
      <4> QED
        BY <3>3, <3>4, <4>1, <4>2, Zenon DEF Rolled
    <3> QED
      BY <3>1, <3>5 DEF EdgeShape
  <2> QED
    BY <2>1, <2>2, <2>3, Zenon DEF Next, RequestStep, Arrive, plain_http_request, Resolve, Admit, Notify,
       StreamArrives, SenderDropped, StreamTimeout, handle_ws_upgrade, ForwardFails, HeadArrives, BodyEnds,
       BridgeEnds, SessionDrain, HealthReport, SessionGone, RouteGone, Tick, captureVars
<1> QED
  BY <1>1, <1>2, <1>3, <1>4, <1>5, LimiterStep, PermitStep DEF EdgeShape

-----------------------------------------------------------------------------
(* HttpEdge: captures *)

\* The request r moves on and no event is sent or stored.
LEMMA NoEventStep ==
  ASSUME EdgeShape, CaptureInv, UNCHANGED <<captureq, stored, lost>>,
         NEW r \in Requests, NEW there \in Places, Go(r, there),
         pc[r] \notin {"body", "done"}, pc[r] = "bridged" => there = "done",
         headed' = headed \/ (headed' = headed \cup {r} /\ there = "body")
  PROVE  CaptureInv'
<1>1. /\ \A s : InQueue(s)' <=> InQueue(s)
      /\ stored' = stored
  BY DEF InQueue
<1>2. pc'[r] = there /\ \A s \in Requests : s # r => pc'[s] = pc[s]
  BY DEF Go, EdgeShape
<1>3. \A s \in Requests : Recordable(s)'
  BY <1>1, <1>2, Zenon DEF CaptureInv, Recordable
<1>4. \A s \in headed : s \in Requests /\ s # r
  BY Zenon DEF CaptureInv
<1>5. \A s \in headed' : s \in Requests /\
         \/ pc'[s] = "body"
         \/ pc'[s] = "done" /\ (Has(stored'["tunnel"], s) \/ Has(stored'["nil"], s) \/ InQueue(s)' \/ s \in lost')
  <2>1. ASSUME NEW s \in headed
        PROVE  s \in Requests /\
                 \/ pc'[s] = "body"
                 \/ pc'[s] = "done" /\ (Has(stored'["tunnel"], s) \/ Has(stored'["nil"], s) \/ InQueue(s)' \/ s \in lost')
    BY <1>1, <1>2, <1>4, Zenon DEF CaptureInv
  <2> QED
    BY <1>2, <2>1, Zenon
<1>6. /\ Once(stored'["tunnel"]) /\ Once(stored'["nil"])
      /\ \A i, j \in 1 .. Len(captureq') : captureq'[i].conn = captureq'[j].conn => i = j
  BY Zenon DEF CaptureInv
<1> QED
  BY <1>3, <1>5, <1>6, Zenon DEF CaptureInv

\* The request r is over and its event is sent, or lost to a full channel.
LEMMA EventStep ==
  ASSUME EdgeShape, CaptureInv, UNCHANGED <<stored, headed>>,
         NEW r \in Requests, NEW t \in Tunnels, NEW there \in {"bridged", "done"}, Go(r, there),
         pc[r] \notin {"bridged", "done"}, emit_capture(Event(r, t)),
         r \in headed => there = "done"
  PROVE  CaptureInv'
<1>1. pc'[r] = there /\ \A s \in Requests : s # r => pc'[s] = pc[s]
  BY DEF Go, EdgeShape
<1>2. /\ ~Has(stored["tunnel"], r) /\ ~Has(stored["nil"], r) /\ ~InQueue(r)
  BY Zenon DEF CaptureInv, Recordable
<1>3. lost \subseteq lost'
  BY Zenon DEF emit_capture
<1>4. CASE captureq' = captureq
  <2>1. r \in lost'
    BY <1>4, EdgeBounds DEF emit_capture, Event, EdgeShape
  <2>2. \A s : InQueue(s)' <=> InQueue(s)
    BY <1>4 DEF InQueue
  <2>3. \A s \in Requests : Recordable(s)'
    BY <1>1, <2>2, Zenon DEF CaptureInv, Recordable
  <2>4. \A s \in headed' : s \in Requests /\
         \/ pc'[s] = "body"
         \/ pc'[s] = "done" /\ (Has(stored'["tunnel"], s) \/ Has(stored'["nil"], s) \/ InQueue(s)' \/ s \in lost')
    BY <1>1, <1>3, <2>1, <2>2, Zenon DEF CaptureInv
  <2>5. /\ Once(stored'["tunnel"]) /\ Once(stored'["nil"])
        /\ \A i, j \in 1 .. Len(captureq') : captureq'[i].conn = captureq'[j].conn => i = j
    BY <1>4, Zenon DEF CaptureInv
  <2> QED
    BY <2>3, <2>4, <2>5, Zenon DEF CaptureInv
<1>5. CASE captureq' # captureq
  <2>1. captureq' = Append(captureq, Event(r, t))
    BY <1>5, Zenon DEF emit_capture
  <2>2. PICK e : e = Event(r, t)
    OBVIOUS
  <2>3. e \in Events /\ e.conn = r
    BY <2>2 DEF Event, Events
  <2>n. PICK n \in Nat : n = Len(captureq)
    BY DEF EdgeShape
  <2>4. /\ Len(captureq') = n + 1 /\ captureq'[n + 1] = e
        /\ \A i \in 1 .. n : captureq'[i] = captureq[i]
    BY <2>1, <2>2, <2>3, <2>n DEF EdgeShape
  <2>5. \A i \in 1 .. (n + 1) : i = n + 1 \/ i \in 1 .. n
    OBVIOUS
  <2>6. \A i \in 1 .. n : i \in 1 .. (n + 1)
    OBVIOUS
  <2>7. \A s : InQueue(s)' <=> InQueue(s) \/ s = r
    <3>1. n + 1 \in 1 .. (n + 1)
      OBVIOUS
    <3> QED
      BY <2>n, <2>3, <2>4, <2>5, <2>6, <3>1, Zenon DEF InQueue
  <2>8. ASSUME NEW i \in 1 .. (n + 1), NEW j \in 1 .. (n + 1), captureq'[i].conn = captureq'[j].conn
        PROVE  i = j
    <3>1. \A k \in 1 .. n : captureq[k].conn # r
      BY <1>2, <2>n, Zenon DEF InQueue
    <3>2. CASE i = n + 1 \/ j = n + 1
      BY <2>3, <2>4, <2>5, <2>8, <3>1, <3>2, Zenon
    <3>3. CASE i \in 1 .. n /\ j \in 1 .. n
      BY <2>n, <2>4, <2>8, <3>3, Zenon DEF CaptureInv
    <3> QED
      BY <2>5, <3>2, <3>3
  <2>9. \A s \in Requests : Recordable(s)'
    BY <1>1, <1>2, <2>7, Zenon DEF CaptureInv, Recordable
  <2>10. \A s \in headed' : s \in Requests /\
         \/ pc'[s] = "body"
         \/ pc'[s] = "done" /\ (Has(stored'["tunnel"], s) \/ Has(stored'["nil"], s) \/ InQueue(s)' \/ s \in lost')
    BY <1>1, <1>3, <2>7, Zenon DEF CaptureInv
  <2> QED
    BY <2>4, <2>8, <2>9, <2>10, Zenon DEF CaptureInv
<1> QED
  BY <1>4, <1>5

\* A row leaves the channel and joins the rows of its tunnel.
LEMMA RowStep ==
  ASSUME EdgeShape, CaptureInv, persist_row
  PROVE  CaptureInv'
<1>1. /\ Len(captureq') = Len(captureq) - 1 /\ Len(captureq) > 0
      /\ captureq[1].tunnel \in Tunnels /\ captureq[1].conn \in Requests
      /\ \A i \in 1 .. Len(captureq') : captureq'[i] = captureq[i + 1]
      /\ stored' = [stored EXCEPT ![captureq[1].tunnel] = Append(@, captureq[1].conn)]
  BY RowTypes
<1>2. UNCHANGED <<pc, headed, lost>>
  BY DEF persist_row, holdVars
<1>3. PICK t \in Tunnels, c \in Requests : t = captureq[1].tunnel /\ c = captureq[1].conn
  BY <1>1
<1>n. PICK n \in Nat : n = Len(captureq)
  BY DEF EdgeShape
<1>4. /\ \A i \in 1 .. (n - 1) : i + 1 \in 1 .. n /\ i + 1 # 1 /\ \A j \in 1 .. (n - 1) : i + 1 = j + 1 => i = j
      /\ \A i \in 1 .. n : i = 1 \/ (i - 1 \in 1 .. (n - 1) /\ (i - 1) + 1 = i)
      /\ 1 \in 1 .. n
  BY <1>1, <1>n
<1>5. \A i, j \in 1 .. n : captureq[i].conn = captureq[j].conn => i = j
  BY <1>n, Zenon DEF CaptureInv
<1>6. InQueue(c) /\ ~Has(stored["tunnel"], c) /\ ~Has(stored["nil"], c)
  <2>1. InQueue(c)
    BY <1>3, <1>4, <1>n, Zenon DEF InQueue
  <2> QED
    BY <2>1, Zenon DEF CaptureInv, Recordable
<1>7. /\ \A i \in 1 .. (n - 1) : captureq'[i] = captureq[i + 1]
      /\ Len(captureq') = n - 1
  BY <1>1, <1>n
<1>8. \A s : InQueue(s)' <=> InQueue(s) /\ s # c
  <2>1. ASSUME NEW s, InQueue(s)' PROVE InQueue(s) /\ s # c
    <3>1. PICK i \in 1 .. (n - 1) : captureq'[i].conn = s
      BY <1>7, <2>1, Zenon DEF InQueue
    <3>2. captureq[i + 1].conn = s /\ i + 1 \in 1 .. n /\ i + 1 # 1
      BY <1>4, <1>7, <3>1, Zenon
    <3> QED
      BY <1>3, <1>4, <1>5, <1>n, <3>2, Zenon DEF InQueue
  <2>2. ASSUME NEW s, InQueue(s), s # c PROVE InQueue(s)'
    <3>1. PICK i \in 1 .. n : captureq[i].conn = s
      BY <1>n, <2>2, Zenon DEF InQueue
    <3>2. i - 1 \in 1 .. (n - 1) /\ captureq'[i - 1].conn = s
      BY <1>3, <1>4, <1>7, <2>2, <3>1, Zenon
    <3> QED
      BY <1>7, <3>2, Zenon DEF InQueue
  <2> QED
    BY <2>1, <2>2
<1>9. \A i, j \in 1 .. Len(captureq') : captureq'[i].conn = captureq'[j].conn => i = j
  <2>1. ASSUME NEW i \in 1 .. (n - 1), NEW j \in 1 .. (n - 1), captureq'[i].conn = captureq'[j].conn
        PROVE  i = j
    <3>1. captureq[i + 1].conn = captureq[j + 1].conn
      BY <1>7, <2>1, Zenon
    <3>2. i + 1 = j + 1
      BY <1>4, <1>5, <3>1, Zenon
    <3> QED
      BY <3>2
  <2> QED
    BY <1>7, <2>1, Zenon
<1>10. ASSUME NEW q \in Seq(Requests), Once(q), ~Has(q, c)
       PROVE  Once(Append(q, c)) /\ \A s : Has(Append(q, c), s) <=> Has(q, s) \/ s = c
  <2>1. /\ Len(Append(q, c)) = Len(q) + 1 /\ Append(q, c)[Len(q) + 1] = c
        /\ \A i \in 1 .. Len(q) : Append(q, c)[i] = q[i]
    OBVIOUS
  <2>2. /\ \A i \in 1 .. (Len(q) + 1) : i = Len(q) + 1 \/ i \in 1 .. Len(q)
        /\ \A i \in 1 .. Len(q) : i \in 1 .. (Len(q) + 1)
        /\ Len(q) + 1 \in 1 .. (Len(q) + 1)
    OBVIOUS
  <2>3. \A s : Has(Append(q, c), s) <=> Has(q, s) \/ s = c
    BY <2>1, <2>2, Zenon DEF Has
  <2>4. Once(Append(q, c))
    BY <1>10, <2>1, <2>2, Zenon DEF Once, Has
  <2> QED
    BY <2>3, <2>4
<1>11. /\ stored["tunnel"] \in Seq(Requests) /\ stored["nil"] \in Seq(Requests)
       /\ Once(stored["tunnel"]) /\ Once(stored["nil"])
  BY DEF EdgeShape, Tunnels, CaptureInv
<1>12. stored' = [stored EXCEPT ![t] = Append(@, c)]
  BY <1>1, <1>3, Zenon
<1>13. \/ stored'["tunnel"] = Append(stored["tunnel"], c) /\ stored'["nil"] = stored["nil"]
       \/ stored'["nil"] = Append(stored["nil"], c) /\ stored'["tunnel"] = stored["tunnel"]
  <2>1. stored \in [Tunnels -> Seq(Requests)]
    BY DEF EdgeShape
  <2>2. t = "tunnel" \/ t = "nil"
    BY DEF Tunnels
  <2> QED
    BY <1>12, <2>1, <2>2 DEF Tunnels
<1>14. PICK p, q : p = stored'["tunnel"] /\ q = stored'["nil"]
  OBVIOUS
<1>15. /\ Once(p) /\ Once(q)
       /\ \A s : Has(p, s) \/ Has(q, s) <=> Has(stored["tunnel"], s) \/ Has(stored["nil"], s) \/ s = c
       /\ \A s : Has(p, s) /\ Has(q, s) => Has(stored["tunnel"], s) /\ Has(stored["nil"], s)
  <2>1. CASE p = Append(stored["tunnel"], c) /\ q = stored["nil"]
    BY <1>6, <1>10, <1>11, <2>1, Zenon
  <2>2. CASE q = Append(stored["nil"], c) /\ p = stored["tunnel"]
    BY <1>6, <1>10, <1>11, <2>2, Zenon
  <2> QED
    BY <1>13, <1>14, <2>1, <2>2, Zenon
<1>16. \A s \in Requests : Recordable(s)'
  <2>1. ASSUME NEW s \in Requests
        PROVE  /\ Has(p, s) => ~Has(q, s) /\ ~InQueue(s)'
               /\ Has(q, s) => ~InQueue(s)'
               /\ Has(p, s) \/ Has(q, s) \/ InQueue(s)' => pc'[s] \in {"bridged", "done"}
    <3>1. Recordable(s)
      BY Zenon DEF CaptureInv
    <3> QED
      BY <1>2, <1>6, <1>8, <1>15, <3>1, Zenon DEF Recordable
  <2> QED
    BY <1>14, <2>1, Zenon DEF Recordable
<1>17. \A s \in headed' : s \in Requests /\
         \/ pc'[s] = "body"
         \/ pc'[s] = "done" /\ (Has(p, s) \/ Has(q, s) \/ InQueue(s)' \/ s \in lost')
  BY <1>2, <1>8, <1>15, Zenon DEF CaptureInv
<1> QED
  BY <1>9, <1>14, <1>15, <1>16, <1>17, Zenon DEF CaptureInv

LEMMA CaptureStep ==
  ASSUME EdgeShape, CaptureInv, Next
  PROVE  CaptureInv'
<1>1. CASE UNCHANGED <<pc, captureq, stored, lost, headed>>
  <2>1. (\A s : InQueue(s)' <=> InQueue(s)) /\ (\A s : Recordable(s)' <=> Recordable(s))
    BY <1>1, Zenon DEF InQueue, Recordable
  <2> QED
    BY <1>1, <2>1, Zenon DEF CaptureInv
<1>2. ASSUME NEW r \in Requests, RequestStep(r) PROVE CaptureInv'
  <2>1. CASE Arrive(r) \/ plain_http_request(r) \/ Resolve(r) \/ Admit(r) \/ Notify(r) \/ StreamArrives(r)
             \/ SenderDropped(r) \/ StreamTimeout(r) \/ ForwardFails(r)
    <3>1. pc[r] \in {"new", "gate", "resolve", "admit", "notify", "waiting", "stream"}
      BY <2>1 DEF Arrive, plain_http_request, Resolve, Admit, Notify, StreamArrives, SenderDropped,
         StreamTimeout, ForwardFails, At
    <3>2. UNCHANGED <<captureq, stored, lost, headed>>
      BY <2>1, Zenon DEF Arrive, plain_http_request, Resolve, Admit, Notify, StreamArrives, SenderDropped,
         StreamTimeout, ForwardFails, captureVars, holdVars
    <3>3. \E there \in {"done", "gate", "resolve", "admit", "notify", "waiting", "stream"} : Go(r, there)
      BY <2>1, Zenon DEF Arrive, plain_http_request, Resolve, Admit, Notify, StreamArrives, SenderDropped,
         StreamTimeout, ForwardFails, Leave
    <3> QED
      BY <3>1, <3>2, <3>3, NoEventStep DEF Places
  <2>2. CASE HeadArrives(r)
    <3>1. /\ pc[r] = "stream" /\ Go(r, "body") /\ UNCHANGED <<captureq, stored, lost>>
          /\ headed' = headed \cup {r}
      BY <2>2 DEF HeadArrives, Leave, At, captureVars
    <3> QED
      BY <3>1, NoEventStep DEF Places
  <2>3. CASE BridgeEnds(r)
    <3>1. /\ pc[r] = "bridged" /\ Go(r, "done") /\ UNCHANGED <<captureq, stored, lost, headed>>
      BY <2>3 DEF BridgeEnds, At, captureVars, holdVars
    <3> QED
      BY <3>1, NoEventStep DEF Places
  <2>4. CASE handle_ws_upgrade(r)
    <3>1. pc[r] = "stream" /\ Go(r, "bridged") /\ emit_capture(Event(r, "nil")) /\ UNCHANGED <<stored, headed>>
      BY <2>4, Zenon DEF handle_ws_upgrade, Leave, At
    <3>2. r \notin headed
      BY <3>1 DEF CaptureInv
    <3>3. "nil" \in Tunnels /\ "bridged" \in {"bridged", "done"} /\ pc[r] \notin {"bridged", "done"}
      BY <3>1 DEF Tunnels
    <3> QED
      BY <3>1, <3>2, <3>3, EventStep, Zenon
  <2>5. CASE BodyEnds(r)
    <3>1. pc[r] = "body" /\ Go(r, "done") /\ emit_capture(Event(r, "tunnel")) /\ UNCHANGED <<stored, headed>>
      BY <2>5, Zenon DEF BodyEnds, At, holdVars
    <3>2. "tunnel" \in Tunnels /\ "done" \in {"bridged", "done"} /\ pc[r] \notin {"bridged", "done"}
      BY <3>1 DEF Tunnels
    <3> QED
      BY <3>1, <3>2, EventStep, Zenon
  <2> QED
    BY <1>2, <2>1, <2>2, <2>3, <2>4, <2>5, Zenon DEF RequestStep
<1>3. CASE SessionDrain \/ RingPush \/ HealthReport \/ SessionGone \/ RouteGone \/ Tick
  <2>1. UNCHANGED <<pc, captureq, stored, lost, headed>>
    BY <1>3, Zenon DEF SessionDrain, RingPush, HealthReport, SessionGone, RouteGone, Tick, captureVars, holdVars
  <2> QED
    BY <1>1, <2>1
<1> QED
  BY <1>2, <1>3, RowStep DEF Next

LEMMA RingRolled ==
  ASSUME NEW S, NEW q \in Seq(S), NEW g \in Seq(S), NEW n \in 1 .. Len(q), RingOf(g, q, n - 1)
  PROVE  RingOf(Rolled(g, q[n], RingCapacity), q, n)
<1>1. RingCapacity \in Nat \ {0} /\ n \in Nat \ {0} /\ q[n] \in S /\ Len(g) \in Nat
  BY EdgeBounds
<1>2. PICK x \in S : x = q[n]
  BY <1>1
<1>3. CASE Len(g) >= RingCapacity
  <2>1. Len(g) = RingCapacity /\ n - 1 >= RingCapacity
    BY <1>1, <1>3 DEF RingOf, Least
  <2>2. PICK t : t = Tail(g)
    OBVIOUS
  <2>3. /\ t \in Seq(S) /\ Len(t) = RingCapacity - 1
        /\ \A i \in 1 .. (RingCapacity - 1) : t[i] = g[i + 1]
    BY <1>1, <2>1, <2>2
  <2>4. /\ Len(Append(t, x)) = RingCapacity /\ Append(t, x)[RingCapacity] = x
        /\ \A i \in 1 .. (RingCapacity - 1) : Append(t, x)[i] = t[i]
    BY <1>1, <2>3
  <2>5. Rolled(g, q[n], RingCapacity) = Append(t, x)
    BY <1>2, <1>3, <2>2, Zenon DEF Rolled
  <2>6. Least(n, RingCapacity) = RingCapacity
    BY <1>1, <2>1 DEF Least
  <2>7. ASSUME NEW i \in 1 .. RingCapacity PROVE Append(t, x)[i] = q[n - RingCapacity + i]
    <3>1. CASE i = RingCapacity
      BY <1>1, <1>2, <2>4, <3>1
    <3>2. CASE i # RingCapacity
      <4>1. i \in 1 .. (RingCapacity - 1) /\ i + 1 \in 1 .. Len(g)
        BY <1>1, <2>1, <3>2
      <4>2. Append(t, x)[i] = g[i + 1] /\ g[i + 1] = q[n - 1 - Len(g) + (i + 1)]
        BY <2>3, <2>4, <4>1, Zenon DEF RingOf
      <4>3. n - 1 - Len(g) + (i + 1) = n - RingCapacity + i
        BY <1>1, <2>1
      <4> QED
        BY <4>2, <4>3
    <3> QED
      BY <3>1, <3>2
  <2> HIDE DEF Rolled
  <2> QED
    BY <1>1, <2>4, <2>5, <2>6, <2>7 DEF RingOf
<1>4. CASE ~(Len(g) >= RingCapacity)
  <2>1. Len(g) = n - 1 /\ n - 1 < RingCapacity
    BY <1>1, <1>4 DEF RingOf, Least
  <2>2. Rolled(g, q[n], RingCapacity) = Append(g, x)
    BY <1>2, <1>4, Zenon DEF Rolled
  <2>3. /\ Len(Append(g, x)) = n /\ Append(g, x)[n] = x
        /\ \A i \in 1 .. (n - 1) : Append(g, x)[i] = g[i]
    BY <1>1, <2>1
  <2>4. Least(n, RingCapacity) = n
    BY <1>1, <2>1 DEF Least
  <2>5. ASSUME NEW i \in 1 .. n PROVE Append(g, x)[i] = q[n - n + i]
    <3>1. n - n + i = i /\ (i = n \/ i \in 1 .. (n - 1))
      BY <1>1
    <3>2. i \in 1 .. (n - 1) => g[i] = q[i]
      <4>1. ASSUME i \in 1 .. (n - 1) PROVE g[i] = q[n - 1 - Len(g) + i]
        BY <2>1, <4>1, Zenon DEF RingOf
      <4>2. i \in 1 .. (n - 1) => n - 1 - Len(g) + i = i
        BY <1>1, <2>1
      <4> QED
        BY <4>1, <4>2
    <3> QED
      BY <1>2, <2>3, <3>1, <3>2
  <2> QED
    BY <1>1, <2>2, <2>3, <2>4, <2>5 DEF RingOf
<1> QED
  BY <1>3, <1>4

LEMMA RingExtends ==
  ASSUME NEW S, NEW q \in Seq(S), NEW x \in S, NEW g, Len(g) \in Nat, RingOf(g, q, Len(q))
  PROVE  RingOf(g, Append(q, x), Len(q))
<1>1. Len(q) \in Nat /\ RingCapacity \in Nat /\ Len(g) <= Len(q)
  BY EdgeBounds DEF RingOf, Least
<1>2. \A i \in 1 .. Len(g) : Len(q) - Len(g) + i \in 1 .. Len(q)
  BY <1>1
<1>3. \A i \in 1 .. Len(q) : Append(q, x)[i] = q[i]
  OBVIOUS
<1> QED
  BY <1>2, <1>3, Zenon DEF RingOf

LEMMA RingStep ==
  ASSUME EdgeShape, RingInv, Next
  PROVE  RingInv'
<1>1. /\ stored["tunnel"] \in Seq(Requests) /\ ring \in Seq(Requests) /\ Len(ring) \in Nat
      /\ Len(stored["tunnel"]) \in Nat
  BY DEF EdgeShape, Tunnels
<1>2. CASE UNCHANGED <<storing, ring, stored>>
  BY <1>2, Zenon DEF RingInv
<1>3. NoRow.tunnel = "none"
  BY DEF NoRow, Event
<1>4. CASE persist_row
  <2>1. /\ captureq[1].tunnel \in Tunnels /\ captureq[1].conn \in Requests /\ storing' = captureq[1]
        /\ stored' = [stored EXCEPT ![captureq[1].tunnel] = Append(@, captureq[1].conn)]
    BY <1>4, RowTypes
  <2>2. PICK t \in Tunnels, c \in Requests : t = captureq[1].tunnel /\ c = captureq[1].conn
    BY <2>1
  <2>3. stored' = [stored EXCEPT ![t] = Append(@, c)] /\ storing'.tunnel = t /\ storing'.conn = c
    BY <2>1, <2>2, Zenon
  <2>4. ring' = ring /\ storing = NoRow
    BY <1>4 DEF persist_row
  <2>5. RingOf(ring, stored["tunnel"], Len(stored["tunnel"]))
    BY <1>3, <2>4, Zenon DEF RingInv
  <2>6. stored \in [Tunnels -> Seq(Requests)]
    BY DEF EdgeShape
  <2>7. CASE t = "tunnel"
    <3>1. stored'["tunnel"] = Append(stored["tunnel"], c)
      BY <2>3, <2>6, <2>7 DEF Tunnels
    <3>2. /\ Len(stored'["tunnel"]) > 0 /\ stored'["tunnel"][Len(stored'["tunnel"])] = c
          /\ Len(stored'["tunnel"]) - 1 = Len(stored["tunnel"])
      BY <1>1, <3>1
    <3>3. RingOf(ring, Append(stored["tunnel"], c), Len(stored["tunnel"]))
      BY <1>1, <2>5, RingExtends
    <3> QED
      BY <2>3, <2>4, <2>7, <3>1, <3>2, <3>3, Zenon DEF RingInv
  <2>8. CASE t = "nil"
    <3>1. stored'["tunnel"] = stored["tunnel"]
      BY <2>3, <2>6, <2>8 DEF Tunnels
    <3> QED
      BY <2>3, <2>4, <2>5, <2>8, <3>1, Zenon DEF RingInv
  <2> QED
    BY <2>7, <2>8 DEF Tunnels
<1>5. CASE RingPush
  <2>1. /\ storing # NoRow /\ storing' = NoRow /\ stored' = stored /\ storing \in Events
    BY <1>5 DEF RingPush, EdgeShape
  <2>2. storing.tunnel \in Tunnels /\ storing.conn \in Requests
    BY <2>1 DEF Events
  <2>3. RingOf(ring', stored["tunnel"], Len(stored["tunnel"]))
    <3>1. CASE storing.tunnel = "nil"
      BY <1>5, <3>1, Zenon DEF RingPush, RingInv
    <3>2. CASE storing.tunnel = "tunnel"
      <4>1. PICK n : n = Len(stored["tunnel"])
        OBVIOUS
      <4>2. /\ n \in 1 .. Len(stored["tunnel"]) /\ stored["tunnel"][n] = storing.conn
            /\ RingOf(ring, stored["tunnel"], n - 1)
        BY <1>1, <3>2, <4>1 DEF RingInv
      <4>3. ring' = Rolled(ring, stored["tunnel"][n], RingCapacity)
        BY <1>5, <3>2, <4>2, Zenon DEF RingPush, Rolled
      <4>4. RingOf(Rolled(ring, stored["tunnel"][n], RingCapacity), stored["tunnel"], n)
        BY <1>1, <4>2, RingRolled, Zenon
      <4> QED
        BY <4>1, <4>3, <4>4, Zenon
    <3> QED
      BY <2>2, <3>1, <3>2 DEF Tunnels
  <2> QED
    BY <1>3, <2>1, <2>3, Zenon DEF RingInv
<1> QED
  BY <1>2, <1>4, <1>5, Zenon DEF Next, RequestStep, Arrive, plain_http_request, Resolve, Admit, Notify,
     StreamArrives, SenderDropped, StreamTimeout, handle_ws_upgrade, ForwardFails, HeadArrives, BodyEnds,
     BridgeEnds, SessionDrain, HealthReport, SessionGone, RouteGone, Tick, captureVars

-----------------------------------------------------------------------------
(* HttpEdge: theorems *)

LEMMA EdgeStutter == ASSUME EdgeInv, UNCHANGED vars PROVE EdgeInv'
<1>1. EdgeShape'
  BY DEF EdgeInv, EdgeShape, vars, limiterVars, captureVars, tunnelVars, holdVars
<1>2. PermitInv'
  <2>1. Holding' = Holding /\ permits' = permits
    BY DEF Holding, vars, holdVars
  <2> QED
    BY <2>1, Zenon DEF EdgeInv, PermitInv
<1>3. WindowInv' /\ BucketInv'
  BY Zenon DEF EdgeInv, WindowInv, BucketInv, BucketHonoursRate, vars, limiterVars
<1>4. CaptureInv'
  <2>1. UNCHANGED <<pc, captureq, stored, lost, headed>>
    BY DEF vars, captureVars, holdVars
  <2>2. (\A s : InQueue(s)' <=> InQueue(s)) /\ (\A s : Recordable(s)' <=> Recordable(s))
    BY <2>1, Zenon DEF InQueue, Recordable
  <2> QED
    BY <2>1, <2>2, Zenon DEF EdgeInv, CaptureInv
<1>5. RingInv'
  BY Zenon DEF EdgeInv, RingInv, vars, captureVars
<1> QED
  BY <1>1, <1>2, <1>3, <1>4, <1>5 DEF EdgeInv

\* The inductive invariant of the edge, for any number of requests.
THEOREM EdgeInvariant == Spec => []EdgeInv
<1>1. Init => EdgeInv
  BY EdgeStarts
<1>2. EdgeInv /\ [Next]_vars => EdgeInv'
  <2>1. ASSUME EdgeInv, Next PROVE EdgeInv'
    BY <2>1, EdgeShapeStep, PermitStep, LimiterStep, CaptureStep, RingStep DEF EdgeInv
  <2> QED
    BY <2>1, EdgeStutter
<1> QED
  BY <1>1, <1>2, PTL DEF Spec

LEMMA EdgeTypes == ASSUME EdgeInv PROVE EdgeTypeOK
<1>1. permits \in 0 .. MaxConnections
  <2>1. /\ Cardinality(Holding) \in Nat /\ permits \in Nat /\ permits + Cardinality(Holding) = MaxConnections
        /\ MaxConnections \in Nat
    BY FS_CardinalityType, EdgeBounds DEF EdgeInv, PermitInv, EdgeShape
  <2> QED
    BY <2>1
<1>2. Len(ring) <= RingCapacity /\ ToSet(ring) \subseteq Requests
  <2>1. PICK n : RingOf(ring, stored["tunnel"], n)
    BY Zenon DEF EdgeInv, RingInv
  <2>2. Len(ring) <= RingCapacity
    BY <2>1, EdgeBounds DEF RingOf, Least
  <2> QED
    BY <2>2 DEF EdgeInv, EdgeShape, ToSet
<1>3. bucket.tokens \in 0 .. (Rps * Second) /\ bucket.last \in 0 .. clock
  <2>1. /\ bucket.tokens \in Nat /\ bucket.last \in Nat /\ clock \in Nat /\ Rps * Second \in Nat
        /\ bucket.tokens <= Rps * Second /\ bucket.last <= clock
    BY EdgeBounds DEF EdgeInv, EdgeShape, BucketInv
  <2> QED
    BY <2>1
<1> QED
  BY <1>1, <1>2, <1>3 DEF EdgeInv, EdgeShape, EdgeTypeOK, Places

\* The limits a request passes are exact for any number of requests and any
\* limits (IpRateLimiter::check, Bucket::try_consume, proxy_request): no
\* interval of the window's length admits more than the limit, no run of
\* accepted requests exceeds a full bucket and its refill, and the permits
\* missing are those of the requests under way.
THEOREM AdmissionStaysExact == Spec => []AdmissionIsExact
<1>1. EdgeInv => AdmissionIsExact
  <2>1. ASSUME EdgeInv PROVE PermitsReturn
    <3>1. /\ Cardinality(Holding) \in Nat /\ permits \in Nat /\ permits + Cardinality(Holding) = MaxConnections
      BY <2>1, FS_CardinalityType DEF EdgeInv, PermitInv, EdgeShape
    <3>2. MaxConnections \in Nat
      BY EdgeBounds
    <3> QED
      BY <3>1, <3>2 DEF PermitsReturn
  <2>2. ASSUME EdgeInv PROVE WindowIsExact /\ BucketHonoursRate
    BY <2>2, WindowCounts DEF EdgeInv, BucketInv
  <2> QED
    BY <2>1, <2>2, EdgeTypes DEF AdmissionIsExact
<1> QED
  BY <1>1, EdgeInvariant, PTL

LEMMA JoinedOnce ==
  ASSUME NEW S, NEW p \in Seq(S), NEW q \in Seq(S), Once(p), Once(q),
         \A x \in S : ~(Has(p, x) /\ Has(q, x))
  PROVE  /\ p \o q \in Seq(S) /\ Once(p \o q)
         /\ \A x : Has(p \o q, x) <=> Has(p, x) \/ Has(q, x)
<1>1. /\ p \o q \in Seq(S) /\ Len(p \o q) = Len(p) + Len(q) /\ Len(p) \in Nat /\ Len(q) \in Nat
      /\ \A i \in 1 .. (Len(p) + Len(q)) : (p \o q)[i] = IF i <= Len(p) THEN p[i] ELSE q[i - Len(p)]
  OBVIOUS
<1>2. ASSUME NEW i \in 1 .. (Len(p) + Len(q))
      PROVE  \/ i \in 1 .. Len(p) /\ (p \o q)[i] = p[i]
             \/ i > Len(p) /\ i - Len(p) \in 1 .. Len(q) /\ (p \o q)[i] = q[i - Len(p)]
  BY <1>1
<1>3. ASSUME NEW x PROVE Has(p \o q, x) <=> Has(p, x) \/ Has(q, x)
  <2>1. ASSUME Has(p \o q, x) PROVE Has(p, x) \/ Has(q, x)
    BY <1>1, <1>2, <2>1, Zenon DEF Has
  <2>2. ASSUME Has(p, x) PROVE Has(p \o q, x)
    <3>1. PICK i \in 1 .. Len(p) : p[i] = x
      BY <2>2 DEF Has
    <3>2. i \in 1 .. (Len(p) + Len(q)) /\ (p \o q)[i] = x
      BY <1>1, <3>1
    <3> QED
      BY <1>1, <3>2, Zenon DEF Has
  <2>3. ASSUME Has(q, x) PROVE Has(p \o q, x)
    <3>1. PICK i \in 1 .. Len(q) : q[i] = x
      BY <2>3 DEF Has
    <3>2. /\ Len(p) + i \in 1 .. (Len(p) + Len(q)) /\ ~(Len(p) + i <= Len(p))
          /\ Len(p) + i - Len(p) = i
      BY <1>1
    <3>3. (p \o q)[Len(p) + i] = x
      BY <1>1, <3>1, <3>2
    <3> QED
      BY <1>1, <3>2, <3>3, Zenon DEF Has
  <2> QED
    BY <2>1, <2>2, <2>3
<1>4. ASSUME NEW i \in 1 .. (Len(p) + Len(q)), NEW j \in 1 .. (Len(p) + Len(q)), (p \o q)[i] = (p \o q)[j]
      PROVE  i = j
  <2>0. /\ \A k \in 1 .. Len(p) : p[k] \in S /\ Has(p, p[k])
        /\ \A k \in 1 .. Len(q) : q[k] \in S /\ Has(q, q[k])
    BY DEF Has
  <2>1. CASE i \in 1 .. Len(p) /\ (p \o q)[i] = p[i] /\ j \in 1 .. Len(p) /\ (p \o q)[j] = p[j]
    BY <1>4, <2>1, Zenon DEF Once
  <2>2. CASE i - Len(p) \in 1 .. Len(q) /\ (p \o q)[i] = q[i - Len(p)] /\ j - Len(p) \in 1 .. Len(q)
             /\ (p \o q)[j] = q[j - Len(p)]
    <3>1. i - Len(p) = j - Len(p)
      BY <1>4, <2>2, Zenon DEF Once
    <3> QED
      BY <1>1, <3>1
  <2>3. CASE i \in 1 .. Len(p) /\ (p \o q)[i] = p[i] /\ j - Len(p) \in 1 .. Len(q)
             /\ (p \o q)[j] = q[j - Len(p)]
    BY <1>4, <2>0, <2>3, Zenon
  <2>4. CASE j \in 1 .. Len(p) /\ (p \o q)[j] = p[j] /\ i - Len(p) \in 1 .. Len(q)
             /\ (p \o q)[i] = q[i - Len(p)]
    BY <1>4, <2>0, <2>4, Zenon
  <2> QED
    BY <1>2, <2>1, <2>2, <2>3, <2>4, Zenon
<1> QED
  BY <1>1, <1>3, <1>4, Zenon DEF Once

LEMMA RingIsNewest ==
  ASSUME NEW S, NEW q \in Seq(S), NEW g \in Seq(S), RingOf(g, q, Len(q))
  PROVE  g = Newest(q)
<1>1. Len(q) \in Nat /\ RingCapacity \in Nat \ {0} /\ Len(g) \in Nat
  BY EdgeBounds
<1>2. PICK k \in Nat : k = IF Len(q) > RingCapacity THEN Len(q) - RingCapacity + 1 ELSE 1
  BY <1>1
<1>3. k \in 1 .. (Len(q) + 1) /\ Len(g) = Len(q) - k + 1
  <2>1. Len(g) = Least(Len(q), RingCapacity)
    BY DEF RingOf
  <2>2. \A n \in Nat, c \in Nat \ {0}, j \in Nat :
          j = (IF n > c THEN n - c + 1 ELSE 1)
            => j \in 1 .. (n + 1) /\ Least(n, c) = n - j + 1
    BY DEF Least
  <2> QED
    BY <1>1, <1>2, <2>1, <2>2, Zenon
<1>4. /\ SubSeq(q, k, Len(q)) \in Seq(S) /\ Len(SubSeq(q, k, Len(q))) = Len(q) - k + 1
      /\ \A i \in 1 .. (Len(q) - k + 1) : SubSeq(q, k, Len(q))[i] = q[k + i - 1]
  BY <1>1, <1>3
<1>5. PICK s : s = SubSeq(q, k, Len(q))
  OBVIOUS
<1>6. \A i \in 1 .. Len(g) : g[i] = s[i]
  <2>1. \A i \in 1 .. Len(g) : Len(q) - Len(g) + i = k + i - 1
    BY <1>1, <1>3
  <2> QED
    BY <1>3, <1>4, <1>5, <2>1, Zenon DEF RingOf
<1>7. g = s
  BY <1>3, <1>4, <1>5, <1>6, SeqEqual
<1> QED
  BY <1>2, <1>5, <1>7, Zenon DEF Newest

\* Capture is complete and unduplicated for any number of requests, whatever
\* the sizes of the capture channel and of the ring (CaptureGuard,
\* start_capture_service): a request that ended after its head has its event or
\* lost it to a full channel, none has two, and the ring is the newest rows.
THEOREM CaptureStaysComplete == Spec => []CaptureIsComplete
<1>1. EdgeInv => CaptureIsComplete
  <2> SUFFICES ASSUME EdgeInv PROVE CaptureIsComplete
    OBVIOUS
  <2> DEFINE C == [i \in DOMAIN captureq |-> captureq[i].conn]
  <2>1. C \in Seq(Requests) /\ Len(C) = Len(captureq) /\ \A i \in 1 .. Len(captureq) : C[i] = captureq[i].conn
    <3>1. /\ captureq \in Seq(Events) /\ Len(captureq) \in Nat /\ DOMAIN captureq = 1 .. Len(captureq)
          /\ \A i \in 1 .. Len(captureq) : captureq[i].conn \in Requests
      <4>1. captureq \in Seq(Events)
        BY DEF EdgeInv, EdgeShape
      <4>2. /\ Len(captureq) \in Nat /\ DOMAIN captureq = 1 .. Len(captureq)
            /\ \A i \in 1 .. Len(captureq) : captureq[i] \in Events
        BY <4>1
      <4> QED
        BY <4>1, <4>2 DEF Events
    <3>2. C \in [1 .. Len(captureq) -> Requests]
      BY <3>1
    <3>3. C \in Seq(Requests)
      BY <3>1, <3>2, SeqDef
    <3>4. DOMAIN C = 1 .. Len(C) /\ Len(C) \in Nat /\ DOMAIN C = 1 .. Len(captureq)
      BY <3>1, <3>2, <3>3
    <3>5. Len(C) = Len(captureq)
      BY <3>1, <3>4
    <3> QED
      BY <3>1, <3>3, <3>5
  <2> HIDE DEF C
  <2>2. Once(C) /\ \A s : Has(C, s) <=> InQueue(s)
    BY <2>1, Zenon DEF EdgeInv, CaptureInv, Once, Has, InQueue
  <2>3. /\ stored["tunnel"] \in Seq(Requests) /\ stored["nil"] \in Seq(Requests)
        /\ Once(stored["tunnel"]) /\ Once(stored["nil"])
    BY DEF EdgeInv, EdgeShape, CaptureInv, Tunnels
  <2>4. PICK p : p = stored["tunnel"] \o stored["nil"]
    OBVIOUS
  <2>5. \A x \in Requests : Recordable(x)
    BY DEF EdgeInv, CaptureInv
  <2>6. p \in Seq(Requests) /\ Once(p) /\ \A x : Has(p, x) <=> Has(stored["tunnel"], x) \/ Has(stored["nil"], x)
    <3>1. \A x \in Requests : ~(Has(stored["tunnel"], x) /\ Has(stored["nil"], x))
      BY <2>5, Zenon DEF Recordable
    <3> QED
      BY <2>3, <2>4, <3>1, JoinedOnce, Zenon
  <2>7. PICK all : all = p \o C
    OBVIOUS
  <2>8. all \in Seq(Requests) /\ Once(all) /\ \A x : Has(all, x) <=> Has(p, x) \/ Has(C, x)
    <3>1. \A x \in Requests : ~(Has(p, x) /\ Has(C, x))
      BY <2>2, <2>5, <2>6, Zenon DEF Recordable
    <3>2. p \in Seq(Requests) /\ C \in Seq(Requests) /\ Once(p) /\ Once(C)
      BY <2>1, <2>2, <2>6
    <3>3. p \o C \in Seq(Requests) /\ Once(p \o C) /\ \A x : Has(p \o C, x) <=> Has(p, x) \/ Has(C, x)
      BY <3>1, <3>2, JoinedOnce
    <3> QED
      BY <2>7, <3>3, Zenon
  <2>9. Captured = all
    BY <2>4, <2>7, Zenon DEF Captured, C
  <2>10. DOMAIN all = 1 .. Len(all)
    BY <2>8
  <2>11. IsInjective(Captured)
    BY <2>8, <2>9, <2>10, Zenon DEF IsInjective, Once
  <2>12. \A x : x \in ToSet(Captured) <=> Has(all, x)
    BY <2>9, <2>10, Zenon DEF ToSet, Has
  <2>13. \A r \in headed : At(r, "done") => r \in ToSet(Captured) \cup lost
    <3>1. ASSUME NEW r \in headed, pc[r] = "done" PROVE Has(all, r) \/ r \in lost
      <4>1. pc[r] # "body"
        BY <3>1
      <4>2. Has(stored["tunnel"], r) \/ Has(stored["nil"], r) \/ InQueue(r) \/ r \in lost
        BY <4>1, Zenon DEF EdgeInv, CaptureInv
      <4> QED
        BY <2>2, <2>6, <2>8, <4>2, Zenon
    <3> QED
      BY <2>12, <3>1, Zenon DEF At
  <2>14. storing = NoRow => ring = Newest(stored["tunnel"])
    <3>1. NoRow.tunnel # "tunnel"
      BY DEF NoRow, Event
    <3>2. ring \in Seq(Requests)
      BY DEF EdgeInv, EdgeShape
    <3> QED
      BY <2>3, <3>1, <3>2, RingIsNewest, Zenon DEF EdgeInv, RingInv
  <2> QED
    BY <2>11, <2>13, <2>14, Zenon DEF CaptureIsComplete
<1> QED
  BY <1>1, EdgeInvariant, PTL

=============================================================================
