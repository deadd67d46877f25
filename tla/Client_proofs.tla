---------------------------- MODULE Client_proofs ----------------------------
(***************************************************************************)
(* Proofs about the client and the programs around it: the processes and   *)
(* config files of the MCP server, for any number of processes, tunnels    *)
(* and polls (McpServer); the sessions, permits and frames of the UDP      *)
(* bridge, for any number of peers, flows and datagrams (UdpBridge); and   *)
(* the client against its server sessions, for any number of tunnels,      *)
(* attempts and faults (ClientSession); and where its proxied connections  *)
(* go and how they are counted, whatever travels on them (ClientTap).      *)
(***************************************************************************)
EXTENDS ClientSession, ClientTap, McpServer, UdpBridge, FiniteSetTheorems, SequenceTheorems, TLAPS

-----------------------------------------------------------------------------
(* McpServer: the inductive invariant *)

Bits == BOOLEAN
AnyProc == Procs \cup {Nothing}
Owners == Procs \cup {Stranger, Nothing}
CallRecords == [proc : AnyProc, temp : Bits, before : SUBSET TunnelIds, polls : 0 .. MaxPolls, crowded : Bits]
TrackRecords == [proc : AnyProc, temp : Bits, clean : Bits]

McpShape ==
  /\ server \in {"idle", "snapshot", "spawn", "poll", "gone"}
  /\ call \in CallRecords
  /\ connects \subseteq Procs
  /\ cli \in [Procs -> {"new", "starting", "online", "ended"}]
  /\ files \subseteq Procs
  /\ listed \in [TunnelIds -> Owners]
  /\ history \in [TunnelIds -> Owners]
  /\ tracked \in [TunnelIds -> TrackRecords]

\* A call holds a process, which it has not started before it polls.
CallHolds ==
  /\ server \in {"idle", "gone"} => call = NoCall
  /\ server \notin {"idle", "gone"} => call.proc \in Procs
  /\ server \in {"snapshot", "spawn"} => cli[call.proc] = "new"

\* An id is listed by the one that registered it.
ListedIsRegistered == \A t \in TunnelIds : listed[t] # Nothing => history[t] = listed[t]

\* A call never takes an id under which a process is tracked already: such an
\* id was listed before the call, or will never be listed again.
TrackedIsOld ==
  \A t \in TunnelIds :
    /\ tracked[t].proc = Nothing => ~tracked[t].temp /\ ~tracked[t].clean
    /\ tracked[t].proc # Nothing =>
         /\ history[t] # Nothing
         /\ server \in {"spawn", "poll"} => t \in call.before \/ listed[t] = Nothing

\* While nobody else has registered, what is new in the list is the call's own.
NewIsOwn ==
  server \in {"spawn", "poll"} /\ ~call.crowded =>
    \A t \in TunnelIds : listed[t] # Nothing /\ t \notin call.before => history[t] = call.proc

McpInv ==
  McpShape /\ CallHolds /\ ListedIsRegistered /\ TrackedIsOld /\ NewIsOwn
  /\ NoConfigLeaks /\ NoOrphans /\ TracksItsOwn

-----------------------------------------------------------------------------
(* McpServer: the steps *)

LEMMA NoCallIsCall ==
  /\ NoCall \in CallRecords /\ NoCall.proc = Nothing /\ NoCall.temp = FALSE
  /\ NoCall.crowded = FALSE /\ NoCall.polls = 0 /\ NoCall.before = {}
<1>1. 0 \in 0 .. MaxPolls /\ FALSE \in Bits /\ Nothing \in AnyProc
  BY PollBound DEF Bits, AnyProc
<1>2. {} \in SUBSET TunnelIds
  OBVIOUS
<1> QED BY <1>1, <1>2 DEF NoCall, CallRecords

LEMMA NotTrackedIsTrack ==
  /\ NotTracked \in TrackRecords /\ NotTracked.proc = Nothing /\ NotTracked.temp = FALSE
  /\ NotTracked.clean = FALSE
<1>1. FALSE \in Bits /\ Nothing \in AnyProc
  BY DEF Bits, AnyProc
<1> QED BY <1>1 DEF NotTracked, TrackRecords

LEMMA PlanStep ==
  ASSUME McpInv, NEW p \in Procs, NEW a \in Requests, PlanSpawn(p, a)
  PROVE  McpInv'
<1>1. /\ server = "idle" /\ cli[p] = "new" /\ server' = "snapshot"
      /\ call' = [NoCall EXCEPT !.proc = p, !.temp = plan_spawn(a) = "config"]
      /\ connects' = (IF a.target THEN connects \cup {p} ELSE connects)
      /\ files' = (IF plan_spawn(a) = "config" THEN files \cup {p} ELSE files)
      /\ cli' = cli /\ listed' = listed /\ history' = history /\ tracked' = tracked
  BY DEF PlanSpawn, WithFile
<1>2. PICK b \in Bits : b = (plan_spawn(a) = "config")
  BY DEF Bits
<1>3. call' = [NoCall EXCEPT !.proc = p, !.temp = b]
  BY <1>1, <1>2
<1>4. call' \in CallRecords /\ call'.proc = p /\ call'.temp = b
  BY <1>3, NoCallIsCall DEF CallRecords, AnyProc
<1>5. McpShape /\ CallHolds /\ ListedIsRegistered /\ TrackedIsOld /\ NoConfigLeaks /\ NoOrphans /\ TracksItsOwn
  BY DEF McpInv
<1>6. McpShape'
  BY <1>1, <1>4, <1>5 DEF McpShape
<1>7. call.proc = Nothing
  BY <1>1, <1>5, NoCallIsCall DEF CallHolds
<1>8. CallHolds'
  BY <1>1, <1>4 DEF CallHolds
<1>9. ListedIsRegistered' /\ TracksItsOwn' /\ TrackedIsOld' /\ NewIsOwn'
  BY <1>1, <1>5 DEF ListedIsRegistered, TracksItsOwn, TrackedIsOld, NewIsOwn
<1>10. NoConfigLeaks'
  <2>1. ASSUME NEW q \in files, q # p
        PROVE  \E t \in TunnelIds : tracked[t].proc = q /\ tracked[t].temp
    BY <1>5, <1>7, <2>1, McpDistinct DEF NoConfigLeaks, McpShape
  <2>2. ASSUME NEW q \in files', q # p
        PROVE  \E t \in TunnelIds : tracked'[t].proc = q /\ tracked'[t].temp
    BY <1>1, <2>1, <2>2
  <2>3. p \in files' => (call'.temp \/ \E t \in TunnelIds : tracked'[t].proc = p /\ tracked'[t].temp)
    BY <1>1, <1>2, <1>4, <1>5, <1>7, McpDistinct DEF NoConfigLeaks, McpShape
  <2> QED BY <1>4, <2>2, <2>3 DEF NoConfigLeaks
<1>11. NoOrphans'
  <2>1. \A q \in Procs : cli[q] \in Running => \E t \in TunnelIds : tracked[t].proc = q
    BY <1>5, <1>7, McpDistinct DEF NoOrphans
  <2> QED BY <1>1, <2>1 DEF NoOrphans
<1> QED BY <1>6, <1>8, <1>9, <1>10, <1>11 DEF McpInv

LEMMA InfoStep ==
  ASSUME McpInv, NEW p \in Procs, NEW a \in Requests, ConnectionInfo(p, a)
  PROVE  McpInv'
<1>1. /\ files' \subseteq files
      /\ UNCHANGED <<server, call, connects, cli, listed, history, tracked>>
  BY DEF ConnectionInfo, WithFile, cleanup_temp
<1> QED BY <1>1 DEF McpInv, McpShape, CallHolds, ListedIsRegistered, TrackedIsOld, NewIsOwn,
                    NoConfigLeaks, NoOrphans, TracksItsOwn

LEMMA SnapshotStep ==
  ASSUME McpInv, Snapshot
  PROVE  McpInv'
<1>1. /\ server = "snapshot" /\ server' = "spawn" /\ call' = [call EXCEPT !.before = Listed]
      /\ UNCHANGED <<cli, files, listed, history, tracked, connects>>
  BY DEF Snapshot, BeforeIds
<1>2. McpShape /\ CallHolds /\ ListedIsRegistered /\ TrackedIsOld /\ NoConfigLeaks /\ NoOrphans /\ TracksItsOwn
  BY DEF McpInv
<1>3. call \in CallRecords /\ Listed \in SUBSET TunnelIds
  BY <1>2 DEF McpShape, Listed
<1>4. /\ call' \in CallRecords /\ call'.before = Listed /\ call'.proc = call.proc
      /\ call'.temp = call.temp
  BY <1>1, <1>3 DEF CallRecords
<1>5. \A t \in TunnelIds : t \in Listed <=> listed[t] # Nothing
  BY DEF Listed
<1>6. McpShape' /\ CallHolds'
  BY <1>1, <1>2, <1>4 DEF McpShape, CallHolds
<1>7. ListedIsRegistered' /\ TracksItsOwn'
  BY <1>1, <1>2 DEF ListedIsRegistered, TracksItsOwn
<1>8. TrackedIsOld' /\ NewIsOwn'
  BY <1>1, <1>2, <1>4, <1>5 DEF TrackedIsOld, NewIsOwn
<1>9. NoConfigLeaks' /\ NoOrphans'
  BY <1>1, <1>2, <1>4 DEF NoConfigLeaks, NoOrphans
<1> QED BY <1>6, <1>7, <1>8, <1>9 DEF McpInv

LEMMA FailsStep ==
  ASSUME McpInv, CreateFails
  PROVE  McpInv'
<1>1. /\ server \in {"snapshot", "spawn"} /\ server' = "idle" /\ call' = NoCall
      /\ files' = files \ {call.proc}
      /\ UNCHANGED <<cli, listed, history, tracked, connects>>
  BY DEF CreateFails, Return, cleanup_temp
<1>2. McpShape /\ CallHolds /\ ListedIsRegistered /\ TrackedIsOld /\ NoConfigLeaks /\ NoOrphans /\ TracksItsOwn
  BY DEF McpInv
<1>3. McpShape' /\ CallHolds'
  BY <1>1, <1>2, NoCallIsCall DEF McpShape, CallHolds
<1>4. ListedIsRegistered' /\ TracksItsOwn' /\ TrackedIsOld' /\ NewIsOwn'
  BY <1>1, <1>2 DEF ListedIsRegistered, TracksItsOwn, TrackedIsOld, NewIsOwn
<1>5. NoConfigLeaks'
  BY <1>1, <1>2 DEF NoConfigLeaks
<1>6. NoOrphans'
  <2>1. cli[call.proc] = "new"
    BY <1>1, <1>2 DEF CallHolds
  <2> QED BY <1>1, <1>2, <2>1 DEF NoOrphans, Running
<1> QED BY <1>3, <1>4, <1>5, <1>6 DEF McpInv

LEMMA SpawnStep ==
  ASSUME McpInv, Spawn
  PROVE  McpInv'
<1>1. /\ server = "spawn" /\ server' = "poll" /\ cli' = [cli EXCEPT ![call.proc] = "starting"]
      /\ UNCHANGED <<call, files, listed, history, tracked, connects>>
  BY DEF Spawn
<1>2. McpShape /\ CallHolds /\ ListedIsRegistered /\ TrackedIsOld /\ NewIsOwn /\ NoConfigLeaks /\ NoOrphans /\ TracksItsOwn
  BY DEF McpInv
<1>3. call.proc \in Procs /\ cli \in [Procs -> {"new", "starting", "online", "ended"}]
  BY <1>1, <1>2 DEF CallHolds, McpShape
<1>4. cli' \in [Procs -> {"new", "starting", "online", "ended"}] /\ \A q \in Procs : q # call.proc => cli'[q] = cli[q]
  BY <1>1, <1>3
<1>5. McpShape' /\ CallHolds'
  BY <1>1, <1>2, <1>3, <1>4 DEF McpShape, CallHolds
<1>6. ListedIsRegistered' /\ TracksItsOwn' /\ TrackedIsOld' /\ NewIsOwn' /\ NoConfigLeaks'
  BY <1>1, <1>2 DEF ListedIsRegistered, TracksItsOwn, TrackedIsOld, NewIsOwn, NoConfigLeaks
<1>7. NoOrphans'
  BY <1>1, <1>2, <1>4 DEF NoOrphans
<1> QED BY <1>5, <1>6, <1>7 DEF McpInv

LEMMA PollFindsStep ==
  ASSUME McpInv, NEW t \in TunnelIds, PollFinds(t)
  PROVE  McpInv'
<1>1. /\ server = "poll" /\ server' = "idle" /\ call' = NoCall /\ t \in Listed \ call.before
      /\ tracked' = [tracked EXCEPT ![t] = [proc |-> call.proc, temp |-> call.temp, clean |-> ~call.crowded]]
      /\ UNCHANGED <<cli, files, listed, history, connects>>
  BY DEF PollFinds, Return
<1>2. McpShape /\ CallHolds /\ ListedIsRegistered /\ TrackedIsOld /\ NewIsOwn /\ NoConfigLeaks /\ NoOrphans /\ TracksItsOwn
  BY DEF McpInv
<1>3. call \in CallRecords /\ call.proc \in Procs /\ tracked \in [TunnelIds -> TrackRecords]
  BY <1>1, <1>2 DEF McpShape, CallHolds
<1>4. call.temp \in Bits /\ call.crowded \in Bits
  BY <1>3 DEF CallRecords
<1>5. PICK k \in Bits : k = (~call.crowded)
  BY DEF Bits
<1>6. PICK r : r = [proc |-> call.proc, temp |-> call.temp, clean |-> k]
  OBVIOUS
<1>7. r \in TrackRecords /\ r.proc = call.proc /\ r.temp = call.temp /\ r.clean = k
  BY <1>3, <1>4, <1>5, <1>6 DEF TrackRecords, AnyProc
<1>8. tracked' = [tracked EXCEPT ![t] = r]
  BY <1>1, <1>5, <1>6
<1>9. /\ tracked' \in [TunnelIds -> TrackRecords] /\ tracked'[t] = r
      /\ \A u \in TunnelIds : u # t => tracked'[u] = tracked[u]
  BY <1>3, <1>7, <1>8
<1>10. listed[t] # Nothing /\ t \notin call.before
  BY <1>1 DEF Listed
<1>11. tracked[t].proc = Nothing /\ ~tracked[t].temp
  BY <1>1, <1>2, <1>10 DEF TrackedIsOld
<1>12. McpShape' /\ CallHolds'
  BY <1>1, <1>2, <1>9, NoCallIsCall DEF McpShape, CallHolds
<1>13. ListedIsRegistered' /\ NewIsOwn'
  BY <1>1, <1>2 DEF ListedIsRegistered, NewIsOwn
<1>14. history[t] # Nothing /\ r.proc # Nothing
  BY <1>2, <1>3, <1>7, <1>10, McpDistinct DEF ListedIsRegistered
<1>15. TrackedIsOld'
  BY <1>1, <1>2, <1>9, <1>14 DEF TrackedIsOld
<1>16. TracksItsOwn'
  <2>1. r.clean => history[t] = r.proc
    BY <1>1, <1>2, <1>5, <1>7, <1>10 DEF NewIsOwn
  <2> QED BY <1>1, <1>2, <1>9, <2>1 DEF TracksItsOwn
<1>17. NoConfigLeaks'
  <2>1. ASSUME NEW q \in files PROVE \E u \in TunnelIds : tracked'[u].proc = q /\ tracked'[u].temp
    <3>1. CASE call.proc = q /\ call.temp
      BY <1>7, <1>9, <3>1
    <3>2. CASE \E u \in TunnelIds : tracked[u].proc = q /\ tracked[u].temp
      BY <1>9, <1>11, <3>2
    <3> QED BY <1>2, <3>1, <3>2 DEF NoConfigLeaks
  <2> QED BY <1>1, <2>1 DEF NoConfigLeaks
<1>18. NoOrphans'
  <2>1. ASSUME NEW q \in Procs, cli[q] \in Running PROVE \E u \in TunnelIds : tracked'[u].proc = q
    <3>1. CASE call.proc = q
      BY <1>7, <1>9, <3>1
    <3>2. CASE \E u \in TunnelIds : tracked[u].proc = q
      BY <1>9, <1>11, <3>2, McpDistinct
    <3> QED BY <1>2, <2>1, <3>1, <3>2 DEF NoOrphans
  <2> QED BY <1>1, <2>1 DEF NoOrphans
<1> QED BY <1>12, <1>13, <1>15, <1>16, <1>17, <1>18 DEF McpInv

LEMMA PollAgainStep ==
  ASSUME McpInv, PollAgain
  PROVE  McpInv'
<1>1. /\ server = "poll" /\ call.polls < MaxPolls /\ call' = [call EXCEPT !.polls = @ + 1]
      /\ UNCHANGED <<server, cli, files, listed, history, tracked, connects>>
  BY DEF PollAgain
<1>2. McpShape /\ CallHolds /\ ListedIsRegistered /\ TrackedIsOld /\ NewIsOwn /\ NoConfigLeaks /\ NoOrphans /\ TracksItsOwn
  BY DEF McpInv
<1>3. call \in CallRecords
  BY <1>2 DEF McpShape
<1>4. call.polls \in 0 .. MaxPolls
  BY <1>3 DEF CallRecords
<1>5. call.polls + 1 \in 0 .. MaxPolls
  BY <1>1, <1>4, PollBound
<1>6. PICK n \in 0 .. MaxPolls : n = call.polls + 1
  BY <1>5
<1>7. call' = [call EXCEPT !.polls = n]
  BY <1>1, <1>6
<1>8. /\ call' \in CallRecords /\ call'.proc = call.proc /\ call'.temp = call.temp
      /\ call'.before = call.before /\ call'.crowded = call.crowded
  BY <1>3, <1>7 DEF CallRecords
<1>9. McpShape' /\ CallHolds'
  BY <1>1, <1>2, <1>8 DEF McpShape, CallHolds
<1>10. ListedIsRegistered' /\ TracksItsOwn' /\ TrackedIsOld' /\ NewIsOwn'
  BY <1>1, <1>2, <1>8 DEF ListedIsRegistered, TracksItsOwn, TrackedIsOld, NewIsOwn
<1>11. NoConfigLeaks' /\ NoOrphans'
  BY <1>1, <1>2, <1>8 DEF NoConfigLeaks, NoOrphans
<1> QED BY <1>9, <1>10, <1>11 DEF McpInv

LEMMA GiveUpStep ==
  ASSUME McpInv, GiveUp
  PROVE  McpInv'
<1>1. /\ server = "poll" /\ server' = "idle" /\ call' = NoCall
      /\ cli' = [cli EXCEPT ![call.proc] = "ended"]
      /\ listed' = Without(call.proc) /\ files' = files \ {call.proc}
      /\ UNCHANGED <<history, tracked, connects>>
  BY DEF GiveUp, Return, cleanup_temp
<1>2. McpShape /\ CallHolds /\ ListedIsRegistered /\ TrackedIsOld /\ NewIsOwn /\ NoConfigLeaks /\ NoOrphans /\ TracksItsOwn
  BY DEF McpInv
<1>3. call.proc \in Procs /\ cli \in [Procs -> {"new", "starting", "online", "ended"}]
  BY <1>1, <1>2 DEF CallHolds, McpShape
<1>4. /\ cli' \in [Procs -> {"new", "starting", "online", "ended"}] /\ cli'[call.proc] = "ended"
      /\ \A q \in Procs : q # call.proc => cli'[q] = cli[q]
  BY <1>1, <1>3
<1>5. listed' \in [TunnelIds -> Owners] /\ \A u \in TunnelIds : listed'[u] # Nothing => listed'[u] = listed[u]
  BY <1>1, <1>2 DEF Without, McpShape, Owners
<1>6. McpShape' /\ CallHolds'
  BY <1>1, <1>2, <1>4, <1>5, NoCallIsCall DEF McpShape, CallHolds
<1>7. ListedIsRegistered' /\ TracksItsOwn' /\ TrackedIsOld' /\ NewIsOwn'
  BY <1>1, <1>2, <1>5 DEF ListedIsRegistered, TracksItsOwn, TrackedIsOld, NewIsOwn
<1>8. NoConfigLeaks'
  BY <1>1, <1>2 DEF NoConfigLeaks
<1>9. NoOrphans'
  BY <1>1, <1>2, <1>4 DEF NoOrphans, Running
<1> QED BY <1>6, <1>7, <1>8, <1>9 DEF McpInv

LEMMA CloseTunnelStep ==
  ASSUME McpInv, NEW t \in TunnelIds, CloseTunnel(t)
  PROVE  McpInv'
<1>1. PICK p : p = tracked[t].proc
  OBVIOUS
<1>2. /\ server = "idle" /\ UNCHANGED <<server, call, history, connects>>
      /\ tracked' = [tracked EXCEPT ![t] = NotTracked]
      /\ cli' = (IF p = Nothing THEN cli ELSE [cli EXCEPT ![p] = "ended"])
      /\ files' = (IF tracked[t].temp THEN files \ {p} ELSE files)
  BY <1>1 DEF CloseTunnel, cleanup_temp
<1>3. McpShape /\ CallHolds /\ ListedIsRegistered /\ TrackedIsOld /\ NewIsOwn /\ NoConfigLeaks /\ NoOrphans /\ TracksItsOwn
  BY DEF McpInv
<1>4. PICK ok \in BOOLEAN :
        listed' = [u \in TunnelIds |-> IF (u = t /\ ok) \/ (p # Nothing /\ listed[u] = p) THEN Nothing ELSE listed[u]]
  BY <1>1 DEF CloseTunnel
<1>5. listed' \in [TunnelIds -> Owners] /\ \A u \in TunnelIds : listed'[u] # Nothing => listed'[u] = listed[u]
  BY <1>3, <1>4 DEF McpShape, Owners
<1>6. tracked \in [TunnelIds -> TrackRecords] /\ cli \in [Procs -> {"new", "starting", "online", "ended"}]
  BY <1>3 DEF McpShape
<1>7. p \in AnyProc
  BY <1>1, <1>6 DEF TrackRecords
<1>8. /\ tracked' \in [TunnelIds -> TrackRecords] /\ tracked'[t] = NotTracked
      /\ \A u \in TunnelIds : u # t => tracked'[u] = tracked[u]
  BY <1>2, <1>6, NotTrackedIsTrack
<1>9. /\ cli' \in [Procs -> {"new", "starting", "online", "ended"}]
      /\ \A q \in Procs : cli'[q] = (IF q = p THEN "ended" ELSE cli[q])
  BY <1>2, <1>6, <1>7, McpDistinct DEF AnyProc
<1>10. call = NoCall /\ call.proc = Nothing
  BY <1>2, <1>3, NoCallIsCall DEF CallHolds
<1>11. McpShape' /\ CallHolds'
  BY <1>2, <1>3, <1>5, <1>8, <1>9, <1>10 DEF McpShape, CallHolds
<1>12. ListedIsRegistered' /\ NewIsOwn'
  BY <1>2, <1>3, <1>5 DEF ListedIsRegistered, NewIsOwn
<1>13. TrackedIsOld' /\ TracksItsOwn'
  BY <1>2, <1>3, <1>8, NotTrackedIsTrack DEF TrackedIsOld, TracksItsOwn
<1>14. NoConfigLeaks'
  <2>1. ASSUME NEW q \in files' PROVE \E u \in TunnelIds : tracked'[u].proc = q /\ tracked'[u].temp
    <3>1. q \in files /\ q \in Procs /\ (tracked[t].temp => q # p)
      BY <1>2, <1>3, <2>1 DEF McpShape
    <3>2. PICK u \in TunnelIds : tracked[u].proc = q /\ tracked[u].temp
      BY <1>3, <1>10, <3>1, McpDistinct DEF NoConfigLeaks
    <3>3. u # t
      BY <1>1, <3>1, <3>2
    <3> QED BY <1>8, <3>2, <3>3
  <2> QED BY <2>1 DEF NoConfigLeaks
<1>15. NoOrphans'
  <2>1. ASSUME NEW q \in Procs, cli'[q] \in Running PROVE \E u \in TunnelIds : tracked'[u].proc = q
    <3>1. q # p /\ cli[q] \in Running
      BY <1>9, <2>1 DEF Running
    <3>2. PICK u \in TunnelIds : tracked[u].proc = q
      BY <1>3, <1>10, <3>1, McpDistinct DEF NoOrphans
    <3>3. u # t
      BY <1>1, <3>1, <3>2
    <3> QED BY <1>8, <3>2, <3>3
  <2> QED BY <2>1 DEF NoOrphans
<1> QED BY <1>11, <1>12, <1>13, <1>14, <1>15 DEF McpInv

LEMMA StdinStep ==
  ASSUME McpInv, StdinClosed
  PROVE  McpInv'
<1>1. PICK killed : killed = {tracked[t].proc : t \in TunnelIds}
  OBVIOUS
<1>2. /\ server = "idle" /\ server' = "gone" /\ UNCHANGED <<call, history, connects>>
      /\ cli' = [p \in Procs |-> IF p \in killed THEN "ended" ELSE cli[p]]
      /\ listed' = [t \in TunnelIds |-> IF listed[t] \in killed THEN Nothing ELSE listed[t]]
      /\ files' = files \ killed
      /\ tracked' = [t \in TunnelIds |-> NotTracked]
  BY <1>1 DEF StdinClosed
<1>3. McpShape /\ CallHolds /\ ListedIsRegistered /\ TrackedIsOld /\ NewIsOwn /\ NoConfigLeaks /\ NoOrphans /\ TracksItsOwn
  BY DEF McpInv
<1>4. call = NoCall /\ call.proc = Nothing
  BY <1>2, <1>3, NoCallIsCall DEF CallHolds
<1>5. tracked' \in [TunnelIds -> TrackRecords] /\ \A u \in TunnelIds : tracked'[u] = NotTracked
  BY <1>2, NotTrackedIsTrack
<1>6. listed' \in [TunnelIds -> Owners] /\ \A u \in TunnelIds : listed'[u] # Nothing => listed'[u] = listed[u]
  BY <1>2, <1>3 DEF McpShape, Owners
<1>7. cli' \in [Procs -> {"new", "starting", "online", "ended"}]
  BY <1>2, <1>3 DEF McpShape
<1>8. McpShape' /\ CallHolds'
  BY <1>2, <1>3, <1>4, <1>5, <1>6, <1>7 DEF McpShape, CallHolds
<1>9. ListedIsRegistered' /\ NewIsOwn'
  BY <1>2, <1>3, <1>6 DEF ListedIsRegistered, NewIsOwn
<1>10. TrackedIsOld' /\ TracksItsOwn'
  BY <1>5, NotTrackedIsTrack DEF TrackedIsOld, TracksItsOwn
<1>11. \A q \in files : q \in killed
  BY <1>1, <1>3, <1>4, McpDistinct DEF NoConfigLeaks, McpShape
<1>12. \A q \in Procs : cli[q] \in Running => q \in killed
  BY <1>1, <1>3, <1>4, McpDistinct DEF NoOrphans
<1>13. NoConfigLeaks' /\ NoOrphans'
  BY <1>2, <1>11, <1>12 DEF NoConfigLeaks, NoOrphans, Running
<1> QED BY <1>8, <1>9, <1>10, <1>13 DEF McpInv

\* Crowd leaves the call as it is but for the crowded flag, and an idle server's
\* call as it is.
LEMMA CrowdStep ==
  ASSUME NEW p, p # Nothing, McpInv, Crowd(p)
  PROVE  /\ call' \in CallRecords /\ call'.proc = call.proc /\ call'.temp = call.temp
         /\ call'.before = call.before /\ call'.polls = call.polls
         /\ call'.crowded = (call.crowded \/ (call.proc # Nothing /\ p # call.proc))
         /\ call = NoCall => call' = NoCall
<1>1. call \in CallRecords
  BY DEF McpInv, McpShape
<1>2. PICK b \in Bits : b = (call.crowded \/ (call.proc # Nothing /\ p # call.proc))
  BY DEF Bits
<1>3. call' = [call EXCEPT !.crowded = b]
  BY <1>2 DEF Crowd
<1>4. /\ call' \in CallRecords /\ call'.proc = call.proc /\ call'.temp = call.temp
      /\ call'.before = call.before /\ call'.polls = call.polls /\ call'.crowded = b
  BY <1>1, <1>3 DEF CallRecords
<1>5. ASSUME call = NoCall PROVE call' = NoCall
  <2>1. b = FALSE
    BY <1>2, <1>5, NoCallIsCall
  <2> QED BY <1>3, <1>5, <2>1 DEF NoCall
<1> QED BY <1>2, <1>4, <1>5

LEMMA CliRegistersStep ==
  ASSUME McpInv, NEW p \in Procs, NEW t \in TunnelIds, CliRegisters(p, t)
  PROVE  McpInv'
<1>1. /\ cli[p] \in Running /\ history[t] = Nothing /\ Crowd(p)
      /\ cli' = [cli EXCEPT ![p] = "online"]
      /\ listed' = [Without(p) EXCEPT ![t] = p] /\ history' = [history EXCEPT ![t] = p]
      /\ UNCHANGED <<server, files, tracked, connects>>
  BY DEF CliRegisters, FreshId
<1>2. McpShape /\ CallHolds /\ ListedIsRegistered /\ TrackedIsOld /\ NewIsOwn /\ NoConfigLeaks /\ NoOrphans /\ TracksItsOwn
  BY DEF McpInv
<1>3. p # Nothing
  BY McpDistinct
<1>4. PICK b : b = (call.crowded \/ (call.proc # Nothing /\ p # call.proc))
  OBVIOUS
<1>5. /\ call' \in CallRecords /\ call'.proc = call.proc /\ call'.temp = call.temp
      /\ call'.before = call.before /\ call'.crowded = b
      /\ call = NoCall => call' = NoCall
  BY <1>1, <1>3, <1>4, CrowdStep
<1>6. /\ cli \in [Procs -> {"new", "starting", "online", "ended"}]
      /\ listed \in [TunnelIds -> Owners] /\ history \in [TunnelIds -> Owners]
  BY <1>2 DEF McpShape
<1>7. /\ cli' \in [Procs -> {"new", "starting", "online", "ended"}]
      /\ \A q \in Procs : q # p => cli'[q] = cli[q]
  BY <1>1, <1>6
<1>8. Without(p) \in [TunnelIds -> Owners] /\ \A u \in TunnelIds : Without(p)[u] # Nothing => Without(p)[u] = listed[u]
  BY <1>6 DEF Without, Owners
<1>9. /\ listed' \in [TunnelIds -> Owners] /\ listed'[t] = p
      /\ \A u \in TunnelIds : u # t /\ listed'[u] # Nothing => listed'[u] = listed[u]
  BY <1>1, <1>8 DEF Owners
<1>10. /\ history' \in [TunnelIds -> Owners] /\ history'[t] = p
       /\ \A u \in TunnelIds : u # t => history'[u] = history[u]
  BY <1>1, <1>6 DEF Owners
<1>11. McpShape'
  BY <1>1, <1>2, <1>5, <1>7, <1>9, <1>10 DEF McpShape
<1>12. CallHolds'
  BY <1>1, <1>2, <1>5, <1>7 DEF CallHolds, Running
<1>13. ListedIsRegistered'
  BY <1>2, <1>9, <1>10 DEF ListedIsRegistered
<1>14. tracked[t].proc = Nothing /\ ~tracked[t].clean
  BY <1>1, <1>2 DEF TrackedIsOld
<1>15. TrackedIsOld' /\ TracksItsOwn'
  BY <1>1, <1>2, <1>5, <1>9, <1>10, <1>14 DEF TrackedIsOld, TracksItsOwn
<1>16. NewIsOwn'
  <2>1. ASSUME server \in {"spawn", "poll"}, ~b, NEW u \in TunnelIds, listed'[u] # Nothing, u \notin call.before
        PROVE  history'[u] = call.proc
    <3>1. ~call.crowded /\ p = call.proc
      BY <1>2, <1>4, <2>1, McpDistinct DEF CallHolds
    <3>2. CASE u = t
      BY <1>10, <3>1, <3>2
    <3>3. CASE u # t
      BY <1>2, <1>9, <1>10, <2>1, <3>1, <3>3 DEF NewIsOwn
    <3> QED BY <3>2, <3>3
  <2> QED BY <1>1, <1>5, <2>1 DEF NewIsOwn
<1>17. NoConfigLeaks'
  BY <1>1, <1>2, <1>5 DEF NoConfigLeaks
<1>18. NoOrphans'
  BY <1>1, <1>2, <1>5, <1>7 DEF NoOrphans
<1> QED BY <1>11, <1>12, <1>13, <1>15, <1>16, <1>17, <1>18 DEF McpInv

LEMMA CliExitsStep ==
  ASSUME McpInv, NEW p \in Procs, CliExits(p)
  PROVE  McpInv'
<1>1. /\ cli[p] \in Running /\ cli' = [cli EXCEPT ![p] = "ended"] /\ listed' = Without(p)
      /\ UNCHANGED <<server, call, files, history, tracked, connects>>
  BY DEF CliExits
<1>2. McpShape /\ CallHolds /\ ListedIsRegistered /\ TrackedIsOld /\ NewIsOwn /\ NoConfigLeaks /\ NoOrphans /\ TracksItsOwn
  BY DEF McpInv
<1>3. /\ cli' \in [Procs -> {"new", "starting", "online", "ended"}]
      /\ \A q \in Procs : q # p => cli'[q] = cli[q]
      /\ cli'[p] = "ended"
  BY <1>1, <1>2 DEF McpShape
<1>4. listed' \in [TunnelIds -> Owners] /\ \A u \in TunnelIds : listed'[u] # Nothing => listed'[u] = listed[u]
  BY <1>1, <1>2 DEF Without, McpShape, Owners
<1>5. McpShape'
  BY <1>1, <1>2, <1>3, <1>4 DEF McpShape
<1>6. CallHolds'
  BY <1>1, <1>2, <1>3 DEF CallHolds, Running
<1>7. ListedIsRegistered' /\ TracksItsOwn' /\ TrackedIsOld' /\ NewIsOwn'
  BY <1>1, <1>2, <1>4 DEF ListedIsRegistered, TracksItsOwn, TrackedIsOld, NewIsOwn
<1>8. NoConfigLeaks'
  BY <1>1, <1>2 DEF NoConfigLeaks
<1>9. NoOrphans'
  BY <1>1, <1>2, <1>3 DEF NoOrphans, Running
<1> QED BY <1>5, <1>6, <1>7, <1>8, <1>9 DEF McpInv

LEMMA StrangerStep ==
  ASSUME McpInv, NEW t \in TunnelIds, StrangerRegisters(t)
  PROVE  McpInv'
<1>1. /\ history[t] = Nothing /\ Crowd(Stranger)
      /\ listed' = [listed EXCEPT ![t] = Stranger] /\ history' = [history EXCEPT ![t] = Stranger]
      /\ UNCHANGED <<server, cli, files, tracked, connects>>
  BY DEF StrangerRegisters, FreshId
<1>2. McpShape /\ CallHolds /\ ListedIsRegistered /\ TrackedIsOld /\ NewIsOwn /\ NoConfigLeaks /\ NoOrphans /\ TracksItsOwn
  BY DEF McpInv
<1>3. Stranger # Nothing
  BY McpDistinct
<1>4. PICK b : b = (call.crowded \/ (call.proc # Nothing /\ Stranger # call.proc))
  OBVIOUS
<1>5. /\ call' \in CallRecords /\ call'.proc = call.proc /\ call'.temp = call.temp
      /\ call'.before = call.before /\ call'.crowded = b
      /\ call = NoCall => call' = NoCall
  BY <1>1, <1>3, <1>4, CrowdStep
<1>6. listed \in [TunnelIds -> Owners] /\ history \in [TunnelIds -> Owners]
  BY <1>2 DEF McpShape
<1>7. /\ listed' \in [TunnelIds -> Owners] /\ listed'[t] = Stranger
      /\ \A u \in TunnelIds : u # t => listed'[u] = listed[u]
  BY <1>1, <1>6 DEF Owners
<1>8. /\ history' \in [TunnelIds -> Owners] /\ history'[t] = Stranger
      /\ \A u \in TunnelIds : u # t => history'[u] = history[u]
  BY <1>1, <1>6 DEF Owners
<1>9. McpShape'
  BY <1>1, <1>2, <1>5, <1>7, <1>8 DEF McpShape
<1>10. CallHolds'
  BY <1>1, <1>2, <1>5 DEF CallHolds
<1>11. ListedIsRegistered'
  BY <1>2, <1>7, <1>8 DEF ListedIsRegistered
<1>12. tracked[t].proc = Nothing /\ ~tracked[t].clean
  BY <1>1, <1>2 DEF TrackedIsOld
<1>13. TrackedIsOld' /\ TracksItsOwn'
  BY <1>1, <1>2, <1>5, <1>7, <1>8, <1>12 DEF TrackedIsOld, TracksItsOwn
<1>14. server \in {"spawn", "poll"} => b
  BY <1>2, <1>4, McpDistinct DEF CallHolds
<1>15. NewIsOwn'
  BY <1>1, <1>5, <1>14 DEF NewIsOwn
<1>16. NoConfigLeaks' /\ NoOrphans'
  BY <1>1, <1>2, <1>5 DEF NoConfigLeaks, NoOrphans
<1> QED BY <1>9, <1>10, <1>11, <1>13, <1>15, <1>16 DEF McpInv

-----------------------------------------------------------------------------
(* McpServer: the theorems *)

\* The inductive invariant holds in every reachable state, for any number of
\* CLI processes, tunnel ids and polls: a call holds its process, a listed id is
\* its registrant's, and what a call finds new is its own unless others register
\* (create_tunnel, close_tunnel, TunnelManager).
THEOREM McpInvariant == McpSpec => []McpInv
<1>1. McpInit => McpInv
  <2> SUFFICES ASSUME McpInit PROVE McpInv
    OBVIOUS
  <2>1. /\ server = "idle" /\ call = NoCall /\ connects = {} /\ files = {}
        /\ cli = [p \in Procs |-> "new"]
        /\ listed = [t \in TunnelIds |-> Nothing] /\ history = [t \in TunnelIds |-> Nothing]
        /\ tracked = [t \in TunnelIds |-> NotTracked]
    BY DEF McpInit
  <2>2. McpShape
    BY <2>1, NoCallIsCall, NotTrackedIsTrack DEF McpShape, Owners
  <2>3. CallHolds /\ ListedIsRegistered /\ NewIsOwn /\ NoConfigLeaks
    BY <2>1 DEF CallHolds, ListedIsRegistered, NewIsOwn, NoConfigLeaks
  <2>4. TrackedIsOld /\ TracksItsOwn
    BY <2>1, NotTrackedIsTrack DEF TrackedIsOld, TracksItsOwn
  <2>5. NoOrphans
    BY <2>1 DEF NoOrphans, Running
  <2> QED BY <2>2, <2>3, <2>4, <2>5 DEF McpInv
<1>2. McpInv /\ [McpNext]_mcpVars => McpInv'
  <2> SUFFICES ASSUME McpInv, [McpNext]_mcpVars PROVE McpInv'
    OBVIOUS
  <2>1. ASSUME NEW p \in Procs, CliExits(p) PROVE McpInv'
    BY <2>1, CliExitsStep
  <2>2. ASSUME NEW p \in Procs, NEW a \in Requests, PlanSpawn(p, a) PROVE McpInv'
    BY <2>2, PlanStep
  <2>3. ASSUME NEW p \in Procs, NEW a \in Requests, ConnectionInfo(p, a) PROVE McpInv'
    BY <2>3, InfoStep
  <2>4. ASSUME NEW p \in Procs, NEW t \in TunnelIds, CliRegisters(p, t) PROVE McpInv'
    BY <2>4, CliRegistersStep
  <2>5. CASE Snapshot
    BY <2>5, SnapshotStep
  <2>6. CASE CreateFails
    BY <2>6, FailsStep
  <2>7. CASE Spawn
    BY <2>7, SpawnStep
  <2>8. CASE PollAgain
    BY <2>8, PollAgainStep
  <2>9. CASE GiveUp
    BY <2>9, GiveUpStep
  <2>10. CASE StdinClosed
    BY <2>10, StdinStep
  <2>11. ASSUME NEW t \in TunnelIds, PollFinds(t) PROVE McpInv'
    BY <2>11, PollFindsStep
  <2>12. ASSUME NEW t \in TunnelIds, CloseTunnel(t) PROVE McpInv'
    BY <2>12, CloseTunnelStep
  <2>13. ASSUME NEW t \in TunnelIds, StrangerRegisters(t) PROVE McpInv'
    BY <2>13, StrangerStep
  <2>14. CASE UNCHANGED mcpVars
    BY <2>14 DEF mcpVars, McpInv, McpShape, CallHolds, ListedIsRegistered, TrackedIsOld, NewIsOwn,
                 NoConfigLeaks, NoOrphans, TracksItsOwn
  <2> QED BY <2>1, <2>2, <2>3, <2>4, <2>5, <2>6, <2>7, <2>8, <2>9, <2>10, <2>11, <2>12, <2>13, <2>14
             DEF McpNext
<1> QED BY <1>1, <1>2, PTL DEF McpSpec

\* No path through create_tunnel, close_tunnel or the end of the server leaves a
\* CLI process or a config file behind, and a process is tracked under a tunnel
\* of its own unless others registered meanwhile (tools.rs, tunnel_manager.rs).
THEOREM ProcessesStayAccounted == McpSpec => []ProcessesAccounted
<1>1. McpInv => ProcessesAccounted
  <2> SUFFICES ASSUME McpInv PROVE ProcessesAccounted
    OBVIOUS
  <2>1. McpShape /\ CallHolds /\ NoConfigLeaks /\ NoOrphans /\ TracksItsOwn
    BY DEF McpInv
  <2>2. call \in CallRecords
    BY <2>1 DEF McpShape
  <2>3. call.polls \in 0 .. MaxPolls /\ call.before \subseteq TunnelIds
    BY <2>2 DEF CallRecords
  <2>4. (server \in {"idle", "gone"}) <=> (call = NoCall)
    BY <2>1, NoCallIsCall, McpDistinct DEF CallHolds
  <2>5. McpTypeOK
    BY <2>1, <2>3, <2>4 DEF McpShape, McpTypeOK
  <2> QED BY <2>1, <2>5 DEF ProcessesAccounted
<1> QED BY <1>1, McpInvariant, PTL

-----------------------------------------------------------------------------
(* UdpBridge: the inductive invariant *)

AnyPeer == Peers \cup {CHOOSE p \in Peers : TRUE}
Tasks == {"new", "opening", "bridging", "returned", "ended"}
Busy == {"opening", "bridging", "returned"}
FlowRecords == [peer : AnyPeer, task : Tasks]
Token == [part : {"length", "payload"}, of : Nat]
LengthOf(d) == [part |-> "length", of |-> d]
PayloadOf(d) == [part |-> "payload", of |-> d]
PerEnd(T) == [Flows -> [Ends -> T]]

UdpShape ==
  /\ udpSessions \in [Peers -> Flows \cup {NoFlow}]
  /\ flow \in [Flows -> FlowRecords]
  /\ queue \in [Flows -> Seq(Nat)]
  /\ localEnd \in [Flows -> {"none", "bridging", "ended"}]
  /\ permits \in Nat /\ count \in Nat

\* A queue is never longer than MAX_BUFFERED_PACKETS, and gone with its task.
QueuesFit == \A i \in Flows : Len(queue[i]) <= MaxBuffered /\ (flow[i].task \notin Live => queue[i] = <<>>)

\* A peer is mapped to a task of its own that has not ended: whatever entry a
\* task removes when it ends, none is left that leads to it.
MappedIsOwn ==
  \A p \in Peers : udpSessions[p] # NoFlow => flow[udpSessions[p]].peer = p /\ flow[udpSessions[p]].task \in Busy

BusyFlows == {i \in Flows : flow[i].task \in Busy}

WireShape ==
  /\ wire \in PerEnd(Seq(Token)) /\ hold \in PerEnd(Seq(Token)) /\ got \in PerEnd(Seq(Token \X Token))
  /\ cut \in PerEnd(Bits)
  /\ \A i \in Flows, e \in Ends : Len(hold[i][e]) <= 1

\* The numbers n of a direction's datagrams, in the order in which they came:
\* those handed on (g), those on the stream as whole frames (s), and those
\* still queued before it (q); c is the number of the last datagram of all.
Carries(n, g, s, q, c) ==
  /\ n \in Seq(Nat)
  /\ \A j, k \in 1 .. Len(n) : j < k => n[j] < n[k]
  /\ \A j \in 1 .. Len(n) : n[j] <= c
  /\ \A j \in 1 .. Len(g) : g[j] = <<LengthOf(n[j]), PayloadOf(n[j])>>
  /\ \E m \in Nat :
       /\ Len(s) = 2 * m /\ Len(n) = Len(g) + m + Len(q)
       /\ \A j \in 1 .. m : s[2 * j - 1] = LengthOf(n[Len(g) + j]) /\ s[2 * j] = PayloadOf(n[Len(g) + j])
       /\ \A j \in 1 .. Len(q) : q[j] = n[Len(g) + m + j]

\* What waits for a place on the stream to end e.
Waiting(i, e) == IF e = "client" THEN queue[i] ELSE <<>>

\* While no read of an end was dropped, what it holds of a frame and what is
\* under way to it are whole frames, and the datagrams of its direction are in
\* the order in which they came.
Uncut ==
  \A i \in Flows, e \in Ends : ~cut[i][e] =>
    \E n \in Seq(Nat) : Carries(n, got[i][e], hold[i][e] \o wire[i][e], Waiting(i, e), count)

UdpInv ==
  UdpShape /\ QueuesFit /\ MappedIsOwn /\ UdpPermitsReturn /\ WireShape /\ Uncut

-----------------------------------------------------------------------------
(* UdpBridge: what the streams carry *)

LEMMA FrameTokens == \A d \in Nat : WireFrame(d) \in Seq(Token)
<1> SUFFICES ASSUME NEW d \in Nat PROVE WireFrame(d) \in Seq(Token)
  OBVIOUS
<1>1. LengthOf(d) \in Token /\ PayloadOf(d) \in Token
  BY DEF LengthOf, PayloadOf, Token
<1>2. <<LengthOf(d), PayloadOf(d)>> \in Seq(Token)
  BY <1>1
<1> QED BY <1>2 DEF WireFrame, LengthOf, PayloadOf

LEMMA TokensAssociative ==
  ASSUME NEW a \in Seq(Token), NEW b \in Seq(Token), NEW c \in Seq(Token)
  PROVE  (a \o b) \o c = a \o (b \o c)
<1>1. PICK S : S = Token
  OBVIOUS
<1>2. a \in Seq(S) /\ b \in Seq(S) /\ c \in Seq(S)
  BY <1>1
<1> QED BY <1>2, ConcatAssociative

LEMMA OneToken ==
  ASSUME NEW h \in Seq(Token), h # <<>>, Len(h) <= 1
  PROVE  Len(h) = 1 /\ h[1] \in Token /\ h = <<h[1]>>
<1>1. PICK l \in Nat : l = Len(h)
  OBVIOUS
<1>2. l # 0
  BY <1>1
<1>3. l = 1
  BY <1>1, <1>2
<1>4. h[1] \in Token
  BY <1>1, <1>3
<1>5. PICK y : y = <<h[1]>>
  OBVIOUS
<1>6. y \in Seq(Token) /\ Len(y) = 1 /\ y[1] = h[1]
  BY <1>4, <1>5
<1>7. \A j \in 1 .. 1 : j = 1
  OBVIOUS
<1>8. Len(h) = Len(y) /\ \A j \in 1 .. Len(h) : h[j] = y[j]
  BY <1>1, <1>3, <1>6, <1>7
<1>9. h = y
  BY <1>6, <1>8, SeqEqual, Zenon
<1> QED BY <1>1, <1>3, <1>4, <1>5, <1>9

LEMMA CarryLater ==
  ASSUME NEW n, NEW g, NEW s, NEW q, NEW c \in Nat, NEW d \in Nat, c <= d, Carries(n, g, s, q, c)
  PROVE  Carries(n, g, s, q, d)
<1>1. n \in Seq(Nat)
  BY DEF Carries
<1>2. \A j \in 1 .. Len(n) : n[j] \in Nat /\ n[j] <= c
  BY <1>1, ElementOfSeq DEF Carries
<1>3. \A j \in 1 .. Len(n) : n[j] <= d
  BY <1>2
<1> QED BY <1>3 DEF Carries

\* A datagram that comes gets the next number, and waits.
LEMMA CarryArrival ==
  ASSUME NEW n, NEW g, NEW s, NEW q \in Seq(Nat), NEW c \in Nat, Len(g) \in Nat, Carries(n, g, s, q, c)
  PROVE  Append(n, c + 1) \in Seq(Nat) /\ Carries(Append(n, c + 1), g, s, Append(q, c + 1), c + 1)
<1>1. n \in Seq(Nat) /\ Len(n) \in Nat /\ Len(q) \in Nat
  BY DEF Carries
<1>2. PICK a : a = Append(n, c + 1)
  OBVIOUS
<1>3. PICK b : b = Append(q, c + 1)
  OBVIOUS
<1>4. /\ a \in Seq(Nat) /\ Len(a) = Len(n) + 1 /\ a[Len(n) + 1] = c + 1
      /\ \A j \in 1 .. Len(n) : a[j] = n[j]
  BY <1>1, <1>2
<1>5. /\ Len(b) = Len(q) + 1 /\ b[Len(q) + 1] = c + 1
      /\ \A j \in 1 .. Len(q) : b[j] = q[j]
  BY <1>1, <1>3
<1>6. PICK m \in Nat :
        /\ Len(s) = 2 * m /\ Len(n) = Len(g) + m + Len(q)
        /\ \A j \in 1 .. m : s[2 * j - 1] = LengthOf(n[Len(g) + j]) /\ s[2 * j] = PayloadOf(n[Len(g) + j])
        /\ \A j \in 1 .. Len(q) : q[j] = n[Len(g) + m + j]
  BY DEF Carries
<1>7. \A j \in 1 .. Len(n) : n[j] \in Nat /\ n[j] <= c
  BY <1>1, ElementOfSeq DEF Carries
<1>8. \A j \in 1 .. Len(a) : j \in 1 .. Len(n) \/ j = Len(n) + 1
  BY <1>1, <1>4
<1>9. \A j, k \in 1 .. Len(a) : j < k => a[j] < a[k]
  <2> SUFFICES ASSUME NEW j \in 1 .. Len(a), NEW k \in 1 .. Len(a), j < k PROVE a[j] < a[k]
    OBVIOUS
  <2>1. j \in 1 .. Len(n)
    BY <1>1, <1>4
  <2>2. CASE k \in 1 .. Len(n)
    BY <1>4, <2>1, <2>2 DEF Carries
  <2>3. CASE k = Len(n) + 1
    BY <1>4, <1>7, <2>1, <2>3
  <2> QED BY <1>8, <2>2, <2>3
<1>10. \A j \in 1 .. Len(a) : a[j] <= c + 1
  <2>1. ASSUME NEW j \in 1 .. Len(n) PROVE a[j] <= c + 1
    <3>1. n[j] \in Nat /\ n[j] <= c /\ a[j] = n[j]
      BY <1>4, <1>7
    <3> QED BY <3>1
  <2> QED BY <1>4, <1>8, <2>1
<1>11. \A j \in 1 .. Len(g) : g[j] = <<LengthOf(a[j]), PayloadOf(a[j])>>
  <2>1. \A j \in 1 .. Len(g) : j \in 1 .. Len(n)
    BY <1>1, <1>6
  <2> QED BY <1>4, <2>1 DEF Carries
<1>12. \A j \in 1 .. m : s[2 * j - 1] = LengthOf(a[Len(g) + j]) /\ s[2 * j] = PayloadOf(a[Len(g) + j])
  <2>1. \A j \in 1 .. m : Len(g) + j \in 1 .. Len(n)
    BY <1>1, <1>6
  <2> QED BY <1>4, <1>6, <2>1
<1>13. \A j \in 1 .. Len(b) : b[j] = a[Len(g) + m + j]
  <2> SUFFICES ASSUME NEW j \in 1 .. Len(b) PROVE b[j] = a[Len(g) + m + j]
    OBVIOUS
  <2>1. CASE j \in 1 .. Len(q)
    <3>1. Len(g) + m + j \in 1 .. Len(n)
      BY <1>1, <1>6, <2>1
    <3> QED BY <1>4, <1>5, <1>6, <2>1, <3>1
  <2>2. CASE j = Len(q) + 1
    <3>1. Len(g) + m + j = Len(n) + 1
      BY <1>1, <1>6, <2>2
    <3> QED BY <1>4, <1>5, <2>2, <3>1
  <2> QED BY <1>1, <1>5, <2>1, <2>2
<1>14. Len(a) = Len(g) + m + Len(b)
  BY <1>1, <1>4, <1>5, <1>6
<1>15. Carries(a, g, s, b, c + 1)
  BY <1>4, <1>6, <1>9, <1>10, <1>11, <1>12, <1>13, <1>14 DEF Carries
<1> QED BY <1>2, <1>3, <1>4, <1>15

\* The queue is dropped with its task.
LEMMA CarryDropped ==
  ASSUME NEW n, NEW g, NEW s, NEW q \in Seq(Nat), NEW c \in Nat, Len(g) \in Nat, Carries(n, g, s, q, c)
  PROVE  \E k \in Seq(Nat) : Carries(k, g, s, <<>>, c)
<1>1. n \in Seq(Nat) /\ Len(n) \in Nat /\ Len(q) \in Nat
  BY DEF Carries
<1>2. PICK m \in Nat :
        /\ Len(s) = 2 * m /\ Len(n) = Len(g) + m + Len(q)
        /\ \A j \in 1 .. m : s[2 * j - 1] = LengthOf(n[Len(g) + j]) /\ s[2 * j] = PayloadOf(n[Len(g) + j])
        /\ \A j \in 1 .. Len(q) : q[j] = n[Len(g) + m + j]
  BY DEF Carries
<1>3. PICK l \in Nat : l = Len(g) + m
  OBVIOUS
<1>4. l <= Len(n)
  BY <1>1, <1>2, <1>3
<1>5. PICK k : k = [j \in 1 .. l |-> n[j]]
  OBVIOUS
<1>6. \A j \in 1 .. l : j \in 1 .. Len(n) /\ n[j] \in Nat
  BY <1>1, <1>4, ElementOfSeq
<1>7. k \in Seq(Nat) /\ Len(k) = l /\ \A j \in 1 .. l : k[j] = n[j]
  BY <1>5, <1>6
<1>8. /\ \A j, h \in 1 .. Len(k) : j < h => k[j] < k[h]
      /\ \A j \in 1 .. Len(k) : k[j] <= c
  BY <1>6, <1>7 DEF Carries
<1>9. \A j \in 1 .. Len(g) : g[j] = <<LengthOf(k[j]), PayloadOf(k[j])>>
  <2>1. \A j \in 1 .. Len(g) : j \in 1 .. l
    BY <1>3
  <2> QED BY <1>7, <2>1 DEF Carries
<1>10. \A j \in 1 .. m : s[2 * j - 1] = LengthOf(k[Len(g) + j]) /\ s[2 * j] = PayloadOf(k[Len(g) + j])
  <2>1. \A j \in 1 .. m : Len(g) + j \in 1 .. l
    BY <1>3
  <2> QED BY <1>2, <1>7, <2>1
<1>11. PICK e : e = <<>> /\ Len(e) = 0
  OBVIOUS
<1>12. Len(k) = Len(g) + m + Len(e) /\ \A j \in 1 .. Len(e) : e[j] = k[Len(g) + m + j]
  BY <1>3, <1>7, <1>11
<1>13. Carries(k, g, s, e, c)
  BY <1>2, <1>7, <1>8, <1>9, <1>10, <1>12 DEF Carries
<1> QED BY <1>7, <1>11, <1>13

\* The first of the queue is framed onto the stream.
LEMMA CarryFramed ==
  ASSUME NEW n, NEW g, NEW s \in Seq(Token), NEW q \in Seq(Nat), NEW c \in Nat, Len(g) \in Nat,
         Carries(n, g, s, q, c), q # <<>>
  PROVE  Carries(n, g, s \o WireFrame(Head(q)), Tail(q), c)
<1>1. n \in Seq(Nat) /\ Len(n) \in Nat /\ Len(q) \in Nat /\ Len(q) > 0 /\ Len(s) \in Nat
  BY DEF Carries
<1>2. PICK m \in Nat :
        /\ Len(s) = 2 * m /\ Len(n) = Len(g) + m + Len(q)
        /\ \A j \in 1 .. m : s[2 * j - 1] = LengthOf(n[Len(g) + j]) /\ s[2 * j] = PayloadOf(n[Len(g) + j])
        /\ \A j \in 1 .. Len(q) : q[j] = n[Len(g) + m + j]
  BY DEF Carries
<1>3. PICK d : d = Head(q)
  OBVIOUS
<1>4. d = q[1] /\ d \in Nat
  BY <1>1, <1>3
<1>5. d = n[Len(g) + m + 1]
  BY <1>1, <1>2, <1>4
<1>6. LengthOf(d) \in Token /\ PayloadOf(d) \in Token
  BY <1>4 DEF LengthOf, PayloadOf, Token
<1>7. PICK f : f = WireFrame(d)
  OBVIOUS
<1>8. f = <<LengthOf(d), PayloadOf(d)>>
  BY <1>7 DEF WireFrame, LengthOf, PayloadOf
<1>9. f \in Seq(Token) /\ Len(f) = 2 /\ f[1] = LengthOf(d) /\ f[2] = PayloadOf(d)
  BY <1>6, <1>8
<1>10. PICK t : t = s \o f
  OBVIOUS
<1>11. /\ Len(t) = Len(s) + 2 /\ \A j \in 1 .. Len(s) : t[j] = s[j]
       /\ t[Len(s) + 1] = LengthOf(d) /\ t[Len(s) + 2] = PayloadOf(d)
  <2>1. Len(t) = Len(s) + 2 /\ \A j \in 1 .. Len(s) + 2 : t[j] = IF j <= Len(s) THEN s[j] ELSE f[j - Len(s)]
    <3>1. /\ Len(s \o f) = Len(s) + Len(f)
          /\ \A j \in 1 .. Len(s) + Len(f) : (s \o f)[j] = IF j <= Len(s) THEN s[j] ELSE f[j - Len(s)]
      BY <1>9, ConcatProperties, Zenon
    <3> QED BY <1>9, <1>10, <3>1
  <2>2. Len(s) + 1 - Len(s) = 1 /\ Len(s) + 2 - Len(s) = 2
    BY <1>1
  <2>3. Len(s) + 1 \in 1 .. Len(s) + 2 /\ Len(s) + 2 \in 1 .. Len(s) + 2 /\ ~(Len(s) + 1 <= Len(s)) /\ ~(Len(s) + 2 <= Len(s))
    BY <1>1
  <2>4. t[Len(s) + 1] = f[1] /\ t[Len(s) + 2] = f[2]
    BY <2>1, <2>2, <2>3
  <2>5. \A j \in 1 .. Len(s) : j \in 1 .. Len(s) + 2 /\ j <= Len(s)
    BY <1>1
  <2>6. \A j \in 1 .. Len(s) : t[j] = s[j]
    BY <2>1, <2>5
  <2> QED BY <1>9, <2>1, <2>4, <2>6
<1>12. PICK u : u = Tail(q)
  OBVIOUS
<1>13. Len(u) = Len(q) - 1 /\ \A j \in 1 .. Len(u) : u[j] = q[j + 1]
  BY <1>1, <1>12
<1>14. PICK h \in Nat : h = m + 1
  OBVIOUS
<1>15. Len(t) = 2 * h /\ Len(n) = Len(g) + h + Len(u)
  BY <1>1, <1>2, <1>11, <1>13, <1>14
<1>16. \A j \in 1 .. h : t[2 * j - 1] = LengthOf(n[Len(g) + j]) /\ t[2 * j] = PayloadOf(n[Len(g) + j])
  <2> SUFFICES ASSUME NEW j \in 1 .. h
               PROVE  t[2 * j - 1] = LengthOf(n[Len(g) + j]) /\ t[2 * j] = PayloadOf(n[Len(g) + j])
    OBVIOUS
  <2>1. CASE j \in 1 .. m
    <3>1. 2 * j - 1 \in 1 .. Len(s) /\ 2 * j \in 1 .. Len(s)
      BY <1>2, <2>1
    <3> QED BY <1>2, <1>11, <2>1, <3>1
  <2>2. CASE j = m + 1
    <3>1. 2 * j - 1 = Len(s) + 1 /\ 2 * j = Len(s) + 2 /\ Len(g) + j = Len(g) + m + 1
      BY <1>2, <2>2
    <3> QED BY <1>5, <1>11, <3>1
  <2> QED BY <1>14, <2>1, <2>2
<1>17. \A j \in 1 .. Len(u) : u[j] = n[Len(g) + h + j]
  <2> SUFFICES ASSUME NEW j \in 1 .. Len(u) PROVE u[j] = n[Len(g) + h + j]
    OBVIOUS
  <2>1. j + 1 \in 1 .. Len(q) /\ Len(g) + m + (j + 1) = Len(g) + h + j
    BY <1>1, <1>13, <1>14
  <2> QED BY <1>2, <1>13, <2>1
<1>18. Carries(n, g, t, u, c)
  BY <1>14, <1>15, <1>16, <1>17 DEF Carries
<1> QED BY <1>3, <1>7, <1>10, <1>12, <1>18

\* A datagram that comes is framed at once.
LEMMA CarryWritten ==
  ASSUME NEW n, NEW g, NEW s \in Seq(Token), NEW c \in Nat, Len(g) \in Nat, Carries(n, g, s, <<>>, c)
  PROVE  \E k \in Seq(Nat) : Carries(k, g, s \o WireFrame(c + 1), <<>>, c + 1)
<1>1. <<>> \in Seq(Nat) /\ c + 1 \in Nat
  OBVIOUS
<1>2. PICK x : x = Append(<<>>, c + 1)
  OBVIOUS
<1>3. x = <<c + 1>>
  BY <1>1, <1>2
<1>4. x \in Seq(Nat) /\ x # <<>> /\ Head(x) = c + 1 /\ Tail(x) = <<>>
  BY <1>1, <1>3
<1>5. PICK k \in Seq(Nat) : Carries(k, g, s, x, c + 1)
  BY <1>1, <1>2, CarryArrival
<1>6. Carries(k, g, s \o WireFrame(Head(x)), Tail(x), c + 1)
  BY <1>1, <1>4, <1>5, CarryFramed
<1> QED BY <1>4, <1>5, <1>6

\* The frame at the front of the stream is handed on.
LEMMA CarryRead ==
  ASSUME NEW n, NEW g \in Seq(Token \X Token), NEW x \in Token, NEW w \in Seq(Token), NEW q \in Seq(Nat),
         NEW c \in Nat, Carries(n, g, <<x>> \o w, q, c), w # <<>>
  PROVE  Carries(n, Append(g, <<x, Head(w)>>), Tail(w), q, c)
<1>1. PICK s : s = <<x>> \o w
  OBVIOUS
<1>2. /\ Len(w) \in Nat /\ Len(w) > 0 /\ s \in Seq(Token) /\ Len(s) = Len(w) + 1 /\ s[1] = x
      /\ \A j \in 1 .. Len(w) : s[j + 1] = w[j]
  BY <1>1
<1>3. n \in Seq(Nat) /\ Len(n) \in Nat /\ Len(q) \in Nat /\ Len(g) \in Nat
  BY DEF Carries
<1>4. PICK m \in Nat :
        /\ Len(s) = 2 * m /\ Len(n) = Len(g) + m + Len(q)
        /\ \A j \in 1 .. m : s[2 * j - 1] = LengthOf(n[Len(g) + j]) /\ s[2 * j] = PayloadOf(n[Len(g) + j])
        /\ \A j \in 1 .. Len(q) : q[j] = n[Len(g) + m + j]
  BY <1>1 DEF Carries
<1>5. m >= 1 /\ 1 \in 1 .. m
  BY <1>2, <1>4
<1>6. x = LengthOf(n[Len(g) + 1]) /\ s[2] = PayloadOf(n[Len(g) + 1])
  <2>1. s[2 * 1 - 1] = LengthOf(n[Len(g) + 1]) /\ s[2 * 1] = PayloadOf(n[Len(g) + 1])
    BY <1>4, <1>5
  <2>2. 2 * 1 - 1 = 1 /\ 2 * 1 = 2
    OBVIOUS
  <2> QED BY <1>2, <2>1, <2>2
<1>7. Head(w) = PayloadOf(n[Len(g) + 1]) /\ Head(w) \in Token
  <2>1. Head(w) = w[1] /\ Head(w) \in Token
    BY <1>2
  <2>2. 1 \in 1 .. Len(w) /\ 1 + 1 = 2
    BY <1>2
  <2>3. w[1] = s[2]
    BY <1>2, <2>2
  <2> QED BY <1>6, <2>1, <2>3
<1>8. PICK r : r = <<x, Head(w)>>
  OBVIOUS
<1>9. r \in Token \X Token /\ r = <<LengthOf(n[Len(g) + 1]), PayloadOf(n[Len(g) + 1])>>
  BY <1>6, <1>7, <1>8
<1>10. PICK a : a = Append(g, r)
  OBVIOUS
<1>11. Len(a) = Len(g) + 1 /\ a[Len(g) + 1] = r /\ \A j \in 1 .. Len(g) : a[j] = g[j]
  BY <1>3, <1>9, <1>10
<1>12. PICK u : u = Tail(w)
  OBVIOUS
<1>13. Len(u) = Len(w) - 1 /\ \A j \in 1 .. Len(u) : u[j] = w[j + 1]
  BY <1>2, <1>12
<1>14. PICK h \in Nat : h = m - 1
  BY <1>5
<1>15. Len(u) = 2 * h /\ Len(n) = Len(a) + h + Len(q)
  BY <1>2, <1>3, <1>4, <1>11, <1>13, <1>14
<1>16. \A j \in 1 .. Len(a) : a[j] = <<LengthOf(n[j]), PayloadOf(n[j])>>
  <2> SUFFICES ASSUME NEW j \in 1 .. Len(a) PROVE a[j] = <<LengthOf(n[j]), PayloadOf(n[j])>>
    OBVIOUS
  <2>1. CASE j \in 1 .. Len(g)
    BY <1>11, <2>1 DEF Carries
  <2>2. CASE j = Len(g) + 1
    BY <1>9, <1>11, <2>2
  <2>3. j \in 1 .. Len(g) \/ j = Len(g) + 1
    BY <1>3, <1>11
  <2> QED BY <2>1, <2>2, <2>3
<1>17. \A j \in 1 .. h : u[2 * j - 1] = LengthOf(n[Len(a) + j]) /\ u[2 * j] = PayloadOf(n[Len(a) + j])
  <2> SUFFICES ASSUME NEW j \in 1 .. h
               PROVE  u[2 * j - 1] = LengthOf(n[Len(a) + j]) /\ u[2 * j] = PayloadOf(n[Len(a) + j])
    OBVIOUS
  <2>1. PICK k \in Nat : k = j + 1
    OBVIOUS
  <2>2. k \in 1 .. m /\ Len(g) + k = Len(a) + j
    <3>1. k \in 1 .. m
      BY <1>5, <1>14, <2>1
    <3>2. Len(g) \in Nat /\ Len(a) = Len(g) + 1
      BY <1>3, <1>11
    <3> QED BY <2>1, <3>1, <3>2
  <2>3. s[2 * k - 1] = LengthOf(n[Len(a) + j]) /\ s[2 * k] = PayloadOf(n[Len(a) + j])
    BY <1>4, <2>2
  <2>4. /\ 2 * j - 1 \in 1 .. Len(u) /\ 2 * j \in 1 .. Len(u)
        /\ 2 * j \in 1 .. Len(w) /\ 2 * j + 1 \in 1 .. Len(w)
    BY <1>2, <1>13, <1>15
  <2>5. u[2 * j - 1] = w[2 * j - 1 + 1] /\ u[2 * j] = w[2 * j + 1]
    BY <1>13, <2>4
  <2>6. s[2 * j + 1] = w[2 * j] /\ s[2 * j + 1 + 1] = w[2 * j + 1]
    BY <1>2, <2>4
  <2>7. 2 * j - 1 + 1 = 2 * j /\ 2 * k - 1 = 2 * j + 1 /\ 2 * k = 2 * j + 1 + 1
    BY <2>1
  <2> QED BY <2>3, <2>5, <2>6, <2>7
<1>18. \A j \in 1 .. Len(q) : q[j] = n[Len(a) + h + j]
  <2>1. Len(a) + h = Len(g) + m
    BY <1>3, <1>11, <1>14
  <2> QED BY <1>4, <2>1
<1>19. Carries(n, a, u, q, c)
  BY <1>14, <1>15, <1>16, <1>17, <1>18 DEF Carries
<1> QED BY <1>8, <1>10, <1>12, <1>19

-----------------------------------------------------------------------------
(* UdpBridge: updates *)

SetTask(F, i, t) == [F EXCEPT ![i].task = t]
Put(F, i, e, x) == [F EXCEPT ![i][e] = x]

LEMMA TaskSet ==
  ASSUME NEW F \in [Flows -> FlowRecords], NEW i \in Flows, NEW t \in Tasks
  PROVE  /\ SetTask(F, i, t) \in [Flows -> FlowRecords]
         /\ SetTask(F, i, t)[i].task = t /\ SetTask(F, i, t)[i].peer = F[i].peer
         /\ \A j \in Flows : j # i => SetTask(F, i, t)[j] = F[j]
<1>1. PICK r : r = [F[i] EXCEPT !.task = t]
  OBVIOUS
<1>2. r \in FlowRecords /\ r.task = t /\ r.peer = F[i].peer
  BY <1>1 DEF FlowRecords
<1>3. SetTask(F, i, t) = [F EXCEPT ![i] = r]
  BY <1>1 DEF SetTask
<1> QED BY <1>2, <1>3

LEMMA FrameSet ==
  ASSUME NEW T, NEW F \in PerEnd(T), NEW i \in Flows, NEW e \in Ends, NEW x \in T
  PROVE  /\ Put(F, i, e, x) \in PerEnd(T) /\ Put(F, i, e, x)[i][e] = x
         /\ \A j \in Flows, k \in Ends : j # i \/ k # e => Put(F, i, e, x)[j][k] = F[j][k]
<1>1. PICK r : r = [F[i] EXCEPT ![e] = x]
  OBVIOUS
<1>2. r \in [Ends -> T] /\ r[e] = x /\ \A k \in Ends : k # e => r[k] = F[i][k]
  BY <1>1 DEF PerEnd
<1>3. Put(F, i, e, x) = [F EXCEPT ![i] = r]
  BY <1>1 DEF Put
<1> QED BY <1>2, <1>3 DEF PerEnd

LEMMA EndsDiffer == \A e \in Ends : Other(e) \in Ends /\ Other(e) # e
BY DEF Ends, Other

\* The permits that are taken are those of the running tasks.
LEMMA BusyIsFinite == IsFiniteSet(BusyFlows) /\ Cardinality(BusyFlows) \in Nat
<1>1. BusyFlows \subseteq Flows
  BY DEF BusyFlows
<1>2. IsFiniteSet(BusyFlows)
  BY <1>1, UdpBounds, FS_Subset
<1> QED BY <1>2, FS_CardinalityType

LEMMA BusySame ==
  ASSUME UdpPermitsReturn, permits' = permits,
         \A j \in Flows : flow'[j].task \in Busy <=> flow[j].task \in Busy
  PROVE  UdpPermitsReturn'
<1>1. {j \in Flows : flow'[j].task \in Busy} = {j \in Flows : flow[j].task \in Busy}
  OBVIOUS
<1> QED BY <1>1 DEF UdpPermitsReturn, Busy

LEMMA UncutNext ==
  ASSUME \A j \in Flows, e \in Ends : ~cut'[j][e] =>
           \E n \in Seq(Nat) : Carries(n, got'[j][e], hold'[j][e] \o wire'[j][e],
                                       IF e = "client" THEN queue'[j] ELSE <<>>, count')
  PROVE  Uncut'
BY DEF Uncut, Waiting, Carries

LEMMA UncutAt ==
  ASSUME UdpInv, NEW j \in Flows, NEW e \in Ends, ~cut[j][e]
  PROVE  \E n \in Seq(Nat) : Carries(n, got[j][e], hold[j][e] \o wire[j][e],
                                     IF e = "client" THEN queue[j] ELSE <<>>, count)
BY DEF UdpInv, Uncut, Waiting

\* What the variables of one end hold.
LEMMA EndShape ==
  ASSUME UdpInv, NEW j \in Flows, NEW e \in Ends
  PROVE  /\ wire[j][e] \in Seq(Token) /\ hold[j][e] \in Seq(Token) /\ Len(hold[j][e]) <= 1
         /\ got[j][e] \in Seq(Token \X Token) /\ Len(got[j][e]) \in Nat /\ cut[j][e] \in Bits
         /\ queue[j] \in Seq(Nat) /\ count \in Nat
<1>1. /\ wire \in PerEnd(Seq(Token)) /\ hold \in PerEnd(Seq(Token)) /\ got \in PerEnd(Seq(Token \X Token))
      /\ cut \in PerEnd(Bits) /\ Len(hold[j][e]) <= 1
      /\ queue \in [Flows -> Seq(Nat)] /\ count \in Nat
  BY DEF UdpInv, WireShape, UdpShape
<1>2. PICK T : T = Token \X Token
  OBVIOUS
<1>3. got[j][e] \in Seq(T)
  BY <1>1, <1>2 DEF PerEnd
<1>4. Len(got[j][e]) \in Nat
  BY <1>3
<1> QED BY <1>1, <1>2, <1>3, <1>4 DEF PerEnd

-----------------------------------------------------------------------------
(* UdpBridge: the steps *)

\* A datagram comes that no flow takes.
LEMMA CountStep ==
  ASSUME UdpInv, count' = count + 1, UNCHANGED <<wire, hold, got, cut, queue>>
  PROVE  Uncut'
<1>1. ASSUME NEW j \in Flows, NEW e \in Ends, ~cut'[j][e]
      PROVE  \E n \in Seq(Nat) : Carries(n, got'[j][e], hold'[j][e] \o wire'[j][e],
                                         IF e = "client" THEN queue'[j] ELSE <<>>, count')
  <2>1. PICK q : q = IF e = "client" THEN queue[j] ELSE <<>>
    OBVIOUS
  <2>2. PICK n \in Seq(Nat) : Carries(n, got[j][e], hold[j][e] \o wire[j][e], q, count)
    BY <1>1, <2>1, UncutAt
  <2>3. count \in Nat /\ count + 1 \in Nat /\ count <= count + 1
    BY DEF UdpInv, UdpShape
  <2>4. Carries(n, got[j][e], hold[j][e] \o wire[j][e], q, count + 1)
    BY <2>2, <2>3, CarryLater
  <2> QED BY <2>1, <2>4
<1> QED BY <1>1, UncutNext

\* A datagram comes and is offered to flow i.
LEMMA OfferStep ==
  ASSUME UdpInv, NEW i \in Flows, count' = count + 1, UNCHANGED <<wire, hold, got, cut>>,
         queue' = [queue EXCEPT ![i] = Offer(queue[i], count + 1)]
  PROVE  /\ queue' \in [Flows -> Seq(Nat)] /\ Uncut'
         /\ \A j \in Flows : Len(queue'[j]) <= MaxBuffered /\ (j # i => queue'[j] = queue[j])
<1>1. queue \in [Flows -> Seq(Nat)] /\ count \in Nat /\ \A j \in Flows : Len(queue[j]) <= MaxBuffered
  BY DEF UdpInv, UdpShape, QueuesFit
<1>2. PICK o : o = Offer(queue[i], count + 1)
  OBVIOUS
<1>3. queue[i] \in Seq(Nat) /\ count + 1 \in Nat /\ Len(queue[i]) \in Nat
  BY <1>1
<1>4. o \in Seq(Nat) /\ Len(o) <= MaxBuffered /\ (o = queue[i] \/ o = Append(queue[i], count + 1))
  BY <1>1, <1>2, <1>3, UdpBounds DEF Offer
<1>5. queue' \in [Flows -> Seq(Nat)] /\ queue'[i] = o /\ \A j \in Flows : j # i => queue'[j] = queue[j]
  BY <1>1, <1>2, <1>4
<1>6. ASSUME NEW j \in Flows, NEW e \in Ends, ~cut'[j][e]
      PROVE  \E n \in Seq(Nat) : Carries(n, got'[j][e], hold'[j][e] \o wire'[j][e],
                                         IF e = "client" THEN queue'[j] ELSE <<>>, count')
  <2>1. PICK q : q = IF e = "client" THEN queue[j] ELSE <<>>
    OBVIOUS
  <2>2. PICK s : s = hold[j][e] \o wire[j][e]
    OBVIOUS
  <2>3. PICK n \in Seq(Nat) : Carries(n, got[j][e], s, q, count)
    BY <1>6, <2>1, <2>2, UncutAt
  <2>4. count + 1 \in Nat /\ count <= count + 1 /\ Len(got[j][e]) \in Nat
    BY <1>1, EndShape
  <2>5. CASE e = "client" /\ j = i /\ o = Append(queue[i], count + 1)
    <3>1. q = queue[i] /\ q \in Seq(Nat)
      BY <1>3, <2>1, <2>5
    <3>2. Append(n, count + 1) \in Seq(Nat) /\ Carries(Append(n, count + 1), got[j][e], s, Append(q, count + 1), count + 1)
      BY <1>1, <2>3, <2>4, <3>1, CarryArrival
    <3> QED BY <1>5, <2>2, <2>5, <3>1, <3>2
  <2>6. CASE ~(e = "client" /\ j = i /\ o = Append(queue[i], count + 1))
    <3>1. Carries(n, got[j][e], s, q, count + 1)
      BY <1>1, <2>3, <2>4, CarryLater
    <3>2. (IF e = "client" THEN queue'[j] ELSE <<>>) = q
      BY <1>4, <1>5, <2>1, <2>6
    <3> QED BY <2>2, <3>1, <3>2
  <2> QED BY <2>5, <2>6
<1> QED BY <1>1, <1>4, <1>5, <1>6, UncutNext

LEMMA ForwardStep ==
  ASSUME UdpInv, NEW p \in Peers, Forward(p)
  PROVE  UdpInv'
<1>1. PICK i : i = udpSessions[p]
  OBVIOUS
<1>2. /\ i # NoFlow /\ count' = count + 1
      /\ queue' = (IF flow[i].task \in Live THEN [queue EXCEPT ![i] = Offer(@, count')] ELSE queue)
      /\ UNCHANGED <<udpSessions, flow, wire, hold, got, cut, localEnd, permits>>
  BY <1>1 DEF Forward
<1>3. UdpShape /\ QueuesFit /\ MappedIsOwn /\ UdpPermitsReturn /\ WireShape
  BY DEF UdpInv
<1>4. i \in Flows /\ count + 1 \in Nat
  BY <1>1, <1>2, <1>3 DEF UdpShape
<1>5. MappedIsOwn' /\ UdpPermitsReturn' /\ WireShape'
  BY <1>2, <1>3 DEF MappedIsOwn, UdpPermitsReturn, WireShape
<1>6. CASE flow[i].task \in Live
  <2>1. queue' = [queue EXCEPT ![i] = Offer(queue[i], count + 1)]
    BY <1>2, <1>6
  <2>2. /\ queue' \in [Flows -> Seq(Nat)] /\ Uncut'
        /\ \A j \in Flows : Len(queue'[j]) <= MaxBuffered /\ (j # i => queue'[j] = queue[j])
    BY <1>2, <1>4, <2>1, OfferStep
  <2>3. UdpShape'
    BY <1>2, <1>3, <1>4, <2>2 DEF UdpShape
  <2>4. QueuesFit'
    BY <1>2, <1>3, <1>6, <2>2 DEF QueuesFit
  <2> QED BY <1>5, <2>2, <2>3, <2>4 DEF UdpInv
<1>7. CASE flow[i].task \notin Live
  <2>1. queue' = queue
    BY <1>2, <1>7
  <2>2. UdpShape' /\ QueuesFit'
    BY <1>2, <1>3, <1>4, <2>1 DEF UdpShape, QueuesFit
  <2>3. Uncut'
    BY <1>2, <2>1, CountStep
  <2> QED BY <1>5, <2>2, <2>3 DEF UdpInv
<1> QED BY <1>6, <1>7

LEMMA OpenSessionStep ==
  ASSUME UdpInv, NEW p \in Peers, NEW i \in Flows, OpenSession(p, i)
  PROVE  UdpInv'
<1>1. /\ flow[i].task = "new" /\ permits > 0 /\ count' = count + 1 /\ permits' = permits - 1
      /\ udpSessions' = [udpSessions EXCEPT ![p] = i]
      /\ flow' = [flow EXCEPT ![i] = [peer |-> p, task |-> "opening"]]
      /\ queue' = [queue EXCEPT ![i] = Offer(<<>>, count')]
      /\ UNCHANGED <<wire, hold, got, cut, localEnd>>
  BY DEF OpenSession
<1>2. UdpShape /\ QueuesFit /\ MappedIsOwn /\ UdpPermitsReturn /\ WireShape
  BY DEF UdpInv
<1>3. /\ udpSessions \in [Peers -> Flows \cup {NoFlow}] /\ flow \in [Flows -> FlowRecords]
      /\ permits \in Nat /\ count \in Nat
  BY <1>2 DEF UdpShape
<1>4. queue[i] = <<>>
  BY <1>1, <1>2 DEF QueuesFit, Live
<1>5. queue' = [queue EXCEPT ![i] = Offer(queue[i], count + 1)]
  BY <1>1, <1>4
<1>6. /\ queue' \in [Flows -> Seq(Nat)] /\ Uncut'
      /\ \A j \in Flows : Len(queue'[j]) <= MaxBuffered /\ (j # i => queue'[j] = queue[j])
  BY <1>1, <1>5, OfferStep
<1>7. PICK r : r = [peer |-> p, task |-> "opening"]
  OBVIOUS
<1>8. r \in FlowRecords /\ r.peer = p /\ r.task = "opening"
  BY <1>7 DEF FlowRecords, AnyPeer, Tasks
<1>9. flow' \in [Flows -> FlowRecords] /\ flow'[i] = r /\ \A j \in Flows : j # i => flow'[j] = flow[j]
  BY <1>1, <1>3, <1>7, <1>8
<1>10. /\ udpSessions' \in [Peers -> Flows \cup {NoFlow}] /\ udpSessions'[p] = i
       /\ \A q \in Peers : q # p => udpSessions'[q] = udpSessions[q]
  BY <1>1, <1>3
<1>11. permits' \in Nat /\ count' \in Nat
  BY <1>1, <1>3
<1>12. UdpShape'
  BY <1>1, <1>2, <1>6, <1>9, <1>10, <1>11 DEF UdpShape
<1>13. QueuesFit'
  BY <1>2, <1>6, <1>8, <1>9 DEF QueuesFit, Live
<1>14. MappedIsOwn'
  <2>1. ASSUME NEW q \in Peers, q # p, udpSessions[q] # NoFlow
        PROVE  udpSessions[q] \in Flows /\ udpSessions[q] # i
    BY <1>1, <1>2, <1>3, <2>1 DEF MappedIsOwn, Busy
  <2>2. ASSUME NEW q \in Peers, udpSessions'[q] # NoFlow
        PROVE  flow'[udpSessions'[q]].peer = q /\ flow'[udpSessions'[q]].task \in Busy
    <3>1. CASE q = p
      BY <1>8, <1>9, <1>10, <3>1 DEF Busy
    <3>2. CASE q # p
      BY <1>2, <1>9, <1>10, <2>1, <2>2, <3>2 DEF MappedIsOwn
    <3> QED BY <3>1, <3>2
  <2> QED BY <2>2 DEF MappedIsOwn
<1>15. UdpPermitsReturn'
  <2>1. PICK B : B = {j \in Flows : flow[j].task \in Busy}
    OBVIOUS
  <2>2. IsFiniteSet(B) /\ Cardinality(B) \in Nat /\ permits + Cardinality(B) = MaxFlows
    BY <1>2, <2>1, BusyIsFinite DEF BusyFlows, UdpPermitsReturn, Busy
  <2>3. {j \in Flows : flow'[j].task \in Busy} = B \cup {i}
    BY <1>8, <1>9, <2>1 DEF Busy
  <2>4. i \notin B
    BY <1>1, <2>1 DEF Busy
  <2>5. Cardinality(B \cup {i}) = Cardinality(B) + 1
    BY <2>2, <2>4, FS_AddElement
  <2>6. permits' + Cardinality(B \cup {i}) = MaxFlows
    BY <1>1, <1>3, <2>2, <2>5
  <2> QED BY <2>3, <2>6 DEF UdpPermitsReturn, Busy
<1>16. WireShape'
  BY <1>1, <1>2 DEF WireShape
<1> QED BY <1>6, <1>12, <1>13, <1>14, <1>15, <1>16 DEF UdpInv

LEMMA ReapStep ==
  ASSUME UdpInv, Reap
  PROVE  UdpInv'
<1>1. /\ udpSessions' = [p \in Peers |-> IF udpSessions[p] # NoFlow /\ flow[udpSessions[p]].task \in Live
                                         THEN udpSessions[p] ELSE NoFlow]
      /\ UNCHANGED <<flow, queue, wire, hold, got, cut, localEnd, permits, count>>
  BY DEF Reap
<1>2. UdpShape /\ QueuesFit /\ MappedIsOwn /\ UdpPermitsReturn /\ WireShape /\ Uncut
  BY DEF UdpInv
<1>3. /\ udpSessions' \in [Peers -> Flows \cup {NoFlow}]
      /\ \A p \in Peers : udpSessions'[p] # NoFlow => udpSessions'[p] = udpSessions[p]
  BY <1>1, <1>2 DEF UdpShape
<1>4. UdpShape' /\ QueuesFit' /\ MappedIsOwn'
  BY <1>1, <1>2, <1>3 DEF UdpShape, QueuesFit, MappedIsOwn
<1>5. UdpPermitsReturn' /\ WireShape'
  BY <1>1, <1>2 DEF UdpPermitsReturn, WireShape
<1>6. Uncut'
  BY <1>1, <1>2 DEF Uncut, Waiting
<1> QED BY <1>4, <1>5, <1>6 DEF UdpInv

LEMMA StreamOpenedStep ==
  ASSUME UdpInv, NEW i \in Flows, StreamOpened(i)
  PROVE  UdpInv'
<1>1. /\ flow[i].task = "opening" /\ flow' = SetTask(flow, i, "bridging")
      /\ localEnd' = [localEnd EXCEPT ![i] = "bridging"]
      /\ UNCHANGED <<udpSessions, queue, wire, hold, got, cut, permits, count>>
  BY DEF StreamOpened, SetTask
<1>2. UdpShape /\ QueuesFit /\ MappedIsOwn /\ UdpPermitsReturn /\ WireShape /\ Uncut
  BY DEF UdpInv
<1>3. flow \in [Flows -> FlowRecords] /\ localEnd \in [Flows -> {"none", "bridging", "ended"}] /\ "bridging" \in Tasks
      /\ udpSessions \in [Peers -> Flows \cup {NoFlow}]
  BY <1>2 DEF UdpShape, Tasks
<1>4. /\ flow' \in [Flows -> FlowRecords] /\ flow'[i].task = "bridging" /\ flow'[i].peer = flow[i].peer
      /\ \A j \in Flows : j # i => flow'[j] = flow[j]
  BY <1>1, <1>3, TaskSet
<1>5. localEnd' \in [Flows -> {"none", "bridging", "ended"}]
  BY <1>1, <1>3
<1>6. UdpShape'
  BY <1>1, <1>2, <1>4, <1>5 DEF UdpShape
<1>7. QueuesFit'
  BY <1>1, <1>2, <1>4 DEF QueuesFit, Live
<1>8. MappedIsOwn'
  BY <1>1, <1>2, <1>3, <1>4 DEF MappedIsOwn, Busy
<1>9. UdpPermitsReturn'
  BY <1>1, <1>2, <1>4, BusySame DEF Busy
<1>10. WireShape' /\ Uncut'
  BY <1>1, <1>2 DEF WireShape, Uncut, Waiting
<1> QED BY <1>6, <1>7, <1>8, <1>9, <1>10 DEF UdpInv

LEMMA EdgeLeavesStep ==
  ASSUME UdpInv, NEW i \in Flows, EdgeLeaves(i)
  PROVE  UdpInv'
<1>1. /\ flow[i].task \in Live /\ flow' = SetTask(flow, i, "returned")
      /\ queue' = [queue EXCEPT ![i] = <<>>]
      /\ UNCHANGED <<udpSessions, wire, hold, got, cut, localEnd, permits, count>>
  BY DEF EdgeLeaves, SetTask
<1>2. UdpShape /\ QueuesFit /\ MappedIsOwn /\ UdpPermitsReturn /\ WireShape /\ Uncut
  BY DEF UdpInv
<1>3. flow \in [Flows -> FlowRecords] /\ queue \in [Flows -> Seq(Nat)] /\ "returned" \in Tasks
      /\ udpSessions \in [Peers -> Flows \cup {NoFlow}]
  BY <1>2 DEF UdpShape, Tasks
<1>4. /\ flow' \in [Flows -> FlowRecords] /\ flow'[i].task = "returned" /\ flow'[i].peer = flow[i].peer
      /\ \A j \in Flows : j # i => flow'[j] = flow[j]
  BY <1>1, <1>3, TaskSet
<1>5. queue' \in [Flows -> Seq(Nat)] /\ queue'[i] = <<>> /\ \A j \in Flows : j # i => queue'[j] = queue[j]
  BY <1>1, <1>3
<1>6. UdpShape'
  BY <1>1, <1>2, <1>4, <1>5 DEF UdpShape
<1>7. QueuesFit'
  <2>1. Len(queue'[i]) <= MaxBuffered
    BY <1>5, UdpBounds
  <2> QED BY <1>2, <1>4, <1>5, <2>1 DEF QueuesFit
<1>8. MappedIsOwn'
  BY <1>1, <1>2, <1>3, <1>4 DEF MappedIsOwn, Busy
<1>9. UdpPermitsReturn'
  BY <1>1, <1>2, <1>4, BusySame DEF Busy, Live
<1>10. WireShape'
  BY <1>1, <1>2 DEF WireShape
<1>11. Uncut'
  <2>1. ASSUME NEW j \in Flows, NEW e \in Ends, ~cut'[j][e]
        PROVE  \E n \in Seq(Nat) : Carries(n, got'[j][e], hold'[j][e] \o wire'[j][e],
                                           IF e = "client" THEN queue'[j] ELSE <<>>, count')
    <3>1. PICK q : q = IF e = "client" THEN queue[j] ELSE <<>>
      OBVIOUS
    <3>2. PICK s : s = hold[j][e] \o wire[j][e]
      OBVIOUS
    <3>3. PICK n \in Seq(Nat) : Carries(n, got[j][e], s, q, count)
      BY <1>1, <2>1, <3>1, <3>2, UncutAt
    <3>4. q \in Seq(Nat) /\ count \in Nat /\ Len(got[j][e]) \in Nat
      BY <3>1, EndShape
    <3>5. \E k \in Seq(Nat) : Carries(k, got[j][e], s, <<>>, count)
      BY <3>3, <3>4, CarryDropped
    <3>6. (IF e = "client" THEN queue'[j] ELSE <<>>) \in {q, <<>>}
      BY <1>5, <3>1
    <3> QED BY <1>1, <3>2, <3>3, <3>5, <3>6
  <2> QED BY <2>1, UncutNext
<1> QED BY <1>6, <1>7, <1>8, <1>9, <1>10, <1>11 DEF UdpInv

LEMMA EndTaskStep ==
  ASSUME UdpInv, NEW i \in Flows, EndTask(i)
  PROVE  UdpInv'
<1>1. /\ flow[i].task = "returned" /\ flow' = SetTask(flow, i, "ended")
      /\ udpSessions' = [udpSessions EXCEPT ![flow[i].peer] = NoFlow] /\ permits' = permits + 1
      /\ UNCHANGED <<queue, wire, hold, got, cut, localEnd, count>>
  BY DEF EndTask, SetTask
<1>2. UdpShape /\ QueuesFit /\ MappedIsOwn /\ UdpPermitsReturn /\ WireShape /\ Uncut
  BY DEF UdpInv
<1>3. /\ flow \in [Flows -> FlowRecords] /\ "ended" \in Tasks /\ permits \in Nat
      /\ udpSessions \in [Peers -> Flows \cup {NoFlow}]
  BY <1>2 DEF UdpShape, Tasks
<1>4. /\ flow' \in [Flows -> FlowRecords] /\ flow'[i].task = "ended"
      /\ \A j \in Flows : j # i => flow'[j] = flow[j]
  BY <1>1, <1>3, TaskSet
<1>5. /\ udpSessions' \in [Peers -> Flows \cup {NoFlow}]
      /\ \A p \in Peers : udpSessions'[p] # NoFlow => udpSessions'[p] = udpSessions[p] /\ p # flow[i].peer
  BY <1>1, <1>3
<1>6. UdpShape'
  BY <1>1, <1>2, <1>3, <1>4, <1>5 DEF UdpShape
<1>7. QueuesFit'
  BY <1>1, <1>2, <1>4 DEF QueuesFit, Live
<1>8. MappedIsOwn'
  <2>1. ASSUME NEW p \in Peers, udpSessions'[p] # NoFlow
        PROVE  flow'[udpSessions'[p]].peer = p /\ flow'[udpSessions'[p]].task \in Busy
    <3>1. /\ udpSessions'[p] = udpSessions[p] /\ udpSessions[p] \in Flows
          /\ flow[udpSessions[p]].peer = p /\ flow[udpSessions[p]].task \in Busy /\ p # flow[i].peer
      BY <1>2, <1>3, <1>5, <2>1 DEF MappedIsOwn
    <3>2. udpSessions[p] # i
      BY <3>1
    <3> QED BY <1>4, <3>1, <3>2
  <2> QED BY <2>1 DEF MappedIsOwn
<1>9. UdpPermitsReturn'
  <2>1. PICK B : B = {j \in Flows : flow[j].task \in Busy}
    OBVIOUS
  <2>2. IsFiniteSet(B) /\ Cardinality(B) \in Nat /\ permits + Cardinality(B) = MaxFlows
    BY <1>2, <2>1, BusyIsFinite DEF BusyFlows, UdpPermitsReturn, Busy
  <2>3. {j \in Flows : flow'[j].task \in Busy} = B \ {i}
    BY <1>4, <2>1 DEF Busy
  <2>4. i \in B
    BY <1>1, <2>1 DEF Busy
  <2>5. Cardinality(B \ {i}) = Cardinality(B) - 1
    BY <2>2, <2>4, FS_RemoveElement
  <2>6. permits' + Cardinality(B \ {i}) = MaxFlows
    BY <1>1, <1>3, <2>2, <2>5
  <2> QED BY <2>3, <2>6 DEF UdpPermitsReturn, Busy
<1>10. WireShape' /\ Uncut'
  BY <1>1, <1>2 DEF WireShape, Uncut, Waiting
<1> QED BY <1>6, <1>7, <1>8, <1>9, <1>10 DEF UdpInv

LEMMA ClientLeavesStep ==
  ASSUME UdpInv, NEW i \in Flows, ClientLeaves(i)
  PROVE  UdpInv'
<1>1. /\ localEnd' = [localEnd EXCEPT ![i] = "ended"]
      /\ UNCHANGED <<udpSessions, flow, queue, wire, hold, got, cut, permits, count>>
  BY DEF ClientLeaves
<1>2. UdpShape /\ QueuesFit /\ MappedIsOwn /\ UdpPermitsReturn /\ WireShape /\ Uncut
  BY DEF UdpInv
<1>3. UdpShape'
  BY <1>1, <1>2 DEF UdpShape
<1>4. QueuesFit' /\ MappedIsOwn' /\ UdpPermitsReturn'
  BY <1>1, <1>2 DEF QueuesFit, MappedIsOwn, UdpPermitsReturn
<1>5. WireShape' /\ Uncut'
  BY <1>1, <1>2 DEF WireShape, Uncut, Waiting
<1> QED BY <1>3, <1>4, <1>5 DEF UdpInv

\* The datagram arm of one end: the other end has a frame more to read, and
\* this end has lost what it held.
LEMMA WriteShape ==
  ASSUME UdpInv, NEW i \in Flows, NEW e \in Ends, NEW d \in Nat, WriteFrame(i, e, d), got' = got
  PROVE  /\ WireShape'
         /\ wire'[i][Other(e)] = wire[i][Other(e)] \o WireFrame(d)
         /\ \A j \in Flows, k \in Ends : j # i \/ k # Other(e) => wire'[j][k] = wire[j][k]
         /\ \A j \in Flows, k \in Ends : j # i \/ k # e => hold'[j][k] = hold[j][k] /\ cut'[j][k] = cut[j][k]
         /\ ~cut'[i][e] => ~cut[i][e] /\ hold'[i][e] = hold[i][e]
<1>1. PICK o : o = Other(e)
  OBVIOUS
<1>2. o \in Ends /\ o # e
  BY <1>1, EndsDiffer
<1>3. /\ wire \in PerEnd(Seq(Token)) /\ hold \in PerEnd(Seq(Token)) /\ got \in PerEnd(Seq(Token \X Token))
      /\ cut \in PerEnd(Bits) /\ \A j \in Flows, k \in Ends : Len(hold[j][k]) <= 1
  BY DEF UdpInv, WireShape
<1>4. PICK w : w = wire[i][o] \o WireFrame(d)
  OBVIOUS
<1>5. WireFrame(d) \in Seq(Token)
  BY FrameTokens
<1>6. wire[i][o] \in Seq(Token)
  BY <1>2, EndShape
<1>7. w \in Seq(Token)
  BY <1>4, <1>5, <1>6
<1>8. PICK b \in Bits : b = (cut[i][e] \/ hold[i][e] # <<>>)
  BY DEF Bits
<1>9. wire' = Put(wire, i, o, w) /\ hold' = Put(hold, i, e, <<>>) /\ cut' = Put(cut, i, e, b)
  BY <1>1, <1>4, <1>8 DEF WriteFrame, Put
<1>10. PICK T : T = Seq(Token)
  OBVIOUS
<1>11. <<>> \in T /\ w \in T /\ wire \in PerEnd(T) /\ hold \in PerEnd(T)
  BY <1>3, <1>7, <1>10
<1>12. /\ wire' \in PerEnd(T) /\ wire'[i][o] = w
       /\ \A j \in Flows, k \in Ends : j # i \/ k # o => wire'[j][k] = wire[j][k]
  <2>1. wire' = Put(wire, i, o, w) /\ o \in Ends /\ w \in T /\ wire \in PerEnd(T)
    BY <1>2, <1>9, <1>11
  <2> QED BY <2>1, FrameSet
<1>13. /\ hold' \in PerEnd(T) /\ hold'[i][e] = <<>>
       /\ \A j \in Flows, k \in Ends : j # i \/ k # e => hold'[j][k] = hold[j][k]
  BY <1>9, <1>11, FrameSet
<1>14. /\ cut' \in PerEnd(Bits) /\ cut'[i][e] = b
       /\ \A j \in Flows, k \in Ends : j # i \/ k # e => cut'[j][k] = cut[j][k]
  BY <1>3, <1>8, <1>9, FrameSet
<1>15. PICK z : z = <<>> /\ Len(z) <= 1
  OBVIOUS
<1>16. \A j \in Flows, k \in Ends : Len(hold'[j][k]) <= 1
  BY <1>3, <1>13, <1>15
<1>17. WireShape'
  BY <1>3, <1>10, <1>12, <1>13, <1>14, <1>16 DEF WireShape
<1>18. ~cut'[i][e] => ~cut[i][e] /\ hold'[i][e] = hold[i][e]
  BY <1>8, <1>13, <1>14
<1> QED BY <1>1, <1>4, <1>12, <1>13, <1>14, <1>17, <1>18

LEMMA EdgeSendsStep ==
  ASSUME UdpInv, NEW i \in Flows, EdgeSends(i)
  PROVE  UdpInv'
<1>1. PICK d : d = Head(queue[i])
  OBVIOUS
<1>2. /\ flow[i].task = "bridging" /\ queue[i] # <<>> /\ queue' = [queue EXCEPT ![i] = Tail(queue[i])]
      /\ WriteFrame(i, "edge", d)
      /\ UNCHANGED <<udpSessions, flow, got, localEnd, permits, count>>
  BY <1>1 DEF EdgeSends, Bridging
<1>3. UdpShape /\ QueuesFit /\ MappedIsOwn /\ UdpPermitsReturn
  BY DEF UdpInv
<1>4. queue \in [Flows -> Seq(Nat)] /\ queue[i] \in Seq(Nat) /\ count \in Nat
  BY <1>3 DEF UdpShape
<1>5. PICK t : t = Tail(queue[i])
  OBVIOUS
<1>6. d \in Nat /\ t \in Seq(Nat) /\ Len(t) = Len(queue[i]) - 1 /\ Len(queue[i]) \in Nat
  BY <1>1, <1>2, <1>4, <1>5
<1>7. Len(t) <= MaxBuffered
  <2>1. Len(queue[i]) <= MaxBuffered
    BY <1>3 DEF QueuesFit
  <2> QED BY <1>6, <2>1, UdpBounds
<1>8. queue' \in [Flows -> Seq(Nat)] /\ queue'[i] = t /\ \A j \in Flows : j # i => queue'[j] = queue[j]
  BY <1>2, <1>4, <1>5, <1>6
<1>9. UdpShape' /\ MappedIsOwn' /\ UdpPermitsReturn'
  BY <1>2, <1>3, <1>8 DEF UdpShape, MappedIsOwn, UdpPermitsReturn
<1>10. QueuesFit'
  BY <1>2, <1>3, <1>7, <1>8 DEF QueuesFit, Live
<1>11. "edge" \in Ends /\ "client" \in Ends /\ Other("edge") = "client" /\ \A e \in Ends : e = "edge" \/ e = "client"
  BY DEF Ends, Other
<1>12. /\ WireShape'
       /\ wire'[i]["client"] = wire[i]["client"] \o WireFrame(d)
       /\ \A j \in Flows, k \in Ends : j # i \/ k # "client" => wire'[j][k] = wire[j][k]
       /\ \A j \in Flows, k \in Ends : j # i \/ k # "edge" => hold'[j][k] = hold[j][k] /\ cut'[j][k] = cut[j][k]
       /\ ~cut'[i]["edge"] => ~cut[i]["edge"] /\ hold'[i]["edge"] = hold[i]["edge"]
  <2>1. /\ WireShape'
        /\ wire'[i][Other("edge")] = wire[i][Other("edge")] \o WireFrame(d)
        /\ \A j \in Flows, k \in Ends : j # i \/ k # Other("edge") => wire'[j][k] = wire[j][k]
        /\ \A j \in Flows, k \in Ends : j # i \/ k # "edge" => hold'[j][k] = hold[j][k] /\ cut'[j][k] = cut[j][k]
        /\ ~cut'[i]["edge"] => ~cut[i]["edge"] /\ hold'[i]["edge"] = hold[i]["edge"]
    BY <1>2, <1>6, <1>11, WriteShape, Zenon
  <2> QED BY <1>11, <2>1
<1>13. Uncut'
  <2>1. ASSUME NEW j \in Flows, NEW e \in Ends, ~cut'[j][e]
        PROVE  \E n \in Seq(Nat) : Carries(n, got'[j][e], hold'[j][e] \o wire'[j][e],
                                           IF e = "client" THEN queue'[j] ELSE <<>>, count')
    <3>1. PICK q : q = IF e = "client" THEN queue[j] ELSE <<>>
      OBVIOUS
    <3>2. PICK s : s = hold[j][e] \o wire[j][e]
      OBVIOUS
    <3>3. ~cut[j][e] /\ hold'[j][e] = hold[j][e]
      BY <1>11, <1>12, <2>1
    <3>4. PICK n \in Seq(Nat) : Carries(n, got[j][e], s, q, count)
      BY <3>1, <3>2, <3>3, UncutAt
    <3>5. CASE j = i /\ e = "client"
      <4>1. /\ hold[j][e] \in Seq(Token) /\ wire[j][e] \in Seq(Token) /\ Len(got[j][e]) \in Nat
            /\ q = queue[i]
        BY <3>1, <3>5, EndShape
      <4>2. s \in Seq(Token)
        BY <3>2, <4>1
      <4>3. Carries(n, got[j][e], s \o WireFrame(d), t, count)
        BY <1>1, <1>2, <1>4, <1>5, <3>4, <4>1, <4>2, CarryFramed
      <4>4. WireFrame(d) \in Seq(Token)
        BY <1>6, FrameTokens
      <4>5. s \o WireFrame(d) = hold[j][e] \o (wire[j][e] \o WireFrame(d))
        BY <3>2, <4>1, <4>4, TokensAssociative
      <4>6. hold'[j][e] \o wire'[j][e] = s \o WireFrame(d)
        BY <1>12, <3>3, <3>5, <4>5
      <4> QED BY <1>2, <1>8, <3>5, <4>3, <4>6
    <3>6. CASE ~(j = i /\ e = "client")
      <4>1. wire'[j][e] = wire[j][e] /\ (IF e = "client" THEN queue'[j] ELSE <<>>) = q
        BY <1>8, <1>12, <3>1, <3>6
      <4> QED BY <1>2, <3>2, <3>3, <3>4, <4>1
    <3> QED BY <3>5, <3>6
  <2> QED BY <2>1, UncutNext
<1> QED BY <1>9, <1>10, <1>12, <1>13 DEF UdpInv

LEMMA ClientSendsStep ==
  ASSUME UdpInv, NEW i \in Flows, ClientSends(i)
  PROVE  UdpInv'
<1>1. PICK d : d = count + 1
  OBVIOUS
<1>2. /\ count' = d /\ WriteFrame(i, "client", d)
      /\ UNCHANGED <<udpSessions, flow, queue, got, localEnd, permits>>
  BY <1>1 DEF ClientSends
<1>3. UdpShape /\ QueuesFit /\ MappedIsOwn /\ UdpPermitsReturn
  BY DEF UdpInv
<1>4. count \in Nat /\ d \in Nat /\ count <= d
  BY <1>1, <1>3 DEF UdpShape
<1>5. UdpShape' /\ QueuesFit' /\ MappedIsOwn' /\ UdpPermitsReturn'
  BY <1>2, <1>3, <1>4 DEF UdpShape, QueuesFit, MappedIsOwn, UdpPermitsReturn
<1>6. "edge" \in Ends /\ "client" \in Ends /\ Other("client") = "edge" /\ \A e \in Ends : e = "edge" \/ e = "client"
  BY DEF Ends, Other
<1>7. /\ WireShape'
      /\ wire'[i]["edge"] = wire[i]["edge"] \o WireFrame(d)
      /\ \A j \in Flows, k \in Ends : j # i \/ k # "edge" => wire'[j][k] = wire[j][k]
      /\ \A j \in Flows, k \in Ends : j # i \/ k # "client" => hold'[j][k] = hold[j][k] /\ cut'[j][k] = cut[j][k]
      /\ ~cut'[i]["client"] => ~cut[i]["client"] /\ hold'[i]["client"] = hold[i]["client"]
  <2>1. /\ WireShape'
        /\ wire'[i][Other("client")] = wire[i][Other("client")] \o WireFrame(d)
        /\ \A j \in Flows, k \in Ends : j # i \/ k # Other("client") => wire'[j][k] = wire[j][k]
        /\ \A j \in Flows, k \in Ends : j # i \/ k # "client" => hold'[j][k] = hold[j][k] /\ cut'[j][k] = cut[j][k]
        /\ ~cut'[i]["client"] => ~cut[i]["client"] /\ hold'[i]["client"] = hold[i]["client"]
    BY <1>2, <1>4, <1>6, WriteShape, Zenon
  <2> QED BY <1>6, <2>1
<1>8. Uncut'
  <2>1. ASSUME NEW j \in Flows, NEW e \in Ends, ~cut'[j][e]
        PROVE  \E n \in Seq(Nat) : Carries(n, got'[j][e], hold'[j][e] \o wire'[j][e],
                                           IF e = "client" THEN queue'[j] ELSE <<>>, count')
    <3>1. PICK q : q = IF e = "client" THEN queue[j] ELSE <<>>
      OBVIOUS
    <3>2. PICK s : s = hold[j][e] \o wire[j][e]
      OBVIOUS
    <3>3. ~cut[j][e] /\ hold'[j][e] = hold[j][e]
      BY <1>6, <1>7, <2>1
    <3>4. PICK n \in Seq(Nat) : Carries(n, got[j][e], s, q, count)
      BY <3>1, <3>2, <3>3, UncutAt
    <3>5. /\ hold[j][e] \in Seq(Token) /\ wire[j][e] \in Seq(Token) /\ Len(got[j][e]) \in Nat
      BY EndShape
    <3>6. CASE j = i /\ e = "edge"
      <4>1. s \in Seq(Token)
        BY <3>2, <3>5
      <4>2. q = <<>>
        BY <3>1, <3>6
      <4>3. PICK k \in Seq(Nat) : Carries(k, got[j][e], s \o WireFrame(count + 1), <<>>, count + 1)
        BY <1>4, <3>4, <3>5, <4>1, <4>2, CarryWritten
      <4>4. WireFrame(d) \in Seq(Token)
        BY <1>4, FrameTokens
      <4>5. s \o WireFrame(d) = hold[j][e] \o (wire[j][e] \o WireFrame(d))
        BY <3>2, <3>5, <4>4, TokensAssociative
      <4>6. hold'[j][e] \o wire'[j][e] = s \o WireFrame(d)
        BY <1>7, <3>3, <3>6, <4>5
      <4> QED BY <1>1, <1>2, <3>6, <4>3, <4>6
    <3>7. CASE ~(j = i /\ e = "edge")
      <4>1. wire'[j][e] = wire[j][e]
        BY <1>7, <3>7
      <4>2. Carries(n, got[j][e], s, q, d)
        BY <1>4, <3>4, CarryLater
      <4> QED BY <1>2, <3>1, <3>2, <3>3, <4>1, <4>2
    <3> QED BY <3>6, <3>7
  <2> QED BY <2>1, UncutNext
<1> QED BY <1>5, <1>7, <1>8 DEF UdpInv

LEMMA ReadLengthStep ==
  ASSUME UdpInv, NEW i \in Flows, NEW e \in Ends, ReadLength(i, e)
  PROVE  UdpInv'
<1>1. PICK h : h = <<Head(wire[i][e])>>
  OBVIOUS
<1>2. PICK t : t = Tail(wire[i][e])
  OBVIOUS
<1>3. /\ hold[i][e] = <<>> /\ wire[i][e] # <<>> /\ hold' = Put(hold, i, e, h) /\ wire' = Put(wire, i, e, t)
      /\ UNCHANGED <<udpSessions, flow, queue, got, cut, localEnd, permits, count>>
  BY <1>1, <1>2 DEF ReadLength, Put
<1>4. UdpShape /\ QueuesFit /\ MappedIsOwn /\ UdpPermitsReturn /\ WireShape /\ Uncut
  BY DEF UdpInv
<1>5. UdpShape' /\ QueuesFit' /\ MappedIsOwn' /\ UdpPermitsReturn'
  BY <1>3, <1>4 DEF UdpShape, QueuesFit, MappedIsOwn, UdpPermitsReturn
<1>6. wire[i][e] \in Seq(Token)
  BY EndShape
<1>7. PICK w \in Seq(Token) : w = wire[i][e]
  BY <1>6
<1>8. h = <<Head(w)>> /\ t = Tail(w) /\ w # <<>>
  BY <1>1, <1>2, <1>3, <1>7
<1>9. h \in Seq(Token) /\ Len(h) = 1 /\ t \in Seq(Token)
  BY <1>8
<1>10. h \o t = <<>> \o w
  BY <1>8, <1>9
<1>11. PICK T : T = Seq(Token)
  OBVIOUS
<1>12. hold \in PerEnd(T) /\ wire \in PerEnd(T) /\ h \in T /\ t \in T
  BY <1>4, <1>9, <1>11 DEF WireShape
<1>13. /\ hold' \in PerEnd(T) /\ hold'[i][e] = h
       /\ \A j \in Flows, k \in Ends : j # i \/ k # e => hold'[j][k] = hold[j][k]
  BY <1>3, <1>12, FrameSet
<1>14. /\ wire' \in PerEnd(T) /\ wire'[i][e] = t
       /\ \A j \in Flows, k \in Ends : j # i \/ k # e => wire'[j][k] = wire[j][k]
  BY <1>3, <1>12, FrameSet
<1>15. \A j \in Flows, k \in Ends : Len(hold'[j][k]) <= 1
  <2>1. Len(h) <= 1
    BY <1>9
  <2> QED BY <1>4, <1>13, <2>1 DEF WireShape
<1>16. WireShape'
  BY <1>3, <1>4, <1>11, <1>13, <1>14, <1>15 DEF WireShape
<1>17. \A j \in Flows, k \in Ends : hold'[j][k] \o wire'[j][k] = hold[j][k] \o wire[j][k]
  BY <1>3, <1>7, <1>10, <1>13, <1>14
<1>18. Uncut'
  <2>1. ASSUME NEW j \in Flows, NEW k \in Ends, ~cut'[j][k]
        PROVE  \E n \in Seq(Nat) : Carries(n, got'[j][k], hold'[j][k] \o wire'[j][k],
                                           IF k = "client" THEN queue'[j] ELSE <<>>, count')
    BY <1>3, <1>17, <2>1, UncutAt
  <2> QED BY <2>1, UncutNext
<1> QED BY <1>5, <1>16, <1>18 DEF UdpInv

LEMMA ReadPayloadStep ==
  ASSUME UdpInv, NEW i \in Flows, NEW e \in Ends, ReadPayload(i, e)
  PROVE  UdpInv'
<1>1. PICK y : y = <<hold[i][e][1], Head(wire[i][e])>>
  OBVIOUS
<1>2. PICK a : a = Append(got[i][e], y)
  OBVIOUS
<1>3. PICK t : t = Tail(wire[i][e])
  OBVIOUS
<1>4. /\ hold[i][e] # <<>> /\ wire[i][e] # <<>>
      /\ got' = Put(got, i, e, a) /\ hold' = Put(hold, i, e, <<>>) /\ wire' = Put(wire, i, e, t)
      /\ UNCHANGED <<udpSessions, flow, queue, cut, localEnd, permits, count>>
  BY <1>1, <1>2, <1>3 DEF ReadPayload, Put
<1>5. UdpShape /\ QueuesFit /\ MappedIsOwn /\ UdpPermitsReturn /\ WireShape /\ Uncut
  BY DEF UdpInv
<1>6. UdpShape' /\ QueuesFit' /\ MappedIsOwn' /\ UdpPermitsReturn'
  BY <1>4, <1>5 DEF UdpShape, QueuesFit, MappedIsOwn, UdpPermitsReturn
<1>7. /\ wire[i][e] \in Seq(Token) /\ hold[i][e] \in Seq(Token) /\ Len(hold[i][e]) <= 1
      /\ got[i][e] \in Seq(Token \X Token) /\ count \in Nat
  BY EndShape
<1>8. PICK w \in Seq(Token) : w = wire[i][e]
  BY <1>7
<1>9. PICK h \in Seq(Token) : h = hold[i][e]
  BY <1>7
<1>10. h # <<>> /\ Len(h) = 1 /\ h[1] \in Token /\ h = <<h[1]>>
  <2>1. h # <<>> /\ Len(h) <= 1
    BY <1>4, <1>7, <1>9
  <2> QED BY <2>1, OneToken
<1>11. w # <<>> /\ Head(w) \in Token /\ t = Tail(w) /\ t \in Seq(Token)
  BY <1>3, <1>4, <1>8
<1>12. PICK x \in Token : x = h[1]
  BY <1>10
<1>13. y = <<x, Head(w)>> /\ y \in Token \X Token /\ hold[i][e] = <<x>>
  BY <1>1, <1>8, <1>9, <1>10, <1>11, <1>12
<1>14. PICK P : P = Token \X Token
  OBVIOUS
<1>15. PICK g \in Seq(P) : g = got[i][e]
  BY <1>7, <1>14
<1>16. a = Append(g, y) /\ a \in Seq(P)
  BY <1>2, <1>13, <1>14, <1>15
<1>17. PICK T : T = Seq(Token)
  OBVIOUS
<1>18. PICK U : U = Seq(P)
  OBVIOUS
<1>19. hold \in PerEnd(T) /\ wire \in PerEnd(T) /\ <<>> \in T /\ t \in T /\ got \in PerEnd(U) /\ a \in U
  BY <1>5, <1>11, <1>14, <1>16, <1>17, <1>18 DEF WireShape
<1>20. /\ hold' \in PerEnd(T) /\ hold'[i][e] = <<>>
       /\ \A j \in Flows, k \in Ends : j # i \/ k # e => hold'[j][k] = hold[j][k]
  BY <1>4, <1>19, FrameSet
<1>21. /\ wire' \in PerEnd(T) /\ wire'[i][e] = t
       /\ \A j \in Flows, k \in Ends : j # i \/ k # e => wire'[j][k] = wire[j][k]
  BY <1>4, <1>19, FrameSet
<1>22. /\ got' \in PerEnd(U) /\ got'[i][e] = a
       /\ \A j \in Flows, k \in Ends : j # i \/ k # e => got'[j][k] = got[j][k]
  BY <1>4, <1>19, FrameSet
<1>23. PICK z : z = <<>> /\ Len(z) <= 1
  OBVIOUS
<1>24. \A j \in Flows, k \in Ends : Len(hold'[j][k]) <= 1
  BY <1>5, <1>20, <1>23 DEF WireShape
<1>25. WireShape'
  BY <1>4, <1>5, <1>14, <1>17, <1>18, <1>20, <1>21, <1>22, <1>24 DEF WireShape
<1>26. Uncut'
  <2>1. ASSUME NEW j \in Flows, NEW k \in Ends, ~cut'[j][k]
        PROVE  \E n \in Seq(Nat) : Carries(n, got'[j][k], hold'[j][k] \o wire'[j][k],
                                           IF k = "client" THEN queue'[j] ELSE <<>>, count')
    <3>1. PICK q : q = IF k = "client" THEN queue[j] ELSE <<>>
      OBVIOUS
    <3>2. PICK n \in Seq(Nat) : Carries(n, got[j][k], hold[j][k] \o wire[j][k], q, count)
      BY <1>4, <2>1, <3>1, UncutAt
    <3>3. CASE j = i /\ k = e
      <4>1. q \in Seq(Nat)
        BY <3>1, EndShape
      <4>2. Carries(n, g, <<x>> \o w, q, count)
        BY <1>8, <1>13, <1>15, <3>2, <3>3
      <4>3. Carries(n, a, t, q, count)
        BY <1>7, <1>11, <1>13, <1>14, <1>15, <1>16, <4>1, <4>2, CarryRead
      <4>4. <<>> \o t = t
        BY <1>11
      <4> QED BY <1>4, <1>20, <1>21, <1>22, <3>1, <3>3, <4>3, <4>4
    <3>4. CASE ~(j = i /\ k = e)
      BY <1>4, <1>20, <1>21, <1>22, <3>1, <3>2, <3>4
    <3> QED BY <3>3, <3>4
  <2> QED BY <2>1, UncutNext
<1> QED BY <1>6, <1>25, <1>26 DEF UdpInv

-----------------------------------------------------------------------------
(* UdpBridge: the theorems *)

LEMMA CarryNone == Carries(<<>>, <<>>, <<>> \o <<>>, <<>>, 0) /\ <<>> \in Seq(Nat)
<1>1. PICK z : z = <<>> /\ Len(z) = 0
  OBVIOUS
<1>2. z \in Seq(Nat) /\ z \o z = z
  BY <1>1
<1>3. 0 \in Nat /\ Len(z) = 2 * 0 /\ Len(z) = Len(z) + 0 + Len(z)
  BY <1>1
<1>4. \A j \in 1 .. 0 : FALSE
  OBVIOUS
<1>5. Carries(z, z, z, z, 0)
  BY <1>1, <1>2, <1>3, <1>4 DEF Carries
<1> QED BY <1>1, <1>2, <1>5

\* What Carries says of the datagrams that are handed on.
LEMMA CarryIntact ==
  ASSUME NEW n, NEW g \in Seq(Token \X Token), NEW s, NEW q \in Seq(Nat), NEW c, Carries(n, g, s, q, c)
  PROVE  /\ \A j \in DOMAIN g : g[j][1] = [part |-> "length", of |-> g[j][2].of] /\ g[j][2].part = "payload"
         /\ \A j, k \in DOMAIN g : j < k => g[j][2].of < g[k][2].of
<1>1. PICK P : P = Token \X Token
  OBVIOUS
<1>2. g \in Seq(P)
  BY <1>1
<1>3. DOMAIN g = 1 .. Len(g) /\ Len(g) \in Nat
  BY <1>2
<1>4. \A j \in 1 .. Len(g) : g[j] = <<LengthOf(n[j]), PayloadOf(n[j])>>
  BY DEF Carries
<1>5. \A j \in 1 .. Len(g) : g[j][1] = LengthOf(n[j]) /\ g[j][2] = PayloadOf(n[j])
  BY <1>4
<1>6. \A j \in 1 .. Len(g) : g[j][2].of = n[j] /\ g[j][2].part = "payload"
  <2>1. \A d : PayloadOf(d).of = d /\ PayloadOf(d).part = "payload"
    BY DEF PayloadOf
  <2> QED BY <1>5, <2>1
<1>7. \A j \in 1 .. Len(g) : g[j][1] = [part |-> "length", of |-> n[j]]
  BY <1>5 DEF LengthOf
<1>8. Len(q) \in Nat /\ n \in Seq(Nat) /\ Len(n) \in Nat
  BY DEF Carries
<1>9. \E m \in Nat : Len(n) = Len(g) + m + Len(q)
  BY DEF Carries
<1>10. Len(g) <= Len(n)
  BY <1>3, <1>8, <1>9
<1>11. \A j \in 1 .. Len(g) : j \in 1 .. Len(n)
  BY <1>3, <1>8, <1>10
<1>12. \A j, k \in 1 .. Len(g) : j < k => n[j] < n[k]
  <2>1. \A j, k \in 1 .. Len(n) : j < k => n[j] < n[k]
    BY DEF Carries
  <2> QED BY <1>11, <2>1
<1> QED BY <1>3, <1>6, <1>7, <1>12

\* The inductive invariant holds in every reachable state, for any number of
\* peers, flows, permits and datagrams: a peer is mapped to a running task of its
\* own, and the stream to an end whose reads were never dropped carries whole
\* frames in order (port_listener, proxy_udp_session, proxy_udp_connection).
THEOREM UdpInvariant == UdpSpec => []UdpInv
<1>1. UdpInit => UdpInv
  <2> SUFFICES ASSUME UdpInit PROVE UdpInv
    OBVIOUS
  <2>1. /\ udpSessions = [p \in Peers |-> NoFlow]
        /\ flow = [i \in Flows |-> [peer |-> CHOOSE p \in Peers : TRUE, task |-> "new"]]
        /\ queue = [i \in Flows |-> <<>>] /\ wire = [i \in Flows |-> [e \in Ends |-> <<>>]]
        /\ hold = [i \in Flows |-> [e \in Ends |-> <<>>]] /\ got = [i \in Flows |-> [e \in Ends |-> <<>>]]
        /\ cut = [i \in Flows |-> [e \in Ends |-> FALSE]] /\ localEnd = [i \in Flows |-> "none"]
        /\ permits = MaxFlows /\ count = 0
    BY DEF UdpInit
  <2>2. PICK r : r = [peer |-> CHOOSE p \in Peers : TRUE, task |-> "new"]
    OBVIOUS
  <2>3. r \in FlowRecords /\ r.task = "new"
    BY <2>2 DEF FlowRecords, AnyPeer, Tasks
  <2>4. flow \in [Flows -> FlowRecords] /\ \A i \in Flows : flow[i].task = "new"
    BY <2>1, <2>2, <2>3
  <2>5. PICK z : z = <<>> /\ Len(z) = 0
    OBVIOUS
  <2>6. z \in Seq(Nat) /\ z \in Seq(Token) /\ z \in Seq(Token \X Token)
    BY <2>5
  <2>7. queue \in [Flows -> Seq(Nat)] /\ \A i \in Flows : queue[i] = z
    BY <2>1, <2>5, <2>6
  <2>8. UdpShape
    BY <2>1, <2>4, <2>7, UdpBounds DEF UdpShape
  <2>9. QueuesFit
    <3>1. Len(z) <= MaxBuffered
      BY <2>5, UdpBounds
    <3> QED BY <2>5, <2>7, <3>1 DEF QueuesFit
  <2>10. MappedIsOwn
    BY <2>1 DEF MappedIsOwn
  <2>11. UdpPermitsReturn
    <3>1. {i \in Flows : flow[i].task \in Busy} = {}
      BY <2>4 DEF Busy
    <3>2. Cardinality({}) = 0
      BY FS_EmptySet
    <3>3. permits + Cardinality({}) = MaxFlows
      BY <2>1, <3>2, UdpBounds
    <3> QED BY <3>1, <3>3 DEF UdpPermitsReturn, Busy
  <2>12. FALSE \in Bits
    BY DEF Bits
  <2>13. PICK U : U = Seq(Token \X Token)
    OBVIOUS
  <2>14. PICK T : T = Seq(Token)
    OBVIOUS
  <2>15. z \in T /\ z \in U
    BY <2>6, <2>13, <2>14
  <2>16. wire \in PerEnd(T) /\ hold \in PerEnd(T) /\ got \in PerEnd(U) /\ cut \in PerEnd(Bits)
    BY <2>1, <2>5, <2>12, <2>15 DEF PerEnd
  <2>17. \A i \in Flows, e \in Ends : wire[i][e] = z /\ hold[i][e] = z /\ got[i][e] = z
    BY <2>1, <2>5
  <2>18. Len(z) <= 1
    BY <2>5
  <2>19. WireShape
    BY <2>13, <2>14, <2>16, <2>17, <2>18 DEF WireShape
  <2>20. Uncut
    <3>1. Carries(z, z, z \o z, z, 0) /\ z \in Seq(Nat)
      BY <2>5, CarryNone
    <3>2. \A i \in Flows, e \in Ends : Waiting(i, e) = z
      BY <2>5, <2>7 DEF Waiting
    <3> QED BY <2>1, <2>17, <3>1, <3>2 DEF Uncut
  <2> QED BY <2>8, <2>9, <2>10, <2>11, <2>19, <2>20 DEF UdpInv
<1>2. UdpInv /\ [UdpNext]_udpVars => UdpInv'
  <2> SUFFICES ASSUME UdpInv, [UdpNext]_udpVars PROVE UdpInv'
    OBVIOUS
  <2>1. ASSUME NEW p \in Peers, Forward(p) PROVE UdpInv'
    BY <2>1, ForwardStep
  <2>2. ASSUME NEW p \in Peers, NEW i \in Flows, OpenSession(p, i) PROVE UdpInv'
    BY <2>2, OpenSessionStep
  <2>3. CASE Reap
    BY <2>3, ReapStep
  <2>4. ASSUME NEW i \in Flows, StreamOpened(i) PROVE UdpInv'
    BY <2>4, StreamOpenedStep
  <2>5. ASSUME NEW i \in Flows, EdgeLeaves(i) PROVE UdpInv'
    BY <2>5, EdgeLeavesStep
  <2>6. ASSUME NEW i \in Flows, EndTask(i) PROVE UdpInv'
    BY <2>6, EndTaskStep
  <2>7. ASSUME NEW i \in Flows, EdgeSends(i) PROVE UdpInv'
    BY <2>7, EdgeSendsStep
  <2>8. ASSUME NEW i \in Flows, ClientSends(i) PROVE UdpInv'
    BY <2>8, ClientSendsStep
  <2>9. ASSUME NEW i \in Flows, ClientLeaves(i) PROVE UdpInv'
    BY <2>9, ClientLeavesStep
  <2>10. ASSUME NEW i \in Flows, NEW e \in Ends, ReadLength(i, e) PROVE UdpInv'
    BY <2>10, ReadLengthStep
  <2>11. ASSUME NEW i \in Flows, NEW e \in Ends, ReadPayload(i, e) PROVE UdpInv'
    BY <2>11, ReadPayloadStep
  <2>12. CASE UNCHANGED udpVars
    <3>1. UNCHANGED <<udpSessions, flow, queue, wire, hold, got, cut, localEnd, permits, count>>
      BY <2>12 DEF udpVars
    <3>2. UdpShape /\ QueuesFit /\ MappedIsOwn /\ UdpPermitsReturn /\ WireShape /\ Uncut
      BY DEF UdpInv
    <3>3. UdpShape' /\ QueuesFit' /\ MappedIsOwn' /\ UdpPermitsReturn'
      BY <3>1, <3>2 DEF UdpShape, QueuesFit, MappedIsOwn, UdpPermitsReturn
    <3>4. WireShape' /\ Uncut'
      BY <3>1, <3>2 DEF WireShape, Uncut, Waiting
    <3> QED BY <3>3, <3>4 DEF UdpInv
  <2> QED BY <2>1, <2>2, <2>3, <2>4, <2>5, <2>6, <2>7, <2>8, <2>9, <2>10, <2>11, <2>12 DEF UdpNext
<1> QED BY <1>1, <1>2, PTL DEF UdpSpec

\* The listener's map, the session tasks and the semaphore's permits account for
\* each other: no permit is lost, no queue overflows and no peer stays mapped to
\* a task that has ended, however the tasks, the reaper and the listener
\* interleave (port_listener).
THEOREM SessionsStayAccounted == UdpSpec => []UdpSessionsAccounted
<1>1. UdpInv => UdpSessionsAccounted
  <2> SUFFICES ASSUME UdpInv PROVE UdpSessionsAccounted
    OBVIOUS
  <2>1. UdpShape /\ QueuesFit /\ MappedIsOwn /\ UdpPermitsReturn
    BY DEF UdpInv
  <2>2. \A i \in Flows : flow[i].task \in {"new", "opening", "bridging", "returned", "ended"}
    BY <2>1 DEF UdpShape, FlowRecords, Tasks
  <2>3. permits \in 0 .. MaxFlows
    <3>1. permits + Cardinality(BusyFlows) = MaxFlows /\ permits \in Nat
      BY <2>1 DEF UdpPermitsReturn, BusyFlows, Busy, UdpShape
    <3> QED BY <3>1, BusyIsFinite, UdpBounds
  <2>4. UdpTypeOK
    BY <2>1, <2>2, <2>3 DEF UdpTypeOK, UdpShape, QueuesFit
  <2>5. MappedTaskRuns
    BY <2>1 DEF MappedIsOwn, MappedTaskRuns, Busy
  <2> QED BY <2>1, <2>4, <2>5 DEF UdpSessionsAccounted
<1> QED BY <1>1, UdpInvariant, PTL

\* An end none of whose reads was dropped half way hands on whole datagrams, each
\* once and in the order in which they were framed (read_framed_datagram in the
\* two select! loops).
THEOREM UncutStaysIntact == UdpSpec => []IntactUnlessCut
<1>1. UdpInv => IntactUnlessCut
  <2> SUFFICES ASSUME UdpInv, NEW i \in Flows, NEW e \in Ends, ~cut[i][e]
               PROVE  /\ \A j \in DOMAIN got[i][e] :
                           /\ got[i][e][j][1] = [part |-> "length", of |-> got[i][e][j][2].of]
                           /\ got[i][e][j][2].part = "payload"
                      /\ \A j, k \in DOMAIN got[i][e] : j < k => got[i][e][j][2].of < got[i][e][k][2].of
    BY DEF IntactUnlessCut
  <2>1. PICK q : q = IF e = "client" THEN queue[i] ELSE <<>>
    OBVIOUS
  <2>2. q \in Seq(Nat) /\ got[i][e] \in Seq(Token \X Token)
    BY <2>1, EndShape
  <2>3. PICK g \in Seq(Token \X Token) : g = got[i][e]
    BY <2>2
  <2>4. PICK s : s = hold[i][e] \o wire[i][e]
    OBVIOUS
  <2>5. \E n \in Seq(Nat) : Carries(n, g, s, q, count)
    BY <2>1, <2>3, <2>4, UncutAt
  <2>6. /\ \A j \in DOMAIN g : g[j][1] = [part |-> "length", of |-> g[j][2].of] /\ g[j][2].part = "payload"
        /\ \A j, k \in DOMAIN g : j < k => g[j][2].of < g[k][2].of
    BY <2>2, <2>5, CarryIntact
  <2> QED BY <2>3, <2>6
<1> QED BY <1>1, UdpInvariant, PTL

-----------------------------------------------------------------------------
(* ClientSession: the inductive invariant *)

Has(q, k) == \E n \in 1 .. Len(q) : q[n].kind = k
Once(q, k) == \A m, n \in 1 .. Len(q) : q[m].kind = k /\ q[n].kind = k => m = n
AsksFor(q, i) == \A n \in 1 .. Len(q) : q[n].kind = "register" => q[n].tunnel = i

Active == client.pc \notin {"start", "exited"}

\* Attempts still to come have left no trace.
Unborn ==
  /\ Active => client.conn \in Attempts
  /\ \A s \in Attempts : s > client.conn => task[s] = "none" /\ toServer[s] = <<>> /\ toClient[s] = <<>>

\* A name belongs to a session whose main_loop has begun and whose cleanup has
\* not, and a connection is reset only by a session that is over.
OwnersRun == \A i \in Tunnels : owner[i] # 0 => task[owner[i]] \in {"loop", "cleanup"}
ResetIsLast == \A s \in Attempts : Has(toClient[s], "reset") => task[s] = "over"

\* The handshake of the client's connection, between a client at pc that has got
\* as far as tunnel next and a session task at t, with x and y under way: one
\* question is open at a time, and it is about the next tunnel.
Handshake(pc, next, t, x, y) ==
  /\ t # "none"
  /\ t \in {"auth", "authed"} => pc = "auth" /\ ~Has(y, "authok")
  /\ pc = "auth" => next = 1
  /\ pc = "answer" =>
       /\ next \in Tunnels
       /\ Once(x, "register") /\ Once(y, "registered") /\ AsksFor(x, next)
       /\ ~(Has(x, "register") /\ Has(y, "registered"))
  /\ pc # "answer" => ~Has(x, "register") /\ ~Has(y, "registered")
  /\ pc = "online" => next = NumTunnels + 1

InStep == Active => Handshake(client.pc, client.next, task[client.conn], toServer[client.conn], toClient[client.conn])

\* While its session runs, the client owns the names it has been promised, and
\* the one it is about to be.
Promised ==
  Active /\ task[client.conn] = "loop" =>
    /\ \A i \in Tunnels : i < client.next => owner[i] = client.conn
    /\ client.pc = "answer" /\ Has(toClient[client.conn], "registered") => owner[client.next] = client.conn

ClientRecords == [pc : ClientPCs, conn : 0 .. MaxAttempts, next : 1 .. (NumTunnels + 1), awaiting : Bits, exit : Exits]

SessionShape ==
  /\ client \in ClientRecords
  /\ link \in [Attempts -> {"none", "up", "cut"}]
  /\ toServer \in [Attempts -> Seq(Frames)]
  /\ toClient \in [Attempts -> Seq(Frames)]
  /\ task \in [Attempts -> TaskPCs]
  /\ pending \in [Attempts -> Bits]
  /\ stopping \subseteq Attempts
  /\ sessions \subseteq Attempts
  /\ owner \in [Tunnels -> 0 .. MaxAttempts]
  /\ process \in {"up", "draining"}
  /\ faults \in 0 .. MaxFaults
  /\ conns \in 0 .. MaxConns

SessionInv == SessionShape /\ Unborn /\ OwnersRun /\ ResetIsLast /\ InStep /\ Promised

-----------------------------------------------------------------------------
(* ClientSession: frames under way *)

LEMMA HasNone == \A k : ~Has(<<>>, k) /\ Once(<<>>, k)
<1>1. PICK z : z = <<>> /\ Len(z) = 0
  OBVIOUS
<1>2. \A j \in 1 .. 0 : FALSE
  OBVIOUS
<1>3. \A k : ~Has(z, k) /\ Once(z, k)
  BY <1>1, <1>2 DEF Has, Once
<1> QED BY <1>1, <1>3

LEMMA AsksNone == \A i : AsksFor(<<>>, i)
<1>1. PICK z : z = <<>> /\ Len(z) = 0
  OBVIOUS
<1>2. \A j \in 1 .. 0 : FALSE
  OBVIOUS
<1>3. \A i : AsksFor(z, i)
  BY <1>1, <1>2 DEF AsksFor
<1> QED BY <1>1, <1>3

LEMMA HasAppend ==
  ASSUME NEW S, NEW q \in Seq(S), NEW f \in S
  PROVE  /\ \A k : Has(Append(q, f), k) <=> (Has(q, k) \/ f.kind = k)
         /\ \A k : Once(q, k) /\ (f.kind # k \/ ~Has(q, k)) => Once(Append(q, f), k)
         /\ \A i : AsksFor(q, i) /\ (f.kind = "register" => f.tunnel = i) => AsksFor(Append(q, f), i)
<1>1. PICK a : a = Append(q, f)
  OBVIOUS
<1>2. PICK l \in Nat : l = Len(q)
  OBVIOUS
<1>3. Len(a) = l + 1 /\ a[l + 1] = f /\ \A j \in 1 .. l : a[j] = q[j]
  BY <1>1, <1>2
<1>4. \A j \in 1 .. l + 1 : j \in 1 .. l \/ j = l + 1
  BY <1>2
<1>5. l + 1 \in 1 .. l + 1 /\ \A j \in 1 .. l : j \in 1 .. l + 1
  BY <1>2
<1>6. \A k : Has(a, k) <=> (Has(q, k) \/ f.kind = k)
  BY <1>2, <1>3, <1>4, <1>5 DEF Has
<1>7. \A k : Once(q, k) /\ (f.kind # k \/ ~Has(q, k)) => Once(a, k)
  BY <1>2, <1>3, <1>4, <1>5 DEF Has, Once
<1>8. \A i : AsksFor(q, i) /\ (f.kind = "register" => f.tunnel = i) => AsksFor(a, i)
  BY <1>2, <1>3, <1>4, <1>5 DEF AsksFor
<1> QED BY <1>1, <1>6, <1>7, <1>8

LEMMA HasTail ==
  ASSUME NEW S, NEW q \in Seq(S), q # <<>>
  PROVE  /\ \A k : Has(Tail(q), k) => Has(q, k)
         /\ \A k : Head(q).kind = k => Has(q, k)
         /\ \A k : Once(q, k) => Once(Tail(q), k) /\ (Head(q).kind = k => ~Has(Tail(q), k))
         /\ \A i : AsksFor(q, i) => AsksFor(Tail(q), i) /\ (Head(q).kind = "register" => Head(q).tunnel = i)
<1>1. PICK a : a = Tail(q)
  OBVIOUS
<1>2. PICK l \in Nat : l = Len(q) /\ l > 0
  OBVIOUS
<1>3. Len(a) = l - 1 /\ Head(q) = q[1] /\ \A j \in 1 .. l - 1 : a[j] = q[j + 1]
  BY <1>1, <1>2
<1>4. 1 \in 1 .. l /\ \A j \in 1 .. l - 1 : j + 1 \in 1 .. l /\ j + 1 # 1
  BY <1>2
<1>5. \A j, k \in 1 .. l - 1 : j + 1 = k + 1 => j = k
  BY <1>2
<1>6. \A k : Has(a, k) => Has(q, k)
  BY <1>2, <1>3, <1>4 DEF Has
<1>7. \A k : Head(q).kind = k => Has(q, k)
  BY <1>2, <1>3, <1>4 DEF Has
<1>8. \A k : Once(q, k) => Once(a, k)
  BY <1>2, <1>3, <1>4, <1>5 DEF Once
<1>9. \A k : Once(q, k) /\ Head(q).kind = k => ~Has(a, k)
  BY <1>2, <1>3, <1>4 DEF Once, Has
<1>10. \A i : AsksFor(q, i) => AsksFor(a, i) /\ (Head(q).kind = "register" => Head(q).tunnel = i)
  BY <1>2, <1>3, <1>4 DEF AsksFor
<1> QED BY <1>1, <1>6, <1>7, <1>8, <1>9, <1>10

LEMMA OnceNone == \A q, k : ~Has(q, k) => Once(q, k)
BY DEF Has, Once

LEMMA AskNone == \A q, i : ~Has(q, "register") => AsksFor(q, i)
BY DEF Has, AsksFor

\* The server's task moves on, within main_loop's reach.
LEMMA ShakeTask ==
  ASSUME NEW pc, NEW n, NEW t, NEW u, NEW x, NEW y, Handshake(pc, n, t, x, y),
         u \in {"auth", "authed"} => t \in {"auth", "authed"}, u # "none"
  PROVE  Handshake(pc, n, u, x, y)
BY DEF Handshake

\* A frame is taken off the way to the server, or all of them are.
LEMMA ShakeHeard ==
  ASSUME NEW pc, NEW n, NEW t, NEW x \in Seq(Frames), NEW y, Handshake(pc, n, t, x, y)
  PROVE  /\ x # <<>> => Handshake(pc, n, t, Tail(x), y)
         /\ Handshake(pc, n, t, <<>>, y)
<1>1. ASSUME x # <<>> PROVE Handshake(pc, n, t, Tail(x), y)
  <2>1. PICK a : a = Tail(x)
    OBVIOUS
  <2>2. /\ \A k : Has(a, k) => Has(x, k)
        /\ \A k : Once(x, k) => Once(a, k)
        /\ \A i : AsksFor(x, i) => AsksFor(a, i)
    BY <1>1, <2>1, HasTail
  <2>3. Handshake(pc, n, t, a, y)
    BY <2>2 DEF Handshake
  <2> QED BY <2>1, <2>3
<1>2. PICK z : z = <<>>
  OBVIOUS
<1>3. (\A k : ~Has(z, k) /\ Once(z, k)) /\ \A i : AsksFor(z, i)
  BY <1>2, HasNone, AsksNone
<1>4. Handshake(pc, n, t, z, y)
  BY <1>3 DEF Handshake
<1> QED BY <1>1, <1>2, <1>4

\* The server sends a frame that answers nothing, or AuthOk from main_loop's edge.
LEMMA ShakeTold ==
  ASSUME NEW pc, NEW n, NEW t, NEW x, NEW y \in Seq(Frames), NEW f \in Frames, Handshake(pc, n, t, x, y),
         f.kind # "registered", f.kind = "authok" => t \notin {"auth", "authed"}
  PROVE  Handshake(pc, n, t, x, Append(y, f))
<1>1. PICK a : a = Append(y, f)
  OBVIOUS
<1>2. /\ \A k : Has(a, k) <=> (Has(y, k) \/ f.kind = k)
      /\ \A k : Once(y, k) /\ (f.kind # k \/ ~Has(y, k)) => Once(a, k)
  BY <1>1, HasAppend
<1>3. (Has(a, "registered") <=> Has(y, "registered")) /\ (Once(y, "registered") => Once(a, "registered"))
  BY <1>2
<1>4. t \in {"auth", "authed"} => (Has(a, "authok") <=> Has(y, "authok"))
  BY <1>2
<1>5. Handshake(pc, n, t, x, a)
  BY <1>3, <1>4 DEF Handshake
<1> QED BY <1>1, <1>5

\* The server answers the question it has just read.
LEMMA ShakeAnswered ==
  ASSUME NEW pc, NEW n, NEW t, NEW x \in Seq(Frames), NEW y \in Seq(Frames), NEW f \in Frames,
         Handshake(pc, n, t, x, y), x # <<>>, Head(x).kind = "register", f.kind = "registered",
         t \notin {"auth", "authed"}
  PROVE  /\ pc = "answer" /\ n \in Tunnels /\ Head(x).tunnel = n
         /\ Handshake(pc, n, t, Tail(x), Append(y, f))
<1>1. PICK a : a = Append(y, f)
  OBVIOUS
<1>2. /\ \A k : Has(a, k) <=> (Has(y, k) \/ f.kind = k)
      /\ \A k : Once(y, k) /\ (f.kind # k \/ ~Has(y, k)) => Once(a, k)
  BY <1>1, HasAppend
<1>3. PICK b : b = Tail(x)
  OBVIOUS
<1>4. /\ Has(x, "register")
      /\ Once(x, "register") => Once(b, "register") /\ ~Has(b, "register")
      /\ \A i : AsksFor(x, i) => AsksFor(b, i) /\ Head(x).tunnel = i
  BY <1>3, HasTail
<1>5. pc = "answer"
  BY <1>4 DEF Handshake
<1>6. n \in Tunnels /\ Once(x, "register") /\ AsksFor(x, n) /\ ~Has(y, "registered") /\ Once(y, "registered")
  BY <1>4, <1>5 DEF Handshake
<1>7. Once(a, "registered") /\ Once(b, "register") /\ ~Has(b, "register") /\ AsksFor(b, n) /\ Head(x).tunnel = n
  BY <1>2, <1>4, <1>6
<1>8. Handshake(pc, n, t, b, a)
  BY <1>5, <1>6, <1>7 DEF Handshake
<1> QED BY <1>1, <1>3, <1>5, <1>6, <1>7, <1>8

\* The client takes a frame that answers nothing, or sends one that asks nothing.
LEMMA ShakeTaken ==
  ASSUME NEW pc, NEW n, NEW t, NEW x, NEW y \in Seq(Frames), Handshake(pc, n, t, x, y), y # <<>>
  PROVE  Handshake(pc, n, t, x, Tail(y))
<1>1. PICK a : a = Tail(y)
  OBVIOUS
<1>2. (\A k : Has(a, k) => Has(y, k)) /\ \A k : Once(y, k) => Once(a, k)
  BY <1>1, HasTail
<1>3. Handshake(pc, n, t, x, a)
  BY <1>2 DEF Handshake
<1> QED BY <1>1, <1>3

LEMMA ShakeSent ==
  ASSUME NEW pc, NEW n, NEW t, NEW x \in Seq(Frames), NEW y, NEW f \in Frames, Handshake(pc, n, t, x, y),
         f.kind # "register"
  PROVE  Handshake(pc, n, t, Append(x, f), y)
<1>1. PICK a : a = Append(x, f)
  OBVIOUS
<1>2. /\ \A k : Has(a, k) <=> (Has(x, k) \/ f.kind = k)
      /\ \A k : Once(x, k) /\ (f.kind # k \/ ~Has(x, k)) => Once(a, k)
      /\ \A i : AsksFor(x, i) => AsksFor(a, i)
  BY <1>1, HasAppend
<1>3. (Has(a, "register") <=> Has(x, "register")) /\ (Once(x, "register") => Once(a, "register"))
  BY <1>2
<1>4. Handshake(pc, n, t, a, y)
  BY <1>2, <1>3 DEF Handshake
<1> QED BY <1>1, <1>4

-----------------------------------------------------------------------------
(* ClientSession: the steps of a session task *)

LEMMA AttemptsAreNat == Attempts \subseteq Nat \ {0} /\ 0 \notin Attempts
BY SessionBounds DEF Attempts

LEMMA FrameOfKind == \A k \in Kinds : Frame(k) \in Frames /\ Frame(k).kind = k
<1>1. 0 \in 0 .. NumTunnels
  BY SessionBounds
<1> QED BY <1>1 DEF Frame, Frames

\* Session s moves on, and the client stands still.
LEMMA AtSession ==
  ASSUME SessionInv, NEW s \in Attempts, task[s] # "none" \/ client.conn = s, client' = client,
         \A r \in Attempts : r # s => task'[r] = task[r] /\ toServer'[r] = toServer[r] /\ toClient'[r] = toClient[r],
         Active /\ client.conn = s => Handshake(client.pc, client.next, task'[s], toServer'[s], toClient'[s]),
         Has(toClient'[s], "reset") => task'[s] = "over",
         task'[s] = "loop" => task[s] \in {"loop", "authed"},
         \A i \in Tunnels : owner'[i] \in {0, s, owner[i]},
         \A i \in Tunnels : owner'[i] = s => task'[s] \in {"loop", "cleanup"},
         \A i \in Tunnels : owner[i] \in Attempts /\ (owner[i] # s \/ task'[s] = "loop") => owner'[i] = owner[i],
         Active /\ client.conn = s /\ client.pc = "answer" /\ Has(toClient'[s], "registered") /\ task'[s] = "loop" =>
           (Has(toClient[s], "registered") /\ task[s] = "loop") \/ owner'[client.next] = s
  PROVE  Unborn' /\ OwnersRun' /\ ResetIsLast' /\ InStep' /\ Promised'
<1>1. SessionShape /\ Unborn /\ OwnersRun /\ ResetIsLast /\ InStep /\ Promised
  BY DEF SessionInv
<1>2. owner \in [Tunnels -> 0 .. MaxAttempts] /\ client \in ClientRecords
  BY <1>1 DEF SessionShape
<1>3. \A i \in Tunnels : owner[i] # 0 => owner[i] \in Attempts
  BY <1>2, SessionBounds DEF Attempts
<1>4. Active' = Active
  BY DEF Active
<1>5. Unborn'
  <2>1. ~(s > client.conn)
    <3>1. CASE task[s] # "none"
      BY <1>1, <3>1 DEF Unborn
    <3>2. CASE client.conn = s
      BY <3>2, AttemptsAreNat
    <3> QED BY <3>1, <3>2
  <2>2. \A r \in Attempts : r > client.conn => r # s
    BY <2>1
  <2>3. Active => client.conn \in Attempts
    BY <1>1 DEF Unborn
  <2> QED BY <1>1, <2>2, <2>3 DEF Unborn, Active
<1>6. OwnersRun'
  <2>1. ASSUME NEW i \in Tunnels, owner'[i] # 0 PROVE task'[owner'[i]] \in {"loop", "cleanup"}
    <3>1. CASE owner'[i] = s
      BY <3>1
    <3>2. CASE owner'[i] # s
      <4>1. owner'[i] = owner[i] /\ owner[i] \in Attempts
        BY <1>3, <2>1, <3>2
      <4> QED BY <1>1, <2>1, <3>2, <4>1 DEF OwnersRun
    <3> QED BY <3>1, <3>2
  <2> QED BY <2>1 DEF OwnersRun
<1>7. ResetIsLast'
  <2>1. ASSUME NEW r \in Attempts, Has(toClient'[r], "reset") PROVE task'[r] = "over"
    <3>1. CASE r = s
      BY <2>1, <3>1
    <3>2. CASE r # s
      BY <1>1, <2>1, <3>2 DEF ResetIsLast
    <3> QED BY <3>1, <3>2
  <2> QED BY <2>1 DEF ResetIsLast, Has
<1>8. InStep'
  <2>1. ASSUME Active
        PROVE  Handshake(client.pc, client.next, task'[client.conn], toServer'[client.conn], toClient'[client.conn])
    <3>1. client.conn \in Attempts
      BY <1>1, <2>1 DEF Unborn
    <3>2. CASE client.conn = s
      BY <2>1, <3>2
    <3>3. CASE client.conn # s
      BY <1>1, <2>1, <3>1, <3>3 DEF InStep
    <3> QED BY <3>2, <3>3
  <2> QED BY <2>1 DEF InStep, Active, Handshake, Has, Once, AsksFor
<1>9. Promised'
  <2>1. ASSUME Active, task'[client.conn] = "loop"
        PROVE  /\ \A i \in Tunnels : i < client.next => owner'[i] = client.conn
               /\ client.pc = "answer" /\ Has(toClient'[client.conn], "registered") => owner'[client.next] = client.conn
    <3>1. client.conn \in Attempts
      BY <1>1, <2>1 DEF Unborn
    <3>2. CASE client.conn # s
      <4>1. task[client.conn] = "loop" /\ toClient'[client.conn] = toClient[client.conn]
        BY <2>1, <3>1, <3>2
      <4>2. /\ \A i \in Tunnels : i < client.next => owner[i] = client.conn
            /\ client.pc = "answer" /\ Has(toClient[client.conn], "registered") => owner[client.next] = client.conn
        BY <1>1, <2>1, <4>1 DEF Promised
      <4>3. client.pc = "answer" => client.next \in Tunnels
        BY <1>1, <2>1 DEF InStep, Handshake
      <4> QED BY <3>1, <3>2, <4>1, <4>2, <4>3
    <3>3. CASE client.conn = s /\ task[s] = "loop"
      <4>1. /\ \A i \in Tunnels : i < client.next => owner[i] = client.conn
            /\ client.pc = "answer" /\ Has(toClient[client.conn], "registered") => owner[client.next] = client.conn
        BY <1>1, <2>1, <3>3 DEF Promised
      <4>2. client.pc = "answer" => client.next \in Tunnels
        BY <1>1, <2>1 DEF InStep, Handshake
      <4> QED BY <2>1, <3>1, <3>3, <4>1, <4>2
    <3>4. CASE client.conn = s /\ task[s] = "authed"
      <4>1. client.pc = "auth" /\ client.next = 1
        BY <1>1, <2>1, <3>4 DEF InStep, Handshake
      <4>2. \A i \in Tunnels : ~(i < 1)
        BY SessionBounds DEF Tunnels
      <4> QED BY <4>1, <4>2
    <3> QED BY <2>1, <3>2, <3>3, <3>4
  <2> QED BY <2>1 DEF Promised, Active, Has
<1> QED BY <1>5, <1>6, <1>7, <1>8, <1>9

\* What Tell, Consume, Goto and Finish do to the variables of session s.
LEMMA TellDoes ==
  ASSUME SessionInv, NEW s \in Attempts, NEW f \in Frames, Tell(s, f)
  PROVE  /\ toClient' \in [Attempts -> Seq(Frames)]
         /\ \A r \in Attempts : r # s => toClient'[r] = toClient[r]
         /\ toClient'[s] = toClient[s] \/ toClient'[s] = Append(toClient[s], f)
<1>1. toClient \in [Attempts -> Seq(Frames)]
  BY DEF SessionInv, SessionShape
<1>2. PICK a : a = IF Connected(s) THEN Append(toClient[s], f) ELSE toClient[s]
  OBVIOUS
<1>3. a \in Seq(Frames) /\ (a = toClient[s] \/ a = Append(toClient[s], f))
  BY <1>1, <1>2
<1>4. toClient' = [toClient EXCEPT ![s] = a]
  BY <1>2 DEF Tell
<1> QED BY <1>1, <1>3, <1>4

LEMMA ConsumeDoes ==
  ASSUME SessionInv, NEW s \in Attempts, NEW k, Heard(s, k), Consume(s)
  PROVE  /\ toServer' \in [Attempts -> Seq(Frames)]
         /\ \A r \in Attempts : r # s => toServer'[r] = toServer[r]
         /\ toServer[s] # <<>> /\ Head(toServer[s]).kind = k /\ toServer'[s] = Tail(toServer[s])
         /\ toServer[s] \in Seq(Frames)
<1>1. toServer \in [Attempts -> Seq(Frames)] /\ toServer[s] \in Seq(Frames)
  BY DEF SessionInv, SessionShape
<1>2. toServer[s] # <<>> /\ Head(toServer[s]).kind = k
  BY DEF Heard
<1>3. PICK a : a = Tail(toServer[s])
  OBVIOUS
<1>4. a \in Seq(Frames)
  BY <1>1, <1>2, <1>3
<1>5. toServer' = [toServer EXCEPT ![s] = a]
  BY <1>3 DEF Consume
<1> QED BY <1>1, <1>2, <1>3, <1>4, <1>5

LEMMA GotoDoes ==
  ASSUME SessionInv, NEW s \in Attempts, NEW t \in TaskPCs, Goto(s, t)
  PROVE  task' \in [Attempts -> TaskPCs] /\ task'[s] = t /\ \A r \in Attempts : r # s => task'[r] = task[r]
BY DEF SessionInv, SessionShape, Goto

LEMMA FinishDoes ==
  ASSUME SessionInv, NEW s \in Attempts, Finish(s)
  PROVE  /\ task' \in [Attempts -> TaskPCs] /\ task'[s] = "over" /\ \A r \in Attempts : r # s => task'[r] = task[r]
         /\ toServer' \in [Attempts -> Seq(Frames)] /\ toServer'[s] = <<>>
         /\ \A r \in Attempts : r # s => toServer'[r] = toServer[r]
         /\ pending' \in [Attempts -> Bits] /\ stopping' \subseteq Attempts
<1>1. /\ toServer \in [Attempts -> Seq(Frames)] /\ task \in [Attempts -> TaskPCs] /\ pending \in [Attempts -> Bits]
      /\ stopping \subseteq Attempts
  BY DEF SessionInv, SessionShape
<1>2. /\ task' = [task EXCEPT ![s] = "over"] /\ toServer' = [toServer EXCEPT ![s] = <<>>]
      /\ pending' = [pending EXCEPT ![s] = FALSE] /\ stopping' = stopping \ {s}
  BY DEF Finish, Goto
<1>3. "over" \in TaskPCs /\ FALSE \in Bits
  BY DEF TaskPCs, Bits
<1>4. <<>> \in Seq(Frames)
  OBVIOUS
<1>5. toServer' \in [Attempts -> Seq(Frames)] /\ toServer'[s] = <<>> /\ \A r \in Attempts : r # s => toServer'[r] = toServer[r]
  BY <1>1, <1>2, <1>4
<1>6. pending' \in [Attempts -> Bits]
  BY <1>1, <1>2, <1>3
<1> QED BY <1>1, <1>2, <1>3, <1>5, <1>6

\* The client's handshake, seen from its session.
LEMMA ShakeAt ==
  ASSUME SessionInv, NEW s \in Attempts, Active, client.conn = s
  PROVE  Handshake(client.pc, client.next, task[s], toServer[s], toClient[s])
BY DEF SessionInv, InStep

\* What a session's own steps leave alone.
LEMMA SessionFacts ==
  ASSUME SessionInv, NEW s \in Attempts
  PROVE  /\ toServer[s] \in Seq(Frames) /\ toClient[s] \in Seq(Frames) /\ task[s] \in TaskPCs
         /\ Has(toClient[s], "reset") => task[s] = "over"
         /\ \A i \in Tunnels : owner[i] = s => task[s] \in {"loop", "cleanup"}
         /\ \A i \in Tunnels : owner[i] \in 0 .. MaxAttempts
<1>1. SessionShape /\ OwnersRun /\ ResetIsLast
  BY DEF SessionInv
<1>2. \A i \in Tunnels : owner[i] = s => task[s] \in {"loop", "cleanup"}
  BY <1>1, AttemptsAreNat DEF OwnersRun
<1> QED BY <1>1, <1>2 DEF SessionShape, ResetIsLast

\* Session s moves on without giving or taking a name.
LEMMA QuietSession ==
  ASSUME SessionInv, NEW s \in Attempts, task[s] # "none" \/ client.conn = s, client' = client, owner' = owner,
         \A r \in Attempts : r # s => task'[r] = task[r] /\ toServer'[r] = toServer[r] /\ toClient'[r] = toClient[r],
         task'[s] \in {"auth", "authed"} => task[s] \in {"auth", "authed"},
         task'[s] = "none" => task[s] = "none",
         task'[s] = "loop" => task[s] \in {"loop", "authed"},
         task[s] \in {"loop", "cleanup"} => task'[s] \in {"loop", "cleanup"},
         task[s] = "over" => task'[s] = "over",
         toServer'[s] = toServer[s] \/ (toServer[s] # <<>> /\ toServer'[s] = Tail(toServer[s])) \/ toServer'[s] = <<>>,
         NEW f \in Frames, f.kind # "registered", f.kind = "authok" => task'[s] \notin {"auth", "authed"},
         f.kind = "reset" => task'[s] = "over",
         toClient'[s] = toClient[s] \/ toClient'[s] = Append(toClient[s], f) \/ toClient'[s] = <<>>
  PROVE  Unborn' /\ OwnersRun' /\ ResetIsLast' /\ InStep' /\ Promised'
<1>1. /\ toServer[s] \in Seq(Frames) /\ toClient[s] \in Seq(Frames) /\ task[s] \in TaskPCs
      /\ Has(toClient[s], "reset") => task[s] = "over"
      /\ \A i \in Tunnels : owner[i] = s => task[s] \in {"loop", "cleanup"}
  BY SessionFacts
<1>2. PICK x : x = toServer'[s]
  OBVIOUS
<1>3. PICK y : y = toClient'[s]
  OBVIOUS
<1>4. PICK t : t = task'[s]
  OBVIOUS
<1>5. \A k : Has(y, k) => Has(toClient[s], k) \/ f.kind = k
  <2>1. CASE y = Append(toClient[s], f)
    BY <1>1, <2>1, HasAppend
  <2>2. CASE y = <<>>
    BY <2>2, HasNone
  <2> QED BY <1>3, <2>1, <2>2
<1>6. ASSUME Active, client.conn = s PROVE Handshake(client.pc, client.next, t, x, y)
  <2>1. PICK pc : pc = client.pc
    OBVIOUS
  <2>2. PICK n : n = client.next
    OBVIOUS
  <2>3. Handshake(pc, n, task[s], toServer[s], toClient[s])
    BY <1>6, <2>1, <2>2, ShakeAt
  <2>4. Handshake(pc, n, t, toServer[s], toClient[s])
    <3>1. task[s] # "none"
      BY <2>3 DEF Handshake
    <3> QED BY <1>4, <2>3, <3>1, ShakeTask
  <2>5. Handshake(pc, n, t, x, toClient[s])
    BY <1>1, <1>2, <2>4, ShakeHeard
  <2>6. CASE y = Append(toClient[s], f)
    <3>1. Handshake(pc, n, t, x, Append(toClient[s], f))
      BY <1>1, <1>4, <2>5, ShakeTold
    <3> QED BY <2>1, <2>2, <2>6, <3>1
  <2>7. CASE y = <<>>
    <3>1. \A k : ~Has(y, k) /\ Once(y, k)
      BY <2>7, HasNone
    <3>2. Handshake(pc, n, t, x, y)
      BY <2>5, <3>1 DEF Handshake
    <3> QED BY <2>1, <2>2, <3>2
  <2> QED BY <1>3, <2>1, <2>2, <2>5, <2>6, <2>7
<1>7. Has(y, "reset") => t = "over"
  BY <1>1, <1>4, <1>5
<1>8. ASSUME Active, client.conn = s, client.pc = "answer", Has(y, "registered"), t = "loop"
      PROVE  Has(toClient[s], "registered") /\ task[s] = "loop"
  <2>1. Has(toClient[s], "registered")
    BY <1>5, <1>8
  <2>2. Handshake(client.pc, client.next, task[s], toServer[s], toClient[s])
    BY <1>8, ShakeAt
  <2>3. task[s] \notin {"auth", "authed"}
    BY <1>8, <2>2 DEF Handshake
  <2> QED BY <1>4, <1>8, <2>1, <2>3
<1>9. \A i \in Tunnels : owner'[i] \in {0, s, owner[i]}
  OBVIOUS
<1>10. \A i \in Tunnels : owner'[i] = s => task'[s] \in {"loop", "cleanup"}
  BY <1>1
<1>11. \A i \in Tunnels : owner[i] \in Attempts /\ (owner[i] # s \/ task'[s] = "loop") => owner'[i] = owner[i]
  OBVIOUS
<1>12. Active /\ client.conn = s => Handshake(client.pc, client.next, task'[s], toServer'[s], toClient'[s])
  BY <1>2, <1>3, <1>4, <1>6
<1>13. Has(toClient'[s], "reset") => task'[s] = "over"
  BY <1>3, <1>4, <1>7
<1>14. Active /\ client.conn = s /\ client.pc = "answer" /\ Has(toClient'[s], "registered") /\ task'[s] = "loop" =>
         (Has(toClient[s], "registered") /\ task[s] = "loop") \/ owner'[client.next] = s
  BY <1>3, <1>4, <1>8
<1> QED BY <1>9, <1>10, <1>11, <1>12, <1>13, <1>14, AtSession

LEMMA TaskNames == {"none", "auth", "authed", "loop", "cleanup", "over"} = TaskPCs /\ {"ping", "pong", "reset", "autherror", "authok", "newconn", "close", "registered", "refused", "register", "auth"} \subseteq Kinds
BY DEF TaskPCs, Kinds

LEMMA FaultDoes == ASSUME SessionInv, Fault PROVE faults' \in 0 .. MaxFaults
<1>1. faults \in 0 .. MaxFaults /\ faults < MaxFaults /\ faults' = faults + 1
  BY DEF SessionInv, SessionShape, Fault
<1> QED BY <1>1, SessionBounds

LEMMA AcceptAuthStep ==
  ASSUME SessionInv, NEW s \in Attempts, AcceptAuth(s)
  PROVE  SessionInv'
<1>1. /\ task[s] = "auth" /\ Heard(s, "auth") /\ Consume(s) /\ Goto(s, "authed") /\ sessions' = sessions \cup {s}
      /\ UNCHANGED <<client, link, toClient, pending, stopping, owner, process, faults, conns>>
  BY DEF AcceptAuth, At
<1>2. /\ toServer' \in [Attempts -> Seq(Frames)] /\ \A r \in Attempts : r # s => toServer'[r] = toServer[r]
      /\ toServer[s] # <<>> /\ toServer'[s] = Tail(toServer[s])
  BY <1>1, ConsumeDoes
<1>3. task' \in [Attempts -> TaskPCs] /\ task'[s] = "authed" /\ \A r \in Attempts : r # s => task'[r] = task[r]
  BY <1>1, GotoDoes, TaskNames
<1>4. SessionShape'
  BY <1>1, <1>2, <1>3 DEF SessionInv, SessionShape
<1>5. Frame("pong") \in Frames /\ Frame("pong").kind = "pong"
  BY FrameOfKind, TaskNames
<1>6. Unborn' /\ OwnersRun' /\ ResetIsLast' /\ InStep' /\ Promised'
  BY <1>1, <1>2, <1>3, <1>5, QuietSession
<1> QED BY <1>4, <1>6 DEF SessionInv

LEMMA RejectAuthStep ==
  ASSUME SessionInv, NEW s \in Attempts, RejectAuth(s)
  PROVE  SessionInv'
<1>1. /\ task[s] = "auth" /\ Fault /\ Tell(s, Frame("autherror")) /\ Finish(s)
      /\ UNCHANGED <<client, link, sessions, owner, process, conns>>
  BY DEF RejectAuth, At
<1>2. Frame("autherror") \in Frames /\ Frame("autherror").kind = "autherror"
  BY FrameOfKind, TaskNames
<1>3. /\ toClient' \in [Attempts -> Seq(Frames)] /\ \A r \in Attempts : r # s => toClient'[r] = toClient[r]
      /\ toClient'[s] = toClient[s] \/ toClient'[s] = Append(toClient[s], Frame("autherror"))
  BY <1>1, <1>2, TellDoes
<1>4. /\ task' \in [Attempts -> TaskPCs] /\ task'[s] = "over" /\ \A r \in Attempts : r # s => task'[r] = task[r]
      /\ toServer' \in [Attempts -> Seq(Frames)] /\ toServer'[s] = <<>>
      /\ \A r \in Attempts : r # s => toServer'[r] = toServer[r]
      /\ pending' \in [Attempts -> Bits] /\ stopping' \subseteq Attempts
  BY <1>1, FinishDoes
<1>5. SessionShape'
  BY <1>1, <1>3, <1>4, FaultDoes DEF SessionInv, SessionShape
<1>6. Unborn' /\ OwnersRun' /\ ResetIsLast' /\ InStep' /\ Promised'
  BY <1>1, <1>2, <1>3, <1>4, QuietSession
<1> QED BY <1>5, <1>6 DEF SessionInv

LEMMA NoAuthStep ==
  ASSUME SessionInv, NEW s \in Attempts, NoAuth(s)
  PROVE  SessionInv'
<1>1. /\ task[s] = "auth" /\ Tell(s, Frame("reset")) /\ Finish(s)
      /\ UNCHANGED <<client, link, sessions, owner, process, faults, conns>>
  BY DEF NoAuth, At
<1>2. Frame("reset") \in Frames /\ Frame("reset").kind = "reset"
  BY FrameOfKind, TaskNames
<1>3. /\ toClient' \in [Attempts -> Seq(Frames)] /\ \A r \in Attempts : r # s => toClient'[r] = toClient[r]
      /\ toClient'[s] = toClient[s] \/ toClient'[s] = Append(toClient[s], Frame("reset"))
  BY <1>1, <1>2, TellDoes
<1>4. /\ task' \in [Attempts -> TaskPCs] /\ task'[s] = "over" /\ \A r \in Attempts : r # s => task'[r] = task[r]
      /\ toServer' \in [Attempts -> Seq(Frames)] /\ toServer'[s] = <<>>
      /\ \A r \in Attempts : r # s => toServer'[r] = toServer[r]
      /\ pending' \in [Attempts -> Bits] /\ stopping' \subseteq Attempts
  BY <1>1, FinishDoes
<1>5. SessionShape'
  BY <1>1, <1>3, <1>4 DEF SessionInv, SessionShape
<1>6. Unborn' /\ OwnersRun' /\ ResetIsLast' /\ InStep' /\ Promised'
  BY <1>1, <1>2, <1>3, <1>4, QuietSession
<1> QED BY <1>5, <1>6 DEF SessionInv

LEMMA SendAuthOkStep ==
  ASSUME SessionInv, NEW s \in Attempts, SendAuthOk(s)
  PROVE  SessionInv'
<1>1. /\ task[s] = "authed" /\ Tell(s, Frame("authok")) /\ Goto(s, "loop")
      /\ UNCHANGED <<client, link, toServer, pending, stopping, sessions, owner, process, faults, conns>>
  BY DEF SendAuthOk, At
<1>2. Frame("authok") \in Frames /\ Frame("authok").kind = "authok"
  BY FrameOfKind, TaskNames
<1>3. /\ toClient' \in [Attempts -> Seq(Frames)] /\ \A r \in Attempts : r # s => toClient'[r] = toClient[r]
      /\ toClient'[s] = toClient[s] \/ toClient'[s] = Append(toClient[s], Frame("authok"))
  BY <1>1, <1>2, TellDoes
<1>4. task' \in [Attempts -> TaskPCs] /\ task'[s] = "loop" /\ \A r \in Attempts : r # s => task'[r] = task[r]
  BY <1>1, GotoDoes, TaskNames
<1>5. SessionShape'
  BY <1>1, <1>3, <1>4 DEF SessionInv, SessionShape
<1>6. Unborn' /\ OwnersRun' /\ ResetIsLast' /\ InStep' /\ Promised'
  BY <1>1, <1>2, <1>3, <1>4, QuietSession
<1> QED BY <1>5, <1>6 DEF SessionInv

LEMMA AuthOkFailsStep ==
  ASSUME SessionInv, NEW s \in Attempts, AuthOkFails(s)
  PROVE  SessionInv'
<1>1. /\ task[s] = "authed" /\ Finish(s)
      /\ UNCHANGED <<client, link, toClient, sessions, owner, process, faults, conns>>
  BY DEF AuthOkFails, At
<1>2. Frame("pong") \in Frames /\ Frame("pong").kind = "pong"
  BY FrameOfKind, TaskNames
<1>3. /\ task' \in [Attempts -> TaskPCs] /\ task'[s] = "over" /\ \A r \in Attempts : r # s => task'[r] = task[r]
      /\ toServer' \in [Attempts -> Seq(Frames)] /\ toServer'[s] = <<>>
      /\ \A r \in Attempts : r # s => toServer'[r] = toServer[r]
      /\ pending' \in [Attempts -> Bits] /\ stopping' \subseteq Attempts
  BY <1>1, FinishDoes
<1>4. SessionShape'
  BY <1>1, <1>3 DEF SessionInv, SessionShape
<1>5. Unborn' /\ OwnersRun' /\ ResetIsLast' /\ InStep' /\ Promised'
  BY <1>1, <1>2, <1>3, QuietSession
<1> QED BY <1>4, <1>5 DEF SessionInv

LEMMA RegisterFailsStep ==
  ASSUME SessionInv, NEW s \in Attempts, RegisterFails(s)
  PROVE  SessionInv'
<1>1. /\ task[s] = "loop" /\ Heard(s, "register") /\ Consume(s) /\ Fault /\ Goto(s, "cleanup")
      /\ UNCHANGED <<client, link, toClient, pending, stopping, sessions, owner, process, conns>>
  BY DEF RegisterFails, At
<1>2. /\ toServer' \in [Attempts -> Seq(Frames)] /\ \A r \in Attempts : r # s => toServer'[r] = toServer[r]
      /\ toServer[s] # <<>> /\ toServer'[s] = Tail(toServer[s])
  BY <1>1, ConsumeDoes
<1>3. task' \in [Attempts -> TaskPCs] /\ task'[s] = "cleanup" /\ \A r \in Attempts : r # s => task'[r] = task[r]
  BY <1>1, GotoDoes, TaskNames
<1>4. SessionShape'
  BY <1>1, <1>2, <1>3, FaultDoes DEF SessionInv, SessionShape
<1>5. Frame("pong") \in Frames /\ Frame("pong").kind = "pong"
  BY FrameOfKind, TaskNames
<1>6. Unborn' /\ OwnersRun' /\ ResetIsLast' /\ InStep' /\ Promised'
  BY <1>1, <1>2, <1>3, <1>5, QuietSession
<1> QED BY <1>4, <1>6 DEF SessionInv

LEMMA HandlePingStep ==
  ASSUME SessionInv, NEW s \in Attempts, HandlePing(s)
  PROVE  SessionInv'
<1>1. /\ task[s] = "loop" /\ Heard(s, "ping") /\ Consume(s) /\ Tell(s, Frame("pong"))
      /\ UNCHANGED <<client, link, task, pending, stopping, sessions, owner, process, faults, conns>>
  BY DEF HandlePing, At
<1>2. /\ toServer' \in [Attempts -> Seq(Frames)] /\ \A r \in Attempts : r # s => toServer'[r] = toServer[r]
      /\ toServer[s] # <<>> /\ toServer'[s] = Tail(toServer[s])
  BY <1>1, ConsumeDoes
<1>3. Frame("pong") \in Frames /\ Frame("pong").kind = "pong"
  BY FrameOfKind, TaskNames
<1>4. /\ toClient' \in [Attempts -> Seq(Frames)] /\ \A r \in Attempts : r # s => toClient'[r] = toClient[r]
      /\ toClient'[s] = toClient[s] \/ toClient'[s] = Append(toClient[s], Frame("pong"))
  BY <1>1, <1>3, TellDoes
<1>5. SessionShape'
  BY <1>1, <1>2, <1>4 DEF SessionInv, SessionShape
<1>6. Unborn' /\ OwnersRun' /\ ResetIsLast' /\ InStep' /\ Promised'
  BY <1>1, <1>2, <1>3, <1>4, QuietSession
<1> QED BY <1>5, <1>6 DEF SessionInv

LEMMA HandlePongStep ==
  ASSUME SessionInv, NEW s \in Attempts, HandlePong(s)
  PROVE  SessionInv'
<1>1. /\ task[s] = "loop" /\ Heard(s, "pong") /\ Consume(s) /\ pending' = [pending EXCEPT ![s] = FALSE]
      /\ UNCHANGED <<client, link, toClient, task, stopping, sessions, owner, process, faults, conns>>
  BY DEF HandlePong, At
<1>2. /\ toServer' \in [Attempts -> Seq(Frames)] /\ \A r \in Attempts : r # s => toServer'[r] = toServer[r]
      /\ toServer[s] # <<>> /\ toServer'[s] = Tail(toServer[s])
  BY <1>1, ConsumeDoes
<1>3. Frame("pong") \in Frames /\ Frame("pong").kind = "pong"
  BY FrameOfKind, TaskNames
<1>4. pending' \in [Attempts -> Bits]
  <2>1. FALSE \in Bits
    BY DEF Bits
  <2> QED BY <1>1, <2>1 DEF SessionInv, SessionShape
<1>5. SessionShape'
  BY <1>1, <1>2, <1>4 DEF SessionInv, SessionShape
<1>6. Unborn' /\ OwnersRun' /\ ResetIsLast' /\ InStep' /\ Promised'
  BY <1>1, <1>2, <1>3, QuietSession
<1> QED BY <1>5, <1>6 DEF SessionInv

LEMMA PeerGoneStep ==
  ASSUME SessionInv, NEW s \in Attempts, PeerGone(s)
  PROVE  SessionInv'
<1>1. /\ task[s] = "loop" /\ (Heard(s, "reset") \/ Heard(s, "close")) /\ Consume(s) /\ Goto(s, "cleanup")
      /\ UNCHANGED <<client, link, toClient, pending, stopping, sessions, owner, process, faults, conns>>
  BY DEF PeerGone, At
<1>2. /\ toServer' \in [Attempts -> Seq(Frames)] /\ \A r \in Attempts : r # s => toServer'[r] = toServer[r]
      /\ toServer[s] # <<>> /\ toServer'[s] = Tail(toServer[s])
  BY <1>1, ConsumeDoes
<1>3. task' \in [Attempts -> TaskPCs] /\ task'[s] = "cleanup" /\ \A r \in Attempts : r # s => task'[r] = task[r]
  BY <1>1, GotoDoes, TaskNames
<1>4. SessionShape'
  BY <1>1, <1>2, <1>3 DEF SessionInv, SessionShape
<1>5. Frame("pong") \in Frames /\ Frame("pong").kind = "pong"
  BY FrameOfKind, TaskNames
<1>6. Unborn' /\ OwnersRun' /\ ResetIsLast' /\ InStep' /\ Promised'
  BY <1>1, <1>2, <1>3, <1>5, QuietSession
<1> QED BY <1>4, <1>6 DEF SessionInv

\* A send fails, or the pong is overdue: main_loop returns.
LEMMA LoopEndsStep ==
  ASSUME SessionInv, NEW s \in Attempts, SendFails(s) \/ PongOverdue(s)
  PROVE  SessionInv'
<1>1. /\ task[s] = "loop" /\ Goto(s, "cleanup") /\ (faults' = faults \/ Fault)
      /\ UNCHANGED <<client, link, toServer, toClient, pending, stopping, sessions, owner, process, conns>>
  BY DEF SendFails, PongOverdue, At, NoFault
<1>2. task' \in [Attempts -> TaskPCs] /\ task'[s] = "cleanup" /\ \A r \in Attempts : r # s => task'[r] = task[r]
  BY <1>1, GotoDoes, TaskNames
<1>3. faults' \in 0 .. MaxFaults
  BY <1>1, FaultDoes DEF SessionInv, SessionShape
<1>4. SessionShape'
  BY <1>1, <1>2, <1>3 DEF SessionInv, SessionShape
<1>5. Frame("pong") \in Frames /\ Frame("pong").kind = "pong"
  BY FrameOfKind, TaskNames
<1>6. Unborn' /\ OwnersRun' /\ ResetIsLast' /\ InStep' /\ Promised'
  BY <1>1, <1>2, <1>5, QuietSession
<1> QED BY <1>4, <1>6 DEF SessionInv

LEMMA PingTickStep ==
  ASSUME SessionInv, NEW s \in Attempts, PingTick(s)
  PROVE  SessionInv'
<1>1. /\ task[s] = "loop" /\ (faults' = faults \/ Fault) /\ Tell(s, Frame("ping"))
      /\ pending' = [pending EXCEPT ![s] = TRUE]
      /\ UNCHANGED <<client, link, toServer, task, stopping, sessions, owner, process, conns>>
  BY DEF PingTick, At, NoFault
<1>2. Frame("ping") \in Frames /\ Frame("ping").kind = "ping"
  BY FrameOfKind, TaskNames
<1>3. /\ toClient' \in [Attempts -> Seq(Frames)] /\ \A r \in Attempts : r # s => toClient'[r] = toClient[r]
      /\ toClient'[s] = toClient[s] \/ toClient'[s] = Append(toClient[s], Frame("ping"))
  BY <1>1, <1>2, TellDoes
<1>4. pending' \in [Attempts -> Bits]
  <2>1. TRUE \in Bits
    BY DEF Bits
  <2> QED BY <1>1, <2>1 DEF SessionInv, SessionShape
<1>5. faults' \in 0 .. MaxFaults
  BY <1>1, FaultDoes DEF SessionInv, SessionShape
<1>6. SessionShape'
  BY <1>1, <1>3, <1>4, <1>5 DEF SessionInv, SessionShape
<1>7. Unborn' /\ OwnersRun' /\ ResetIsLast' /\ InStep' /\ Promised'
  BY <1>1, <1>2, <1>3, QuietSession
<1> QED BY <1>6, <1>7 DEF SessionInv

LEMMA PublicConnectionStep ==
  ASSUME SessionInv, NEW s \in Attempts, PublicConnection(s)
  PROVE  SessionInv'
<1>1. /\ task[s] = "loop" /\ conns < MaxConns /\ conns' = conns + 1 /\ Tell(s, Frame("newconn"))
      /\ UNCHANGED <<client, link, toServer, task, pending, stopping, sessions, owner, process, faults>>
  BY DEF PublicConnection, At
<1>2. Frame("newconn") \in Frames /\ Frame("newconn").kind = "newconn"
  BY FrameOfKind, TaskNames
<1>3. /\ toClient' \in [Attempts -> Seq(Frames)] /\ \A r \in Attempts : r # s => toClient'[r] = toClient[r]
      /\ toClient'[s] = toClient[s] \/ toClient'[s] = Append(toClient[s], Frame("newconn"))
  BY <1>1, <1>2, TellDoes
<1>4. conns' \in 0 .. MaxConns
  <2>1. conns \in 0 .. MaxConns
    BY DEF SessionInv, SessionShape
  <2> QED BY <1>1, <2>1, SessionBounds
<1>5. SessionShape'
  BY <1>1, <1>3, <1>4 DEF SessionInv, SessionShape
<1>6. Unborn' /\ OwnersRun' /\ ResetIsLast' /\ InStep' /\ Promised'
  BY <1>1, <1>2, <1>3, QuietSession
<1> QED BY <1>5, <1>6 DEF SessionInv

LEMMA HandleShutdownStep ==
  ASSUME SessionInv, NEW s \in Attempts, HandleShutdown(s)
  PROVE  SessionInv'
<1>1. /\ task[s] = "loop" /\ Tell(s, Frame("close")) /\ Goto(s, "cleanup")
      /\ UNCHANGED <<client, link, toServer, pending, stopping, sessions, owner, process, faults, conns>>
  BY DEF HandleShutdown, At
<1>2. Frame("close") \in Frames /\ Frame("close").kind = "close"
  BY FrameOfKind, TaskNames
<1>3. /\ toClient' \in [Attempts -> Seq(Frames)] /\ \A r \in Attempts : r # s => toClient'[r] = toClient[r]
      /\ toClient'[s] = toClient[s] \/ toClient'[s] = Append(toClient[s], Frame("close"))
  BY <1>1, <1>2, TellDoes
<1>4. task' \in [Attempts -> TaskPCs] /\ task'[s] = "cleanup" /\ \A r \in Attempts : r # s => task'[r] = task[r]
  BY <1>1, GotoDoes, TaskNames
<1>5. SessionShape'
  BY <1>1, <1>3, <1>4 DEF SessionInv, SessionShape
<1>6. Unborn' /\ OwnersRun' /\ ResetIsLast' /\ InStep' /\ Promised'
  BY <1>1, <1>2, <1>3, <1>4, QuietSession
<1> QED BY <1>5, <1>6 DEF SessionInv

LEMMA CutStep ==
  ASSUME SessionInv, NEW s \in Attempts, Cut(s)
  PROVE  SessionInv'
<1>1. /\ client.conn = s /\ Fault
      /\ link' = [link EXCEPT ![s] = "cut"] /\ toServer' = [toServer EXCEPT ![s] = <<>>]
      /\ toClient' = [toClient EXCEPT ![s] = <<>>]
      /\ UNCHANGED <<client, task, pending, stopping, sessions, owner, process, conns>>
  BY DEF Cut, Present
<1>2. /\ toServer \in [Attempts -> Seq(Frames)] /\ toClient \in [Attempts -> Seq(Frames)]
      /\ link \in [Attempts -> {"none", "up", "cut"}]
  BY DEF SessionInv, SessionShape
<1>3. <<>> \in Seq(Frames)
  OBVIOUS
<1>4. /\ toServer' \in [Attempts -> Seq(Frames)] /\ toServer'[s] = <<>>
      /\ \A r \in Attempts : r # s => toServer'[r] = toServer[r]
  BY <1>1, <1>2, <1>3
<1>5. /\ toClient' \in [Attempts -> Seq(Frames)] /\ toClient'[s] = <<>>
      /\ \A r \in Attempts : r # s => toClient'[r] = toClient[r]
  BY <1>1, <1>2, <1>3
<1>6. link' \in [Attempts -> {"none", "up", "cut"}]
  BY <1>1, <1>2
<1>7. SessionShape'
  BY <1>1, <1>4, <1>5, <1>6, FaultDoes DEF SessionInv, SessionShape
<1>8. Frame("pong") \in Frames /\ Frame("pong").kind = "pong"
  BY FrameOfKind, TaskNames
<1>9. Unborn' /\ OwnersRun' /\ ResetIsLast' /\ InStep' /\ Promised'
  BY <1>1, <1>4, <1>5, <1>8, QuietSession
<1> QED BY <1>7, <1>9 DEF SessionInv

LEMMA HandleRegisterStep ==
  ASSUME SessionInv, NEW s \in Attempts, HandleRegister(s)
  PROVE  SessionInv'
<1>1. PICK i : i = Head(toServer[s]).tunnel
  OBVIOUS
<1>2. /\ task[s] = "loop" /\ Heard(s, "register") /\ Consume(s)
      /\ IF owner[i] = 0 THEN owner' = [owner EXCEPT ![i] = s] /\ Tell(s, Frame("registered"))
                         ELSE owner' = owner /\ Tell(s, Frame("refused"))
      /\ UNCHANGED <<client, link, task, pending, stopping, sessions, process, faults, conns>>
  BY <1>1 DEF HandleRegister, At, Granted
<1>3. /\ toServer' \in [Attempts -> Seq(Frames)] /\ \A r \in Attempts : r # s => toServer'[r] = toServer[r]
      /\ toServer[s] # <<>> /\ Head(toServer[s]).kind = "register" /\ toServer'[s] = Tail(toServer[s])
      /\ toServer[s] \in Seq(Frames)
  BY <1>2, ConsumeDoes
<1>4. CASE owner[i] # 0
  <2>1. Frame("refused") \in Frames /\ Frame("refused").kind = "refused"
    BY FrameOfKind, TaskNames
  <2>2. Tell(s, Frame("refused")) /\ owner' = owner
    BY <1>2, <1>4
  <2>3. /\ toClient' \in [Attempts -> Seq(Frames)] /\ \A r \in Attempts : r # s => toClient'[r] = toClient[r]
        /\ toClient'[s] = toClient[s] \/ toClient'[s] = Append(toClient[s], Frame("refused"))
    BY <2>1, <2>2, TellDoes
  <2>4. SessionShape'
    BY <1>2, <1>3, <2>2, <2>3 DEF SessionInv, SessionShape
  <2>5. Unborn' /\ OwnersRun' /\ ResetIsLast' /\ InStep' /\ Promised'
    BY <1>2, <1>3, <2>1, <2>2, <2>3, QuietSession
  <2> QED BY <2>4, <2>5 DEF SessionInv
<1>5. CASE owner[i] = 0
  <2>1. PICK f : f = Frame("registered")
    OBVIOUS
  <2>2. f \in Frames /\ f.kind = "registered"
    BY <2>1, FrameOfKind, TaskNames
  <2>3. Tell(s, f) /\ owner' = [owner EXCEPT ![i] = s]
    BY <1>2, <1>5, <2>1
  <2>4. /\ toClient' \in [Attempts -> Seq(Frames)] /\ \A r \in Attempts : r # s => toClient'[r] = toClient[r]
        /\ toClient'[s] = toClient[s] \/ toClient'[s] = Append(toClient[s], f)
    BY <2>2, <2>3, TellDoes
  <2>5. owner \in [Tunnels -> 0 .. MaxAttempts] /\ s \in 0 .. MaxAttempts
    BY SessionBounds DEF SessionInv, SessionShape, Attempts
  <2>6. /\ owner' \in [Tunnels -> 0 .. MaxAttempts]
        /\ \A j \in Tunnels : owner'[j] = IF j = i THEN s ELSE owner[j]
    BY <2>3, <2>5
  <2>7. SessionShape'
    BY <1>2, <1>3, <2>4, <2>6 DEF SessionInv, SessionShape
  <2>8. /\ toClient[s] \in Seq(Frames) /\ (Has(toClient[s], "reset") => task[s] = "over")
    BY SessionFacts
  <2>9. ~Has(toClient[s], "reset")
    BY <1>2, <2>8
  <2>10. ~Has(toClient'[s], "reset")
    <3>1. CASE toClient'[s] = Append(toClient[s], f)
      <4>1. ~Has(Append(toClient[s], f), "reset")
        BY <2>2, <2>8, <2>9, HasAppend
      <4> QED BY <3>1, <4>1
    <3> QED BY <2>4, <2>9, <3>1
  <2>11. ASSUME Active, client.conn = s
         PROVE  /\ Handshake(client.pc, client.next, task'[s], toServer'[s], toClient'[s])
                /\ client.next \in Tunnels /\ i = client.next
    <3>1. PICK pc : pc = client.pc
      OBVIOUS
    <3>2. PICK n : n = client.next
      OBVIOUS
    <3>3. Handshake(pc, n, task[s], toServer[s], toClient[s])
      BY <2>11, <3>1, <3>2, ShakeAt
    <3>4. /\ pc = "answer" /\ n \in Tunnels /\ Head(toServer[s]).tunnel = n
          /\ Handshake(pc, n, task[s], Tail(toServer[s]), Append(toClient[s], f))
      <4>1. task[s] \notin {"auth", "authed"}
        BY <1>2
      <4>2. PICK x \in Seq(Frames) : x = toServer[s]
        BY <1>3
      <4>3. PICK y \in Seq(Frames) : y = toClient[s]
        BY <2>8
      <4>4. PICK t : t = task[s]
        OBVIOUS
      <4>5. Handshake(pc, n, t, x, y) /\ x # <<>> /\ Head(x).kind = "register" /\ t \notin {"auth", "authed"}
        BY <1>3, <3>3, <4>1, <4>2, <4>3, <4>4
      <4>6. pc = "answer" /\ n \in Tunnels /\ Head(x).tunnel = n /\ Handshake(pc, n, t, Tail(x), Append(y, f))
        BY <2>2, <4>5, ShakeAnswered
      <4> QED BY <4>2, <4>3, <4>4, <4>6
    <3>5. Handshake(pc, n, task[s], Tail(toServer[s]), toClient[s])
      BY <1>3, <3>3, ShakeHeard
    <3>6. task'[s] = task[s]
      BY <1>2
    <3> QED BY <1>1, <1>3, <2>4, <3>1, <3>2, <3>4, <3>5, <3>6
  <2>12. Unborn' /\ OwnersRun' /\ ResetIsLast' /\ InStep' /\ Promised'
    <3>1. \A r \in Attempts : r # s => task'[r] = task[r] /\ toServer'[r] = toServer[r] /\ toClient'[r] = toClient[r]
      BY <1>2, <1>3, <2>4
    <3>2. task'[s] = "loop" /\ task[s] = "loop" /\ client' = client
      BY <1>2
    <3>3. \A j \in Tunnels : owner'[j] \in {0, s, owner[j]}
      BY <2>6
    <3>4. \A j \in Tunnels : owner[j] \in Attempts => owner'[j] = owner[j]
      BY <1>5, <2>6, AttemptsAreNat
    <3>5. Active /\ client.conn = s => owner'[client.next] = s
      BY <2>6, <2>11
    <3>6. Active /\ client.conn = s => Handshake(client.pc, client.next, task'[s], toServer'[s], toClient'[s])
      BY <2>11
    <3> QED BY <2>10, <3>1, <3>2, <3>3, <3>4, <3>5, <3>6, AtSession
  <2> QED BY <2>7, <2>12 DEF SessionInv
<1> QED BY <1>4, <1>5

LEMMA CleanupStep ==
  ASSUME SessionInv, NEW s \in Attempts, Cleanup(s)
  PROVE  SessionInv'
<1>1. /\ task[s] = "cleanup" /\ sessions' = sessions \ {s} /\ Tell(s, Frame("reset")) /\ Finish(s)
      /\ owner' = [i \in Tunnels |-> IF owner[i] = s THEN 0 ELSE owner[i]]
      /\ UNCHANGED <<client, link, process, faults, conns>>
  BY DEF Cleanup, At
<1>2. PICK f : f = Frame("reset")
  OBVIOUS
<1>3. f \in Frames /\ f.kind = "reset"
  BY <1>2, FrameOfKind, TaskNames
<1>4. /\ toClient' \in [Attempts -> Seq(Frames)] /\ \A r \in Attempts : r # s => toClient'[r] = toClient[r]
      /\ toClient'[s] = toClient[s] \/ toClient'[s] = Append(toClient[s], f)
  BY <1>1, <1>2, <1>3, TellDoes
<1>5. /\ task' \in [Attempts -> TaskPCs] /\ task'[s] = "over" /\ \A r \in Attempts : r # s => task'[r] = task[r]
      /\ toServer' \in [Attempts -> Seq(Frames)] /\ toServer'[s] = <<>>
      /\ \A r \in Attempts : r # s => toServer'[r] = toServer[r]
      /\ pending' \in [Attempts -> Bits] /\ stopping' \subseteq Attempts
  BY <1>1, FinishDoes
<1>6. owner \in [Tunnels -> 0 .. MaxAttempts] /\ 0 \in 0 .. MaxAttempts /\ s # 0
  BY SessionBounds, AttemptsAreNat DEF SessionInv, SessionShape
<1>7. /\ owner' \in [Tunnels -> 0 .. MaxAttempts]
      /\ \A i \in Tunnels : owner'[i] = IF owner[i] = s THEN 0 ELSE owner[i]
  BY <1>1, <1>6
<1>8. SessionShape'
  BY <1>1, <1>4, <1>5, <1>7 DEF SessionInv, SessionShape
<1>9. toClient[s] \in Seq(Frames) /\ toServer[s] \in Seq(Frames)
  BY SessionFacts
<1>10. ASSUME Active, client.conn = s
       PROVE  Handshake(client.pc, client.next, task'[s], toServer'[s], toClient'[s])
  <2>1. PICK pc : pc = client.pc
    OBVIOUS
  <2>2. PICK n : n = client.next
    OBVIOUS
  <2>3. Handshake(pc, n, task[s], toServer[s], toClient[s])
    BY <1>10, <2>1, <2>2, ShakeAt
  <2>4. Handshake(pc, n, "over", toServer[s], toClient[s])
    BY <2>3, ShakeTask
  <2>5. Handshake(pc, n, "over", <<>>, toClient[s])
    BY <1>9, <2>4, ShakeHeard
  <2>6. Handshake(pc, n, "over", <<>>, Append(toClient[s], f))
    BY <1>3, <1>9, <2>5, ShakeTold
  <2> QED BY <1>4, <1>5, <2>1, <2>2, <2>5, <2>6
<1>11. Unborn' /\ OwnersRun' /\ ResetIsLast' /\ InStep' /\ Promised'
  <2>1. \A r \in Attempts : r # s => task'[r] = task[r] /\ toServer'[r] = toServer[r] /\ toClient'[r] = toClient[r]
    BY <1>4, <1>5
  <2>2. task'[s] = "over" /\ task[s] # "none" /\ client' = client
    BY <1>1, <1>5
  <2>3. \A i \in Tunnels : owner'[i] \in {0, s, owner[i]} /\ owner'[i] # s
    BY <1>6, <1>7
  <2>4. \A i \in Tunnels : owner[i] \in Attempts /\ owner[i] # s => owner'[i] = owner[i]
    BY <1>7
  <2> QED BY <1>10, <2>1, <2>2, <2>3, <2>4, AtSession
<1> QED BY <1>8, <1>11 DEF SessionInv

-----------------------------------------------------------------------------
(* ClientSession: the steps of the client *)

LEMMA ReplyDoes ==
  ASSUME SessionInv, Active, NEW f \in Frames, Reply(f)
  PROVE  /\ client.conn \in Attempts
         /\ toServer' \in [Attempts -> Seq(Frames)]
         /\ \A r \in Attempts : r # client.conn => toServer'[r] = toServer[r]
         /\ toServer'[client.conn] = toServer[client.conn] \/ toServer'[client.conn] = Append(toServer[client.conn], f)
<1>1. PICK s : s = client.conn
  OBVIOUS
<1>2. toServer \in [Attempts -> Seq(Frames)] /\ s \in Attempts
  BY <1>1 DEF SessionInv, SessionShape, Unborn
<1>3. PICK a : a = IF link[s] = "up" /\ ~At(s, "over") THEN Append(toServer[s], f) ELSE toServer[s]
  OBVIOUS
<1>4. a \in Seq(Frames) /\ (a = toServer[s] \/ a = Append(toServer[s], f))
  BY <1>2, <1>3
<1>5. toServer' = [toServer EXCEPT ![s] = a]
  BY <1>1, <1>3 DEF Reply
<1> QED BY <1>1, <1>2, <1>4, <1>5

LEMMA TakeDoes ==
  ASSUME SessionInv, Active, NEW k, Told(k), Take
  PROVE  /\ client.conn \in Attempts /\ toClient[client.conn] \in Seq(Frames)
         /\ toClient[client.conn] # <<>> /\ Head(toClient[client.conn]).kind = k
         /\ toClient' \in [Attempts -> Seq(Frames)]
         /\ \A r \in Attempts : r # client.conn => toClient'[r] = toClient[r]
         /\ toClient'[client.conn] = Tail(toClient[client.conn])
<1>1. PICK s : s = client.conn
  OBVIOUS
<1>2. toClient \in [Attempts -> Seq(Frames)] /\ s \in Attempts /\ toClient[s] # <<>> /\ Head(toClient[s]).kind = k
  BY <1>1 DEF SessionInv, SessionShape, Unborn, Told
<1>3. PICK a : a = Tail(toClient[s])
  OBVIOUS
<1>4. a \in Seq(Frames)
  BY <1>2, <1>3
<1>5. toClient' = [toClient EXCEPT ![s] = a]
  BY <1>1, <1>3 DEF Take
<1> QED BY <1>1, <1>2, <1>3, <1>4, <1>5

\* The client gives its connection up.
LEMMA LeaveStep ==
  ASSUME SessionInv, Active, NEW m \in Kinds, NEW pc \in {"start", "exited"}, NEW why \in Exits, Leave(m, pc, why),
         UNCHANGED <<link, task, pending, stopping, sessions, owner, process, conns>>, faults' \in 0 .. MaxFaults
  PROVE  SessionInv'
<1>1. /\ client' = [client EXCEPT !.pc = pc, !.exit = why] /\ Reply(Frame(m))
      /\ toClient' = [toClient EXCEPT ![client.conn] = <<>>]
  BY DEF Leave
<1>2. SessionShape /\ Unborn /\ OwnersRun /\ ResetIsLast
  BY DEF SessionInv
<1>3. client \in ClientRecords /\ pc \in ClientPCs
  BY <1>2 DEF SessionShape, ClientPCs
<1>4. client' \in ClientRecords /\ client'.pc = pc /\ client'.conn = client.conn
  BY <1>1, <1>3 DEF ClientRecords
<1>5. PICK s : s = client.conn
  OBVIOUS
<1>6. /\ s \in Attempts /\ toServer' \in [Attempts -> Seq(Frames)]
      /\ \A r \in Attempts : r # s => toServer'[r] = toServer[r]
  BY <1>1, <1>5, FrameOfKind, ReplyDoes
<1>7. toClient' \in [Attempts -> Seq(Frames)] /\ toClient'[s] = <<>> /\ \A r \in Attempts : r # s => toClient'[r] = toClient[r]
  <2>1. toClient \in [Attempts -> Seq(Frames)] /\ <<>> \in Seq(Frames)
    BY <1>2 DEF SessionShape
  <2> QED BY <1>1, <1>5, <1>6, <2>1
<1>8. SessionShape'
  BY <1>2, <1>4, <1>6, <1>7 DEF SessionShape
<1>9. ~Active'
  BY <1>4 DEF Active
<1>10. Unborn'
  <2>1. \A r \in Attempts : r > s => r # s
    BY AttemptsAreNat
  <2> QED BY <1>2, <1>4, <1>5, <1>6, <1>7, <1>9, <2>1 DEF Unborn
<1>11. OwnersRun'
  BY <1>2 DEF OwnersRun
<1>12. ResetIsLast'
  <2>1. ~Has(toClient'[s], "reset")
    BY <1>7, HasNone
  <2>2. ASSUME NEW r \in Attempts, Has(toClient'[r], "reset") PROVE task'[r] = "over"
    BY <1>2, <1>7, <2>1, <2>2 DEF ResetIsLast
  <2> QED BY <2>2 DEF ResetIsLast, Has
<1>13. InStep' /\ Promised'
  BY <1>9 DEF InStep, Promised
<1> QED BY <1>8, <1>10, <1>11, <1>12, <1>13 DEF SessionInv

\* The client goes on with its connection.
LEMMA AtClient ==
  ASSUME SessionInv, Active, client'.pc \notin {"start", "exited"}, client'.conn = client.conn,
         task' = task, owner' = owner,
         \A r \in Attempts : r # client.conn => toServer'[r] = toServer[r] /\ toClient'[r] = toClient[r],
         Handshake(client'.pc, client'.next, task[client.conn], toServer'[client.conn], toClient'[client.conn]),
         Has(toClient'[client.conn], "reset") => Has(toClient[client.conn], "reset"),
         task[client.conn] = "loop" =>
           /\ \A i \in Tunnels : i < client'.next => i < client.next \/ owner[i] = client.conn
           /\ client'.pc = "answer" =>
                \/ /\ client.pc = "answer" /\ client'.next = client.next
                   /\ Has(toClient'[client.conn], "registered") => Has(toClient[client.conn], "registered")
                \/ ~Has(toClient'[client.conn], "registered")
  PROVE  Unborn' /\ OwnersRun' /\ ResetIsLast' /\ InStep' /\ Promised'
<1>1. SessionShape /\ Unborn /\ OwnersRun /\ ResetIsLast /\ Promised
  BY DEF SessionInv
<1>2. PICK s : s = client.conn
  OBVIOUS
<1>3. s \in Attempts
  BY <1>1, <1>2 DEF Unborn
<1>4. Active'
  BY DEF Active
<1>5. Unborn'
  <2>1. \A r \in Attempts : r > s => r # s
    BY AttemptsAreNat
  <2> QED BY <1>1, <1>2, <1>3, <2>1 DEF Unborn
<1>6. OwnersRun'
  BY <1>1 DEF OwnersRun
<1>7. ResetIsLast'
  <2>1. ASSUME NEW r \in Attempts, Has(toClient'[r], "reset") PROVE task'[r] = "over"
    <3>1. CASE r = s
      BY <1>1, <1>2, <2>1, <3>1 DEF ResetIsLast
    <3>2. CASE r # s
      BY <1>1, <1>2, <2>1, <3>2 DEF ResetIsLast
    <3> QED BY <3>1, <3>2
  <2> QED BY <2>1 DEF ResetIsLast, Has
<1>8. InStep'
  <2>1. Handshake(client'.pc, client'.next, task'[client'.conn], toServer'[client'.conn], toClient'[client'.conn])
    OBVIOUS
  <2> QED BY <2>1 DEF InStep, Handshake, Has, Once, AsksFor
<1>9. Promised'
  <2>1. ASSUME task[s] = "loop"
        PROVE  /\ \A i \in Tunnels : i < client'.next => owner[i] = s
               /\ client'.pc = "answer" /\ Has(toClient'[s], "registered") => owner[client'.next] = s
    <3>1. /\ \A i \in Tunnels : i < client.next => owner[i] = s
          /\ client.pc = "answer" /\ Has(toClient[s], "registered") => owner[client.next] = s
      BY <1>1, <1>2, <2>1 DEF Promised
    <3> QED BY <1>2, <2>1, <3>1
  <2> QED BY <1>2, <2>1 DEF Promised, Has
<1> QED BY <1>5, <1>6, <1>7, <1>8, <1>9

\* The client hears AuthOk, asks for its next tunnel, and hears the answer.
LEMMA ShakeAccepted ==
  ASSUME NEW n, NEW t, NEW x, NEW y \in Seq(Frames), Handshake("auth", n, t, x, y), y # <<>>, Head(y).kind = "authok"
  PROVE  Handshake("ask", n, t, x, Tail(y))
<1>1. PICK a : a = Tail(y)
  OBVIOUS
<1>2. Has(y, "authok") /\ (Has(a, "registered") => Has(y, "registered"))
  BY <1>1, HasTail
<1>3. Handshake("ask", n, t, x, a)
  BY <1>2 DEF Handshake
<1> QED BY <1>1, <1>3

LEMMA ShakeAsked ==
  ASSUME NEW n \in Tunnels, NEW t, NEW x \in Seq(Frames), NEW y, NEW f \in Frames, Handshake("ask", n, t, x, y),
         f.kind = "register", f.tunnel = n
  PROVE  /\ Handshake("answer", n, t, x, y) /\ Handshake("answer", n, t, Append(x, f), y)
         /\ ~Has(y, "registered")
<1>1. PICK a : a = Append(x, f)
  OBVIOUS
<1>2. ~Has(x, "register") /\ ~Has(y, "registered") /\ t \notin {"auth", "authed"}
  BY DEF Handshake
<1>3. Once(x, "register") /\ Once(y, "registered") /\ AsksFor(x, n)
  BY <1>2, OnceNone, AskNone
<1>4. Once(a, "register") /\ AsksFor(a, n)
  BY <1>1, <1>2, <1>3, HasAppend
<1>5. Handshake("answer", n, t, x, y)
  BY <1>2, <1>3 DEF Handshake
<1>6. Handshake("answer", n, t, a, y)
  BY <1>2, <1>3, <1>4 DEF Handshake
<1> QED BY <1>1, <1>2, <1>5, <1>6

LEMMA ShakeRegistered ==
  ASSUME NEW n, NEW t, NEW x, NEW y \in Seq(Frames), Handshake("answer", n, t, x, y), y # <<>>,
         Head(y).kind = "registered"
  PROVE  n \in Tunnels /\ Has(y, "registered") /\ Handshake("ask", n + 1, t, x, Tail(y))
<1>1. PICK a : a = Tail(y)
  OBVIOUS
<1>2. Has(y, "registered") /\ (Once(y, "registered") => ~Has(a, "registered"))
  BY <1>1, HasTail
<1>3. /\ n \in Tunnels /\ ~Has(x, "register") /\ ~Has(a, "registered")
      /\ t \notin {"auth", "authed"}
  BY <1>2 DEF Handshake
<1>4. Handshake("ask", n + 1, t, x, a)
  BY <1>3 DEF Handshake
<1> QED BY <1>1, <1>2, <1>3, <1>4

LEMMA RecvAuthStep ==
  ASSUME SessionInv, RecvAuth
  PROVE  SessionInv'
<1>1. ClientAt("auth") /\ UNCHANGED <<link, task, pending, stopping, sessions, owner, process, faults, conns>>
  BY DEF RecvAuth
<1>2. Active /\ client.pc = "auth"
  BY <1>1 DEF ClientAt, Active
<1>3. faults' \in 0 .. MaxFaults
  BY <1>1 DEF SessionInv, SessionShape
<1>4. CASE Told("autherror") /\ Leave("reset", "exited", "auth")
  <2>1. "reset" \in Kinds /\ "exited" \in {"start", "exited"} /\ "auth" \in Exits
    BY DEF Kinds, Exits
  <2> QED BY <1>1, <1>2, <1>3, <1>4, <2>1, LeaveStep
<1>5. CASE Told("reset") /\ Retry
  <2>1. "reset" \in Kinds /\ "start" \in {"start", "exited"} /\ "none" \in Exits
    BY DEF Kinds, Exits
  <2> QED BY <1>1, <1>2, <1>3, <1>5, <2>1, LeaveStep DEF Retry
<1>6. CASE Told("authok") /\ Take /\ client' = [client EXCEPT !.pc = "ask"] /\ UNCHANGED toServer
  <2>1. PICK s : s = client.conn
    OBVIOUS
  <2>2. PICK n : n = client.next
    OBVIOUS
  <2>3. /\ s \in Attempts /\ toClient[s] \in Seq(Frames) /\ toClient[s] # <<>> /\ Head(toClient[s]).kind = "authok"
        /\ toClient' \in [Attempts -> Seq(Frames)] /\ \A r \in Attempts : r # s => toClient'[r] = toClient[r]
        /\ toClient'[s] = Tail(toClient[s])
    BY <1>2, <1>6, <2>1, TakeDoes
  <2>4. client \in ClientRecords /\ SessionShape
    BY DEF SessionInv, SessionShape
  <2>5. client' \in ClientRecords /\ client'.pc = "ask" /\ client'.conn = s /\ client'.next = n
    BY <1>6, <2>1, <2>2, <2>4 DEF ClientRecords, ClientPCs
  <2>6. SessionShape'
    BY <1>1, <1>6, <2>3, <2>4, <2>5 DEF SessionShape
  <2>7. Handshake("auth", n, task[s], toServer[s], toClient[s])
    BY <1>2, <2>1, <2>2, <2>3, ShakeAt
  <2>8. PICK x : x = toServer[s]
    OBVIOUS
  <2>9. PICK y \in Seq(Frames) : y = toClient[s]
    BY <2>3
  <2>10. PICK t : t = task[s]
    OBVIOUS
  <2>11. Handshake("ask", n, t, x, Tail(y))
    BY <2>3, <2>7, <2>8, <2>9, <2>10, ShakeAccepted
  <2>12. Has(Tail(y), "reset") => Has(y, "reset")
    BY <2>3, <2>9, HasTail
  <2>13. Unborn' /\ OwnersRun' /\ ResetIsLast' /\ InStep' /\ Promised'
    BY <1>1, <1>2, <1>6, <2>1, <2>2, <2>3, <2>5, <2>8, <2>9, <2>10, <2>11, <2>12, AtClient
  <2> QED BY <2>6, <2>13 DEF SessionInv
<1> QED BY <1>4, <1>5, <1>6 DEF RecvAuth

LEMMA AskStep ==
  ASSUME SessionInv, Ask
  PROVE  SessionInv'
<1>1. /\ client.pc = "ask" /\ client.next \in Tunnels /\ Reply([kind |-> "register", tunnel |-> client.next])
      /\ client' = [client EXCEPT !.pc = "answer"]
      /\ UNCHANGED <<link, toClient, task, pending, stopping, sessions, owner, process, faults, conns>>
  BY DEF Ask, ClientAt
<1>2. Active
  BY <1>1 DEF Active
<1>3. PICK s : s = client.conn
  OBVIOUS
<1>4. PICK n \in Tunnels : n = client.next
  BY <1>1
<1>5. PICK f : f = [kind |-> "register", tunnel |-> n]
  OBVIOUS
<1>6. f \in Frames /\ f.kind = "register" /\ f.tunnel = n
  <2>1. n \in 0 .. NumTunnels
    BY SessionBounds DEF Tunnels
  <2> QED BY <1>5, <2>1 DEF Frames, Kinds
<1>7. /\ s \in Attempts /\ toServer' \in [Attempts -> Seq(Frames)] /\ \A r \in Attempts : r # s => toServer'[r] = toServer[r]
      /\ toServer'[s] = toServer[s] \/ toServer'[s] = Append(toServer[s], f)
  <2>1. Reply(f)
    BY <1>1, <1>4, <1>5
  <2> QED BY <1>2, <1>3, <1>6, <2>1, ReplyDoes
<1>8. client \in ClientRecords /\ SessionShape
  BY DEF SessionInv, SessionShape
<1>9. client' \in ClientRecords /\ client'.pc = "answer" /\ client'.conn = s /\ client'.next = n
  BY <1>1, <1>3, <1>4, <1>8 DEF ClientRecords, ClientPCs
<1>10. SessionShape'
  BY <1>1, <1>7, <1>8, <1>9 DEF SessionShape
<1>11. PICK x \in Seq(Frames) : x = toServer[s]
  BY <1>7, <1>8 DEF SessionShape
<1>12. PICK y : y = toClient[s]
  OBVIOUS
<1>13. PICK t : t = task[s]
  OBVIOUS
<1>14. Handshake("ask", n, t, x, y)
  BY <1>1, <1>2, <1>3, <1>4, <1>7, <1>11, <1>12, <1>13, ShakeAt
<1>15. Handshake("answer", n, t, x, y) /\ Handshake("answer", n, t, Append(x, f), y) /\ ~Has(y, "registered")
  BY <1>6, <1>14, ShakeAsked
<1>16. PICK z : z = toServer'[s] /\ Handshake("answer", n, t, z, y)
  BY <1>7, <1>11, <1>15
<1>17. Unborn' /\ OwnersRun' /\ ResetIsLast' /\ InStep' /\ Promised'
  BY <1>1, <1>2, <1>3, <1>4, <1>7, <1>9, <1>12, <1>13, <1>15, <1>16, AtClient
<1> QED BY <1>10, <1>17 DEF SessionInv

LEMMA RetryStep ==
  ASSUME SessionInv, Active, Retry, faults' \in 0 .. MaxFaults,
         UNCHANGED <<link, task, pending, stopping, sessions, owner, process, conns>>
  PROVE  SessionInv'
<1>1. "reset" \in Kinds /\ "start" \in {"start", "exited"} /\ "none" \in Exits
  BY DEF Kinds, Exits
<1> QED BY <1>1, LeaveStep DEF Retry

LEMMA RecvAnswerStep ==
  ASSUME SessionInv, RecvAnswer
  PROVE  SessionInv'
<1>1. client.pc = "answer" /\ UNCHANGED <<link, task, pending, stopping, sessions, owner, process, faults, conns>>
  BY DEF RecvAnswer, ClientAt
<1>2. Active
  BY <1>1 DEF Active
<1>3. faults' \in 0 .. MaxFaults
  BY <1>1 DEF SessionInv, SessionShape
<1>4. CASE Told("refused") /\ Leave("reset", "exited", "tunnel")
  <2>1. "reset" \in Kinds /\ "exited" \in {"start", "exited"} /\ "tunnel" \in Exits
    BY DEF Kinds, Exits
  <2> QED BY <1>1, <1>2, <1>3, <1>4, <2>1, LeaveStep
<1>5. CASE Retry
  BY <1>1, <1>2, <1>3, <1>5, RetryStep
<1>6. CASE Told("registered") /\ Take /\ client' = [client EXCEPT !.pc = "ask", !.next = @ + 1] /\ UNCHANGED toServer
  <2>1. PICK s : s = client.conn
    OBVIOUS
  <2>2. PICK n : n = client.next
    OBVIOUS
  <2>3. /\ s \in Attempts /\ toClient[s] \in Seq(Frames) /\ toClient[s] # <<>> /\ Head(toClient[s]).kind = "registered"
        /\ toClient' \in [Attempts -> Seq(Frames)] /\ \A r \in Attempts : r # s => toClient'[r] = toClient[r]
        /\ toClient'[s] = Tail(toClient[s])
    BY <1>2, <1>6, <2>1, TakeDoes
  <2>4. PICK x : x = toServer[s]
    OBVIOUS
  <2>5. PICK y \in Seq(Frames) : y = toClient[s]
    BY <2>3
  <2>6. PICK t : t = task[s]
    OBVIOUS
  <2>7. Handshake("answer", n, t, x, y)
    BY <1>1, <1>2, <2>1, <2>2, <2>3, <2>4, <2>5, <2>6, ShakeAt
  <2>8. n \in Tunnels /\ Has(y, "registered") /\ Handshake("ask", n + 1, t, x, Tail(y))
    BY <2>3, <2>5, <2>7, ShakeRegistered
  <2>9. n \in Nat /\ n + 1 \in 1 .. NumTunnels + 1 /\ \A i \in Tunnels : i < n + 1 => i < n \/ i = n
    BY <2>8, SessionBounds DEF Tunnels
  <2>10. client \in ClientRecords /\ SessionShape
    BY DEF SessionInv, SessionShape
  <2>11. client' \in ClientRecords /\ client'.pc = "ask" /\ client'.conn = s /\ client'.next = n + 1
    <3>1. PICK m : m = n + 1
      OBVIOUS
    <3>2. m \in 1 .. NumTunnels + 1 /\ client' = [client EXCEPT !.pc = "ask", !.next = m]
      BY <1>6, <2>2, <2>9, <3>1
    <3>3. client' \in ClientRecords /\ client'.pc = "ask" /\ client'.conn = s /\ client'.next = m
      BY <2>1, <2>10, <3>2 DEF ClientRecords, ClientPCs
    <3> QED BY <3>1, <3>3
  <2>12. SessionShape'
    BY <1>1, <1>6, <2>3, <2>10, <2>11 DEF SessionShape
  <2>13. Has(Tail(y), "reset") => Has(y, "reset")
    BY <2>3, <2>5, HasTail
  <2>14. task[s] = "loop" => owner[n] = s
    BY <1>1, <1>2, <2>1, <2>2, <2>5, <2>8 DEF SessionInv, Promised
  <2>15. task[s] = "loop" => \A i \in Tunnels : i < n + 1 => i < n \/ owner[i] = s
    BY <2>9, <2>14
  <2>16. Unborn' /\ OwnersRun' /\ ResetIsLast' /\ InStep' /\ Promised'
    BY <1>1, <1>2, <1>6, <2>1, <2>2, <2>3, <2>4, <2>5, <2>6, <2>8, <2>11, <2>13, <2>15, AtClient
  <2> QED BY <2>12, <2>16 DEF SessionInv
<1> QED BY <1>4, <1>5, <1>6 DEF RecvAnswer

\* AwaitTimeout, ClientPongOverdue and DataLost.
LEMMA GiveUpConnStep ==
  ASSUME SessionInv, AwaitTimeout \/ ClientPongOverdue \/ DataLost
  PROVE  SessionInv'
<1>1. /\ client.pc \in {"auth", "answer", "online"} /\ Retry /\ (Fault \/ NoFault)
      /\ UNCHANGED <<link, task, pending, stopping, sessions, owner, process, conns>>
  BY DEF AwaitTimeout, ClientPongOverdue, DataLost, ClientAt
<1>2. Active
  BY <1>1 DEF Active
<1>3. faults' \in 0 .. MaxFaults
  <2>1. CASE Fault
    BY <2>1, FaultDoes
  <2>2. CASE NoFault
    BY <2>2 DEF NoFault, SessionInv, SessionShape
  <2> QED BY <1>1, <2>1, <2>2
<1> QED BY <1>1, <1>2, <1>3, RetryStep

LEMMA InterruptStep ==
  ASSUME SessionInv, Interrupt
  PROVE  SessionInv'
<1>1. /\ client.pc = "online" /\ Leave("close", "exited", "asked")
      /\ UNCHANGED <<link, task, pending, stopping, sessions, owner, process, faults, conns>>
  BY DEF Interrupt, ClientAt
<1>2. Active
  BY <1>1 DEF Active
<1>3. faults' \in 0 .. MaxFaults
  BY <1>1 DEF SessionInv, SessionShape
<1>4. "close" \in Kinds /\ "exited" \in {"start", "exited"} /\ "asked" \in Exits
  BY DEF Kinds, Exits
<1> QED BY <1>1, <1>2, <1>3, <1>4, LeaveStep

LEMMA GoOnlineStep ==
  ASSUME SessionInv, GoOnline
  PROVE  SessionInv'
<1>1. /\ client.pc = "ask" /\ client.next > NumTunnels /\ client' = [client EXCEPT !.pc = "online"]
      /\ UNCHANGED <<link, toServer, toClient, task, pending, stopping, sessions, owner, process, faults, conns>>
  BY DEF GoOnline, ClientAt
<1>2. Active
  BY <1>1 DEF Active
<1>3. PICK s : s = client.conn
  OBVIOUS
<1>4. PICK n : n = client.next
  OBVIOUS
<1>5. client \in ClientRecords /\ SessionShape /\ s \in Attempts
  BY <1>2, <1>3 DEF SessionInv, SessionShape, Unborn
<1>6. n \in 1 .. NumTunnels + 1 /\ n > NumTunnels
  BY <1>1, <1>4, <1>5 DEF ClientRecords
<1>7. n = NumTunnels + 1
  BY <1>6, SessionBounds
<1>8. client' \in ClientRecords /\ client'.pc = "online" /\ client'.conn = s /\ client'.next = n
  BY <1>1, <1>3, <1>4, <1>5 DEF ClientRecords, ClientPCs
<1>9. SessionShape'
  BY <1>1, <1>5, <1>8 DEF SessionShape
<1>10. Handshake("ask", n, task[s], toServer[s], toClient[s])
  BY <1>1, <1>2, <1>3, <1>4, <1>5, ShakeAt
<1>11. Handshake("online", n, task[s], toServer[s], toClient[s])
  BY <1>7, <1>10 DEF Handshake
<1>12. Unborn' /\ OwnersRun' /\ ResetIsLast' /\ InStep' /\ Promised'
  BY <1>1, <1>2, <1>3, <1>4, <1>8, <1>11, AtClient
<1> QED BY <1>9, <1>12 DEF SessionInv

\* An online client takes a frame, sends one that asks nothing, or both.
LEMMA OnlineStep ==
  ASSUME SessionInv, client.pc = "online", NEW f \in Frames, f.kind # "register", NEW b \in Bits,
         client' = client \/ client' = [client EXCEPT !.awaiting = b],
         UNCHANGED toServer \/ Reply(f), UNCHANGED toClient \/ (\E k : Told(k) /\ Take),
         UNCHANGED <<link, task, pending, stopping, sessions, owner, process, faults, conns>>
  PROVE  SessionInv'
<1>1. Active
  BY DEF Active
<1>2. PICK s : s = client.conn
  OBVIOUS
<1>3. PICK n : n = client.next
  OBVIOUS
<1>4. client \in ClientRecords /\ SessionShape /\ s \in Attempts
  BY <1>1, <1>2 DEF SessionInv, SessionShape, Unborn
<1>5. client' \in ClientRecords /\ client'.pc = "online" /\ client'.conn = s /\ client'.next = n
  BY <1>2, <1>3, <1>4 DEF ClientRecords
<1>6. toServer[s] \in Seq(Frames) /\ toClient[s] \in Seq(Frames)
  BY <1>4 DEF SessionShape
<1>7. /\ toServer' \in [Attempts -> Seq(Frames)] /\ \A r \in Attempts : r # s => toServer'[r] = toServer[r]
      /\ toServer'[s] = toServer[s] \/ toServer'[s] = Append(toServer[s], f)
  <2>1. CASE UNCHANGED toServer
    BY <1>4, <2>1 DEF SessionShape
  <2>2. CASE Reply(f)
    BY <1>1, <1>2, <2>2, ReplyDoes
  <2> QED BY <2>1, <2>2
<1>8. /\ toClient' \in [Attempts -> Seq(Frames)] /\ \A r \in Attempts : r # s => toClient'[r] = toClient[r]
      /\ toClient'[s] = toClient[s] \/ (toClient[s] # <<>> /\ toClient'[s] = Tail(toClient[s]))
  <2>1. CASE UNCHANGED toClient
    BY <1>4, <2>1 DEF SessionShape
  <2>2. CASE \E k : Told(k) /\ Take
    BY <1>1, <1>2, <2>2, TakeDoes
  <2> QED BY <2>1, <2>2
<1>9. SessionShape'
  BY <1>4, <1>5, <1>7, <1>8 DEF SessionShape
<1>10. PICK x \in Seq(Frames) : x = toServer[s]
  BY <1>6
<1>11. PICK y \in Seq(Frames) : y = toClient[s]
  BY <1>6
<1>12. PICK t : t = task[s]
  OBVIOUS
<1>13. Handshake("online", n, t, x, y)
  BY <1>1, <1>2, <1>3, <1>4, <1>10, <1>11, <1>12, ShakeAt
<1>14. PICK w : w = toClient'[s]
  OBVIOUS
<1>15. Handshake("online", n, t, x, w) /\ (Has(w, "reset") => Has(y, "reset"))
  BY <1>8, <1>11, <1>13, <1>14, ShakeTaken, HasTail
<1>16. PICK z : z = toServer'[s]
  OBVIOUS
<1>17. Handshake("online", n, t, z, w)
  <2>1. Handshake("online", n, t, Append(x, f), w)
    BY <1>10, <1>15, ShakeSent
  <2>2. z = x \/ z = Append(x, f)
    BY <1>7, <1>10, <1>16
  <2> QED BY <1>15, <2>1, <2>2
<1>18. Unborn' /\ OwnersRun' /\ ResetIsLast' /\ InStep' /\ Promised'
  BY <1>1, <1>2, <1>3, <1>5, <1>7, <1>8, <1>11, <1>12, <1>14, <1>15, <1>16, <1>17, AtClient
<1> QED BY <1>9, <1>18 DEF SessionInv

LEMMA ServeFrameStep ==
  ASSUME SessionInv, ServeFrame
  PROVE  SessionInv'
<1>1. client.pc = "online" /\ UNCHANGED <<link, task, pending, stopping, sessions, owner, process, faults, conns>>
  BY DEF ServeFrame, ClientAt
<1>2. Active
  BY <1>1 DEF Active
<1>3. faults' \in 0 .. MaxFaults
  BY <1>1 DEF SessionInv, SessionShape
<1>4. Frame("pong") \in Frames /\ Frame("pong").kind = "pong" /\ FALSE \in Bits
  BY FrameOfKind, TaskNames DEF Bits
<1>5. CASE Told("newconn") /\ Take /\ UNCHANGED <<client, toServer>>
  BY <1>1, <1>4, <1>5, OnlineStep
<1>6. CASE Told("ping") /\ Take /\ Reply(Frame("pong")) /\ UNCHANGED client
  BY <1>1, <1>4, <1>6, OnlineStep
<1>7. CASE Told("pong") /\ Take /\ client' = [client EXCEPT !.awaiting = FALSE] /\ UNCHANGED toServer
  BY <1>1, <1>4, <1>7, OnlineStep
<1>8. CASE Told("close") /\ Leave("reset", "exited", "closed")
  <2>1. "reset" \in Kinds /\ "exited" \in {"start", "exited"} /\ "closed" \in Exits
    BY DEF Kinds, Exits
  <2> QED BY <1>1, <1>2, <1>3, <1>8, <2>1, LeaveStep
<1>9. CASE Told("reset") /\ Retry
  BY <1>1, <1>2, <1>3, <1>9, RetryStep
<1> QED BY <1>5, <1>6, <1>7, <1>8, <1>9 DEF ServeFrame

LEMMA ClientPingStep ==
  ASSUME SessionInv, ClientPing
  PROVE  SessionInv'
<1>1. /\ client.pc = "online" /\ Reply(Frame("ping")) /\ client' = [client EXCEPT !.awaiting = TRUE]
      /\ UNCHANGED <<link, toClient, task, pending, stopping, sessions, owner, process, faults, conns>>
  BY DEF ClientPing, ClientAt
<1>2. Frame("ping") \in Frames /\ Frame("ping").kind = "ping" /\ TRUE \in Bits
  BY FrameOfKind, TaskNames DEF Bits
<1> QED BY <1>1, <1>2, OnlineStep

LEMMA InterruptBackoffStep ==
  ASSUME SessionInv, InterruptBackoff
  PROVE  SessionInv'
<1>1. /\ client' = [client EXCEPT !.pc = "exited", !.exit = "asked"]
      /\ UNCHANGED <<link, toServer, toClient, task, pending, stopping, sessions, owner, process, faults, conns>>
  BY DEF InterruptBackoff
<1>2. client \in ClientRecords /\ SessionShape /\ Unborn /\ OwnersRun /\ ResetIsLast
  BY DEF SessionInv, SessionShape
<1>3. client' \in ClientRecords /\ client'.pc = "exited" /\ client'.conn = client.conn
  BY <1>1, <1>2 DEF ClientRecords, ClientPCs, Exits
<1>4. SessionShape'
  BY <1>1, <1>2, <1>3 DEF SessionShape
<1>5. ~Active'
  BY <1>3 DEF Active
<1>6. Unborn' /\ OwnersRun'
  BY <1>1, <1>2, <1>3, <1>5 DEF Unborn, OwnersRun
<1>7. ResetIsLast'
  BY <1>1, <1>2 DEF ResetIsLast, Has
<1>8. InStep' /\ Promised'
  BY <1>5 DEF InStep, Promised
<1> QED BY <1>4, <1>6, <1>7, <1>8 DEF SessionInv

\* The client opens its next connection.
LEMMA DialStep ==
  ASSUME SessionInv, Dial
  PROVE  SessionInv'
<1>1. PICK s : s = client.conn + 1
  OBVIOUS
<1>2. /\ s \in Attempts
      /\ client' = [client EXCEPT !.pc = "auth", !.conn = s, !.next = 1, !.awaiting = FALSE]
      /\ link' = [link EXCEPT ![s] = "up"] /\ toServer' = [toServer EXCEPT ![s] = <<Frame("auth")>>]
      /\ Goto(s, "auth")
      /\ UNCHANGED <<toClient, pending, stopping, sessions, owner, process, faults, conns>>
  BY <1>1 DEF Dial
<1>3. SessionShape /\ Unborn /\ OwnersRun /\ ResetIsLast /\ client \in ClientRecords
  BY DEF SessionInv, SessionShape
<1>4. client.conn \in Nat /\ s > client.conn /\ s \in 0 .. MaxAttempts /\ \A r \in Attempts : r > s => r > client.conn /\ r # s
  <2>1. client.conn \in 0 .. MaxAttempts
    BY <1>3 DEF ClientRecords
  <2> QED BY <1>1, <1>2, <2>1, SessionBounds DEF Attempts
<1>5. task[s] = "none" /\ toClient[s] = <<>>
  BY <1>2, <1>3, <1>4 DEF Unborn
<1>6. client' \in ClientRecords /\ client'.pc = "auth" /\ client'.conn = s /\ client'.next = 1
  <2>1. 1 \in 1 .. NumTunnels + 1 /\ FALSE \in Bits /\ "auth" \in ClientPCs
    BY SessionBounds DEF Bits, ClientPCs
  <2> QED BY <1>2, <1>3, <1>4, <2>1 DEF ClientRecords
<1>7. PICK x : x = <<Frame("auth")>>
  OBVIOUS
<1>8. x \in Seq(Frames) /\ ~Has(x, "register")
  <2>1. PICK f : f = Frame("auth")
    OBVIOUS
  <2>2. f \in Frames /\ f.kind = "auth"
    BY <2>1, FrameOfKind, TaskNames
  <2>3. x = <<f>> /\ x \in Seq(Frames) /\ Len(x) = 1 /\ x[1] = f
    BY <1>7, <2>1, <2>2
  <2>4. \A j \in 1 .. Len(x) : x[j] = f
    BY <2>3
  <2> QED BY <2>2, <2>3, <2>4 DEF Has
<1>9. /\ toServer' \in [Attempts -> Seq(Frames)] /\ toServer'[s] = x
      /\ \A r \in Attempts : r # s => toServer'[r] = toServer[r]
  <2>1. toServer \in [Attempts -> Seq(Frames)] /\ toServer' = [toServer EXCEPT ![s] = x]
    BY <1>2, <1>3, <1>7 DEF SessionShape
  <2> QED BY <1>2, <1>8, <2>1
<1>10. task' \in [Attempts -> TaskPCs] /\ task'[s] = "auth" /\ \A r \in Attempts : r # s => task'[r] = task[r]
  <2>1. "auth" \in TaskPCs
    BY DEF TaskPCs
  <2> QED BY <1>2, <2>1, GotoDoes
<1>11. link' \in [Attempts -> {"none", "up", "cut"}]
  BY <1>2, <1>3 DEF SessionShape
<1>12. SessionShape'
  BY <1>2, <1>3, <1>6, <1>9, <1>10, <1>11 DEF SessionShape
<1>13. Unborn'
  <2>1. ASSUME NEW r \in Attempts, r > s PROVE task'[r] = "none" /\ toServer'[r] = <<>> /\ toClient'[r] = <<>>
    BY <1>2, <1>3, <1>4, <1>9, <1>10, <2>1 DEF Unborn
  <2> QED BY <1>2, <1>6, <2>1 DEF Unborn
<1>14. OwnersRun'
  <2>1. ASSUME NEW i \in Tunnels, owner[i] # 0 PROVE task'[owner[i]] \in {"loop", "cleanup"}
    <3>1. owner[i] \in Attempts /\ task[owner[i]] \in {"loop", "cleanup"}
      BY <1>3, <2>1, SessionBounds DEF SessionShape, OwnersRun, Attempts
    <3>2. owner[i] # s
      BY <1>5, <3>1
    <3> QED BY <1>10, <3>1, <3>2
  <2> QED BY <1>2, <2>1 DEF OwnersRun
<1>15. ResetIsLast'
  <2>1. ~Has(toClient[s], "reset")
    BY <1>5, HasNone
  <2>2. ASSUME NEW r \in Attempts, Has(toClient[r], "reset") PROVE task'[r] = "over"
    BY <1>3, <1>10, <2>1, <2>2 DEF ResetIsLast
  <2> QED BY <1>2, <2>2 DEF ResetIsLast, Has
<1>16. InStep'
  <2>1. PICK y : y = toClient[s]
    OBVIOUS
  <2>2. \A k : ~Has(y, k)
    BY <1>5, <2>1, HasNone
  <2>3. Handshake("auth", 1, "auth", x, y)
    BY <1>8, <2>2 DEF Handshake
  <2>4. Handshake(client'.pc, client'.next, task'[client'.conn], toServer'[client'.conn], toClient'[client'.conn])
    BY <1>2, <1>6, <1>9, <1>10, <2>1, <2>3
  <2> QED BY <2>4 DEF InStep, Handshake, Has, Once, AsksFor
<1>17. Promised'
  BY <1>6, <1>10 DEF Promised
<1> QED BY <1>12, <1>13, <1>14, <1>15, <1>16, <1>17 DEF SessionInv

-----------------------------------------------------------------------------
(* ClientSession: the server process *)

LEMMA ShutdownSignalStep ==
  ASSUME SessionInv, ShutdownSignal
  PROVE  SessionInv'
<1>1. /\ Fault /\ process' = "draining" /\ \E refused \in SUBSET sessions : stopping' = sessions \ refused
      /\ UNCHANGED <<client, link, toServer, toClient, task, pending, sessions, owner, conns>>
  BY DEF ShutdownSignal
<1>2. SessionShape /\ Unborn /\ OwnersRun /\ ResetIsLast /\ InStep /\ Promised
  BY DEF SessionInv
<1>3. stopping' \subseteq Attempts
  BY <1>1, <1>2 DEF SessionShape
<1>4. SessionShape'
  BY <1>1, <1>2, <1>3, FaultDoes DEF SessionShape
<1>5. Active' = Active
  BY <1>1 DEF Active
<1>6. Unborn' /\ OwnersRun'
  BY <1>1, <1>2, <1>5 DEF Unborn, OwnersRun
<1>7. ResetIsLast'
  BY <1>1, <1>2 DEF ResetIsLast, Has
<1>8. InStep'
  BY <1>1, <1>2, <1>5 DEF InStep, Handshake, Has, Once, AsksFor
<1>9. Promised'
  BY <1>1, <1>2, <1>5 DEF Promised, Has
<1> QED BY <1>4, <1>6, <1>7, <1>8, <1>9 DEF SessionInv

LEMMA ProcessExitStep ==
  ASSUME SessionInv, ProcessExit
  PROVE  SessionInv'
<1>1. /\ process' = "up"
      /\ task' = [s \in Attempts |-> IF task[s] = "none" THEN "none" ELSE "over"]
      /\ toServer' = [s \in Attempts |-> <<>>] /\ pending' = [s \in Attempts |-> FALSE]
      /\ sessions' = {} /\ stopping' = {} /\ owner' = [i \in Tunnels |-> 0]
      /\ UNCHANGED <<client, link, faults, conns>>
  BY DEF ProcessExit, At
<1>2. SessionShape /\ Unborn /\ ResetIsLast
  BY DEF SessionInv
<1>3. PICK f : f = Frame("reset")
  OBVIOUS
<1>4. f \in Frames /\ f.kind = "reset"
  BY <1>3, FrameOfKind, TaskNames
<1>5. toClient' = [s \in Attempts |-> IF Connected(s) /\ ~At(s, "over") THEN Append(toClient[s], f) ELSE toClient[s]]
  BY <1>3 DEF ProcessExit
<1>6. \A s \in Attempts : toClient[s] \in Seq(Frames)
  BY <1>2 DEF SessionShape
<1>7. \A s \in Attempts :
        /\ (toClient'[s] = Append(toClient[s], f) /\ client.conn = s /\ Active) \/ toClient'[s] = toClient[s]
        /\ toClient'[s] \in Seq(Frames)
  <2>1. ASSUME NEW s \in Attempts
        PROVE  (toClient'[s] = Append(toClient[s], f) /\ client.conn = s /\ Active) \/ toClient'[s] = toClient[s]
    BY <1>5, <2>1 DEF Connected, Present, Active
  <2>2. ASSUME NEW s \in Attempts PROVE toClient'[s] \in Seq(Frames)
    BY <1>4, <1>6, <2>1, <2>2
  <2> QED BY <2>1, <2>2
<1>8. SessionShape'
  <2>1. toClient' \in [Attempts -> Seq(Frames)]
    BY <1>5, <1>7
  <2>2. <<>> \in Seq(Frames) /\ FALSE \in Bits /\ 0 \in 0 .. MaxAttempts /\ "none" \in TaskPCs /\ "over" \in TaskPCs
    BY SessionBounds DEF Bits, TaskPCs
  <2>3. toServer' \in [Attempts -> Seq(Frames)]
    BY <1>1, <2>2
  <2>4. pending' \in [Attempts -> Bits] /\ task' \in [Attempts -> TaskPCs] /\ owner' \in [Tunnels -> 0 .. MaxAttempts]
    BY <1>1, <2>2
  <2> QED BY <1>1, <1>2, <2>1, <2>3, <2>4 DEF SessionShape
<1>9. Active' = Active
  BY <1>1 DEF Active
<1>10. Unborn'
  <2>1. \A s \in Attempts : s > client.conn => s # client.conn
    BY <1>2, AttemptsAreNat DEF SessionShape, ClientRecords
  <2>2. \A s \in Attempts : s > client.conn => task'[s] = "none" /\ toServer'[s] = <<>> /\ toClient'[s] = <<>>
    BY <1>1, <1>2, <1>7, <2>1 DEF Unborn
  <2> QED BY <1>1, <1>2, <1>9, <2>2 DEF Unborn
<1>11. OwnersRun'
  BY <1>1 DEF OwnersRun
<1>12. ResetIsLast'
  <2>1. ASSUME NEW s \in Attempts, Has(toClient'[s], "reset") PROVE task'[s] = "over"
    <3>1. CASE task[s] = "none"
      <4>1. ~Has(toClient[s], "reset")
        BY <1>2, <3>1 DEF ResetIsLast
      <4>2. Active /\ client.conn = s
        BY <1>7, <2>1, <4>1
      <4> QED BY <3>1, <4>2 DEF SessionInv, InStep, Handshake
    <3>2. CASE task[s] # "none"
      BY <1>1, <3>2
    <3> QED BY <3>1, <3>2
  <2> QED BY <2>1 DEF ResetIsLast, Has
<1>13. InStep'
  <2>1. ASSUME Active PROVE Handshake(client.pc, client.next, task'[client.conn], toServer'[client.conn], toClient'[client.conn])
    <3>1. PICK s \in Attempts : s = client.conn
      BY <1>2, <2>1 DEF Unborn
    <3>2. PICK n : n = client.next
      OBVIOUS
    <3>3. PICK pc : pc = client.pc
      OBVIOUS
    <3>4. PICK y \in Seq(Frames) : y = toClient[s]
      BY <1>6
    <3>5. PICK t : t = task'[s]
      OBVIOUS
    <3>6. PICK x \in Seq(Frames) : x = toServer[s]
      BY <1>2 DEF SessionShape
    <3>7. Handshake(pc, n, task[s], x, y)
      BY <2>1, <3>1, <3>2, <3>3, <3>4, <3>6, ShakeAt
    <3>8. t = "over"
      <4>1. task[s] # "none"
        BY <3>7 DEF Handshake
      <4> QED BY <1>1, <3>5, <4>1
    <3>9. Handshake(pc, n, t, x, y)
      BY <3>7, <3>8, ShakeTask
    <3>10. Handshake(pc, n, t, <<>>, y)
      BY <3>9, ShakeHeard
    <3>11. PICK z : z = <<>>
      OBVIOUS
    <3>12. PICK w : w = toClient'[s]
      OBVIOUS
    <3>13. w = y \/ w = Append(y, f)
      BY <1>7, <3>4, <3>12
    <3>14. Handshake(pc, n, t, z, y)
      BY <3>10, <3>11
    <3>15. Handshake(pc, n, t, z, Append(y, f))
      BY <1>4, <3>14, ShakeTold
    <3>16. Handshake(pc, n, t, z, w)
      BY <3>13, <3>14, <3>15
    <3>17. toServer'[s] = z
      BY <1>1, <3>11
    <3> QED BY <3>1, <3>2, <3>3, <3>5, <3>12, <3>16, <3>17
  <2>2. Active => client.conn \in Attempts
    BY <1>2 DEF Unborn
  <2> QED BY <1>1, <2>1 DEF InStep, Active, Handshake, Has, Once, AsksFor
<1>14. Promised'
  <2>1. Active => task'[client.conn] # "loop"
    BY <1>1, <1>2 DEF Unborn
  <2> QED BY <1>1, <1>9, <2>1 DEF Promised
<1> QED BY <1>8, <1>10, <1>11, <1>12, <1>13, <1>14 DEF SessionInv

-----------------------------------------------------------------------------
(* ClientSession: the theorems *)

\* SessionInv holds of every behaviour: the client and its session agree on how
\* far the handshake and the registrations have come (connect, auth_handshake,
\* main_loop), names belong to running sessions, and a reset comes after
\* remove_session.
THEOREM SessionInvariant == Spec => []SessionInv
<1>1. Init => SessionInv
  <2> SUFFICES ASSUME Init PROVE SessionInv
    OBVIOUS
  <2>1. SessionShape
    <3>1. <<>> \in Seq(Frames) /\ FALSE \in Bits /\ 0 \in 0 .. MaxAttempts /\ "none" \in TaskPCs /\ 1 \in 1 .. NumTunnels + 1
      BY SessionBounds DEF Bits, TaskPCs
    <3>2. client \in ClientRecords
      BY <3>1 DEF Init, ClientRecords, ClientPCs, Exits
    <3>3. toServer \in [Attempts -> Seq(Frames)] /\ toClient \in [Attempts -> Seq(Frames)]
      BY <3>1 DEF Init
    <3>4. /\ link \in [Attempts -> {"none", "up", "cut"}] /\ task \in [Attempts -> TaskPCs]
          /\ pending \in [Attempts -> Bits] /\ owner \in [Tunnels -> 0 .. MaxAttempts]
      BY <3>1 DEF Init
    <3>5. stopping \subseteq Attempts /\ sessions \subseteq Attempts /\ process \in {"up", "draining"} /\ faults = 0 /\ conns = 0
      BY DEF Init
    <3>6. faults \in 0 .. MaxFaults /\ conns \in 0 .. MaxConns
      BY <3>5, SessionBounds
    <3> QED BY <3>2, <3>3, <3>4, <3>5, <3>6 DEF SessionShape
  <2>2. ~Active
    BY DEF Init, Active
  <2>3. Unborn
    BY <2>2 DEF Init, Unborn
  <2>4. OwnersRun
    BY DEF Init, OwnersRun
  <2>5. ResetIsLast
    <3>1. \A s \in Attempts : toClient[s] = <<>>
      BY DEF Init
    <3> QED BY <3>1, HasNone DEF ResetIsLast
  <2> QED BY <2>1, <2>2, <2>3, <2>4, <2>5 DEF SessionInv, InStep, Promised
<1>2. SessionInv /\ [Next]_vars => SessionInv'
  <2> SUFFICES ASSUME SessionInv, [Next]_vars PROVE SessionInv'
    OBVIOUS
  <2>1. CASE ClientStep
    BY <2>1, DialStep, RecvAuthStep, AskStep, RecvAnswerStep, GiveUpConnStep, GoOnlineStep, ServeFrameStep,
       ClientPingStep DEF ClientStep
  <2>2. CASE DataLost \/ Interrupt \/ InterruptBackoff
    BY <2>2, GiveUpConnStep, InterruptStep, InterruptBackoffStep
  <2>3. ASSUME NEW s \in Attempts, SessionStep(s) PROVE SessionInv'
    BY <2>3, AcceptAuthStep, NoAuthStep, SendAuthOkStep, HandleRegisterStep, HandlePingStep, HandlePongStep,
       PeerGoneStep, PingTickStep, LoopEndsStep, HandleShutdownStep, CleanupStep DEF SessionStep
  <2>4. ASSUME NEW s \in Attempts, Environment(s) PROVE SessionInv'
    BY <2>4, RejectAuthStep, AuthOkFailsStep, RegisterFailsStep, LoopEndsStep, PublicConnectionStep, CutStep
    DEF Environment
  <2>5. CASE ShutdownSignal \/ ProcessExit
    BY <2>5, ShutdownSignalStep, ProcessExitStep
  <2>6. CASE UNCHANGED vars
    <3>1. UNCHANGED <<client, link, toServer, toClient, task, pending, stopping, sessions, owner, process, faults, conns>>
      BY <2>6 DEF vars
    <3>2. SessionShape /\ Unborn /\ OwnersRun /\ ResetIsLast /\ InStep /\ Promised
      BY DEF SessionInv
    <3>3. SessionShape'
      BY <3>1, <3>2 DEF SessionShape
    <3>4. Active' = Active
      BY <3>1 DEF Active
    <3>5. Unborn' /\ OwnersRun'
      BY <3>1, <3>2, <3>4 DEF Unborn, OwnersRun
    <3>6. ResetIsLast' /\ InStep'
      BY <3>1, <3>2, <3>4 DEF ResetIsLast, InStep, Handshake, Has, Once, AsksFor
    <3>7. Promised'
      BY <3>1, <3>2, <3>4 DEF Promised, Has
    <3> QED BY <3>3, <3>5, <3>6, <3>7 DEF SessionInv
  <2> QED BY <2>1, <2>2, <2>3, <2>4, <2>5, <2>6 DEF Next
<1> QED BY <1>1, <1>2, PTL DEF Spec

\* Client and server agree at both ends of every session: an online client whose
\* session runs has all its names (connect's registration loop), and a client
\* whose connection is reset finds them free (run_session drops the WebSocket
\* after remove_session).
THEOREM SessionsStayInAgreement == Spec => []SessionsAgree
<1>1. SessionInv => SessionsAgree
  <2> SUFFICES ASSUME SessionInv PROVE SessionsAgree
    OBVIOUS
  <2>1. SessionShape /\ Unborn /\ OwnersRun /\ ResetIsLast /\ InStep /\ Promised
    BY DEF SessionInv
  <2>2. TypeOK
    BY <2>1 DEF SessionShape, ClientRecords, Bits, TypeOK
  <2>3. OnlineIsServed
    <3> SUFFICES ASSUME client.pc = "online", task[client.conn] = "loop", NEW i \in Tunnels PROVE owner[i] = client.conn
      BY DEF OnlineIsServed, ClientAt, At
    <3>1. Active
      BY DEF Active
    <3>2. client.next = NumTunnels + 1
      BY <2>1, <3>1 DEF InStep, Handshake
    <3>3. i < NumTunnels + 1
      BY SessionBounds DEF Tunnels
    <3> QED BY <2>1, <3>1, <3>2, <3>3 DEF Promised
  <2>4. ResetAfterCleanup
    <3> SUFFICES ASSUME NEW s \in Attempts, Has(toClient[s], "reset"), NEW i \in Tunnels PROVE owner[i] # s
      BY DEF ResetAfterCleanup, Has
    <3>1. task[s] = "over" /\ s # 0
      BY <2>1, AttemptsAreNat DEF ResetIsLast
    <3> QED BY <2>1, <3>1 DEF OwnersRun
  <2> QED BY <2>2, <2>3, <2>4 DEF SessionsAgree
<1> QED BY <1>1, SessionInvariant, PTL

-----------------------------------------------------------------------------
(* ClientTap: connections and their gauge *)

Destinations == Range(Registered) \cup {NoTunnel}
ConnStates == [phase : {"new", "connecting", "copying", "done", "broken"}, via : Destinations,
               local : {t.local : t \in Destinations}, label : {t.label : t \in Destinations},
               script : Scripts \cup {<<>>}]

\* The proxy tasks that run
Proxying == {c \in Conns : conn[c].phase \in {"connecting", "copying"}}

\* A connection goes to a registered tunnel of its protocol.
SameProtocolServed ==
  \A c \in Conns : conn[c].phase # "new" =>
    \E v, t \in Range(Registered) :
      conn[c].via = v /\ conn[c].local = t.local /\ SameProtocol(t.proto, v.proto)

ProxyInv == conn \in [Conns -> ConnStates] /\ GaugeIsExact /\ SameProtocolServed

\* A set of naturals has a least element.
LEMMA LeastNatural ==
  ASSUME NEW S \in SUBSET Nat, S # {}
  PROVE  \E x \in S : \A y \in S : x <= y
<1>1. PICK x \in S : \A y \in S : ~ (<<y, x>> \in OpToRel(<, Nat))
  <2>1. S \subseteq Nat
    OBVIOUS
  <2> QED BY <2>1, NatLessThanWellFounded, WFMin, Zenon
<1>2. \A y \in S : ~ (y < x)
  BY <1>1 DEF OpToRel
<1> QED BY <1>2

\* A search of the list finds one of what it looks for, if there is any.
LEMMA FoundIsFirst ==
  ASSUME NEW found \in SUBSET DOMAIN Registered, found # {}
  PROVE  \E i \in found : FirstTunnel(found) = Registered[i]
<1>1. found \in SUBSET Nat
  BY TapConstants
<1>2. \E x \in found : \A y \in found : x <= y
  BY <1>1, LeastNatural
<1>3. Min(found) \in found
  BY <1>2, Zenon DEF Min
<1> QED BY <1>3 DEF FirstTunnel

\* find_local_target answers with a tunnel of that protocol.
LEMMA TargetOf ==
  ASSUME NEW v \in Range(Registered)
  PROVE  \E t \in Range(Registered) : find_local_target(v.proto) = t /\ SameProtocol(t.proto, v.proto)
<1> DEFINE found == {i \in DOMAIN Registered : SameProtocol(Registered[i].proto, v.proto)}
<1>1. PICK k \in DOMAIN Registered : Registered[k] = v
  BY DEF Range
<1>2. k \in found
  BY <1>1 DEF SameProtocol
<1>3. PICK i \in found : FirstTunnel(found) = Registered[i]
  <2>1. found \in SUBSET DOMAIN Registered /\ found # {}
    BY <1>2
  <2> HIDE DEF found
  <2> QED BY <2>1, FoundIsFirst
<1> QED BY <1>3 DEF find_local_target, Range

LEMMA ProxyInitInv == TapInit => ProxyInv
<1> SUFFICES ASSUME TapInit PROVE ProxyInv
  OBVIOUS
<1>1. conn \in [Conns -> ConnStates]
  BY DEF TapInit, ConnStates, Idle, Destinations, NoTunnel
<1>2. Proxying = {} /\ SameProtocolServed
  BY DEF TapInit, Idle, Proxying, SameProtocolServed
<1>3. GaugeIsExact
  BY <1>2, FS_EmptySet DEF TapInit, GaugeIsExact, Proxying
<1> QED BY <1>1, <1>2, <1>3 DEF ProxyInv

\* The gauge follows the set it counts.
LEMMA GaugeMoves ==
  ASSUME ProxyInv, NEW c \in Conns,
         \/ Proxying' = Proxying \cup {c} /\ c \notin Proxying /\ connsOpen' = connsOpen + 1
         \/ Proxying' = Proxying \ {c} /\ c \in Proxying /\ connsOpen' = connsOpen - 1
         \/ Proxying' = Proxying /\ connsOpen' = connsOpen
  PROVE  GaugeIsExact'
<1>1. connsOpen = Cardinality(Proxying)
  BY DEF ProxyInv, GaugeIsExact, Proxying
<1>2. IsFiniteSet(Proxying) /\ Cardinality(Proxying) \in Nat
  <2>1. Proxying \in SUBSET Conns
    BY DEF Proxying
  <2> QED BY <2>1, TapConstants, FS_Subset, FS_CardinalityType
<1>3. connsOpen' = Cardinality(Proxying')
  <2>1. CASE Proxying' = Proxying \cup {c} /\ c \notin Proxying /\ connsOpen' = connsOpen + 1
    BY <1>1, <1>2, <2>1, FS_AddElement
  <2>2. CASE Proxying' = Proxying \ {c} /\ c \in Proxying /\ connsOpen' = connsOpen - 1
    BY <1>1, <1>2, <2>2, FS_RemoveElement
  <2>3. CASE Proxying' = Proxying /\ connsOpen' = connsOpen
    BY <1>1, <2>3
  <2> QED BY <2>1, <2>2, <2>3
<1> QED BY <1>3 DEF GaugeIsExact, Proxying

LEMMA ProxySpawned ==
  ASSUME ProxyInv, NEW c \in Conns, NEW v \in Range(Registered), NEW s \in Scripts \cup {<<>>}, SpawnProxy(c, v, s)
  PROVE  ProxyInv'
<1>1. PICK t \in Range(Registered) : find_local_target(v.proto) = t /\ SameProtocol(t.proto, v.proto)
  BY TargetOf
<1> DEFINE x == [phase |-> "connecting", via |-> v, local |-> t.local, label |-> t.label, script |-> s]
<1>2. /\ conn' = [conn EXCEPT ![c] = x] /\ conn[c].phase = "new" /\ connsOpen' = connsOpen + 1
      /\ conn \in [Conns -> ConnStates]
  BY <1>1 DEF SpawnProxy, ProxyInv
<1>3. x \in ConnStates
  BY DEF ConnStates, Destinations
<1>4. x.phase = "connecting" /\ x.via = v /\ x.local = t.local
  OBVIOUS
<1> HIDE DEF x
<1>5. conn' \in [Conns -> ConnStates]
  BY <1>2, <1>3
<1>6. Proxying' = Proxying \cup {c} /\ c \notin Proxying
  BY <1>2, <1>4 DEF Proxying
<1>7. GaugeIsExact'
  BY <1>2, <1>6, GaugeMoves
<1>8. SameProtocolServed'
  BY <1>1, <1>2, <1>4 DEF ProxyInv, SameProtocolServed
<1> QED BY <1>5, <1>7, <1>8 DEF ProxyInv

\* A connection's task moves on
LEMMA PhaseStep ==
  ASSUME ProxyInv, NEW c \in Conns, LocalConnected(c) \/ ConnectFails(c) \/ CloseConn(c)
  PROVE  ProxyInv'
<1>1. PICK p \in {"copying", "done", "broken"} :
        /\ conn' = [conn EXCEPT ![c].phase = p] /\ conn[c].phase \in {"connecting", "copying"}
        /\ connsOpen' = IF p = "copying" THEN connsOpen ELSE connsOpen - 1
  BY DEF LocalConnected, ConnectFails, CloseConn
<1>2. conn \in [Conns -> ConnStates]
  BY DEF ProxyInv
<1>3. conn' \in [Conns -> ConnStates]
  BY <1>1, <1>2 DEF ConnStates
<1>4. /\ conn'[c].phase = p /\ conn'[c].via = conn[c].via /\ conn'[c].local = conn[c].local
      /\ \A d \in Conns \ {c} : conn'[d] = conn[d]
  BY <1>1, <1>2 DEF ConnStates
<1>5. /\ p = "copying" => Proxying' = Proxying
      /\ p # "copying" => Proxying' = Proxying \ {c} /\ c \in Proxying
  BY <1>1, <1>4 DEF Proxying
<1>6. GaugeIsExact'
  BY <1>1, <1>5, GaugeMoves
<1>7. SameProtocolServed'
  <2> SUFFICES ASSUME NEW d \in Conns, conn'[d].phase # "new"
               PROVE  \E v, t \in Range(Registered) :
                        conn'[d].via = v /\ conn'[d].local = t.local /\ SameProtocol(t.proto, v.proto)
    BY DEF SameProtocolServed
  <2>1. conn[d].phase # "new" /\ conn'[d].via = conn[d].via /\ conn'[d].local = conn[d].local
    BY <1>1, <1>4
  <2> QED BY <2>1 DEF ProxyInv, SameProtocolServed
<1> QED BY <1>3, <1>6, <1>7 DEF ProxyInv

LEMMA ProxyNextInv ==
  ASSUME ProxyInv, [TapNext]_tapVars
  PROVE  ProxyInv'
<1>1. CASE UNCHANGED <<conn, connsOpen>>
  BY <1>1 DEF ProxyInv, GaugeIsExact, SameProtocolServed
<1>2. ASSUME NEW c \in Conns, NEW d \in Dirs, PumpRead(c, d) \/ PumpWritePart(c, d) \/ PumpWritten(c, d)
      PROVE  UNCHANGED <<conn, connsOpen>>
  BY <1>2 DEF PumpRead, PumpWritePart, PumpWritten
<1>3. ASSUME clear \/ (\E i \in DOMAIN store : ReplaySend(i))
             \/ \E r \in DOMAIN replay : ReplayAnswered(r) \/ ReplayFails(r)
      PROVE  UNCHANGED <<conn, connsOpen>>
  BY <1>3 DEF clear, ReplaySend, ReplayAnswered, ReplayFails
<1>4. ASSUME NEW c \in Conns, NEW v \in Range(Registered),
             NEW s \in IF c \in HttpConns THEN Scripts ELSE {<<>>}, SpawnProxy(c, v, s)
      PROVE  ProxyInv'
  <2>1. s \in Scripts \cup {<<>>}
    OBVIOUS
  <2> QED BY <1>4, <2>1, ProxySpawned
<1>5. CASE UNCHANGED tapVars
  BY <1>1, <1>5 DEF tapVars
<1>6. CASE TapNext
  BY <1>1, <1>2, <1>3, <1>4, <1>6, PhaseStep, Zenon DEF TapNext
<1> QED BY <1>5, <1>6

\* Where connections go, and that each is counted once.
THEOREM ProxyInvariant == TapSpec => []ProxyInv
BY ProxyInitInv, ProxyNextInv, PTL DEF TapSpec

\* The gauge of open connections counts the proxy tasks that run, however many
\* there are and however they end (ConnGuard in proxy_connection).
THEOREM GaugeStaysExact == TapSpec => []GaugeIsExact
<1>1. ProxyInv => GaugeIsExact
  BY DEF ProxyInv
<1> QED BY <1>1, ProxyInvariant, PTL

\* A connection reaches the local service of the tunnel the visitor used, as
\* long as the tunnels of one protocol are in front of one service: that is
\* all find_local_target needs, and what the config file of two HTTP tunnels
\* does not give it.
THEOREM ServedWhereProtocolsDiffer ==
  ASSUME \A i, j \in DOMAIN Registered :
           SameProtocol(Registered[i].proto, Registered[j].proto) => Registered[i].local = Registered[j].local
  PROVE  TapSpec => []ServedByItsOwnTunnel
<1>1. ProxyInv => ServedByItsOwnTunnel
  BY DEF ProxyInv, SameProtocolServed, ServedByItsOwnTunnel, Range
<1> QED BY <1>1, ProxyInvariant, PTL

=============================================================================
