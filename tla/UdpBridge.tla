------------------------------ MODULE UdpBridge ------------------------------
(***************************************************************************)
(* UDP through a byte stream.  The edge's port listener keeps one session  *)
(* per peer; the session's task frames datagrams ([length][payload]) onto  *)
(* a yamux stream, and the client's proxy task unframes them for the local *)
(* service, and the other way round.  Both tasks are select! loops in      *)
(* which reading a frame competes with the datagrams of the other          *)
(* direction: the arm that loses is dropped with what it has read.         *)
(* (server edge/udp.rs, client proxy.rs)                                   *)
(***************************************************************************)
EXTENDS Naturals, Sequences, FiniteSets

CONSTANTS
  Peers,         \* remote addresses
  Flows,         \* conn_ids
  MaxBuffered,   \* MAX_BUFFERED_PACKETS (256)
  MaxFlows,      \* permits of the tunnel's conn_semaphore
  MaxDatagrams,  \* bound on the datagrams of one behaviour
  NoFlow

ASSUME NoFlowIsNone == NoFlow \notin Flows
ASSUME UdpBounds == IsFiniteSet(Flows) /\ MaxBuffered \in Nat /\ MaxFlows \in Nat

VARIABLES
  udpSessions,      \* the listener's map: peer -> flow
  flow,          \* the proxy task of each flow: [peer, task]
  queue,         \* datagram_rx of each flow
  wire,          \* tokens under way to each end of the flow's stream
  hold,          \* what a suspended read_framed_datagram has taken off the stream
  got,           \* datagrams each end has handed on, as the pair it read
  cut,           \* a read was dropped half way
  localEnd,      \* the client's proxy task of each flow
  permits,       \* free permits
  count          \* datagrams so far

udpVars == <<udpSessions, flow, queue, wire, hold, got, cut, localEnd, permits, count>>

Ends == {"edge", "client"}
Other(e) == IF e = "edge" THEN "client" ELSE "edge"
Live == {"opening", "bridging"}

UdpInit ==
  /\ udpSessions = [p \in Peers |-> NoFlow]
  /\ flow = [i \in Flows |-> [peer |-> CHOOSE p \in Peers : TRUE, task |-> "new"]]
  /\ queue = [i \in Flows |-> <<>>]
  /\ wire = [i \in Flows |-> [e \in Ends |-> <<>>]]
  /\ hold = [i \in Flows |-> [e \in Ends |-> <<>>]]
  /\ got = [i \in Flows |-> [e \in Ends |-> <<>>]]
  /\ cut = [i \in Flows |-> [e \in Ends |-> FALSE]]
  /\ localEnd = [i \in Flows |-> "none"]
  /\ permits = MaxFlows
  /\ count = 0

\* Variant: the frame is written payload first.
WireFrame_swapped(d) == <<[part |-> "payload", of |-> d], [part |-> "length", of |-> d]>>

\* The two write_all calls of one datagram.
WireFrame(d) == <<[part |-> "length", of |-> d], [part |-> "payload", of |-> d]>>

\* tx.try_send: dropped when the proxy task is behind.
Offer(q, d) == IF Len(q) < MaxBuffered THEN Append(q, d) ELSE q

-----------------------------------------------------------------------------
(* port_listener *)

\* A datagram of a known peer.  The session's task may have returned already.
Forward(p) ==
  /\ count < MaxDatagrams /\ udpSessions[p] # NoFlow
  /\ count' = count + 1
  /\ queue' = IF flow[udpSessions[p]].task \in Live
              THEN [queue EXCEPT ![udpSessions[p]] = Offer(@, count')] ELSE queue
  /\ UNCHANGED <<udpSessions, flow, wire, hold, got, cut, localEnd, permits>>

\* A new peer: the tunnel is resolved, a permit taken, the task spawned.
OpenSession(p, i) ==
  /\ count < MaxDatagrams /\ udpSessions[p] = NoFlow
  /\ flow[i].task = "new"
  /\ permits > 0
  /\ count' = count + 1
  /\ permits' = permits - 1
  /\ udpSessions' = [udpSessions EXCEPT ![p] = i]
  /\ flow' = [flow EXCEPT ![i] = [peer |-> p, task |-> "opening"]]
  /\ queue' = [queue EXCEPT ![i] = Offer(<<>>, count')]
  /\ UNCHANGED <<wire, hold, got, cut, localEnd>>

\* The reaper drops the entries whose receiver is gone.
Reap ==
  /\ \E p \in Peers : udpSessions[p] # NoFlow /\ flow[udpSessions[p]].task \notin Live
  /\ udpSessions' = [p \in Peers |-> IF udpSessions[p] # NoFlow /\ flow[udpSessions[p]].task \in Live
                                  THEN udpSessions[p] ELSE NoFlow]
  /\ UNCHANGED <<flow, queue, wire, hold, got, cut, localEnd, permits, count>>

-----------------------------------------------------------------------------
(* proxy_udp_session *)

\* The client opened the stream, and its own task started with it.
StreamOpened(i) ==
  /\ flow[i].task = "opening"
  /\ flow' = [flow EXCEPT ![i].task = "bridging"]
  /\ localEnd' = [localEnd EXCEPT ![i] = "bridging"]
  /\ UNCHANGED <<udpSessions, queue, wire, hold, got, cut, permits, count>>

\* proxy_udp_session returns and drops datagram_rx: the control channel or the
\* stream could not be had, a read or write failed, the session was idle, or
\* all senders of its queue are gone.
EdgeLeaves(i) ==
  /\ flow[i].task \in Live
  /\ flow' = [flow EXCEPT ![i].task = "returned"]
  /\ queue' = [queue EXCEPT ![i] = <<>>]
  /\ UNCHANGED <<udpSessions, wire, hold, got, cut, localEnd, permits, count>>

\* Variant: the entry is left to the reaper.
EndTask_lazy(i) ==
  /\ flow[i].task = "returned"
  /\ flow' = [flow EXCEPT ![i].task = "ended"]
  /\ permits' = permits + 1
  /\ UNCHANGED <<udpSessions, queue, wire, hold, got, cut, localEnd, count>>

\* Variant: the permit is not given back.
EndTask_leaks(i) ==
  /\ flow[i].task = "returned"
  /\ flow' = [flow EXCEPT ![i].task = "ended"]
  /\ udpSessions' = [udpSessions EXCEPT ![flow[i].peer] = NoFlow]
  /\ UNCHANGED <<permits, queue, wire, hold, got, cut, localEnd, count>>

\* The spawned task removes the peer's entry, whoever's it is by now, and drops
\* its permit.
EndTask(i) ==
  /\ flow[i].task = "returned"
  /\ flow' = [flow EXCEPT ![i].task = "ended"]
  /\ udpSessions' = [udpSessions EXCEPT ![flow[i].peer] = NoFlow]
  /\ permits' = permits + 1
  /\ UNCHANGED <<queue, wire, hold, got, cut, localEnd, count>>

-----------------------------------------------------------------------------
(* The two select! loops *)

Bridging(i, e) == IF e = "edge" THEN flow[i].task = "bridging" ELSE localEnd[i] = "bridging"

\* The datagram arm of end e wins: the frame is written in one arm body, and the
\* suspended read of this end is dropped.
WriteFrame(i, e, d) ==
  /\ wire' = [wire EXCEPT ![i][Other(e)] = @ \o WireFrame(d)]
  /\ hold' = [hold EXCEPT ![i][e] = <<>>]
  /\ cut' = [cut EXCEPT ![i][e] = @ \/ hold[i][e] # <<>>]

EdgeSends(i) ==
  /\ Bridging(i, "edge") /\ queue[i] # <<>>
  /\ queue' = [queue EXCEPT ![i] = Tail(@)]
  /\ WriteFrame(i, "edge", Head(queue[i]))
  /\ UNCHANGED <<udpSessions, flow, got, localEnd, permits, count>>

\* local.recv: the service has sent a datagram.
ClientSends(i) ==
  /\ Bridging(i, "client") /\ count < MaxDatagrams
  /\ count' = count + 1
  /\ WriteFrame(i, "client", count')
  /\ UNCHANGED <<udpSessions, flow, queue, got, localEnd, permits>>

\* read_exact for the length: whatever comes next on the stream is taken for it.
ReadLength(i, e) ==
  /\ Bridging(i, e) /\ hold[i][e] = <<>> /\ wire[i][e] # <<>>
  /\ hold' = [hold EXCEPT ![i][e] = <<Head(wire[i][e])>>]
  /\ wire' = [wire EXCEPT ![i][e] = Tail(@)]
  /\ UNCHANGED <<udpSessions, flow, queue, got, cut, localEnd, permits, count>>

\* read_exact for the payload: the arm wins and the datagram is handed on.
ReadPayload(i, e) ==
  /\ Bridging(i, e) /\ hold[i][e] # <<>> /\ wire[i][e] # <<>>
  /\ got' = [got EXCEPT ![i][e] = Append(@, <<hold[i][e][1], Head(wire[i][e])>>)]
  /\ hold' = [hold EXCEPT ![i][e] = <<>>]
  /\ wire' = [wire EXCEPT ![i][e] = Tail(@)]
  /\ UNCHANGED <<udpSessions, flow, queue, cut, localEnd, permits, count>>

\* proxy_udp_connection ends: no socket, no service, a failed send, a length
\* beyond MAX_DATAGRAM_SIZE, the stream closed.
ClientLeaves(i) ==
  /\ localEnd[i] = "bridging"
  /\ localEnd' = [localEnd EXCEPT ![i] = "ended"]
  /\ UNCHANGED <<udpSessions, flow, queue, wire, hold, got, cut, permits, count>>

UdpNext ==
  \/ \E p \in Peers : Forward(p) \/ \E i \in Flows : OpenSession(p, i)
  \/ Reap
  \/ \E i \in Flows :
       \/ StreamOpened(i) \/ EdgeLeaves(i) \/ EndTask(i)
       \/ EdgeSends(i) \/ ClientSends(i) \/ ClientLeaves(i)
       \/ \E e \in Ends : ReadLength(i, e) \/ ReadPayload(i, e)

UdpSpec == UdpInit /\ [][UdpNext]_udpVars

-----------------------------------------------------------------------------
(* Properties *)

\* Every variable has the shape of the Rust value it stands for: no session
\* buffers more than MAX_BUFFERED_PACKETS.
UdpTypeOK ==
  /\ udpSessions \in [Peers -> Flows \cup {NoFlow}]
  /\ \A i \in Flows :
       /\ flow[i].task \in {"new", "opening", "bridging", "returned", "ended"}
       /\ Len(queue[i]) <= MaxBuffered
       /\ localEnd[i] \in {"none", "bridging", "ended"}
  /\ permits \in 0..MaxFlows

\* A permit is held exactly while a task runs: however sessions end, the tunnel
\* does not run out of them.
UdpPermitsReturn ==
  permits + Cardinality({i \in Flows : flow[i].task \in {"opening", "bridging", "returned"}}) = MaxFlows

\* A peer is never left mapped to a task that has ended (its datagrams would be
\* dropped until the reaper comes), although tasks remove entries by peer and
\* race the reaper and the listener.
MappedTaskRuns == \A p \in Peers : udpSessions[p] # NoFlow => flow[udpSessions[p]].task # "ended"

\* What an end hands on is a datagram the other end has framed, whole, in its
\* order and once -- unless a read of that end was dropped half way.
IntactUnlessCut ==
  \A i \in Flows, e \in Ends : ~cut[i][e] =>
    /\ \A j \in DOMAIN got[i][e] :
         /\ got[i][e][j][1] = [part |-> "length", of |-> got[i][e][j][2].of]
         /\ got[i][e][j][2].part = "payload"
    /\ \A j, k \in DOMAIN got[i][e] : j < k => got[i][e][j][2].of < got[i][e][k][2].of

\* The framing preserves datagram boundaries: what an end hands on has the
\* length and the payload of one datagram.
DatagramsIntact ==
  \A i \in Flows, e \in Ends : \A j \in DOMAIN got[i][e] : got[i][e][j][1].of = got[i][e][j][2].of

\* The map of sessions, the tasks and the permits account for each other, however
\* the listener, the tasks and the reaper interleave (port_listener).
UdpSessionsAccounted == UdpTypeOK /\ UdpPermitsReturn /\ MappedTaskRuns

=============================================================================
