------------------------------- MODULE PortEdge -------------------------------
(***************************************************************************)
(* The edge managers run_tcp_edge and run_udp_edge, which keep one public  *)
(* listener per port by following the lifecycle events of PortRoutes, and  *)
(* the listener tasks they spawn.                                          *)
(*                                                                         *)
(* A spawned task binds its socket when it first runs.  abort() only asks  *)
(* the runtime to drop a task: the socket of an aborted listener is still  *)
(* open for a while, and a UDP one for as long as one of its peer sessions *)
(* keeps its Arc<UdpSocket>.                                               *)
(***************************************************************************)
EXTENDS PortRoutes

VARIABLES
  handles,       \* [Ports -> state of the task `handles` refers to]
  lingering,     \* ports on which an aborted listener's socket is still open
  overlapped     \* which operations on the core have run at the same time (history)

edgeVars == <<handles, lingering, overlapped>>
allVars == <<vars, edgeVars>>

\* "absent": no entry in `handles`; "spawned": not yet bound; "failed": bind
\* returned an error and the task ended, its entry staying in the map.
HandleStates == {"absent", "spawned", "bound", "failed"}

EdgeInit ==
  /\ Init
  /\ handles = [p \in Ports |-> "absent"]
  /\ lingering = {}
  /\ overlapped = "none"

\* spawn_port_listener and handles.insert; a previous task is aborted.
\* Registered (run_tcp_edge, run_udp_edge).
StartListener(p) ==
  /\ handles' = [handles EXCEPT ![p] = "spawned"]
  /\ lingering' = IF handles[p] = "bound" THEN lingering \cup {p} ELSE lingering

\* handles.remove and abort.
StopListener(p) ==
  /\ handles' = [handles EXCEPT ![p] = "absent"]
  /\ lingering' = IF handles[p] = "bound" THEN lingering \cup {p} ELSE lingering

\* events.recv() of one channel returning an event.
RecvEvent(c) ==
  /\ ~lagged[c]
  /\ events[c] # <<>>
  /\ events' = [events EXCEPT ![c] = Tail(@)]
  /\ IF Head(events[c]).kind = "registered"
     THEN StartListener(Head(events[c]).port)
     ELSE StopListener(Head(events[c]).port)
  /\ UNCHANGED <<sessions, tunnels, minted, available, routes, group_index, guard,
                 tunnel_index, task, todo, lagged>>

\* Variant: a resync that only starts listeners.
Resync_startsOnly(c) ==
  /\ lagged[c]
  /\ lagged' = [lagged EXCEPT ![c] = FALSE]
  /\ handles' = [p \in Ports |-> IF Channel(p) = c /\ handles[p] = "absent" /\ Routed(p)
                                 THEN "spawned" ELSE handles[p]]
  /\ UNCHANGED <<sessions, tunnels, minted, available, routes, group_index, guard,
                 tunnel_index, task, todo, events, lingering>>

\* Variant: a lag is logged and nothing else.
Resync_ignored(c) ==
  /\ lagged[c]
  /\ lagged' = [lagged EXCEPT ![c] = FALSE]
  /\ UNCHANGED <<sessions, tunnels, minted, available, routes, group_index, guard,
                 tunnel_index, task, todo, events, handles, lingering>>

\* recv() returning Lagged: resync_listeners compares the routes with `handles`.
\* The events still in the channel are delivered after it.
Resync(c) ==
  LET mine == {p \in Ports : Channel(p) = c}
      stale == {p \in mine : handles[p] # "absent" /\ ~Routed(p)}
      missing == {p \in mine : handles[p] = "absent" /\ Routed(p)}
  IN  /\ lagged[c]
      /\ lagged' = [lagged EXCEPT ![c] = FALSE]
      /\ handles' = [p \in Ports |-> IF p \in stale THEN "absent"
                                     ELSE IF p \in missing THEN "spawned"
                                     ELSE handles[p]]
      /\ lingering' = lingering \cup {p \in stale : handles[p] = "bound"}
      /\ UNCHANGED <<sessions, tunnels, minted, available, routes, group_index, guard,
                     tunnel_index, task, todo, events>>

\* port_listener's first act.  TCP binds with SO_REUSEPORT; UdpSocket::bind
\* fails while another socket has the port.
Bind(p) ==
  /\ handles[p] = "spawned"
  /\ handles' = [handles EXCEPT
                   ![p] = IF p \in UdpPorts /\ p \in lingering THEN "failed" ELSE "bound"]
  /\ UNCHANGED <<vars, lingering>>

\* The runtime drops the aborted task and the last holder drops the socket.
CloseSocket(p) ==
  /\ p \in lingering
  /\ lingering' = lingering \ {p}
  /\ UNCHANGED <<vars, handles>>

EdgeStep ==
  \/ \E c \in Channels : RecvEvent(c) \/ Resync(c)
  \/ \E p \in Ports : Bind(p)

Busy(a) == task[a].pc \notin {"new", "idle", "done"}
Grouped == (\E g \in Groups : guard[g] # None) \/ (\E p \in Ports : routes[p].group # None)
Overlap ==
  IF ~ \E a, b \in Tasks : a # b /\ Busy(a) /\ Busy(b) THEN overlapped
  ELSE IF Grouped THEN "grouped"
  ELSE IF overlapped = "none" THEN "solo" ELSE overlapped

EdgeNext ==
  \/ Next /\ UNCHANGED <<handles, lingering>> /\ overlapped' = Overlap
  \/ EdgeStep /\ UNCHANGED overlapped
  \/ \E p \in Ports : CloseSocket(p) /\ UNCHANGED overlapped

EdgeSpec == EdgeInit /\ [][EdgeNext]_allVars

-----------------------------------------------------------------------------
(* Properties *)

\* No operation is half done and the edge has caught up.
Quiet ==
  /\ \A a \in Tasks : ~Busy(a)
  /\ \A c \in Channels : events[c] = <<>> /\ ~lagged[c]
  /\ \A p \in Ports : handles[p] # "spawned"

\* Every variable of the edge has the shape of the Rust value it stands for.
EdgeTypeOK ==
  /\ handles \in [Ports -> HandleStates]
  /\ lingering \in SUBSET Ports
  /\ overlapped \in {"none", "solo", "grouped"}

\* Once things have settled no public port is open without a tunnel behind it,
\* however events were reordered, lost to lag and made up for by a resync; except
\* where a join overlapped the removal of its group.
EveryListenerHasTunnel ==
  Quiet /\ overlapped # "grouped" => \A p \in Ports : handles[p] = "bound" => Routed(p)

\* "Listens on one TCP port per active TCP tunnel" (edge/tcp.rs:3): once things
\* have settled a routed TCP port is being listened on, whatever the channel
\* lost to lag.  Only operations that overlap may break it: the two sends on a
\* port that one session frees and another takes are then in either order.
TcpTunnelHasListener ==
  Quiet /\ overlapped = "none" => \A p \in TcpPorts : Routed(p) => handles[p] = "bound"

\* Once things have settled, listeners and routed ports agree in both directions
\* (run_tcp_edge and run_udp_edge against TunnelCore's tables).
ListenersMatch == EdgeTypeOK /\ EveryListenerHasTunnel /\ TcpTunnelHasListener

=============================================================================
