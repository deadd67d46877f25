------------------------------ MODULE PortRoutes ------------------------------
(***************************************************************************)
(* The port half of TunnelCore (core/router.rs): TCP and UDP tunnels, the  *)
(* pools their public ports come from, the index that lets a TCP group     *)
(* find its port, and the lifecycle events the edge listeners follow.      *)
(*                                                                         *)
(* As in HttpRoutes, each operation is split where the code drops one      *)
(* table's guard before it takes the next.  A TCP and a UDP port with the  *)
(* same number are different elements here: the code keeps two pools, two  *)
(* route tables and two event channels.                                    *)
(***************************************************************************)
EXTENDS Naturals, Sequences, FiniteSets

CONSTANTS
  Sessions,      \* session ids (Uuid::new_v4: never used twice)
  Admins,        \* dashboard requests that force-close tunnels
  Tunnels,       \* tunnel ids (Uuid::new_v4: never used twice)
  TcpPorts,      \* limits.tcp_port_range
  UdpPorts,      \* limits.udp_port_range
  Groups,        \* (group_name, key_hash) pairs of TCP groups
  MaxTunnels,    \* limits.max_tunnels_per_session
  EventCap,      \* capacity of an event channel (64 in the code)
  None           \* Option::None

ASSUME PortTasksDisjoint == Sessions \cap Admins = {}
ASSUME PortsDisjoint     == TcpPorts \cap UdpPorts = {}
ASSUME PortNoneIsNoValue ==
  None \notin Sessions \cup Admins \cup Tunnels \cup TcpPorts \cup UdpPorts \cup Groups
ASSUME PortBounds        == MaxTunnels \in Nat /\ EventCap \in Nat \ {0}

VARIABLES
  sessions,      \* keys of TunnelCore.sessions
  tunnels,       \* SessionInfo.tunnels, as a set: ids are unique
  minted,        \* tunnel ids handed out so far
  available,     \* how often each port is in its pool (Mutex<Vec<u16>>)
  routes,        \* tcp_routes and udp_routes: [Ports -> group or NoRoute]
  group_index,   \* tcp_group_index: [Groups -> TcpPorts or None]
  guard,         \* the task holding a tcp_group_index entry, or None
  tunnel_index,  \* [Tunnels -> Ports or None]
  task,          \* where each task stands inside the operation it runs
  todo,          \* tunnels remove_session has still to remove
  events,        \* undelivered lifecycle events of each channel
  lagged         \* the receiver of a channel has missed events

vars == <<sessions, tunnels, minted, available, routes, group_index, guard,
          tunnel_index, task, todo, events, lagged>>

Tasks == Sessions \cup Admins
Ports == TcpPorts \cup UdpPorts
Channels == {"tcp", "udp"}

Channel(p) == IF p \in TcpPorts THEN "tcp" ELSE "udp"

NoRoute == [present |-> FALSE, group |-> None, members |-> {}]

(***************************************************************************)
(* The next call of a task, after "idle":                                  *)
(*   route     routes.insert of the port it popped                         *)
(*   group     idx_vac.insert, which also drops the index guard            *)
(*   index     tunnel_index.insert, add_tunnel_to_session                  *)
(*   announce  send Registered                                             *)
(*   joined    the same as index, holding the index guard                  *)
(*   unmember  members.remove, is_empty and the index key, under the guard *)
(*   unroute   routes.remove                                               *)
(*   ungroup   tcp_group_index.remove                                      *)
(*   free      push the port                                               *)
(*   retract   send Unregistered                                           *)
(***************************************************************************)
PCs == {"new", "idle", "route", "group", "index", "announce", "joined", "unmember",
        "unroute", "ungroup", "free", "retract", "closing", "done"}

At(a, pc) == task[a].pc = pc
Local(pc, t, p, g) == [pc |-> pc, id |-> t, port |-> p, group |-> g]
Rest(pc) == Local(pc, None, None, None)
Goto(a, pc) == task' = [task EXCEPT ![a].pc = pc]

\* Where a task goes when remove_tunnel returns to its caller.
Resume(a) == IF a \in Sessions /\ a \notin sessions THEN "closing" ELSE "idle"
Return(a) == task' = [task EXCEPT ![a] = Rest(Resume(a))]

Routed(p) == routes[p].present
Members(p) == routes[p].members

\* broadcast::Sender::send: a full channel forgets its oldest event, and the
\* receiver will be told that it lagged.
Send(c, kind, p) ==
  LET full == Len(events[c]) = EventCap
      kept == IF full THEN Tail(events[c]) ELSE events[c]
  IN  /\ events' = [events EXCEPT ![c] = Append(kept, [kind |-> kind, port |-> p])]
      /\ lagged' = [lagged EXCEPT ![c] = @ \/ full]

Init ==
  /\ sessions = {}
  /\ tunnels = [s \in Sessions |-> {}]
  /\ minted = {}
  /\ available = [p \in Ports |-> 1]
  /\ routes = [p \in Ports |-> NoRoute]
  /\ group_index = [g \in Groups |-> None]
  /\ guard = [g \in Groups |-> None]
  /\ tunnel_index = [t \in Tunnels |-> None]
  /\ task = [a \in Tasks |-> Rest(IF a \in Sessions THEN "new" ELSE "idle")]
  /\ todo = [s \in Sessions |-> {}]
  /\ events = [c \in Channels |-> <<>>]
  /\ lagged = [c \in Channels |-> FALSE]

-----------------------------------------------------------------------------
(* Sessions *)

RegisterSession(s) ==
  /\ At(s, "new")
  /\ sessions' = sessions \cup {s}
  /\ Goto(s, "idle")
  /\ UNCHANGED <<tunnels, minted, available, routes, group_index, guard,
                 tunnel_index, todo, events, lagged>>

RemoveSession(s) ==
  /\ At(s, "idle")
  /\ sessions' = sessions \ {s}
  /\ todo' = [todo EXCEPT ![s] = tunnels[s]]
  /\ Goto(s, "closing")
  /\ UNCHANGED <<tunnels, minted, available, routes, group_index, guard,
                 tunnel_index, events, lagged>>

-----------------------------------------------------------------------------
(* register_tcp_tunnel and register_udp_tunnel.  A registration refused by *)
(* check_session_limit, by an empty pool or by a stale group index changes *)
(* nothing, so it has no step of its own.                                  *)

\* check_session_limit
UnderLimit(s) == Cardinality(tunnels[s]) < MaxTunnels

Mint(t) == t \notin minted /\ minted' = minted \cup {t}

\* Variant: the port is read and stays in the pool.
Pop_peek(p) == available[p] > 0 /\ UNCHANGED available

\* available_*_ports.lock().pop().  Which port comes out is left open: the pool
\* is a stack, and how often each port is in it is what matters.
Pop(p) ==
  /\ available[p] > 0
  /\ available' = [available EXCEPT ![p] = @ - 1]

\* The solo path of register_tcp_tunnel, up to its pop.
RegisterTcpSolo(s, t, p) ==
  /\ At(s, "idle") /\ UnderLimit(s) /\ Mint(t)
  /\ Pop(p)
  /\ task' = [task EXCEPT ![s] = Local("route", t, p, None)]
  /\ UNCHANGED <<sessions, tunnels, routes, group_index, guard, tunnel_index,
                 todo, events, lagged>>

\* register_udp_tunnel, up to its pop.
RegisterUdp(s, t, p) ==
  /\ At(s, "idle") /\ UnderLimit(s) /\ Mint(t)
  /\ Pop(p)
  /\ task' = [task EXCEPT ![s] = Local("route", t, p, None)]
  /\ UNCHANGED <<sessions, tunnels, routes, group_index, guard, tunnel_index,
                 todo, events, lagged>>

\* The first member of a TCP group: Entry::Vacant, guard held, and the pop.
CreateTcpGroup(s, t, p, g) ==
  /\ At(s, "idle") /\ UnderLimit(s) /\ Mint(t)
  /\ guard[g] = None /\ group_index[g] = None
  /\ Pop(p)
  /\ guard' = [guard EXCEPT ![g] = s]
  /\ task' = [task EXCEPT ![s] = Local("route", t, p, g)]
  /\ UNCHANGED <<sessions, tunnels, routes, group_index, tunnel_index, todo,
                 events, lagged>>

\* routes.insert replaces whatever the table holds for the port.
InsertRoute(s) ==
  LET f == task[s]
  IN  /\ At(s, "route")
      /\ routes' = [routes EXCEPT
                      ![f.port] = [present |-> TRUE, group |-> f.group, members |-> {f.id}]]
      /\ Goto(s, IF f.group = None THEN "index" ELSE "group")
      /\ UNCHANGED <<sessions, tunnels, minted, available, group_index, guard,
                     tunnel_index, todo, events, lagged>>

\* idx_vac.insert consumes the entry: the guard ends here, before the tunnel
\* is indexed and announced.
InsertGroupIndex(s, g) ==
  LET f == task[s]
  IN  /\ At(s, "group") /\ f.group = g
      /\ group_index' = [group_index EXCEPT ![g] = f.port]
      /\ guard' = [guard EXCEPT ![g] = None]
      /\ Goto(s, "index")
      /\ UNCHANGED <<sessions, tunnels, minted, available, routes, tunnel_index,
                     todo, events, lagged>>

\* tunnel_index.insert and add_tunnel_to_session.
IndexTunnel(s) ==
  LET f == task[s]
  IN  /\ At(s, "index")
      /\ tunnel_index' = [tunnel_index EXCEPT ![f.id] = f.port]
      /\ tunnels' = [tunnels EXCEPT ![s] = @ \cup {f.id}]
      /\ Goto(s, "announce")
      /\ UNCHANGED <<sessions, minted, available, routes, group_index, guard,
                     todo, events, lagged>>

Announce(s) ==
  /\ At(s, "announce")
  /\ Send(Channel(task[s].port), "registered", task[s].port)
  /\ task' = [task EXCEPT ![s] = Rest("idle")]
  /\ UNCHANGED <<sessions, tunnels, minted, available, routes, group_index,
                 guard, tunnel_index, todo>>

\* A later member: Entry::Occupied, guard held.  The route is looked up and
\* joined under its own guard; a missing one is an error.
JoinTcpGroup(s, t, g) ==
  LET p == group_index[g]
  IN  /\ At(s, "idle") /\ UnderLimit(s) /\ Mint(t)
      /\ guard[g] = None /\ p # None
      /\ Routed(p)
      /\ routes' = [routes EXCEPT ![p].members = @ \cup {t}]
      /\ guard' = [guard EXCEPT ![g] = s]
      /\ task' = [task EXCEPT ![s] = Local("joined", t, p, g)]
      /\ UNCHANGED <<sessions, tunnels, available, group_index, tunnel_index,
                     todo, events, lagged>>

\* The rest of a join: index, session, and the guard ends with the arm.
IndexJoined(s, g) ==
  LET f == task[s]
  IN  /\ At(s, "joined") /\ f.group = g
      /\ tunnel_index' = [tunnel_index EXCEPT ![f.id] = f.port]
      /\ tunnels' = [tunnels EXCEPT ![s] = @ \cup {f.id}]
      /\ guard' = [guard EXCEPT ![g] = None]
      /\ task' = [task EXCEPT ![s] = Rest("idle")]
      /\ UNCHANGED <<sessions, minted, available, routes, group_index, todo,
                     events, lagged>>

-----------------------------------------------------------------------------
(* remove_tunnel, called by UnregisterTunnel, by force_close_tunnel and by *)
(* remove_session                                                          *)

\* tunnel_index.remove(id)
Unindex(a, t) ==
  /\ tunnel_index[t] # None
  /\ tunnel_index' = [tunnel_index EXCEPT ![t] = None]
  /\ task' = [task EXCEPT ![a] = Local("unmember", t, tunnel_index[t], None)]

\* remove_tunnel does not ask who owns the tunnel.  Next lets a client name the
\* ids it was given and the dashboard any id.
RemoveTunnel(a, t) ==
  /\ At(a, "idle")
  /\ Unindex(a, t)
  /\ UNCHANGED <<sessions, tunnels, minted, available, routes, group_index,
                 guard, todo, events, lagged>>

\* One turn of remove_session's loop.
CloseNext(s) ==
  \E t \in todo[s] :
    /\ At(s, "closing")
    /\ todo' = [todo EXCEPT ![s] = @ \ {t}]
    /\ \/ Unindex(s, t)
       \/ tunnel_index[t] = None /\ UNCHANGED <<tunnel_index, task>>
    /\ UNCHANGED <<sessions, tunnels, minted, available, routes, group_index,
                   guard, events, lagged>>

CloseDone(s) ==
  /\ At(s, "closing") /\ todo[s] = {}
  /\ Goto(s, "done")
  /\ UNCHANGED <<sessions, tunnels, minted, available, routes, group_index,
                 guard, tunnel_index, todo, events, lagged>>

\* Under the route's guard: the group's index key, the member, the emptiness.
\* A missing route counts as an empty solo one (unwrap_or((true, None))).
RemoveMember(a) ==
  LET f == task[a]
      left == Members(f.port) \ {f.id}
  IN  /\ At(a, "unmember")
      /\ routes' = [routes EXCEPT ![f.port].members = left]
      /\ IF left = {}
         THEN task' = [task EXCEPT ![a].pc = "unroute", ![a].group = routes[f.port].group]
         ELSE Return(a)
      /\ UNCHANGED <<sessions, tunnels, minted, available, group_index, guard,
                     tunnel_index, todo, events, lagged>>

RemoveRoute(a) ==
  /\ At(a, "unroute")
  /\ routes' = [routes EXCEPT ![task[a].port] = NoRoute]
  /\ Goto(a, IF task[a].group = None THEN "free" ELSE "ungroup")
  /\ UNCHANGED <<sessions, tunnels, minted, available, group_index, guard,
                 tunnel_index, todo, events, lagged>>

\* tcp_group_index.remove waits for the entry's guard.
RemoveGroupIndex(a, g) ==
  /\ At(a, "ungroup") /\ task[a].group = g
  /\ guard[g] = None
  /\ group_index' = [group_index EXCEPT ![g] = None]
  /\ Goto(a, "free")
  /\ UNCHANGED <<sessions, tunnels, minted, available, routes, guard,
                 tunnel_index, todo, events, lagged>>

\* Variant: the port is not returned.
PushPort_leak(a) ==
  /\ At(a, "free")
  /\ Goto(a, "retract")
  /\ UNCHANGED <<sessions, tunnels, minted, available, routes, group_index, guard,
                 tunnel_index, todo, events, lagged>>

PushPort(a) ==
  /\ At(a, "free")
  /\ available' = [available EXCEPT ![task[a].port] = @ + 1]
  /\ Goto(a, "retract")
  /\ UNCHANGED <<sessions, tunnels, minted, routes, group_index, guard,
                 tunnel_index, todo, events, lagged>>

Retract(a) ==
  /\ At(a, "retract")
  /\ Send(Channel(task[a].port), "unregistered", task[a].port)
  /\ Return(a)
  /\ UNCHANGED <<sessions, tunnels, minted, available, routes, group_index,
                 guard, tunnel_index, todo>>

-----------------------------------------------------------------------------

Register(s) ==
  \E t \in Tunnels :
    \/ \E p \in TcpPorts : RegisterTcpSolo(s, t, p)
    \/ \E p \in UdpPorts : RegisterUdp(s, t, p)
    \/ \E p \in TcpPorts, g \in Groups : CreateTcpGroup(s, t, p, g)
    \/ \E g \in Groups : JoinTcpGroup(s, t, g)

RegistrationStep(s) ==
  \/ InsertRoute(s) \/ IndexTunnel(s) \/ Announce(s)
  \/ \E g \in Groups : InsertGroupIndex(s, g) \/ IndexJoined(s, g)

CloseStep(s) == CloseNext(s) \/ CloseDone(s)

RemovalStep(a) ==
  \/ RemoveMember(a) \/ RemoveRoute(a) \/ PushPort(a) \/ Retract(a)
  \/ \E g \in Groups : RemoveGroupIndex(a, g)

Next ==
  \/ \E s \in Sessions : \/ RegisterSession(s) \/ RemoveSession(s)
                         \/ Register(s) \/ RegistrationStep(s) \/ CloseStep(s)
  \/ \E a \in Tasks : RemovalStep(a)
  \/ \E s \in Sessions : \E t \in tunnels[s] : RemoveTunnel(s, t)
  \/ \E a \in Admins, t \in Tunnels : RemoveTunnel(a, t)

Spec == Init /\ [][Next]_vars

\* Registrations and removals contain no await: once begun they run to the end.
Fairness ==
  /\ \A s \in Sessions : WF_vars(RegistrationStep(s) \/ CloseStep(s))
  /\ \A a \in Tasks : WF_vars(RemovalStep(a))

FairSpec == Spec /\ Fairness

-----------------------------------------------------------------------------
(* Properties *)

Event == [kind : {"registered", "unregistered"}, port : Ports]
Route == [present : BOOLEAN, group : Groups \cup {None}, members : SUBSET Tunnels]
Frame == [pc : PCs, id : Tunnels \cup {None}, port : Ports \cup {None},
          group : Groups \cup {None}]

\* Every variable has the shape of the Rust value it stands for.
TypeOK ==
  /\ sessions \in SUBSET Sessions
  /\ tunnels \in [Sessions -> SUBSET Tunnels]
  /\ minted \in SUBSET Tunnels
  /\ available \in [Ports -> Nat]
  /\ routes \in [Ports -> Route]
  /\ group_index \in [Groups -> TcpPorts \cup {None}]
  /\ guard \in [Groups -> Sessions \cup {None}]
  /\ tunnel_index \in [Tunnels -> Ports \cup {None}]
  /\ task \in [Tasks -> Frame]
  /\ todo \in [Sessions -> SUBSET Tunnels]
  /\ events \in [Channels -> Seq(Event)]
  /\ lagged \in [Channels -> BOOLEAN]

\* A task has the port in its hands: popped and not yet routed, or unrouted
\* and not yet pushed back.
Holds(a, p) == task[a].port = p /\ task[a].pc \in {"route", "ungroup", "free"}

\* A port is in the pool, on a route or in one task's hands: in one of these,
\* in no two, and never twice in the pool.
HeldOnce(p) ==
  /\ available[p] <= 1
  /\ available[p] = 1 => ~Routed(p)
  /\ \A a \in Tasks : Holds(a, p) => available[p] = 0 /\ ~Routed(p)
  /\ \A a, b \in Tasks : Holds(a, p) /\ Holds(b, p) => a = b
  /\ available[p] = 1 \/ Routed(p) \/ \E a \in Tasks : Holds(a, p)

\* UDP ports are never leaked and never given to two tunnels, whatever TCP
\* groups do at the same time (register_udp_tunnel, remove_tunnel).
UdpPortsConserved == \A p \in UdpPorts : HeldOnce(p)

\* The same for TCP ports: what remove_tunnel's "returning any allocated TCP/UDP
\* port to the pool" amounts to.
TcpPortsConserved == \A p \in TcpPorts : HeldOnce(p)

\* A tunnel in the index is a member of the route of its port: the comment on
\* the index guard (router.rs:440-444) says that it serialises a creation or a
\* join "against the matching `remove_tunnel` path".
IndexedIsRouted ==
  \A t \in Tunnels : tunnel_index[t] # None => t \in Members(tunnel_index[t])

\* When every session has gone, every port finds its way back to its pool.
PortsReturn ==
  (\A s \in Sessions : At(s, "done")) ~> (\A p \in Ports : available[p] = 1)

=============================================================================
