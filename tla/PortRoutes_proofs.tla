-------------------------- MODULE PortRoutes_proofs --------------------------
(***************************************************************************)
(* Proofs about PortRoutes for every set of sessions, dashboard requests,  *)
(* tunnels, ports and groups: a port that no TCP group can have is         *)
(* conserved, and a tunnel indexed for it is a member of its route.  With  *)
(* a group this is false (the join race), so the invariant speaks of the   *)
(* UDP ports and, where there are no groups, of the TCP ports.             *)
(*                                                                         *)
(* And about PortEdge, groups included: once things have settled, the      *)
(* listeners are those of the routed ports.                                *)
(***************************************************************************)
EXTENDS PortEdge, TLAPS

-----------------------------------------------------------------------------
(* The inductive invariant.  Conservation does not carry itself: a routed   *)
(* port also has one owner, the tunnel indexed for it or the task between   *)
(* the calls of a registration or a removal.                                *)

\* The ports that only solo tunnels get.
SoloPorts == UdpPorts \cup (IF Groups = {} THEN TcpPorts ELSE {})

\* The locals of a task that is inside an operation are set.
FramesSet ==
  \A a \in Tasks : task[a].pc \notin {"new", "idle", "closing", "done"} =>
    task[a].id \in Tunnels /\ task[a].port \in Ports

\* A task that works for a group has no solo port.
GroupHasNoSoloPort ==
  \A a \in Tasks : task[a].group # None \/ task[a].pc \in {"group", "joined", "ungroup"} =>
    task[a].port \notin SoloPorts

\* The tunnel of the task is minted and not yet in the index.
Registering(a) == task[a].pc \in {"route", "group", "index", "joined"}

\* An id is given once: to one task that registers it, and then to the index.
IdsFresh ==
  /\ \A t \in Tunnels : tunnel_index[t] # None => t \in minted
  /\ \A a \in Tasks : Registering(a) =>
       task[a].id \in minted /\ tunnel_index[task[a].id] = None
  /\ \A a, b \in Tasks : Registering(a) /\ Registering(b) /\ task[a].id = task[b].id => a = b

\* The task answers for the port: no table says yet, or any more, whose it is.
Owns(a, p) ==
  task[a].port = p /\ task[a].pc \in {"route", "index", "unmember", "unroute", "free"}

\* A port has one owner: the pool, a task or an indexed tunnel.
OneOwner(p) ==
  /\ \A a, b \in Tasks : Owns(a, p) /\ Owns(b, p) => a = b
  /\ \A t, u \in Tunnels : tunnel_index[t] = p /\ tunnel_index[u] = p => t = u
  /\ \A a \in Tasks, t \in Tunnels : ~(Owns(a, p) /\ tunnel_index[t] = p)
  /\ available[p] \in {0, 1}
  /\ available[p] = 1 => /\ \A a \in Tasks : ~Owns(a, p)
                         /\ \A t \in Tunnels : tunnel_index[t] # p
  /\ available[p] = 0 => \/ \E a \in Tasks : Owns(a, p)
                         \/ \E t \in Tunnels : tunnel_index[t] = p

\* The route of a port is what its owner has made of it.
RouteFitsOwner(p) ==
  /\ routes[p].group = None
  /\ available[p] = 1 => ~Routed(p)
  /\ \A t \in Tunnels : tunnel_index[t] = p => Routed(p) /\ Members(p) = {t}
  /\ \A a \in Tasks : Owns(a, p) =>
       /\ task[a].pc \in {"route", "free"} => ~Routed(p)
       /\ task[a].pc \in {"index", "unmember"} => Routed(p) /\ Members(p) = {task[a].id}
       /\ At(a, "unroute") => Routed(p) /\ Members(p) = {}

PortInv(p) == OneOwner(p) /\ RouteFitsOwner(p)

SoloInv == \A p \in SoloPorts : PortInv(p)

IInv == TypeOK /\ FramesSet /\ GroupHasNoSoloPort /\ IdsFresh /\ SoloInv

-----------------------------------------------------------------------------
(* What a step of one task does to the frames. *)

\* Task a goes to frame f and the other tasks stay where they are.
Moves(a, f) ==
  /\ task' \in [Tasks -> Frame]
  /\ task'[a] = f
  /\ \A b \in Tasks \ {a} : task'[b] = task[b]

Inside == PCs \ {"new", "idle", "closing", "done"}

\* A frame with these fields may be what a task goes to.
Sound(pc, t, p, g) ==
  /\ pc \in PCs /\ t \in Tunnels \cup {None} /\ p \in Ports \cup {None}
  /\ g \in Groups \cup {None}
  /\ pc \in Inside => t \in Tunnels /\ p \in Ports
  /\ g # None \/ pc \in {"group", "joined", "ungroup"} => p \notin SoloPorts

\* Overwriting a task's whole frame moves it.
LEMMA SetMoves ==
  ASSUME TypeOK, NEW a \in Tasks, NEW pc, NEW t, NEW p, NEW g, Sound(pc, t, p, g),
         task' = [task EXCEPT ![a] = Local(pc, t, p, g)]
  PROVE  Moves(a, Local(pc, t, p, g))
<1>1. Local(pc, t, p, g) \in Frame
  BY DEF Sound, Local, Frame
<1> QED BY <1>1 DEF Moves, TypeOK

\* A frame is its four fields.
LEMMA FrameExcept ==
  ASSUME NEW f \in Frame, NEW pc \in PCs, NEW g \in Groups \cup {None}
  PROVE  [f EXCEPT !.pc = pc, !.group = g] = Local(pc, f.id, f.port, g)
<1> DEFINE h == [f EXCEPT !.pc = pc]
<1>1. h = Local(pc, f.id, f.port, f.group)
  BY DEF Frame, Local
<1>2. h \in Frame /\ h.pc = pc /\ h.id = f.id /\ h.port = f.port
  BY <1>1 DEF Frame, Local
<1>3. [f EXCEPT !.pc = pc, !.group = g] = [h EXCEPT !.group = g]
  OBVIOUS
<1> HIDE DEF h
<1>4. [h EXCEPT !.group = g] = Local(h.pc, h.id, h.port, g)
  BY <1>2 DEF Frame, Local
<1> QED BY <1>2, <1>3, <1>4

\* Goto changes the call a task is at and keeps its locals.
LEMMA GotoMoves ==
  ASSUME TypeOK, NEW a \in Tasks, NEW pc \in PCs, Goto(a, pc)
  PROVE  Moves(a, Local(pc, task[a].id, task[a].port, task[a].group))
<1>1. task[a] \in Frame
  BY DEF TypeOK
<1>2. /\ [task[a] EXCEPT !.pc = pc] = Local(pc, task[a].id, task[a].port, task[a].group)
      /\ Local(pc, task[a].id, task[a].port, task[a].group) \in Frame
  BY <1>1 DEF Local, Frame
<1>3. task' = [task EXCEPT ![a] = [task[a] EXCEPT !.pc = pc]]
  BY DEF Goto
<1> QED BY <1>2, <1>3 DEF Moves, TypeOK

\* A task that returns from remove_tunnel is back at its caller.
LEMMA ReturnMoves ==
  ASSUME TypeOK, NEW a \in Tasks, Return(a)
  PROVE  /\ Moves(a, Local(Resume(a), None, None, None))
         /\ Sound(Resume(a), None, None, None)
<1>1. Resume(a) \in {"idle", "closing"}
  BY DEF Resume
<1>2. Sound(Resume(a), None, None, None)
  BY <1>1, PortNoneIsNoValue DEF Sound, PCs, Inside, SoloPorts
<1> QED BY <1>2, SetMoves DEF Return, Rest

\* Frames stay sound.
LEMMA FramesKept ==
  ASSUME FramesSet, GroupHasNoSoloPort, NEW a \in Tasks,
         NEW pc, NEW t, NEW p, NEW g, Sound(pc, t, p, g), Moves(a, Local(pc, t, p, g))
  PROVE  FramesSet' /\ GroupHasNoSoloPort'
<1>1. task'[a].pc = pc /\ task'[a].id = t /\ task'[a].port = p /\ task'[a].group = g
  BY DEF Moves, Local
<1>2. \A b \in Tasks \ {a} : task'[b] = task[b]
  BY DEF Moves
<1>3. FramesSet'
  BY <1>1, <1>2 DEF FramesSet, Sound, Inside
<1>4. GroupHasNoSoloPort'
  BY <1>1, <1>2 DEF GroupHasNoSoloPort, Sound
<1> QED BY <1>3, <1>4

-----------------------------------------------------------------------------
(* What it does to the ids. *)

\* A task that does not take up an id, and leaves the index alone or takes a
\* tunnel out of it, keeps the ids fresh.
LEMMA IdsKept ==
  ASSUME IdsFresh, NEW a \in Tasks, NEW pc, NEW t, NEW p, NEW g,
         Moves(a, Local(pc, t, p, g)),
         pc \in {"route", "group", "index", "joined"} => Registering(a) /\ t = task[a].id,
         minted' = minted, FramesSet,
         \A u \in Tunnels : tunnel_index'[u] \in {tunnel_index[u], None}
  PROVE  IdsFresh'
<1>1. \A b \in Tasks : Registering(b)' => Registering(b) /\ task'[b].id = task[b].id
  BY DEF Moves, Local, Registering
<1>2. \A b \in Tasks : Registering(b) => task[b].id \in Tunnels
  BY DEF Registering, FramesSet
<1> QED BY <1>1, <1>2 DEF IdsFresh

\* Uuid::new_v4: the task takes up an id nobody had.
LEMMA IdMinted ==
  ASSUME IdsFresh, FramesSet, NEW a \in Tasks, NEW pc, NEW t \in Tunnels, NEW p, NEW g,
         Moves(a, Local(pc, t, p, g)), Mint(t), tunnel_index' = tunnel_index
  PROVE  IdsFresh'
<1>1. task'[a].id = t /\ \A b \in Tasks \ {a} : task'[b] = task[b]
  BY DEF Moves, Local
<1>2. t \notin minted /\ minted' = minted \cup {t} /\ tunnel_index[t] = None
  BY DEF Mint, IdsFresh
<1>3. \A b \in Tasks \ {a} : Registering(b)' <=> Registering(b)
  BY <1>1 DEF Registering
<1>4. \A b \in Tasks \ {a} : Registering(b)' => task'[b].id # t
  BY <1>1, <1>2, <1>3 DEF IdsFresh
<1> QED BY <1>1, <1>2, <1>3, <1>4 DEF IdsFresh

\* The task puts its id in the index and is done with it.
LEMMA IdIndexed ==
  ASSUME IdsFresh, FramesSet, TypeOK, NEW a \in Tasks, Registering(a), NEW x,
         NEW pc, NEW t, NEW p, NEW g, Moves(a, Local(pc, t, p, g)),
         pc \notin {"route", "group", "index", "joined"}, minted' = minted,
         tunnel_index' = [tunnel_index EXCEPT ![task[a].id] = x]
  PROVE  IdsFresh'
<1>1. ~Registering(a)' /\ \A b \in Tasks \ {a} : task'[b] = task[b]
  BY DEF Moves, Local, Registering
<1>2. \A b \in Tasks : Registering(b) => task[b].id \in Tunnels
  BY DEF Registering, FramesSet
<1>3. \A b \in Tasks : Registering(b)' => /\ Registering(b) /\ b # a
                                          /\ task'[b] = task[b]
                                          /\ task[b].id # task[a].id
  BY <1>1 DEF IdsFresh, Registering
<1>4. task[a].id \in minted
  BY DEF IdsFresh
<1>5. \A u \in Tunnels : u # task[a].id => tunnel_index'[u] = tunnel_index[u]
  BY DEF TypeOK
<1> QED BY <1>1, <1>2, <1>3, <1>4, <1>5 DEF IdsFresh

-----------------------------------------------------------------------------
(* What it does to a port. *)

Owning == {"route", "index", "unmember", "unroute", "free"}

\* A task that does not own the port, before or after, and leaves its pool entry,
\* its route and its index entries alone.
LEMMA PortUntouched ==
  ASSUME NEW q \in SoloPorts, PortInv(q), NEW a \in Tasks,
         NEW pc, NEW t, NEW p, NEW g, Moves(a, Local(pc, t, p, g)),
         ~Owns(a, q), ~(p = q /\ pc \in Owning),
         available'[q] = available[q], routes'[q] = routes[q],
         \A u \in Tunnels : (tunnel_index'[u] = q) <=> (tunnel_index[u] = q)
  PROVE  PortInv(q)'
<1>1. \A b \in Tasks : Owns(b, q)' <=> Owns(b, q)
  BY DEF Moves, Local, Owns, Owning
<1>2. \A b \in Tasks : Owns(b, q) => task'[b] = task[b]
  BY DEF Moves
<1>3. OneOwner(q)'
  BY <1>1 DEF PortInv, OneOwner
<1>4. RouteFitsOwner(q)'
  BY <1>1, <1>2 DEF PortInv, RouteFitsOwner, Routed, Members, At
<1> QED BY <1>3, <1>4 DEF PortInv

\* A task that owns the port goes on to another call and still owns it.
LEMMA OwnerStays ==
  ASSUME NEW q \in SoloPorts, PortInv(q), NEW a \in Tasks,
         NEW pc, NEW t, NEW g, Moves(a, Local(pc, t, q, g)),
         Owns(a, q), pc \in Owning, available'[q] = available[q],
         tunnel_index' = tunnel_index, routes'[q].group = None,
         pc \in {"route", "free"} => ~Routed(q)',
         pc \in {"index", "unmember"} => Routed(q)' /\ Members(q)' = {t},
         pc = "unroute" => Routed(q)' /\ Members(q)' = {}
  PROVE  PortInv(q)'
<1>1. Owns(a, q)' /\ task'[a].pc = pc /\ task'[a].id = t
  BY DEF Moves, Local, Owns, Owning
<1>2. \A b \in Tasks : Owns(b, q)' <=> b = a
  BY <1>1 DEF Moves, Owns, PortInv, OneOwner
<1>3. available[q] = 0 /\ \A u \in Tunnels : tunnel_index[u] # q
  BY DEF PortInv, OneOwner
<1>4. OneOwner(q)'
  BY <1>2, <1>3 DEF OneOwner
<1>5. RouteFitsOwner(q)'
  BY <1>1, <1>2, <1>3 DEF RouteFitsOwner, At
<1> QED BY <1>4, <1>5 DEF PortInv

\* A task pops the port: it was in the pool, so nobody else had it.
LEMMA PortPopped ==
  ASSUME TypeOK, NEW q \in SoloPorts, q \in Ports, PortInv(q), NEW a \in Tasks, NEW t, NEW g,
         Moves(a, Local("route", t, q, g)), ~Owns(a, q), Pop(q),
         tunnel_index' = tunnel_index, routes' = routes
  PROVE  PortInv(q)'
<1>1. available[q] = 1 /\ available'[q] = 0
  BY DEF Pop, TypeOK, PortInv, OneOwner
<1>2. Owns(a, q)' /\ task'[a].pc = "route"
  BY DEF Moves, Local, Owns
<1>3. \A b \in Tasks : Owns(b, q)' <=> b = a
  BY <1>1, <1>2 DEF Moves, Owns, PortInv, OneOwner
<1>4. \A u \in Tunnels : tunnel_index[u] # q
  BY <1>1 DEF PortInv, OneOwner
<1>5. OneOwner(q)'
  BY <1>1, <1>3, <1>4 DEF OneOwner
<1>6. RouteFitsOwner(q)'
  BY <1>1, <1>2, <1>3, <1>4 DEF RouteFitsOwner, PortInv, At, Routed, Members
<1> QED BY <1>5, <1>6 DEF PortInv

\* A task pushes its port back.
LEMMA PortPushed ==
  ASSUME TypeOK, NEW q \in SoloPorts, q \in Ports, PortInv(q), NEW a \in Tasks, NEW pc, NEW t, NEW g,
         Moves(a, Local(pc, t, q, g)), pc \notin Owning, At(a, "free"), task[a].port = q,
         available' = [available EXCEPT ![q] = @ + 1],
         tunnel_index' = tunnel_index, routes' = routes
  PROVE  PortInv(q)'
<1>1. Owns(a, q) /\ available[q] = 0 /\ \A u \in Tunnels : tunnel_index[u] # q
  BY DEF PortInv, OneOwner, Owns, At
<1>2. available'[q] = 1
  BY <1>1 DEF TypeOK
<1>3. \A b \in Tasks : ~Owns(b, q)'
  BY <1>1 DEF Moves, Local, Owns, Owning, PortInv, OneOwner
<1>4. OneOwner(q)'
  BY <1>1, <1>2, <1>3 DEF OneOwner
<1>5. ~Routed(q)'
  BY <1>1 DEF PortInv, RouteFitsOwner, Routed, At
<1>6. RouteFitsOwner(q)'
  BY <1>1, <1>2, <1>3, <1>5 DEF RouteFitsOwner, PortInv
<1> QED BY <1>4, <1>6 DEF PortInv

\* A task enters its tunnel in the index: the port goes over to the tunnel.
LEMMA PortIndexed ==
  ASSUME TypeOK, NEW q \in SoloPorts, PortInv(q), NEW a \in Tasks, NEW pc, NEW t, NEW g,
         Moves(a, Local(pc, t, q, g)), pc \notin Owning, At(a, "index"), task[a].port = q,
         task[a].id \in Tunnels, available' = available, routes' = routes,
         tunnel_index' = [tunnel_index EXCEPT ![task[a].id] = q]
  PROVE  PortInv(q)'
<1>1. Owns(a, q) /\ available[q] = 0 /\ \A u \in Tunnels : tunnel_index[u] # q
  BY DEF PortInv, OneOwner, Owns, At
<1>2. \A b \in Tasks : ~Owns(b, q)'
  BY <1>1 DEF Moves, Local, Owns, Owning, PortInv, OneOwner
<1>3. \A u \in Tunnels : tunnel_index'[u] = q <=> u = task[a].id
  BY <1>1 DEF TypeOK
<1>4. OneOwner(q)'
  BY <1>1, <1>2, <1>3 DEF OneOwner
<1>5. Routed(q)' /\ Members(q)' = {task[a].id} /\ routes'[q].group = None
  BY <1>1 DEF PortInv, RouteFitsOwner, At, Routed, Members
<1>6. RouteFitsOwner(q)'
  BY <1>1, <1>2, <1>3, <1>5 DEF RouteFitsOwner
<1> QED BY <1>4, <1>6 DEF PortInv

\* tunnel_index.remove gives the port to the one task that got the entry.
LEMMA PortUnindexed ==
  ASSUME TypeOK, NEW q \in SoloPorts, PortInv(q), NEW a \in Tasks, NEW t \in Tunnels, NEW g,
         Moves(a, Local("unmember", t, q, g)), ~Owns(a, q), tunnel_index[t] = q, q # None,
         available' = available, routes' = routes,
         tunnel_index' = [tunnel_index EXCEPT ![t] = None]
  PROVE  PortInv(q)'
<1>1. available[q] = 0 /\ \A b \in Tasks : ~Owns(b, q)
  BY DEF PortInv, OneOwner
<1>2. Owns(a, q)' /\ task'[a].pc = "unmember" /\ task'[a].id = t
  BY DEF Moves, Local, Owns
<1>3. \A b \in Tasks : Owns(b, q)' <=> b = a
  BY <1>1, <1>2 DEF Moves, Owns
<1>4. \A u \in Tunnels : tunnel_index'[u] # q
  BY DEF TypeOK, PortInv, OneOwner
<1>5. OneOwner(q)'
  BY <1>1, <1>3, <1>4 DEF OneOwner
<1>6. Routed(q)' /\ Members(q)' = {t} /\ routes'[q].group = None
  BY DEF PortInv, RouteFitsOwner, Routed, Members
<1>7. RouteFitsOwner(q)'
  BY <1>1, <1>2, <1>3, <1>4, <1>6 DEF RouteFitsOwner, At
<1> QED BY <1>5, <1>7 DEF PortInv

-----------------------------------------------------------------------------
(* The actions. *)

\* Ports of which no group's task can speak, and the rest.
LEMMA SoloOrNot ==
  /\ SoloPorts \subseteq Ports
  /\ None \notin Ports
  /\ \A p \in Ports : p \notin SoloPorts => p \in TcpPorts
  /\ \A g \in Groups : \A p \in TcpPorts : p \notin SoloPorts
BY PortNoneIsNoValue, PortsDisjoint DEF SoloPorts, Ports

\* A send keeps the channels and their lag flags what they are.
LEMMA SendType ==
  ASSUME TypeOK, NEW c \in Channels, NEW kind \in {"registered", "unregistered"},
         NEW p \in Ports, Send(c, kind, p)
  PROVE  events' \in [Channels -> Seq(Event)] /\ lagged' \in [Channels -> BOOLEAN]
<1> DEFINE full == Len(events[c]) = EventCap
           kept == IF full THEN Tail(events[c]) ELSE events[c]
<1>1. events[c] \in Seq(Event)
  BY DEF TypeOK
<1>2. full => events[c] # <<>>
  BY <1>1, PortBounds
<1>3. kept \in Seq(Event)
  BY <1>1, <1>2
<1>4. [kind |-> kind, port |-> p] \in Event
  BY DEF Event
<1>5. Append(kept, [kind |-> kind, port |-> p]) \in Seq(Event)
  BY <1>3, <1>4
<1>6. events' = [events EXCEPT ![c] = Append(kept, [kind |-> kind, port |-> p])]
  BY DEF Send
<1>7. lagged' = [lagged EXCEPT ![c] = @ \/ full]
  BY DEF Send
<1>8. lagged' \in [Channels -> BOOLEAN]
  BY <1>7 DEF TypeOK
<1> HIDE DEF kept
<1> QED BY <1>5, <1>6, <1>8 DEF TypeOK

\* A task moves that owns no port, and no table but the group index changes
\* (register_session, remove_session, the end of its loop, a group's index).
LEMMA QuietStep ==
  ASSUME IInv, TypeOK', NEW a \in Tasks, NEW pc, NEW t, NEW p, NEW g,
         Moves(a, Local(pc, t, p, g)), Sound(pc, t, p, g),
         \A q \in SoloPorts : ~Owns(a, q),
         pc \notin Owning \/ p \notin SoloPorts,
         pc \in {"route", "group", "index", "joined"} => Registering(a) /\ t = task[a].id,
         UNCHANGED <<available, tunnel_index, minted>>,
         \A q \in SoloPorts : routes'[q] = routes[q]
  PROVE  IInv'
<1>1. FramesSet' /\ GroupHasNoSoloPort'
  BY FramesKept DEF IInv
<1>2. IdsFresh'
  <2>1. \A u \in Tunnels : tunnel_index'[u] \in {tunnel_index[u], None}
    OBVIOUS
  <2> QED BY <2>1, IdsKept DEF IInv
<1>3. SoloInv'
  BY PortUntouched DEF IInv, SoloInv
<1> QED BY <1>1, <1>2, <1>3 DEF IInv

\* register_session
LEMMA RegisterSessionStep ==
  ASSUME IInv, NEW s \in Sessions, RegisterSession(s)
  PROVE  IInv'
<1>1. s \in Tasks /\ "idle" \in PCs /\ TypeOK
  BY DEF Tasks, PCs, IInv
<1>2. Moves(s, Local("idle", task[s].id, task[s].port, task[s].group))
  BY <1>1, GotoMoves DEF RegisterSession
<1>3. Sound("idle", task[s].id, task[s].port, task[s].group)
  BY <1>1 DEF Sound, Inside, TypeOK, Frame, IInv, GroupHasNoSoloPort
<1>4. TypeOK'
  BY <1>1, <1>2 DEF TypeOK, RegisterSession, Moves
<1>5. \A q \in SoloPorts : ~Owns(s, q)
  BY DEF Owns, RegisterSession, At
<1> QED BY <1>1, <1>2, <1>3, <1>4, <1>5, QuietStep DEF RegisterSession, Owning

\* remove_session, up to its loop
LEMMA RemoveSessionStep ==
  ASSUME IInv, NEW s \in Sessions, RemoveSession(s)
  PROVE  IInv'
<1>1. s \in Tasks /\ "closing" \in PCs /\ TypeOK
  BY DEF Tasks, PCs, IInv
<1>2. Moves(s, Local("closing", task[s].id, task[s].port, task[s].group))
  BY <1>1, GotoMoves DEF RemoveSession
<1>3. Sound("closing", task[s].id, task[s].port, task[s].group)
  BY <1>1 DEF Sound, Inside, TypeOK, Frame, IInv, GroupHasNoSoloPort
<1>4. TypeOK'
  BY <1>1, <1>2 DEF TypeOK, RemoveSession, Moves
<1>5. \A q \in SoloPorts : ~Owns(s, q)
  BY DEF Owns, RemoveSession, At
<1> QED BY <1>1, <1>2, <1>3, <1>4, <1>5, QuietStep DEF RemoveSession, Owning

\* The end of remove_session
LEMMA CloseDoneStep ==
  ASSUME IInv, NEW s \in Sessions, CloseDone(s)
  PROVE  IInv'
<1>1. s \in Tasks /\ "done" \in PCs /\ TypeOK
  BY DEF Tasks, PCs, IInv
<1>2. Moves(s, Local("done", task[s].id, task[s].port, task[s].group))
  BY <1>1, GotoMoves DEF CloseDone
<1>3. Sound("done", task[s].id, task[s].port, task[s].group)
  BY <1>1 DEF Sound, Inside, TypeOK, Frame, IInv, GroupHasNoSoloPort
<1>4. TypeOK'
  BY <1>1, <1>2 DEF TypeOK, CloseDone, Moves
<1>5. \A q \in SoloPorts : ~Owns(s, q)
  BY DEF Owns, CloseDone, At
<1> QED BY <1>1, <1>2, <1>3, <1>4, <1>5, QuietStep DEF CloseDone, Owning

\* The pop of a solo registration, TCP or UDP
LEMMA PopStep ==
  ASSUME IInv, NEW s \in Sessions, NEW t \in Tunnels, NEW p \in Ports,
         At(s, "idle"), Mint(t), Pop(p),
         task' = [task EXCEPT ![s] = Local("route", t, p, None)],
         UNCHANGED <<sessions, tunnels, routes, group_index, guard, tunnel_index, todo,
                     events, lagged>>
  PROVE  IInv'
<1>1. s \in Tasks /\ Sound("route", t, p, None) /\ TypeOK
  BY DEF Tasks, PCs, IInv, Sound
<1>2. Moves(s, Local("route", t, p, None))
  BY <1>1, SetMoves
<1>3. available' \in [Ports -> Nat] /\ \A q \in Ports \ {p} : available'[q] = available[q]
  BY <1>1 DEF Pop, TypeOK
<1>4. TypeOK'
  BY <1>1, <1>2, <1>3 DEF TypeOK, Moves, Mint
<1>5. FramesSet' /\ GroupHasNoSoloPort'
  BY <1>1, <1>2, FramesKept DEF IInv
<1>6. IdsFresh'
  BY <1>1, <1>2, IdMinted DEF IInv
<1>7. ASSUME NEW q \in SoloPorts PROVE PortInv(q)'
  <2>1. ~Owns(s, q) /\ PortInv(q) /\ q \in Ports
    BY SoloOrNot DEF Owns, At, IInv, SoloInv
  <2>2. CASE q = p
    BY <1>1, <1>2, <2>1, <2>2, PortPopped
  <2>3. CASE q # p
    BY <1>1, <1>2, <1>3, <2>1, <2>3, PortUntouched
  <2> QED BY <2>2, <2>3
<1> QED BY <1>4, <1>5, <1>6, <1>7 DEF IInv, SoloInv

\* The first member of a group, up to its pop
LEMMA CreateTcpGroupStep ==
  ASSUME IInv, NEW s \in Sessions, NEW t \in Tunnels, NEW p \in TcpPorts, NEW g \in Groups,
         CreateTcpGroup(s, t, p, g)
  PROVE  IInv'
<1>1. s \in Tasks /\ p \in Ports /\ p \notin SoloPorts /\ Sound("route", t, p, g) /\ TypeOK
  BY SoloOrNot DEF Tasks, PCs, IInv, Sound, Ports
<1>2. Moves(s, Local("route", t, p, g))
  BY <1>1, SetMoves DEF CreateTcpGroup
<1>3. available' \in [Ports -> Nat] /\ \A q \in Ports \ {p} : available'[q] = available[q]
  BY <1>1 DEF Pop, TypeOK, CreateTcpGroup
<1>4. TypeOK'
  BY <1>1, <1>2, <1>3 DEF TypeOK, Moves, Mint, CreateTcpGroup
<1>5. FramesSet' /\ GroupHasNoSoloPort'
  BY <1>1, <1>2, FramesKept DEF IInv
<1>6. IdsFresh'
  BY <1>1, <1>2, IdMinted DEF IInv, CreateTcpGroup
<1>7. ASSUME NEW q \in SoloPorts PROVE PortInv(q)'
  <2>1. ~Owns(s, q) /\ PortInv(q) /\ q \in Ports /\ q # p
    BY <1>1, SoloOrNot DEF Owns, At, IInv, SoloInv, CreateTcpGroup
  <2> QED BY <1>1, <1>2, <1>3, <2>1, PortUntouched DEF CreateTcpGroup
<1> QED BY <1>4, <1>5, <1>6, <1>7 DEF IInv, SoloInv

\* A later member of a group
LEMMA JoinTcpGroupStep ==
  ASSUME IInv, NEW s \in Sessions, NEW t \in Tunnels, NEW g \in Groups,
         JoinTcpGroup(s, t, g)
  PROVE  IInv'
<1> DEFINE p == group_index[g]
<1>1. s \in Tasks /\ p \in Ports /\ p \notin SoloPorts /\ Sound("joined", t, p, g) /\ TypeOK
  BY SoloOrNot DEF Tasks, PCs, IInv, Sound, Ports, TypeOK, JoinTcpGroup
<1>2. Moves(s, Local("joined", t, p, g))
  BY <1>1, SetMoves DEF JoinTcpGroup
<1>3. routes' \in [Ports -> Route] /\ \A q \in Ports \ {p} : routes'[q] = routes[q]
  BY <1>1 DEF TypeOK, JoinTcpGroup, Route
<1>4. TypeOK'
  BY <1>1, <1>2, <1>3 DEF TypeOK, Moves, Mint, JoinTcpGroup
<1>5. FramesSet' /\ GroupHasNoSoloPort'
  BY <1>1, <1>2, FramesKept DEF IInv
<1>6. IdsFresh'
  BY <1>1, <1>2, IdMinted DEF IInv, JoinTcpGroup
<1>7. ASSUME NEW q \in SoloPorts PROVE PortInv(q)'
  <2>1. ~Owns(s, q) /\ PortInv(q) /\ q \in Ports /\ q # p
    BY <1>1, SoloOrNot DEF Owns, At, IInv, SoloInv, JoinTcpGroup
  <2>2. /\ available'[q] = available[q] /\ routes'[q] = routes[q]
        /\ \A u \in Tunnels : (tunnel_index'[u] = q) <=> (tunnel_index[u] = q)
    BY <1>3, <2>1 DEF JoinTcpGroup
  <2> HIDE DEF p
  <2> QED BY <1>1, <1>2, <2>1, <2>2, PortUntouched
<1> QED BY <1>4, <1>5, <1>6, <1>7 DEF IInv, SoloInv

\* routes.insert
LEMMA InsertRouteStep ==
  ASSUME IInv, NEW s \in Sessions, InsertRoute(s)
  PROVE  IInv'
<1> DEFINE f  == task[s]
           pc == IF f.group = None THEN "index" ELSE "group"
           r  == [present |-> TRUE, group |-> f.group, members |-> {f.id}]
<1>1. /\ s \in Tasks /\ TypeOK /\ pc \in PCs /\ f.pc = "route"
      /\ f.id \in Tunnels /\ f.port \in Ports /\ f.group \in Groups \cup {None}
      /\ f.group # None => f.port \notin SoloPorts
  BY DEF Tasks, PCs, IInv, TypeOK, Frame, FramesSet, GroupHasNoSoloPort, InsertRoute, At
<1>2. Moves(s, Local(pc, f.id, f.port, f.group))
  BY <1>1, GotoMoves DEF InsertRoute
<1>3. Sound(pc, f.id, f.port, f.group)
  BY <1>1 DEF Sound
<1>4. r \in Route
  BY <1>1 DEF Route
<1>5. routes' = [routes EXCEPT ![f.port] = r]
  BY DEF InsertRoute
<1>6. /\ routes' \in [Ports -> Route] /\ routes'[f.port] = r
      /\ \A q \in Ports \ {f.port} : routes'[q] = routes[q]
  BY <1>1, <1>4, <1>5 DEF TypeOK
<1>7. TypeOK'
  BY <1>1, <1>2, <1>6 DEF TypeOK, Moves, InsertRoute
<1>8. FramesSet' /\ GroupHasNoSoloPort'
  BY <1>1, <1>2, <1>3, FramesKept DEF IInv
<1>9. IdsFresh'
  <2>1. /\ Registering(s) /\ minted' = minted
        /\ \A u \in Tunnels : tunnel_index'[u] \in {tunnel_index[u], None}
    BY <1>1 DEF InsertRoute, Registering
  <2> QED BY <1>1, <1>2, <2>1, IdsKept DEF IInv
<1>10. ASSUME NEW q \in SoloPorts PROVE PortInv(q)'
  <2>1. PortInv(q) /\ q \in Ports /\ available' = available /\ tunnel_index' = tunnel_index
    BY SoloOrNot DEF IInv, SoloInv, InsertRoute
  <2>2. CASE q = f.port
    <3>1. Owns(s, q) /\ f.group = None /\ pc = "index"
      BY <1>1, <2>2 DEF Owns
    <3>2. Routed(q)' /\ Members(q)' = {f.id} /\ routes'[q].group = None
      BY <1>6, <2>2, <3>1 DEF Routed, Members
    <3> QED BY <1>1, <1>2, <2>1, <2>2, <3>1, <3>2, OwnerStays DEF Owning
  <2>3. CASE q # f.port
    <3>1. ~Owns(s, q) /\ routes'[q] = routes[q]
      BY <1>6, <2>1, <2>3 DEF Owns
    <3> HIDE DEF f, pc
    <3> QED BY <1>1, <1>2, <2>1, <2>3, <3>1, PortUntouched
  <2> QED BY <2>2, <2>3
<1> QED BY <1>7, <1>8, <1>9, <1>10 DEF IInv, SoloInv

\* idx_vac.insert
LEMMA InsertGroupIndexStep ==
  ASSUME IInv, NEW s \in Sessions, NEW g \in Groups, InsertGroupIndex(s, g)
  PROVE  IInv'
<1> DEFINE f == task[s]
<1>1. /\ s \in Tasks /\ TypeOK /\ "index" \in PCs /\ f.pc = "group"
      /\ f.id \in Tunnels /\ f.port \in TcpPorts /\ f.port \notin SoloPorts
      /\ f.group \in Groups \cup {None}
  BY SoloOrNot
  DEF Tasks, PCs, IInv, TypeOK, Frame, FramesSet, GroupHasNoSoloPort, InsertGroupIndex, At
<1>2. Moves(s, Local("index", f.id, f.port, f.group))
  BY <1>1, GotoMoves DEF InsertGroupIndex
<1>3. Sound("index", f.id, f.port, f.group)
  BY <1>1 DEF Sound, Ports
<1>4. TypeOK'
  BY <1>1, <1>2 DEF TypeOK, InsertGroupIndex, Moves
<1>5. /\ \A q \in SoloPorts : ~Owns(s, q) /\ routes'[q] = routes[q]
      /\ Registering(s) /\ UNCHANGED <<available, tunnel_index, minted>>
  BY <1>1 DEF Owns, Registering, InsertGroupIndex
<1> QED BY <1>1, <1>2, <1>3, <1>4, <1>5, QuietStep

\* tunnel_index.insert and add_tunnel_to_session of a solo tunnel or a group's first
LEMMA IndexTunnelStep ==
  ASSUME IInv, NEW s \in Sessions, IndexTunnel(s)
  PROVE  IInv'
<1> DEFINE f == task[s]
<1>1. /\ s \in Tasks /\ TypeOK /\ "announce" \in PCs /\ At(s, "index") /\ Registering(s)
      /\ f.id \in Tunnels /\ f.port \in Ports /\ f.group \in Groups \cup {None}
      /\ f.group # None => f.port \notin SoloPorts
  BY DEF Tasks, PCs, IInv, TypeOK, Frame, FramesSet, GroupHasNoSoloPort, IndexTunnel, At,
         Registering
<1>2. Moves(s, Local("announce", f.id, f.port, f.group))
  BY <1>1, GotoMoves DEF IndexTunnel
<1>3. Sound("announce", f.id, f.port, f.group)
  BY <1>1 DEF Sound
<1>4. tunnel_index' = [tunnel_index EXCEPT ![f.id] = f.port] /\ minted' = minted
      /\ available' = available /\ routes' = routes
  BY DEF IndexTunnel
<1>5. TypeOK'
  BY <1>1, <1>2 DEF TypeOK, IndexTunnel, Moves
<1>6. FramesSet' /\ GroupHasNoSoloPort'
  BY <1>1, <1>2, <1>3, FramesKept DEF IInv
<1>7. IdsFresh'
  BY <1>1, <1>2, <1>4, IdIndexed DEF IInv
<1>8. ASSUME NEW q \in SoloPorts PROVE PortInv(q)'
  <2>1. PortInv(q) /\ q \in Ports /\ q # None
    BY SoloOrNot DEF IInv, SoloInv
  <2>2. CASE q = f.port
    <3>1. /\ Moves(s, Local("announce", task[s].id, q, task[s].group))
          /\ "announce" \notin Owning /\ task[s].port = q
      BY <1>2, <2>2 DEF Owning
    <3>2. tunnel_index' = [tunnel_index EXCEPT ![task[s].id] = q]
      BY <1>4, <2>2
    <3> QED BY <1>1, <1>4, <2>1, <3>1, <3>2, PortIndexed
  <2>3. CASE q # f.port
    <3>1. ~Owns(s, q) /\ tunnel_index[f.id] = None
      BY <1>1, <2>3 DEF Owns, IInv, IdsFresh
    <3>2. \A u \in Tunnels : (tunnel_index'[u] = q) <=> (tunnel_index[u] = q)
      BY <1>1, <1>4, <2>1, <2>3, <3>1 DEF TypeOK
    <3> HIDE DEF f
    <3> QED BY <1>1, <1>2, <1>4, <2>1, <2>3, <3>1, <3>2, PortUntouched
  <2> QED BY <2>2, <2>3
<1> QED BY <1>5, <1>6, <1>7, <1>8 DEF IInv, SoloInv

\* The same for a later member of a group
LEMMA IndexJoinedStep ==
  ASSUME IInv, NEW s \in Sessions, NEW g \in Groups, IndexJoined(s, g)
  PROVE  IInv'
<1> DEFINE f == task[s]
<1>1. /\ s \in Tasks /\ TypeOK /\ f.pc = "joined" /\ Registering(s)
      /\ f.id \in Tunnels /\ f.port \in Ports /\ f.port \notin SoloPorts
  BY DEF Tasks, IInv, FramesSet, GroupHasNoSoloPort, IndexJoined, At, Registering
<1>2. Sound("idle", None, None, None)
  BY SoloOrNot DEF Sound, PCs, Inside
<1>3. Moves(s, Local("idle", None, None, None))
  BY <1>1, <1>2, SetMoves DEF IndexJoined, Rest
<1>4. tunnel_index' = [tunnel_index EXCEPT ![f.id] = f.port] /\ minted' = minted
      /\ available' = available /\ routes' = routes
  BY DEF IndexJoined
<1>5. TypeOK'
  BY <1>1, <1>3 DEF TypeOK, IndexJoined, Moves
<1>6. FramesSet' /\ GroupHasNoSoloPort'
  BY <1>1, <1>2, <1>3, FramesKept DEF IInv
<1>7. IdsFresh'
  BY <1>1, <1>3, <1>4, IdIndexed DEF IInv
<1>8. ASSUME NEW q \in SoloPorts PROVE PortInv(q)'
  <2>1. PortInv(q) /\ q \in Ports /\ q # None /\ q # f.port
    BY <1>1, SoloOrNot DEF IInv, SoloInv
  <2>2. ~Owns(s, q) /\ tunnel_index[f.id] = None
    BY <1>1 DEF Owns, IInv, IdsFresh
  <2>3. \A u \in Tunnels : (tunnel_index'[u] = q) <=> (tunnel_index[u] = q)
    BY <1>1, <1>4, <2>1, <2>2 DEF TypeOK
  <2> HIDE DEF f
  <2> QED BY <1>1, <1>3, <1>4, <2>1, <2>2, <2>3, PortUntouched DEF Owning
<1> QED BY <1>5, <1>6, <1>7, <1>8 DEF IInv, SoloInv

\* send Registered
LEMMA AnnounceStep ==
  ASSUME IInv, NEW s \in Sessions, Announce(s)
  PROVE  IInv'
<1>1. s \in Tasks /\ TypeOK /\ task[s].port \in Ports /\ task[s].pc = "announce"
  BY DEF Tasks, IInv, FramesSet, Announce, At
<1>2. Sound("idle", None, None, None)
  BY SoloOrNot DEF Sound, PCs, Inside
<1>3. Moves(s, Local("idle", None, None, None))
  BY <1>1, <1>2, SetMoves DEF Announce, Rest
<1>4. events' \in [Channels -> Seq(Event)] /\ lagged' \in [Channels -> BOOLEAN]
  <2>1. Channel(task[s].port) \in Channels
    BY DEF Channel, Channels
  <2> QED BY <1>1, <2>1, SendType DEF Announce
<1>5. TypeOK'
  BY <1>1, <1>3, <1>4 DEF TypeOK, Announce, Moves
<1>6. \A q \in SoloPorts : ~Owns(s, q)
  BY <1>1 DEF Owns
<1> QED BY <1>1, <1>2, <1>3, <1>5, <1>6, QuietStep DEF Announce, Owning

\* tunnel_index.remove, by whichever caller of remove_tunnel
LEMMA UnindexStep ==
  ASSUME IInv, NEW a \in Tasks, NEW t \in Tunnels, task[a].pc \in {"idle", "closing"},
         Unindex(a, t), todo' \in [Sessions -> SUBSET Tunnels],
         UNCHANGED <<sessions, tunnels, minted, available, routes, group_index, guard,
                     events, lagged>>
  PROVE  IInv'
<1> DEFINE p == tunnel_index[t]
<1>1. TypeOK /\ p \in Ports /\ "unmember" \in PCs
  BY DEF IInv, TypeOK, Unindex, PCs
<1>2. Sound("unmember", t, p, None)
  BY <1>1 DEF Sound
<1>3. Moves(a, Local("unmember", t, p, None))
  BY <1>1, <1>2, SetMoves DEF Unindex
<1>4. tunnel_index' = [tunnel_index EXCEPT ![t] = None] /\ minted' = minted
  BY DEF Unindex
<1>5. TypeOK'
  BY <1>1, <1>3, <1>4 DEF TypeOK, Moves
<1>6. FramesSet' /\ GroupHasNoSoloPort'
  BY <1>1, <1>2, <1>3, FramesKept DEF IInv
<1>7. IdsFresh'
  <2>1. \A u \in Tunnels : tunnel_index'[u] \in {tunnel_index[u], None}
    BY <1>1, <1>4 DEF TypeOK
  <2> QED BY <1>3, <1>4, <2>1, IdsKept DEF IInv
<1>8. ASSUME NEW q \in SoloPorts PROVE PortInv(q)'
  <2>1. PortInv(q) /\ q \in Ports /\ q # None /\ ~Owns(a, q)
    BY SoloOrNot DEF IInv, SoloInv, Owns
  <2>2. CASE q = p
    <3>1. Moves(a, Local("unmember", t, q, None)) /\ tunnel_index[t] = q
      BY <1>3, <2>2
    <3> QED BY <1>1, <1>4, <2>1, <3>1, PortUnindexed
  <2>3. CASE q # p
    <3>1. \A u \in Tunnels : (tunnel_index'[u] = q) <=> (tunnel_index[u] = q)
      BY <1>1, <1>4, <2>1, <2>3 DEF TypeOK
    <3> HIDE DEF p
    <3> QED BY <1>3, <2>1, <2>3, <3>1, PortUntouched
  <2> QED BY <2>2, <2>3
<1> QED BY <1>5, <1>6, <1>7, <1>8 DEF IInv, SoloInv

\* UnregisterTunnel, force_close_tunnel
LEMMA RemoveTunnelStep ==
  ASSUME IInv, NEW a \in Tasks, NEW t \in Tunnels, RemoveTunnel(a, t)
  PROVE  IInv'
BY UnindexStep DEF RemoveTunnel, At, IInv, TypeOK

\* Nothing the invariant speaks of changes.
LEMMA TablesUntouched ==
  ASSUME IInv, TypeOK', UNCHANGED <<minted, available, routes, tunnel_index, task>>
  PROVE  IInv'
<1>1. FramesSet' /\ GroupHasNoSoloPort'
  BY DEF IInv, FramesSet, GroupHasNoSoloPort
<1>2. IdsFresh'
  BY DEF IInv, IdsFresh, Registering
<1>3. ASSUME NEW q \in SoloPorts PROVE PortInv(q)'
  <2>1. PortInv(q)
    BY DEF IInv, SoloInv
  <2>2. OneOwner(q)'
    BY <2>1 DEF PortInv, OneOwner, Owns
  <2>3. RouteFitsOwner(q)'
    BY <2>1 DEF PortInv, RouteFitsOwner, Owns, Routed, Members, At
  <2> QED BY <2>2, <2>3 DEF PortInv
<1> QED BY <1>1, <1>2, <1>3 DEF IInv, SoloInv

\* One turn of remove_session's loop
LEMMA CloseNextStep ==
  ASSUME IInv, NEW s \in Sessions, CloseNext(s)
  PROVE  IInv'
<1>1. PICK t \in todo[s] :
        /\ At(s, "closing") /\ todo' = [todo EXCEPT ![s] = @ \ {t}]
        /\ \/ Unindex(s, t)
           \/ tunnel_index[t] = None /\ UNCHANGED <<tunnel_index, task>>
        /\ UNCHANGED <<sessions, tunnels, minted, available, routes, group_index, guard,
                       events, lagged>>
  BY DEF CloseNext
<1>2. s \in Tasks /\ t \in Tunnels /\ todo' \in [Sessions -> SUBSET Tunnels]
  BY <1>1 DEF Tasks, IInv, TypeOK
<1>3. CASE Unindex(s, t)
  BY <1>1, <1>2, <1>3, UnindexStep DEF At
<1>4. CASE UNCHANGED <<tunnel_index, task>>
  <2>1. TypeOK'
    BY <1>1, <1>2, <1>4 DEF IInv, TypeOK
  <2> QED BY <1>1, <1>4, <2>1, TablesUntouched
<1> QED BY <1>1, <1>3, <1>4

\* The member and the emptiness, under the route's guard
LEMMA RemoveMemberStep ==
  ASSUME IInv, NEW a \in Tasks, RemoveMember(a)
  PROVE  IInv'
<1> DEFINE f    == task[a]
           left == Members(f.port) \ {f.id}
           r    == [routes[f.port] EXCEPT !.members = left]
<1>1. /\ TypeOK /\ f.pc = "unmember" /\ f.id \in Tunnels /\ f.port \in Ports
      /\ routes[f.port] \in Route
  BY DEF IInv, TypeOK, FramesSet, RemoveMember, At
<1>2. r \in Route /\ r.present = routes[f.port].present /\ r.members = left
      /\ r.group = routes[f.port].group
  BY <1>1 DEF Route, Members
<1>3. /\ routes' \in [Ports -> Route] /\ routes'[f.port] = r
      /\ \A q \in Ports \ {f.port} : routes'[q] = routes[q]
  <2>1. routes' = [routes EXCEPT ![f.port] = r]
    BY DEF RemoveMember
  <2> QED BY <1>1, <1>2, <2>1 DEF TypeOK
<1>4. /\ UNCHANGED <<sessions, tunnels, minted, available, group_index, guard,
                     tunnel_index, todo, events, lagged>>
      /\ \A u \in Tunnels : tunnel_index'[u] \in {tunnel_index[u], None}
  BY DEF RemoveMember
<1>5. CASE left = {}
  <2> DEFINE g == routes[f.port].group
  <2>1. Sound("unroute", f.id, f.port, g)
    <3>1. g \in Groups \cup {None} /\ (f.port \in SoloPorts => g = None)
      BY <1>1 DEF Route, IInv, SoloInv, PortInv, RouteFitsOwner
    <3> QED BY <1>1, <3>1 DEF Sound, PCs
  <2>2. Moves(a, Local("unroute", f.id, f.port, g))
    <3>1. task' = [task EXCEPT ![a] = [task[a] EXCEPT !.pc = "unroute", !.group = g]]
      BY <1>5 DEF RemoveMember
    <3>2. [task[a] EXCEPT !.pc = "unroute", !.group = g] = Local("unroute", f.id, f.port, g)
      <4>1. task[a] \in Frame
        BY <1>1 DEF TypeOK
      <4>2. "unroute" \in PCs /\ g \in Groups \cup {None}
        BY <2>1 DEF Sound
      <4> QED BY <4>1, <4>2, FrameExcept
    <3> QED BY <1>1, <2>1, <3>1, <3>2, SetMoves
  <2>3. TypeOK'
    BY <1>1, <1>3, <1>4, <2>2 DEF TypeOK, Moves
  <2>4. FramesSet' /\ GroupHasNoSoloPort'
    BY <2>1, <2>2, FramesKept DEF IInv
  <2>5. IdsFresh'
    BY <1>4, <2>2, IdsKept DEF IInv
  <2>6. ASSUME NEW q \in SoloPorts PROVE PortInv(q)'
    <3>1. PortInv(q) /\ q \in Ports
      BY SoloOrNot DEF IInv, SoloInv
    <3>2. CASE q = f.port
      <4>1. Owns(a, q) /\ Moves(a, Local("unroute", f.id, q, g)) /\ "unroute" \in Owning
        BY <1>1, <2>2, <3>2 DEF Owns, Owning
      <4>2. Routed(q)' /\ Members(q)' = {} /\ routes'[q].group = None
        BY <1>1, <1>2, <1>3, <1>5, <3>1, <3>2, <4>1 DEF PortInv, RouteFitsOwner, Routed, Members
      <4> HIDE DEF g
      <4> QED BY <1>4, <3>1, <4>1, <4>2, OwnerStays
    <3>3. CASE q # f.port
      <4>1. ~Owns(a, q) /\ routes'[q] = routes[q]
        BY <1>3, <3>1, <3>3 DEF Owns
      <4> HIDE DEF f, g
      <4> QED BY <1>4, <2>2, <3>1, <3>3, <4>1, PortUntouched
    <3> QED BY <3>2, <3>3
  <2> QED BY <2>3, <2>4, <2>5, <2>6 DEF IInv, SoloInv
<1>6. CASE left # {}
  <2>1. Moves(a, Local(Resume(a), None, None, None)) /\ Sound(Resume(a), None, None, None)
        /\ Resume(a) \in {"idle", "closing"}
    BY <1>1, <1>6, ReturnMoves DEF RemoveMember, Resume
  <2>2. TypeOK'
    BY <1>1, <1>3, <1>4, <2>1 DEF TypeOK, Moves
  <2>3. f.port \notin SoloPorts
    BY <1>1, <1>6 DEF IInv, SoloInv, PortInv, RouteFitsOwner, Owns
  <2>4. \A q \in SoloPorts : ~Owns(a, q) /\ routes'[q] = routes[q]
    BY <1>3, <2>3, SoloOrNot DEF Owns
  <2> QED BY <1>4, <2>1, <2>2, <2>4, QuietStep DEF Owning
<1> QED BY <1>5, <1>6

\* routes.remove
LEMMA RemoveRouteStep ==
  ASSUME IInv, NEW a \in Tasks, RemoveRoute(a)
  PROVE  IInv'
<1> DEFINE f  == task[a]
           pc == IF f.group = None THEN "free" ELSE "ungroup"
<1>1. /\ TypeOK /\ f.pc = "unroute" /\ f.id \in Tunnels /\ f.port \in Ports /\ pc \in PCs
      /\ f.group \in Groups \cup {None}
      /\ f.group # None => f.port \notin SoloPorts
  BY DEF IInv, TypeOK, Frame, FramesSet, GroupHasNoSoloPort, RemoveRoute, At, PCs
<1>2. Moves(a, Local(pc, f.id, f.port, f.group))
  BY <1>1, GotoMoves DEF RemoveRoute
<1>3. Sound(pc, f.id, f.port, f.group)
  BY <1>1 DEF Sound
<1>4. NoRoute \in Route /\ ~NoRoute.present /\ NoRoute.group = None
  BY DEF NoRoute, Route
<1>5. /\ routes' \in [Ports -> Route] /\ routes'[f.port] = NoRoute
      /\ \A q \in Ports \ {f.port} : routes'[q] = routes[q]
  BY <1>1, <1>4 DEF TypeOK, RemoveRoute
<1>6. /\ UNCHANGED <<sessions, tunnels, minted, available, group_index, guard,
                     tunnel_index, todo, events, lagged>>
      /\ \A u \in Tunnels : tunnel_index'[u] \in {tunnel_index[u], None}
  BY DEF RemoveRoute
<1>7. TypeOK'
  BY <1>1, <1>2, <1>5, <1>6 DEF TypeOK, Moves
<1>8. FramesSet' /\ GroupHasNoSoloPort'
  BY <1>1, <1>2, <1>3, FramesKept DEF IInv
<1>9. IdsFresh'
  BY <1>2, <1>6, IdsKept DEF IInv
<1>10. ASSUME NEW q \in SoloPorts PROVE PortInv(q)'
  <2>1. PortInv(q) /\ q \in Ports
    BY SoloOrNot DEF IInv, SoloInv
  <2>2. CASE q = f.port
    <3>1. Owns(a, q) /\ Moves(a, Local("free", f.id, q, f.group)) /\ "free" \in Owning
      BY <1>1, <1>2, <2>2 DEF Owns, Owning
    <3>2. ~Routed(q)' /\ routes'[q].group = None
      BY <1>4, <1>5, <2>2 DEF Routed
    <3> QED BY <1>6, <2>1, <3>1, <3>2, OwnerStays
  <2>3. CASE q # f.port
    <3>1. ~Owns(a, q) /\ routes'[q] = routes[q]
      BY <1>5, <2>1, <2>3 DEF Owns
    <3> HIDE DEF f, pc
    <3> QED BY <1>2, <1>6, <2>1, <2>3, <3>1, PortUntouched
  <2> QED BY <2>2, <2>3
<1> QED BY <1>7, <1>8, <1>9, <1>10 DEF IInv, SoloInv

\* tcp_group_index.remove
LEMMA RemoveGroupIndexStep ==
  ASSUME IInv, NEW a \in Tasks, NEW g \in Groups, RemoveGroupIndex(a, g)
  PROVE  IInv'
<1> DEFINE f == task[a]
<1>1. /\ TypeOK /\ "free" \in PCs /\ f.pc = "ungroup"
      /\ f.id \in Tunnels /\ f.port \in Ports /\ f.port \notin SoloPorts
      /\ f.group \in Groups \cup {None}
  BY DEF PCs, IInv, TypeOK, Frame, FramesSet, GroupHasNoSoloPort, RemoveGroupIndex, At
<1>2. Moves(a, Local("free", f.id, f.port, f.group))
  BY <1>1, GotoMoves DEF RemoveGroupIndex
<1>3. Sound("free", f.id, f.port, f.group)
  BY <1>1 DEF Sound
<1>4. TypeOK'
  BY <1>1, <1>2 DEF TypeOK, RemoveGroupIndex, Moves
<1>5. /\ \A q \in SoloPorts : ~Owns(a, q) /\ routes'[q] = routes[q]
      /\ UNCHANGED <<available, tunnel_index, minted>>
  BY <1>1 DEF Owns, RemoveGroupIndex
<1> QED BY <1>1, <1>2, <1>3, <1>4, <1>5, QuietStep

\* push
LEMMA PushPortStep ==
  ASSUME IInv, NEW a \in Tasks, PushPort(a)
  PROVE  IInv'
<1> DEFINE f == task[a]
<1>1. /\ TypeOK /\ "retract" \in PCs /\ At(a, "free")
      /\ f.id \in Tunnels /\ f.port \in Ports /\ f.group \in Groups \cup {None}
      /\ f.group # None => f.port \notin SoloPorts
  BY DEF PCs, IInv, TypeOK, Frame, FramesSet, GroupHasNoSoloPort, PushPort, At
<1>2. Moves(a, Local("retract", f.id, f.port, f.group))
  BY <1>1, GotoMoves DEF PushPort
<1>3. Sound("retract", f.id, f.port, f.group)
  BY <1>1 DEF Sound
<1>4. /\ available' = [available EXCEPT ![f.port] = @ + 1]
      /\ available' \in [Ports -> Nat]
      /\ \A q \in Ports \ {f.port} : available'[q] = available[q]
  BY <1>1 DEF PushPort, TypeOK
<1>5. /\ routes' = routes /\ tunnel_index' = tunnel_index /\ minted' = minted
      /\ \A u \in Tunnels : tunnel_index'[u] \in {tunnel_index[u], None}
  BY DEF PushPort
<1>6. TypeOK'
  BY <1>1, <1>2, <1>4 DEF TypeOK, Moves, PushPort
<1>7. FramesSet' /\ GroupHasNoSoloPort'
  BY <1>2, <1>3, FramesKept DEF IInv
<1>8. IdsFresh'
  BY <1>2, <1>5, IdsKept DEF IInv
<1>9. ASSUME NEW q \in SoloPorts PROVE PortInv(q)'
  <2>1. PortInv(q) /\ q \in Ports
    BY SoloOrNot DEF IInv, SoloInv
  <2>2. CASE q = f.port
    <3>1. /\ Moves(a, Local("retract", f.id, q, f.group)) /\ "retract" \notin Owning
          /\ task[a].port = q /\ available' = [available EXCEPT ![q] = @ + 1]
      BY <1>2, <1>4, <2>2 DEF Owning
    <3> QED BY <1>1, <1>5, <2>1, <3>1, PortPushed
  <2>3. CASE q # f.port
    <3>1. ~Owns(a, q) /\ available'[q] = available[q]
      BY <1>4, <2>1, <2>3 DEF Owns
    <3> HIDE DEF f
    <3> QED BY <1>2, <1>5, <2>1, <2>3, <3>1, PortUntouched
  <2> QED BY <2>2, <2>3
<1> QED BY <1>6, <1>7, <1>8, <1>9 DEF IInv, SoloInv

\* send Unregistered
LEMMA RetractStep ==
  ASSUME IInv, NEW a \in Tasks, Retract(a)
  PROVE  IInv'
<1>1. TypeOK /\ task[a].port \in Ports /\ task[a].pc = "retract"
  BY DEF IInv, FramesSet, Retract, At
<1>2. Moves(a, Local(Resume(a), None, None, None)) /\ Sound(Resume(a), None, None, None)
      /\ Resume(a) \in {"idle", "closing"}
  BY <1>1, ReturnMoves DEF Retract, Resume
<1>3. events' \in [Channels -> Seq(Event)] /\ lagged' \in [Channels -> BOOLEAN]
  <2>1. Channel(task[a].port) \in Channels
    BY DEF Channel, Channels
  <2> QED BY <1>1, <2>1, SendType DEF Retract
<1>4. TypeOK'
  BY <1>1, <1>2, <1>3 DEF TypeOK, Retract, Moves
<1>5. /\ \A q \in SoloPorts : ~Owns(a, q) /\ routes'[q] = routes[q]
      /\ UNCHANGED <<available, tunnel_index, minted>>
  BY <1>1 DEF Owns, Retract
<1> QED BY <1>2, <1>4, <1>5, QuietStep DEF Owning

-----------------------------------------------------------------------------
(* The theorems. *)

\* The invariant holds at the start: every port is in its pool.
LEMMA InitInv == Init => IInv
<1> SUFFICES ASSUME Init PROVE IInv
  OBVIOUS
<1>1. task \in [Tasks -> Frame] /\ \A a \in Tasks : task[a].pc \in {"new", "idle"}
                                                    /\ task[a].group = None
  BY DEF Init, Rest, Local, Frame, PCs
<1>2. TypeOK
  <2>1. <<>> \in Seq(Event) /\ NoRoute \in Route
    BY DEF NoRoute, Route
  <2> QED BY <1>1, <2>1 DEF Init, TypeOK
<1>3. FramesSet /\ GroupHasNoSoloPort
  BY <1>1 DEF FramesSet, GroupHasNoSoloPort
<1>4. IdsFresh
  BY <1>1 DEF Init, IdsFresh, Registering
<1>5. SoloInv
  <2> SUFFICES ASSUME NEW p \in SoloPorts PROVE PortInv(p)
    BY DEF SoloInv
  <2>1. p \in Ports /\ p # None /\ available[p] = 1 /\ routes[p] = NoRoute
    BY SoloOrNot DEF Init
  <2>2. \A t \in Tunnels : tunnel_index[t] # p
    BY <2>1 DEF Init
  <2>3. \A a \in Tasks : ~Owns(a, p)
    BY <1>1 DEF Owns
  <2>4. OneOwner(p)
    BY <2>1, <2>2, <2>3 DEF OneOwner
  <2>5. RouteFitsOwner(p)
    BY <2>1, <2>2, <2>3 DEF RouteFitsOwner, NoRoute, Routed
  <2> QED BY <2>4, <2>5 DEF PortInv
<1> QED BY <1>2, <1>3, <1>4, <1>5 DEF IInv

\* Every step of every task keeps it.
LEMMA NextInv == IInv /\ [Next]_vars => IInv'
<1> SUFFICES ASSUME IInv, [Next]_vars PROVE IInv'
  OBVIOUS
<1>1. CASE UNCHANGED vars
  <2>1. TypeOK'
    BY <1>1 DEF IInv, TypeOK, vars
  <2> QED BY <1>1, <2>1, TablesUntouched DEF vars
<1>2. ASSUME NEW s \in Sessions, RegisterSession(s) \/ RemoveSession(s) PROVE IInv'
  BY <1>2, RegisterSessionStep, RemoveSessionStep
<1>3. ASSUME NEW s \in Sessions, Register(s) PROVE IInv'
  <2>1. PICK t \in Tunnels :
          \/ \E p \in TcpPorts : RegisterTcpSolo(s, t, p)
          \/ \E p \in UdpPorts : RegisterUdp(s, t, p)
          \/ \E p \in TcpPorts, g \in Groups : CreateTcpGroup(s, t, p, g)
          \/ \E g \in Groups : JoinTcpGroup(s, t, g)
    BY <1>3 DEF Register
  <2>2. ASSUME NEW p \in TcpPorts, RegisterTcpSolo(s, t, p) PROVE IInv'
    BY <2>2, PopStep DEF RegisterTcpSolo, Ports
  <2>3. ASSUME NEW p \in UdpPorts, RegisterUdp(s, t, p) PROVE IInv'
    BY <2>3, PopStep DEF RegisterUdp, Ports
  <2> QED BY <2>1, <2>2, <2>3, CreateTcpGroupStep, JoinTcpGroupStep
<1>4. ASSUME NEW s \in Sessions, RegistrationStep(s) PROVE IInv'
  BY <1>4, InsertRouteStep, InsertGroupIndexStep, IndexTunnelStep, AnnounceStep, IndexJoinedStep
  DEF RegistrationStep
<1>5. ASSUME NEW s \in Sessions, CloseStep(s) PROVE IInv'
  BY <1>5, CloseNextStep, CloseDoneStep DEF CloseStep
<1>6. ASSUME NEW a \in Tasks, RemovalStep(a) PROVE IInv'
  BY <1>6, RemoveMemberStep, RemoveRouteStep, RemoveGroupIndexStep, PushPortStep, RetractStep
  DEF RemovalStep
<1>7. ASSUME NEW s \in Sessions, NEW t \in tunnels[s], RemoveTunnel(s, t) PROVE IInv'
  <2>1. s \in Tasks /\ t \in Tunnels
    BY DEF Tasks, IInv, TypeOK
  <2> QED BY <1>7, <2>1, RemoveTunnelStep
<1>8. ASSUME NEW a \in Admins, NEW t \in Tunnels, RemoveTunnel(a, t) PROVE IInv'
  BY <1>8, RemoveTunnelStep DEF Tasks
<1> QED BY <1>1, <1>2, <1>3, <1>4, <1>5, <1>6, <1>7, <1>8 DEF Next

\* The inductive invariant holds throughout.
THEOREM PortInvariant == Spec => []IInv
<1>1. Init => IInv
  BY InitInv
<1>2. IInv /\ [Next]_vars => IInv'
  BY NextInv
<1> QED BY <1>1, <1>2, PTL DEF Spec

\* A port with one owner is in one place.
LEMMA OwnedIsHeldOnce ==
  ASSUME IInv, NEW p \in SoloPorts
  PROVE  HeldOnce(p)
<1>1. PortInv(p)
  BY DEF IInv, SoloInv
<1>2. \A a \in Tasks : Holds(a, p) => Owns(a, p) /\ task[a].pc \in {"route", "free"}
  BY DEF Holds, Owns, IInv, GroupHasNoSoloPort
<1>3. available[p] <= 1 /\ (available[p] = 1 => ~Routed(p))
  BY <1>1 DEF PortInv, OneOwner, RouteFitsOwner
<1>4. \A a \in Tasks : Holds(a, p) => available[p] = 0 /\ ~Routed(p)
  BY <1>1, <1>2 DEF PortInv, OneOwner, RouteFitsOwner
<1>5. \A a, b \in Tasks : Holds(a, p) /\ Holds(b, p) => a = b
  BY <1>1, <1>2 DEF PortInv, OneOwner
<1>6. available[p] = 1 \/ Routed(p) \/ \E a \in Tasks : Holds(a, p)
  <2>1. \A a \in Tasks : Owns(a, p) => Routed(p) \/ Holds(a, p)
    BY <1>1 DEF PortInv, RouteFitsOwner, Owns, Holds, At
  <2> QED BY <1>1, <2>1 DEF PortInv, OneOwner, RouteFitsOwner
<1> QED BY <1>3, <1>4, <1>5, <1>6 DEF HeldOnce

\* Every variable keeps the shape of the Rust value it stands for.
THEOREM PortTypeCorrect == Spec => []TypeOK
<1>1. IInv => TypeOK
  BY DEF IInv
<1> QED BY <1>1, PortInvariant, PTL

\* No UDP port is leaked by register_udp_tunnel and remove_tunnel, and none is
\* given to two tunnels, whatever TCP groups do.
THEOREM UdpPortsAreConserved == Spec => []UdpPortsConserved
<1>1. IInv => UdpPortsConserved
  BY OwnedIsHeldOnce DEF UdpPortsConserved, SoloPorts
<1> QED BY <1>1, PortInvariant, PTL

\* Where no TCP group is registered the same holds of TCP ports: it takes the
\* race of a join with the last member's removal to lose one.
THEOREM TcpPortsAreConserved ==
  ASSUME Groups = {}
  PROVE  Spec => []TcpPortsConserved
<1>1. IInv => TcpPortsConserved
  BY OwnedIsHeldOnce DEF TcpPortsConserved, SoloPorts
<1> QED BY <1>1, PortInvariant, PTL

\* There, a tunnel in the index is also a member of the route of its port.
THEOREM IndexedStaysRouted ==
  ASSUME Groups = {}
  PROVE  Spec => []IndexedIsRouted
<1>1. IInv => IndexedIsRouted
  <2>1. Ports \subseteq SoloPorts
    BY DEF Ports, SoloPorts
  <2> QED BY <2>1 DEF IInv, TypeOK, IndexedIsRouted, SoloInv, PortInv, RouteFitsOwner
<1> QED BY <1>1, PortInvariant, PTL

-----------------------------------------------------------------------------
(* The listeners: the inductive invariant of PortEdge where nobody          *)
(* force-closes a tunnel.                                                   *)

\* A session's tunnels are its own: the one it announces is still in the index,
\* and the one it removes is not any more.
OwnTunnels ==
  /\ \A s, r \in Sessions : \A t \in tunnels[s] \cap tunnels[r] : s = r
  /\ \A s \in Sessions : todo[s] \subseteq tunnels[s] /\ tunnels[s] \subseteq minted
  /\ \A a \in Tasks : Registering(a) => \A s \in Sessions : task[a].id \notin tunnels[s]
  /\ \A s \in Sessions : At(s, "announce") => task[s].id \in tunnels[s] /\ tunnel_index[task[s].id] = task[s].port
  /\ \A s \in Sessions : At(s, "unmember") => task[s].id \in tunnels[s] /\ tunnel_index[task[s].id] = None

\* No join of a group overlaps another operation; no operation overlaps another.
Unmixed == Overlap # "grouped"
Calm == Overlap = "none"

\* The task answers for its port, in a pool, a route or an index to come.
Engaged == {"route", "group", "index", "joined", "unmember", "unroute", "ungroup", "free"}
On(a, p) == task[a].port = p /\ task[a].pc \in Engaged

\* A port in the pool is nobody's, a port in a task's hands is nobody else's, the
\* tunnels of a port that is served are members of its route, and the route of
\* a port is taken down by one task, when it has no member.
Placed(p) ==
  /\ available[p] \in {0, 1}
  /\ available[p] = 1 => /\ ~Routed(p) /\ \A a \in Tasks : ~On(a, p)
                         /\ \A t \in Tunnels : tunnel_index[t] # p
  /\ \A a \in Tasks : Holds(a, p) => /\ available[p] = 0 /\ ~Routed(p)
                                     /\ \A b \in Tasks : On(b, p) => b = a
                                     /\ \A t \in Tunnels : tunnel_index[t] # p
  /\ \A a \in Tasks : On(a, p) /\ task[a].pc \in {"group", "index", "joined", "unmember"} => task[a].id \in Members(p)
  /\ \A t \in Tunnels : tunnel_index[t] = p => t \in Members(p)
  /\ \A a \in Tasks : On(a, p) /\ At(a, "unroute") => Members(p) = {}
  /\ \A a, b \in Tasks : On(a, p) /\ At(a, "unroute") /\ On(b, p) /\ At(b, "unroute") => a = b
  /\ Members(p) # {} => Routed(p)

PlacesInv == Unmixed => \A p \in Ports : Placed(p)

\* The events of channel q that are about p end with one of the kind, if there
\* are any.
Speaks(q, p) == \E i \in 1 .. Len(q) : q[i].port = p
EndsWith(q, p, kind) ==
  \A i \in 1 .. Len(q) : q[i].port = p /\ q[i].kind # kind =>
    \E j \in 1 .. Len(q) : i < j /\ q[j].port = p /\ q[j].kind = kind

\* What the edge will have made of p when it has caught up.
Settles(q, late, h, p, kind, goal) == EndsWith(q, p, kind) /\ (~Speaks(q, p) /\ ~late => h \in goal)
Down(p) == Settles(events[Channel(p)], lagged[Channel(p)], handles[p], p, "unregistered", {"absent"})
Up(p) == Settles(events[Channel(p)], lagged[Channel(p)], handles[p], p, "registered", {"spawned", "bound"})

\* A task has taken the port's route down, or put it up, and has still to say so.
Leavers == {"ungroup", "free", "retract"}
Arrivers == {"group", "index", "announce"}
Leaving(p) == \E a \in Tasks : task[a].port = p /\ task[a].pc \in Leavers
Arriving(p) == \E a \in Tasks : task[a].port = p /\ task[a].pc \in Arrivers

\* A port without a route is on its way down, and a TCP port with one on its way
\* up, unless a task has still to say so.
FollowsDown == Unmixed => \A p \in Ports : ~Routed(p) /\ ~Leaving(p) => Down(p)
FollowsUp ==
  Calm => /\ \A p \in TcpPorts : Routed(p) /\ ~Arriving(p) => Up(p)
          /\ \A a \in Tasks : task[a].pc \in Leavers => ~Routed(task[a].port)

\* An event is in the channel of its port, and a TCP listener does not fail to
\* bind.
EdgeShape ==
  /\ EdgeTypeOK /\ \A p \in TcpPorts : handles[p] # "failed"
  /\ \A c \in Channels : \A i \in 1 .. Len(events[c]) : Channel(events[c][i].port) = c

Followed == OwnTunnels /\ PlacesInv /\ FollowsDown /\ FollowsUp
ListenerInv == IInv /\ EdgeShape /\ Followed

\* What a step of the core does to the edge's variables.
EdgeWaits == handles' = handles /\ overlapped' = Overlap

-----------------------------------------------------------------------------
(* What a channel says about a port. *)

\* A send about p decides what the channel says of p.
LEMMA SendDecides ==
  ASSUME NEW q \in Seq(Event), NEW p \in Ports, NEW kind \in {"registered", "unregistered"}
  PROVE  LET r == Append(q, [kind |-> kind, port |-> p])
         IN  EndsWith(r, p, kind) /\ Speaks(r, p)
<1> DEFINE e == [kind |-> kind, port |-> p]
           r == Append(q, e)
<1>1. e \in Event /\ e.kind = kind /\ e.port = p
  BY DEF Event
<1>2. Len(r) = Len(q) + 1 /\ Len(q) \in Nat /\ r[Len(q) + 1] = e
      /\ \A i \in 1 .. Len(q) : r[i] = q[i]
  BY <1>1
<1> HIDE DEF e, r
<1>3. Speaks(r, p)
  BY <1>1, <1>2 DEF Speaks
<1>4. ASSUME NEW i \in 1 .. Len(r), r[i].port = p, r[i].kind # kind
      PROVE  \E j \in 1 .. Len(r) : i < j /\ r[j].port = p /\ r[j].kind = kind
  <2>1. i # Len(q) + 1
    BY <1>1, <1>2, <1>4
  <2>2. Len(q) + 1 \in 1 .. Len(r) /\ i < Len(q) + 1
    BY <1>2, <1>4, <2>1
  <2> QED BY <1>1, <1>2, <2>2
<1>5. EndsWith(r, p, kind)
  BY <1>4 DEF EndsWith
<1> QED BY <1>3, <1>5 DEF e, r

\* A send about another port does not.
LEMMA SendOfOther ==
  ASSUME NEW q \in Seq(Event), NEW e \in Event, NEW p, e.port # p, NEW kind
  PROVE  /\ EndsWith(q, p, kind) => EndsWith(Append(q, e), p, kind)
         /\ Speaks(Append(q, e), p) <=> Speaks(q, p)
<1> DEFINE r == Append(q, e)
<1>1. Len(r) = Len(q) + 1 /\ Len(q) \in Nat /\ r[Len(q) + 1] = e
      /\ \A i \in 1 .. Len(q) : r[i] = q[i]
  OBVIOUS
<1> HIDE DEF r
<1>2. 1 .. Len(q) \subseteq 1 .. Len(r) /\ \A i \in 1 .. Len(r) : i \in 1 .. Len(q) \/ i = Len(q) + 1
  BY <1>1
<1>3. Speaks(r, p) <=> Speaks(q, p)
  BY <1>1, <1>2 DEF Speaks
<1>4. ASSUME EndsWith(q, p, kind), NEW i \in 1 .. Len(r), r[i].port = p, r[i].kind # kind
      PROVE  \E j \in 1 .. Len(r) : i < j /\ r[j].port = p /\ r[j].kind = kind
  <2>1. i \in 1 .. Len(q) /\ r[i] = q[i]
    BY <1>1, <1>2, <1>4
  <2>2. PICK j \in 1 .. Len(q) : i < j /\ q[j].port = p /\ q[j].kind = kind
    BY <1>4, <2>1 DEF EndsWith
  <2>3. r[j] = q[j] /\ j \in 1 .. Len(r)
    BY <1>1, <1>2
  <2> QED BY <2>2, <2>3
<1>5. EndsWith(q, p, kind) => EndsWith(r, p, kind)
  BY <1>4 DEF EndsWith
<1> QED BY <1>3, <1>5 DEF r

\* Receiving or forgetting the oldest event leaves the last word what it was; if
\* it was the only one about p, it was of the right kind.
LEMMA OldestGone ==
  ASSUME NEW q \in Seq(Event), q # <<>>, NEW p, NEW kind, EndsWith(q, p, kind)
  PROVE  /\ EndsWith(Tail(q), p, kind)
         /\ Head(q).port # p => (Speaks(Tail(q), p) <=> Speaks(q, p))
         /\ Head(q).port = p /\ ~Speaks(Tail(q), p) => Head(q).kind = kind
<1> DEFINE r == Tail(q)
<1>1. Len(q) \in Nat /\ Len(q) > 0 /\ Len(r) = Len(q) - 1 /\ Head(q) = q[1]
      /\ \A i \in 1 .. Len(r) : r[i] = q[i + 1]
  OBVIOUS
<1> HIDE DEF r
<1>2. \A j \in 1 .. Len(q) : j # 1 => j - 1 \in 1 .. Len(r) /\ r[j - 1] = q[j]
  BY <1>1
<1>3. ASSUME NEW i \in 1 .. Len(r), r[i].port = p, r[i].kind # kind
      PROVE  \E j \in 1 .. Len(r) : i < j /\ r[j].port = p /\ r[j].kind = kind
  <2>1. i + 1 \in 1 .. Len(q) /\ r[i] = q[i + 1]
    BY <1>1
  <2>2. PICK j \in 1 .. Len(q) : i + 1 < j /\ q[j].port = p /\ q[j].kind = kind
    BY <1>3, <2>1 DEF EndsWith
  <2>3. j - 1 \in 1 .. Len(r) /\ r[j - 1] = q[j] /\ i < j - 1
    BY <1>2, <2>2
  <2> QED BY <2>2, <2>3
<1>4. EndsWith(r, p, kind)
  BY <1>3 DEF EndsWith
<1>5. ASSUME Head(q).port # p PROVE Speaks(r, p) <=> Speaks(q, p)
  <2>1. Speaks(r, p) => Speaks(q, p)
    BY <1>1 DEF Speaks
  <2>2. Speaks(q, p) => Speaks(r, p)
    BY <1>1, <1>2, <1>5 DEF Speaks
  <2> QED BY <2>1, <2>2
<1>6. ASSUME Head(q).port = p, ~Speaks(r, p), Head(q).kind # kind PROVE FALSE
  <2>1. 1 \in 1 .. Len(q) /\ q[1].port = p /\ q[1].kind # kind
    BY <1>1, <1>6
  <2>2. PICK j \in 1 .. Len(q) : 1 < j /\ q[j].port = p /\ q[j].kind = kind
    BY <2>1 DEF EndsWith
  <2>3. j - 1 \in 1 .. Len(r) /\ r[j - 1].port = p
    BY <1>2, <2>2
  <2> QED BY <1>6, <2>3 DEF Speaks
<1> QED BY <1>4, <1>5, <1>6 DEF r

-----------------------------------------------------------------------------
(* What a step of one task does to the sessions' tunnels. *)

\* A task that keeps its id, gives it up or takes a new one, and leaves the index
\* and the lists alone.
LEMMA OwnKept ==
  ASSUME OwnTunnels, Tasks = Sessions, NEW a \in Tasks, NEW pc, NEW t, NEW p, NEW g,
         Moves(a, Local(pc, t, p, g)),
         pc \in {"route", "group", "index", "joined"} => \/ Registering(a) /\ t = task[a].id
                                                         \/ t \notin minted,
         pc \notin {"announce", "unmember"},
         minted \subseteq minted', tunnels' = tunnels, tunnel_index' = tunnel_index,
         \A s \in Sessions : todo'[s] \subseteq tunnels[s]
  PROVE  OwnTunnels'
<1>1. /\ task'[a].pc = pc /\ task'[a].id = t
      /\ \A b \in Tasks \ {a} : task'[b] = task[b]
  BY DEF Moves, Local
<1>2. \A b \in Tasks : Registering(b)' => \/ Registering(b) /\ task'[b].id = task[b].id
                                          \/ task'[b].id \notin minted
  BY <1>1 DEF Registering
<1>3. \A s \in Sessions : tunnels[s] \subseteq minted
  BY DEF OwnTunnels
<1>4. \A b \in Tasks : Registering(b)' => \A s \in Sessions : task'[b].id \notin tunnels[s]
  BY <1>2, <1>3 DEF OwnTunnels
<1>5. \A s \in Sessions : At(s, "announce")' \/ At(s, "unmember")' => task'[s] = task[s]
  BY <1>1 DEF At
<1> QED BY <1>3, <1>4, <1>5 DEF OwnTunnels, At

\* tunnel_index.insert and add_tunnel_to_session of the task's own id.
LEMMA OwnIndexed ==
  ASSUME IInv, OwnTunnels, Tasks = Sessions, NEW a \in Tasks, Registering(a),
         NEW pc \in {"announce", "idle"}, NEW t, NEW p, NEW g, Moves(a, Local(pc, t, p, g)),
         pc = "announce" => t = task[a].id /\ p = task[a].port,
         tunnels' = [tunnels EXCEPT ![a] = @ \cup {task[a].id}],
         tunnel_index' = [tunnel_index EXCEPT ![task[a].id] = task[a].port],
         UNCHANGED <<minted, todo>>
  PROVE  OwnTunnels'
<1>1. /\ task'[a].pc = pc /\ task'[a].id = t /\ task'[a].port = p
      /\ \A b \in Tasks \ {a} : task'[b] = task[b]
  BY DEF Moves, Local
<1>2. PICK u \in Tunnels : u = task[a].id
  BY DEF IInv, FramesSet, Registering
<1>3. u \in minted /\ \A s \in Sessions : u \notin tunnels[s]
  BY <1>2 DEF IInv, IdsFresh, OwnTunnels
<1>4. /\ tunnels'[a] = tunnels[a] \cup {u} /\ \A s \in Sessions \ {a} : tunnels'[s] = tunnels[s]
      /\ tunnel_index'[u] = task[a].port
      /\ \A x \in Tunnels \ {u} : tunnel_index'[x] = tunnel_index[x]
  BY <1>2 DEF IInv, TypeOK
<1>5. ASSUME NEW s \in Sessions, NEW r \in Sessions, NEW x \in tunnels'[s] \cap tunnels'[r] PROVE s = r
  BY <1>3, <1>4 DEF OwnTunnels
<1>6. \A s \in Sessions : todo'[s] \subseteq tunnels'[s] /\ tunnels'[s] \subseteq minted'
  BY <1>3, <1>4 DEF OwnTunnels
<1>7. \A b \in Tasks : Registering(b)' => Registering(b) /\ b # a /\ task'[b] = task[b] /\ task[b].id # u
  BY <1>1, <1>2 DEF Registering, IInv, IdsFresh
<1>8. \A b \in Tasks : Registering(b)' => \A s \in Sessions : task'[b].id \notin tunnels'[s]
  BY <1>4, <1>7 DEF OwnTunnels
<1>9. \A s \in Sessions \ {a} : (At(s, "announce") \/ At(s, "unmember")) /\ task[s].id \in tunnels[s] =>
        task[s].id \in Tunnels \ {u}
  BY <1>3 DEF IInv, FramesSet, At
<1>10. ASSUME NEW s \in Sessions, At(s, "announce")'
       PROVE  task'[s].id \in tunnels'[s] /\ tunnel_index'[task'[s].id] = task'[s].port
  <2>1. CASE s = a
    BY <1>1, <1>2, <1>4, <1>10, <2>1 DEF At
  <2>2. CASE s # a
    <3>1. task'[s] = task[s] /\ At(s, "announce")
      BY <1>1, <1>10, <2>2 DEF At
    <3>2. task[s].id \in tunnels[s] /\ tunnel_index[task[s].id] = task[s].port
      BY <3>1 DEF OwnTunnels
    <3> QED BY <1>4, <1>9, <2>2, <3>1, <3>2
  <2> QED BY <2>1, <2>2
<1>11. ASSUME NEW s \in Sessions, At(s, "unmember")'
       PROVE  task'[s].id \in tunnels'[s] /\ tunnel_index'[task'[s].id] = None
  <2>1. s # a /\ task'[s] = task[s] /\ At(s, "unmember")
    BY <1>1, <1>11 DEF At
  <2>2. task[s].id \in tunnels[s] /\ tunnel_index[task[s].id] = None
    BY <2>1 DEF OwnTunnels
  <2> QED BY <1>4, <1>9, <2>1, <2>2
<1> QED BY <1>5, <1>6, <1>8, <1>10, <1>11 DEF OwnTunnels

\* tunnel_index.remove of a tunnel the session has.
LEMMA OwnUnindexed ==
  ASSUME IInv, OwnTunnels, Tasks = Sessions, NEW a \in Tasks, NEW t \in tunnels[a], NEW p, NEW g,
         Moves(a, Local("unmember", t, p, g)),
         tunnel_index' = [tunnel_index EXCEPT ![t] = None],
         UNCHANGED <<minted, tunnels>>,
         \A s \in Sessions : todo'[s] \subseteq tunnels[s]
  PROVE  OwnTunnels'
<1>1. /\ task'[a].pc = "unmember" /\ task'[a].id = t
      /\ \A b \in Tasks \ {a} : task'[b] = task[b]
  BY DEF Moves, Local
<1>2. t \in Tunnels
  BY DEF IInv, TypeOK
<1>3. tunnel_index'[t] = None /\ \A x \in Tunnels \ {t} : tunnel_index'[x] = tunnel_index[x]
  BY <1>2 DEF IInv, TypeOK
<1>4. \A b \in Tasks : Registering(b)' => Registering(b) /\ task'[b] = task[b]
  BY <1>1 DEF Registering
<1>5. \A s \in Sessions \ {a} : t \notin tunnels[s]
  BY DEF OwnTunnels
<1>6. \A s \in Sessions : tunnels[s] \subseteq Tunnels
  BY DEF IInv, TypeOK
<1>7. ASSUME NEW s \in Sessions, At(s, "announce")'
      PROVE  task'[s].id \in tunnels[s] /\ tunnel_index'[task'[s].id] = task'[s].port
  <2>1. s # a /\ task'[s] = task[s] /\ At(s, "announce")
    BY <1>1, <1>7 DEF At
  <2>2. task[s].id \in tunnels[s] /\ tunnel_index[task[s].id] = task[s].port
    BY <2>1 DEF OwnTunnels
  <2> QED BY <1>3, <1>5, <1>6, <2>1, <2>2
<1>8. ASSUME NEW s \in Sessions, At(s, "unmember")'
      PROVE  task'[s].id \in tunnels[s] /\ tunnel_index'[task'[s].id] = None
  <2>1. CASE s = a
    BY <1>1, <1>3, <2>1
  <2>2. CASE s # a
    <3>1. task'[s] = task[s] /\ At(s, "unmember")
      BY <1>1, <1>8, <2>2 DEF At
    <3>2. task[s].id \in tunnels[s] /\ tunnel_index[task[s].id] = None
      BY <3>1 DEF OwnTunnels
    <3> QED BY <1>3, <1>5, <1>6, <2>2, <3>1, <3>2
  <2> QED BY <2>1, <2>2
<1> QED BY <1>4, <1>7, <1>8 DEF OwnTunnels

-----------------------------------------------------------------------------
(* What it does to the place of a port. *)

\* The frame of task a after a move, and those of the others.
LEMMA MovedFrame ==
  ASSUME NEW a \in Tasks, NEW pc, NEW t, NEW p, NEW g, Moves(a, Local(pc, t, p, g))
  PROVE  /\ task'[a].pc = pc /\ task'[a].id = t /\ task'[a].port = p /\ task'[a].group = g
         /\ \A b \in Tasks \ {a} : task'[b] = task[b]
BY DEF Moves, Local

\* A task that has nothing to do with the port, before or after.
LEMMA PlaceUntouched ==
  ASSUME NEW q \in Ports, Placed(q), NEW a \in Tasks,
         NEW pc, NEW t, NEW p, NEW g, Moves(a, Local(pc, t, p, g)),
         ~On(a, q), ~(p = q /\ pc \in Engaged),
         available'[q] = available[q], routes'[q] = routes[q],
         \A u \in Tunnels : (tunnel_index'[u] = q) <=> (tunnel_index[u] = q)
  PROVE  Placed(q)'
<1>1. \A b \in Tasks : On(b, q)' => On(b, q) /\ task'[b] = task[b]
  BY MovedFrame DEF On
<1>2. \A b \in Tasks : On(b, q) => On(b, q)' /\ task'[b] = task[b]
  BY MovedFrame DEF On
<1>3. \A b \in Tasks : (Holds(b, q) => On(b, q)) /\ (Holds(b, q)' => On(b, q)' /\ Holds(b, q))
  BY <1>1 DEF Holds, On, Engaged
<1> QED BY <1>1, <1>2, <1>3 DEF Placed, Routed, Members, At

\* A task goes on with its port, which stays in its hands or stays routed.
LEMMA PlaceStays ==
  ASSUME NEW q \in Ports, Placed(q), NEW a \in Tasks,
         NEW pc, NEW t, NEW g, Moves(a, Local(pc, t, q, g)), task[a].port = q, t = task[a].id,
         \/ task[a].pc = "group" /\ pc = "index"
         \/ task[a].pc = "ungroup" /\ pc = "free",
         UNCHANGED <<available, routes, tunnel_index>>
  PROVE  Placed(q)'
<1>1. \A b \in Tasks : /\ On(b, q)' <=> On(b, q)
                       /\ Holds(b, q)' <=> Holds(b, q)
                       /\ task'[b].id = task[b].id
                       /\ At(b, "unroute")' <=> At(b, "unroute")
                       /\ task'[b].pc \in {"group", "index", "joined", "unmember"}
                            <=> task[b].pc \in {"group", "index", "joined", "unmember"}
  BY MovedFrame DEF On, Holds, Engaged, At
<1> QED BY <1>1 DEF Placed, Routed, Members

\* pop
LEMMA PlacePopped ==
  ASSUME TypeOK, NEW q \in Ports, Placed(q), NEW a \in Tasks, NEW t, NEW g,
         Moves(a, Local("route", t, q, g)), Pop(q), UNCHANGED <<routes, tunnel_index>>
  PROVE  Placed(q)'
<1>1. available[q] = 1 /\ available'[q] = 0
  BY DEF Pop, TypeOK, Placed
<1>2. ~Routed(q) /\ (\A b \in Tasks : ~On(b, q)) /\ \A u \in Tunnels : tunnel_index[u] # q
  BY <1>1 DEF Placed
<1>3. \A b \in Tasks : On(b, q)' => b = a
  BY <1>2, MovedFrame DEF On
<1>4. task'[a].pc = "route"
  BY MovedFrame
<1>5. \A b \in Tasks : Holds(b, q)' => On(b, q)'
  BY DEF Holds, On, Engaged
<1> QED BY <1>1, <1>2, <1>3, <1>4, <1>5 DEF Placed, Routed, Members, At

\* routes.insert
LEMMA PlaceRouted ==
  ASSUME NEW q \in Ports, Placed(q), NEW a \in Tasks, At(a, "route"), task[a].port = q,
         NEW pc \in {"group", "index"}, NEW t, NEW g, Moves(a, Local(pc, t, q, g)),
         Routed(q)', Members(q)' = {t}, UNCHANGED <<available, tunnel_index>>
  PROVE  Placed(q)'
<1>1. Holds(a, q)
  BY DEF Holds, At
<1>2. /\ available[q] = 0 /\ \A b \in Tasks : On(b, q) => b = a
      /\ \A u \in Tunnels : tunnel_index[u] # q
  BY <1>1 DEF Placed
<1>3. \A b \in Tasks : On(b, q)' => b = a
  BY <1>2, MovedFrame DEF On
<1>4. task'[a].pc = pc /\ task'[a].id = t
  BY MovedFrame
<1>5. \A b \in Tasks : ~Holds(b, q)'
  BY <1>3, <1>4 DEF Holds, On, Engaged
<1>6. \A b \in Tasks : On(b, q)' => task'[b].id \in Members(q)' /\ ~At(b, "unroute")'
  BY <1>3, <1>4 DEF At
<1> QED BY <1>2, <1>5, <1>6 DEF Placed

\* A tunnel that is a member of the port's route enters the index, and the task
\* is done with the port.
LEMMA PlaceIndexed ==
  ASSUME TypeOK, NEW q \in Ports, Placed(q), NEW a \in Tasks, task[a].port = q,
         task[a].pc \in {"index", "joined"}, task[a].id \in Tunnels,
         NEW pc, NEW t, NEW p, NEW g, Moves(a, Local(pc, t, p, g)), pc \notin Engaged,
         tunnel_index' = [tunnel_index EXCEPT ![task[a].id] = q],
         UNCHANGED <<available, routes>>
  PROVE  Placed(q)'
<1>1. On(a, q) /\ task[a].id \in Members(q)
  BY DEF On, Engaged, Placed
<1>2. available[q] # 1 /\ available[q] = 0 /\ Routed(q)
  BY <1>1 DEF Placed
<1>3. \A b \in Tasks : On(b, q)' => On(b, q) /\ task'[b] = task[b]
  BY MovedFrame DEF On
<1>4. \A b \in Tasks : ~Holds(b, q) /\ ~Holds(b, q)'
  BY <1>2, <1>3 DEF Placed, Holds, On, Engaged
<1>5. \A u \in Tunnels : tunnel_index'[u] = q => u \in Members(q)
  BY <1>1 DEF TypeOK, Placed
<1> QED BY <1>2, <1>3, <1>4, <1>5 DEF Placed, Routed, Members, At

\* The route gets a member, where no task is taking it down.
LEMMA PlaceJoined ==
  ASSUME NEW q \in Ports, Placed(q), NEW a \in Tasks, NEW t, NEW g,
         Moves(a, Local("joined", t, q, g)), ~On(a, q), Routed(q), Routed(q)',
         Members(q)' = Members(q) \cup {t},
         \A b \in Tasks : ~(On(b, q) /\ At(b, "unroute")),
         UNCHANGED <<available, tunnel_index>>
  PROVE  Placed(q)'
<1>1. available[q] = 0 /\ \A b \in Tasks : ~Holds(b, q)
  BY DEF Placed
<1>2. task'[a].pc = "joined" /\ task'[a].id = t /\ \A b \in Tasks \ {a} : task'[b] = task[b]
  BY MovedFrame
<1>3. \A b \in Tasks : ~Holds(b, q)' /\ ~(On(b, q)' /\ At(b, "unroute")')
  BY <1>1, <1>2 DEF Holds, On, At
<1>4. ASSUME NEW b \in Tasks, On(b, q)', task'[b].pc \in {"group", "index", "joined", "unmember"}
      PROVE  task'[b].id \in Members(q)'
  <2>1. b # a => task'[b] = task[b] /\ On(b, q)
    BY <1>2, <1>4 DEF On
  <2> QED BY <1>2, <1>4, <2>1 DEF Placed
<1> QED BY <1>1, <1>3, <1>4 DEF Placed

\* tunnel_index.remove: the tunnel is still a member.
LEMMA PlaceUnindexed ==
  ASSUME TypeOK, NEW q \in Ports, Placed(q), NEW a \in Tasks, ~On(a, q), NEW t \in Tunnels, NEW g,
         Moves(a, Local("unmember", t, q, g)), tunnel_index[t] = q,
         tunnel_index' = [tunnel_index EXCEPT ![t] = None], q # None,
         UNCHANGED <<available, routes>>
  PROVE  Placed(q)'
<1>1. t \in Members(q) /\ available[q] = 0 /\ \A b \in Tasks : ~Holds(b, q)
  BY DEF Placed
<1>2. task'[a].pc = "unmember" /\ task'[a].id = t /\ \A b \in Tasks \ {a} : task'[b] = task[b]
  BY MovedFrame
<1>3. \A b \in Tasks : ~Holds(b, q)'
  BY <1>1, <1>2 DEF Holds
<1>4. \A u \in Tunnels : tunnel_index'[u] = q => tunnel_index[u] = q
  BY DEF TypeOK
<1>5. ASSUME NEW b \in Tasks, On(b, q)', task'[b].pc \in {"group", "index", "joined", "unmember"}
      PROVE  task'[b].id \in Members(q)
  <2>1. b # a => task'[b] = task[b] /\ On(b, q)
    BY <1>2, <1>5 DEF On
  <2> QED BY <1>1, <1>2, <1>5, <2>1 DEF Placed
<1>6. \A b \in Tasks : On(b, q)' /\ At(b, "unroute")' => b # a /\ On(b, q) /\ At(b, "unroute")
  BY <1>2 DEF On, At
<1> QED BY <1>1, <1>3, <1>4, <1>5, <1>6 DEF Placed, Routed, Members

\* The member leaves, and with the last one the task goes on to the route.
LEMMA PlaceUnmembered ==
  ASSUME NEW q \in Ports, Placed(q), NEW a \in Tasks, At(a, "unmember"), task[a].port = q,
         tunnel_index[task[a].id] = None, q # None,
         \A b \in Tasks \ {a} : task[b].pc \in {"group", "index", "joined", "unmember"} => task[b].id # task[a].id,
         NEW pc, NEW t, NEW p, NEW g, Moves(a, Local(pc, t, p, g)),
         Members(q)' = Members(q) \ {task[a].id}, Routed(q)' = Routed(q),
         \/ pc = "unroute" /\ p = q /\ Members(q)' = {}
         \/ pc \notin Engaged,
         UNCHANGED <<available, tunnel_index>>
  PROVE  Placed(q)'
<1>1. On(a, q) /\ task[a].id \in Members(q)
  BY DEF On, Engaged, Placed, At
<1>2. Routed(q) /\ available[q] = 0 /\ \A b \in Tasks : ~Holds(b, q) /\ ~(On(b, q) /\ At(b, "unroute"))
  BY <1>1 DEF Placed
<1>3. task'[a].pc = pc /\ task'[a].port = p /\ \A b \in Tasks \ {a} : task'[b] = task[b]
  BY MovedFrame
<1>4. \A b \in Tasks : ~Holds(b, q)'
  BY <1>2, <1>3 DEF Holds, Engaged
<1>5. \A u \in Tunnels : tunnel_index[u] = q => u \in Members(q)'
  BY DEF Placed
<1>6. ASSUME NEW b \in Tasks, On(b, q)', task'[b].pc \in {"group", "index", "joined", "unmember"}
      PROVE  task'[b].id \in Members(q)'
  <2>1. b # a /\ task'[b] = task[b] /\ On(b, q)
    BY <1>3, <1>6 DEF On, Engaged
  <2> QED BY <1>6, <2>1 DEF Placed
<1>7. \A b \in Tasks : On(b, q)' /\ At(b, "unroute")' => b = a /\ Members(q)' = {}
  BY <1>2, <1>3 DEF On, At, Engaged
<1> QED BY <1>2, <1>4, <1>5, <1>6, <1>7 DEF Placed

\* routes.remove: nobody else is at the port.
LEMMA PlaceUnrouted ==
  ASSUME NEW q \in Ports, Placed(q), NEW a \in Tasks, At(a, "unroute"), task[a].port = q,
         NEW pc \in {"ungroup", "free"}, NEW t, NEW g, Moves(a, Local(pc, t, q, g)),
         ~Routed(q)', Members(q)' = {}, UNCHANGED <<available, tunnel_index>>
  PROVE  Placed(q)'
<1>1. On(a, q) /\ Members(q) = {}
  BY DEF On, Engaged, Placed, At
<1>2. available[q] = 0 /\ \A u \in Tunnels : tunnel_index[u] # q
  BY <1>1 DEF Placed
<1>3. \A b \in Tasks : On(b, q) => b = a
  <2> SUFFICES ASSUME NEW b \in Tasks, On(b, q) PROVE b = a
    OBVIOUS
  <2>1. CASE Holds(b, q)
    BY <1>1, <2>1 DEF Placed
  <2>2. CASE At(b, "unroute")
    BY <1>1, <2>2 DEF Placed
  <2>3. CASE task[b].pc \in {"group", "index", "joined", "unmember"}
    BY <1>1, <2>3 DEF Placed
  <2> QED BY <2>1, <2>2, <2>3 DEF On, Engaged, Holds, At
<1>4. \A b \in Tasks : On(b, q)' => b = a
  BY <1>3, MovedFrame DEF On
<1>5. task'[a].pc = pc
  BY MovedFrame
<1>6. \A b \in Tasks : (Holds(b, q)' => b = a) /\ ~(On(b, q)' /\ At(b, "unroute")')
                       /\ ~(On(b, q)' /\ task'[b].pc \in {"group", "index", "joined", "unmember"})
  BY <1>4, <1>5 DEF Holds, On, Engaged, At
<1> QED BY <1>2, <1>4, <1>6 DEF Placed

\* push
LEMMA PlacePushed ==
  ASSUME TypeOK, NEW q \in Ports, Placed(q), NEW a \in Tasks, At(a, "free"), task[a].port = q,
         NEW t, NEW g, Moves(a, Local("retract", t, q, g)),
         available' = [available EXCEPT ![q] = @ + 1], UNCHANGED <<routes, tunnel_index>>
  PROVE  Placed(q)'
<1>1. Holds(a, q)
  BY DEF Holds, At
<1>2. /\ available[q] = 0 /\ ~Routed(q) /\ \A b \in Tasks : On(b, q) => b = a
      /\ \A u \in Tunnels : tunnel_index[u] # q
  BY <1>1 DEF Placed
<1>3. available'[q] = 1
  BY <1>2 DEF TypeOK
<1>4. \A b \in Tasks : ~On(b, q)'
  BY <1>2, MovedFrame DEF On, Engaged
<1>5. \A b \in Tasks : ~Holds(b, q)'
  BY <1>4 DEF Holds, On, Engaged
<1> QED BY <1>2, <1>3, <1>4, <1>5 DEF Placed, Routed, Members

-----------------------------------------------------------------------------
(* What it does to the last word about a port. *)

\* History only grows: what has overlapped so far has overlapped later, and in a
\* calm history no two tasks are inside operations.
LEMMA OverlapGrows ==
  ASSUME overlapped' = Overlap
  PROVE  /\ Unmixed' => Unmixed
         /\ Calm' => Calm /\ \A a, b \in Tasks : Busy(a)' /\ Busy(b)' => a = b
<1>1. Unmixed' => Unmixed
  BY DEF Unmixed, Overlap
<1>2. Calm' => /\ overlapped' = "none"
               /\ ~ \E a, b \in Tasks : a # b /\ Busy(a)' /\ Busy(b)'
  BY DEF Calm, Overlap
<1>3. Calm' => Calm
  BY <1>2 DEF Calm
<1> QED BY <1>1, <1>2, <1>3

\* A task comes no nearer to sending an event, and no port gains or loses its
\* route.
LEMMA FollowsKept ==
  ASSUME FramesSet, FollowsDown, FollowsUp, overlapped' = Overlap, NEW a \in Tasks,
         NEW pc, NEW t, NEW p, NEW g, Moves(a, Local(pc, t, p, g)),
         pc \in Leavers <=> task[a].pc \in Leavers,
         pc \in Arrivers <=> task[a].pc \in Arrivers,
         pc \in Leavers \cup Arrivers => p = task[a].port,
         UNCHANGED <<events, lagged, handles>>,
         \A q \in Ports : Routed(q)' = Routed(q)
  PROVE  FollowsDown' /\ FollowsUp'
<1>1. /\ task'[a].pc = pc /\ task'[a].port = p
      /\ \A b \in Tasks \ {a} : task'[b] = task[b]
  BY MovedFrame
<1>2. \A b \in Tasks : /\ task'[b].pc \in Leavers <=> task[b].pc \in Leavers
                       /\ task'[b].pc \in Arrivers <=> task[b].pc \in Arrivers
                       /\ task[b].pc \in Leavers \cup Arrivers => task'[b].port = task[b].port
  BY <1>1
<1>3. \A q : (Leaving(q)' <=> Leaving(q)) /\ (Arriving(q)' <=> Arriving(q))
  BY <1>2 DEF Leaving, Arriving
<1>4. \A q : (Down(q)' <=> Down(q)) /\ (Up(q)' <=> Up(q))
  BY DEF Down, Up
<1>5. FollowsDown'
  BY <1>3, <1>4, OverlapGrows DEF FollowsDown
<1>6. \A b \in Tasks : task[b].pc \in Leavers => task[b].port \in Ports
  BY DEF FramesSet, Leavers
<1>7. ASSUME Calm' PROVE \A b \in Tasks : task'[b].pc \in Leavers => ~routes'[task'[b].port].present
  <2>1. \A q \in Ports : routes'[q].present = routes[q].present
    BY DEF Routed
  <2>2. \A b \in Tasks : task[b].pc \in Leavers => ~routes[task[b].port].present
    BY <1>7, OverlapGrows DEF FollowsUp, Routed
  <2> QED BY <1>2, <1>6, <2>1, <2>2
<1>8. ASSUME Calm' PROVE \A q \in TcpPorts : Routed(q)' /\ ~Arriving(q)' => Up(q)'
  BY <1>3, <1>4, <1>8, OverlapGrows DEF FollowsUp, Ports
<1>9. FollowsUp'
  BY <1>7, <1>8 DEF FollowsUp, Routed
<1> QED BY <1>5, <1>9

\* The route of a port is put up: the task will announce it.
LEMMA FollowsRouted ==
  ASSUME FramesSet, FollowsDown, FollowsUp, overlapped' = Overlap, NEW a \in Tasks,
         At(a, "route"), NEW q \in Ports, NEW pc \in {"group", "index"}, NEW t, NEW g,
         Moves(a, Local(pc, t, q, g)), UNCHANGED <<events, lagged, handles>>,
         Routed(q)', \A r \in Ports \ {q} : Routed(r)' = Routed(r)
  PROVE  FollowsDown' /\ FollowsUp'
<1>1. /\ task'[a].pc = pc /\ task'[a].port = q
      /\ \A b \in Tasks \ {a} : task'[b] = task[b]
  BY MovedFrame
<1>2. \A r : (Leaving(r)' <=> Leaving(r)) /\ (Arriving(r) => Arriving(r)')
  BY <1>1 DEF Leaving, Arriving, Leavers, Arrivers, At
<1>3. Arriving(q)' /\ Busy(a)'
  BY <1>1 DEF Arriving, Arrivers, Busy
<1>4. \A r : (Down(r)' <=> Down(r)) /\ (Up(r)' <=> Up(r))
  BY DEF Down, Up
<1>5. FollowsDown'
  BY <1>2, <1>4, OverlapGrows DEF FollowsDown
<1>6. ASSUME Calm', NEW b \in Tasks, task'[b].pc \in Leavers PROVE FALSE
  <2>1. Busy(b)'
    BY <1>6 DEF Busy, Leavers
  <2>2. b = a
    BY <1>3, <1>6, <2>1, OverlapGrows
  <2> QED BY <1>1, <1>6, <2>2 DEF Leavers
<1>7. ASSUME Calm' PROVE \A r \in TcpPorts : Routed(r)' /\ ~Arriving(r)' => Up(r)'
  BY <1>2, <1>3, <1>4, <1>7, OverlapGrows DEF FollowsUp, Ports
<1>8. FollowsUp'
  BY <1>6, <1>7 DEF FollowsUp
<1> QED BY <1>5, <1>8

\* The route of a port is taken down: the task will retract it.
LEMMA FollowsUnrouted ==
  ASSUME FramesSet, FollowsDown, FollowsUp, overlapped' = Overlap, NEW a \in Tasks,
         At(a, "unroute"), NEW q \in Ports, NEW pc \in {"ungroup", "free"}, NEW t, NEW g,
         Moves(a, Local(pc, t, q, g)), UNCHANGED <<events, lagged, handles>>,
         ~Routed(q)', \A r \in Ports \ {q} : Routed(r)' = Routed(r)
  PROVE  FollowsDown' /\ FollowsUp'
<1>1. /\ task'[a].pc = pc /\ task'[a].port = q
      /\ \A b \in Tasks \ {a} : task'[b] = task[b]
  BY MovedFrame
<1>2. \A r : (Leaving(r) => Leaving(r)') /\ (Arriving(r)' <=> Arriving(r))
  BY <1>1 DEF Leaving, Arriving, Leavers, Arrivers, At
<1>3. Leaving(q)'
  BY <1>1 DEF Leaving, Leavers
<1>4. \A r : (Down(r)' <=> Down(r)) /\ (Up(r)' <=> Up(r))
  BY DEF Down, Up
<1>5. FollowsDown'
  BY <1>2, <1>3, <1>4, OverlapGrows DEF FollowsDown
<1>6. ASSUME Calm', NEW b \in Tasks, task'[b].pc \in Leavers PROVE ~routes'[task'[b].port].present
  <2>1. CASE b = a
    BY <1>1, <2>1 DEF Routed
  <2>2. CASE b # a
    <3>1. task'[b] = task[b] /\ task[b].port \in Ports
      BY <1>1, <1>6, <2>2 DEF FramesSet, Leavers
    <3>2. ~Routed(task[b].port)
      BY <1>6, <3>1, OverlapGrows DEF FollowsUp
    <3> QED BY <3>1, <3>2 DEF Routed
  <2> QED BY <2>1, <2>2
<1>7. ASSUME Calm' PROVE \A r \in TcpPorts : Routed(r)' /\ ~Arriving(r)' => Up(r)'
  BY <1>2, <1>4, <1>7, OverlapGrows DEF FollowsUp, Ports
<1>8. FollowsUp'
  BY <1>6, <1>7 DEF FollowsUp, Routed
<1> QED BY <1>5, <1>8

\* A send settles its port and leaves the others as they were.
LEMMA SendSettles ==
  ASSUME TypeOK, NEW p \in Ports, NEW kind \in {"registered", "unregistered"},
         Send(Channel(p), kind, p), handles' = handles, NEW r \in Ports, NEW k, NEW goal
  PROVE  LET now   == Settles(events[Channel(r)], lagged[Channel(r)], handles[r], r, k, goal)
             after == Settles(events'[Channel(r)], lagged'[Channel(r)], handles'[r], r, k, goal)
         IN  (r = p /\ k = kind => after) /\ (r # p /\ now => after)
<1> DEFINE c == Channel(p)
           full == Len(events[c]) = EventCap
           kept == IF full THEN Tail(events[c]) ELSE events[c]
           e == [kind |-> kind, port |-> p]
<1>1. c \in Channels /\ Channel(r) \in Channels /\ e \in Event /\ e.port = p
  BY DEF Channel, Channels, Event
<1>2. events[c] \in Seq(Event) /\ lagged[c] \in BOOLEAN
  BY <1>1 DEF TypeOK
<1>3. full => events[c] # <<>>
  BY <1>2, PortBounds
<1>4. kept \in Seq(Event)
  BY <1>2, <1>3
<1>5. /\ events' = [events EXCEPT ![c] = Append(kept, e)]
      /\ lagged' = [lagged EXCEPT ![c] = @ \/ full]
  BY DEF Send
<1>6. /\ events'[c] = Append(kept, e) /\ lagged'[c] = (lagged[c] \/ full)
      /\ \A d \in Channels \ {c} : events'[d] = events[d] /\ lagged'[d] = lagged[d]
  BY <1>1, <1>5 DEF TypeOK
<1>7. ASSUME r = p, k = kind PROVE Settles(events'[c], lagged'[c], handles'[r], r, k, goal)
  BY <1>4, <1>6, <1>7, SendDecides DEF Settles
<1>8. ASSUME r # p, Settles(events[Channel(r)], lagged[Channel(r)], handles[r], r, k, goal)
      PROVE  Settles(events'[Channel(r)], lagged'[Channel(r)], handles'[r], r, k, goal)
  <2>1. CASE Channel(r) # c
    BY <1>1, <1>6, <1>8, <2>1
  <2>2. CASE Channel(r) = c
    <3>1. EndsWith(events[c], r, k) /\ (~Speaks(events[c], r) /\ ~lagged[c] => handles[r] \in goal)
      BY <1>8, <2>2 DEF Settles
    <3>2. EndsWith(kept, r, k)
      BY <1>2, <1>3, <3>1, OldestGone
    <3>3. /\ EndsWith(Append(kept, e), r, k)
          /\ Speaks(Append(kept, e), r) <=> Speaks(kept, r)
      BY <1>1, <1>4, <1>8, <3>2, SendOfOther
    <3>4. ~full => kept = events[c]
      OBVIOUS
    <3> HIDE DEF full, kept, e
    <3>5. ~Speaks(Append(kept, e), r) /\ ~(lagged[c] \/ full) => handles'[r] \in goal
      BY <3>1, <3>3, <3>4
    <3> QED BY <1>6, <2>2, <3>3, <3>5 DEF Settles
  <2> QED BY <2>1, <2>2
<1> QED BY <1>7, <1>8

\* The event a task sends about its port is in its channel.
LEMMA SendShape ==
  ASSUME IInv, EdgeShape, NEW p \in Ports, NEW kind \in {"registered", "unregistered"},
         Send(Channel(p), kind, p)
  PROVE  \A c \in Channels : \A i \in 1 .. Len(events'[c]) : Channel(events'[c][i].port) = c
<1> DEFINE c == Channel(p)
           full == Len(events[c]) = EventCap
           kept == IF full THEN Tail(events[c]) ELSE events[c]
           e == [kind |-> kind, port |-> p]
<1>1. c \in Channels /\ e \in Event /\ e.port = p
  BY DEF Channel, Channels, Event
<1>2. events[c] \in Seq(Event) /\ \A i \in 1 .. Len(events[c]) : Channel(events[c][i].port) = c
  BY <1>1 DEF IInv, TypeOK, EdgeShape
<1>3. full => events[c] # <<>>
  BY <1>2, PortBounds
<1>4. kept \in Seq(Event) /\ \A i \in 1 .. Len(kept) : Channel(kept[i].port) = c
  <2>1. CASE ~full
    BY <1>2, <2>1
  <2>2. CASE full
    <3>1. /\ Tail(events[c]) \in Seq(Event) /\ Len(Tail(events[c])) = Len(events[c]) - 1
          /\ Len(events[c]) \in Nat
          /\ \A i \in 1 .. Len(Tail(events[c])) : Tail(events[c])[i] = events[c][i + 1]
      BY <1>2, <1>3, <2>2
    <3>2. \A i \in 1 .. Len(Tail(events[c])) : i + 1 \in 1 .. Len(events[c])
      BY <3>1
    <3> QED BY <1>2, <2>2, <3>1, <3>2
  <2> QED BY <2>1, <2>2
<1>5. events' = [events EXCEPT ![c] = Append(kept, e)]
  BY DEF Send
<1>6. events'[c] = Append(kept, e) /\ \A d \in Channels \ {c} : events'[d] = events[d]
  BY <1>1, <1>5 DEF IInv, TypeOK
<1> HIDE DEF kept, e
<1>7. /\ Len(Append(kept, e)) = Len(kept) + 1 /\ Len(kept) \in Nat
      /\ \A i \in 1 .. Len(kept) : Append(kept, e)[i] = kept[i]
      /\ Append(kept, e)[Len(kept) + 1] = e
  BY <1>1, <1>4
<1>8. \A i \in 1 .. Len(Append(kept, e)) : i \in 1 .. Len(kept) \/ i = Len(kept) + 1
  BY <1>7
<1>9. \A i \in 1 .. Len(Append(kept, e)) : Channel(Append(kept, e)[i].port) = c
  BY <1>1, <1>4, <1>7, <1>8
<1> QED BY <1>1, <1>6, <1>9 DEF EdgeShape

-----------------------------------------------------------------------------
(* The actions of the core. *)

\* Places are kept port by port.
LEMMA PlacesKept ==
  ASSUME PlacesInv, overlapped' = Overlap,
         \A q \in Ports : Unmixed' /\ Placed(q) => Placed(q)'
  PROVE  PlacesInv'
BY OverlapGrows DEF PlacesInv

\* A task that is between operations stays there (register_session,
\* remove_session and the end of its loop).
LEMMA RestFollowed ==
  ASSUME IInv, Followed, EdgeWaits, Tasks = Sessions, NEW a \in Tasks,
         task[a].pc \in {"new", "idle", "closing"}, NEW pc \in {"idle", "closing", "done"},
         NEW t, NEW p, NEW g, Moves(a, Local(pc, t, p, g)),
         UNCHANGED <<tunnels, minted, available, routes, tunnel_index, events, lagged>>,
         \A s \in Sessions : todo'[s] \subseteq tunnels[s]
  PROVE  Followed'
<1>1. OwnTunnels'
  BY OwnKept DEF Followed
<1>2. ASSUME NEW q \in Ports, Placed(q) PROVE Placed(q)'
  BY <1>2, PlaceUntouched DEF On, Engaged
<1>3. PlacesInv'
  BY <1>2, PlacesKept DEF Followed, EdgeWaits
<1>4. FollowsDown' /\ FollowsUp'
  <2>1. \A q \in Ports : Routed(q)' = Routed(q)
    BY DEF Routed
  <2>2. /\ pc \notin Leavers \cup Arrivers /\ task[a].pc \notin Leavers \cup Arrivers
    BY DEF Leavers, Arrivers
  <2> QED BY <2>1, <2>2, FollowsKept DEF Followed, EdgeWaits, IInv
<1> QED BY <1>1, <1>3, <1>4 DEF Followed

\* The pop of a registration
LEMMA PopFollowed ==
  ASSUME IInv, Followed, EdgeWaits, Tasks = Sessions, NEW s \in Tasks, At(s, "idle"),
         NEW t \in Tunnels, NEW p \in Ports, NEW g, Moves(s, Local("route", t, p, g)),
         Mint(t), Pop(p), UNCHANGED <<tunnels, routes, tunnel_index, todo, events, lagged>>
  PROVE  Followed'
<1>1. OwnTunnels'
  <2>1. t \notin minted /\ minted \subseteq minted' /\ \A r \in Sessions : todo'[r] \subseteq tunnels[r]
    BY DEF Mint, Followed, OwnTunnels
  <2> QED BY <2>1, OwnKept DEF Followed
<1>2. ASSUME NEW q \in Ports, Placed(q) PROVE Placed(q)'
  <2>1. CASE q = p
    BY <1>2, <2>1, PlacePopped DEF IInv
  <2>2. CASE q # p
    <3>1. ~On(s, q) /\ available'[q] = available[q]
      BY <2>2 DEF On, Engaged, At, Pop, IInv, TypeOK
    <3> QED BY <1>2, <2>2, <3>1, PlaceUntouched
  <2> QED BY <2>1, <2>2
<1>3. PlacesInv'
  BY <1>2, PlacesKept DEF Followed, EdgeWaits
<1>4. FollowsDown' /\ FollowsUp'
  <2>1. \A q \in Ports : Routed(q)' = Routed(q)
    BY DEF Routed
  <2>2. "route" \notin Leavers \cup Arrivers /\ task[s].pc \notin Leavers \cup Arrivers
    BY DEF Leavers, Arrivers, At
  <2> QED BY <2>1, <2>2, FollowsKept DEF Followed, EdgeWaits, IInv
<1> QED BY <1>1, <1>3, <1>4 DEF Followed

\* A later member of a group: if its route were being taken down, two operations
\* would overlap while the group's entry is held.
LEMMA JoinFollowed ==
  ASSUME IInv, Followed, EdgeWaits, Tasks = Sessions, NEW s \in Sessions,
         NEW t \in Tunnels, NEW g \in Groups, JoinTcpGroup(s, t, g)
  PROVE  Followed'
<1>1. PICK p \in Ports : p = group_index[g] /\ p \notin SoloPorts
  BY SoloOrNot DEF IInv, TypeOK, JoinTcpGroup, Ports
<1>2. Moves(s, Local("joined", t, p, g))
  <2>1. Sound("joined", t, p, g)
    BY <1>1 DEF Sound, PCs
  <2> QED BY <1>1, <2>1, SetMoves DEF JoinTcpGroup, IInv
<1>3. /\ At(s, "idle") /\ t \notin minted /\ minted \subseteq minted' /\ Routed(p)
      /\ UNCHANGED <<tunnels, available, tunnel_index, todo, events, lagged>>
  BY <1>1 DEF JoinTcpGroup, Mint
<1>4. /\ Routed(p)' /\ Members(p)' = Members(p) \cup {t}
      /\ \A q \in Ports \ {p} : routes'[q] = routes[q]
  <2>1. routes[p] \in Route /\ routes \in [Ports -> Route]
    BY DEF IInv, TypeOK
  <2>2. routes' = [routes EXCEPT ![p].members = @ \cup {t}]
    BY <1>1 DEF JoinTcpGroup
  <2> QED BY <1>3, <2>1, <2>2 DEF Routed, Members, Route
<1>5. OwnTunnels'
  <2>1. \A r \in Sessions : todo'[r] \subseteq tunnels[r]
    BY <1>3 DEF Followed, OwnTunnels
  <2> QED BY <1>2, <1>3, <2>1, OwnKept DEF Followed
<1>6. ASSUME Unmixed' PROVE \A b \in Tasks : ~(On(b, p) /\ At(b, "unroute"))
  <2> SUFFICES ASSUME NEW b \in Tasks, At(b, "unroute") PROVE FALSE
    OBVIOUS
  <2>1. b # s
    BY <1>3 DEF At
  <2>2. Busy(b)' /\ Busy(s)'
    BY <1>2, <2>1, MovedFrame DEF Busy, At
  <2>3. Grouped'
    <3>1. guard'[g] = s /\ s # None
      BY PortNoneIsNoValue DEF JoinTcpGroup, IInv, TypeOK
    <3> QED BY <3>1 DEF Grouped
  <2> QED BY <1>6, <2>1, <2>2, <2>3 DEF Unmixed, Overlap
<1>7. ASSUME Unmixed', NEW q \in Ports, Placed(q) PROVE Placed(q)'
  <2>1. ~On(s, q)
    BY <1>3 DEF On, Engaged, At
  <2>2. CASE q = p
    BY <1>2, <1>3, <1>4, <1>6, <1>7, <2>1, <2>2, PlaceJoined
  <2>3. CASE q # p
    BY <1>2, <1>3, <1>4, <1>7, <2>1, <2>3, PlaceUntouched
  <2> QED BY <2>2, <2>3
<1>8. PlacesInv'
  BY <1>7, PlacesKept DEF Followed, EdgeWaits
<1>9. FollowsDown' /\ FollowsUp'
  <2>1. \A q \in Ports : Routed(q)' = Routed(q)
    BY <1>3, <1>4 DEF Routed, IInv, TypeOK, Route
  <2>2. "joined" \notin Leavers \cup Arrivers /\ task[s].pc \notin Leavers \cup Arrivers
    BY <1>3 DEF Leavers, Arrivers, At
  <2> QED BY <1>2, <1>3, <2>1, <2>2, FollowsKept DEF Followed, EdgeWaits, IInv
<1> QED BY <1>5, <1>8, <1>9 DEF Followed

\* routes.insert
LEMMA InsertFollowed ==
  ASSUME IInv, Followed, EdgeWaits, Tasks = Sessions, NEW s \in Sessions, InsertRoute(s)
  PROVE  Followed'
<1>1. PICK t \in Tunnels, p \in Ports, g \in Groups \cup {None} :
        t = task[s].id /\ p = task[s].port /\ g = task[s].group
  BY DEF IInv, TypeOK, Frame, FramesSet, InsertRoute, At
<1>2. PICK pc \in {"group", "index"} : pc = IF g = None THEN "index" ELSE "group"
  OBVIOUS
<1>3. Moves(s, Local(pc, t, p, g))
  <2>1. pc \in PCs
    BY DEF PCs
  <2>2. Goto(s, pc)
    BY <1>1, <1>2 DEF InsertRoute
  <2> QED BY <1>1, <2>1, <2>2, GotoMoves DEF IInv
<1>4. /\ At(s, "route") /\ Registering(s)
      /\ UNCHANGED <<minted, tunnels, available, tunnel_index, todo, events, lagged>>
  BY DEF InsertRoute, Registering, At
<1>5. /\ Routed(p)' /\ Members(p)' = {t}
      /\ \A q \in Ports \ {p} : routes'[q] = routes[q]
  <2>1. routes' = [routes EXCEPT ![p] = [present |-> TRUE, group |-> g, members |-> {t}]]
    BY <1>1 DEF InsertRoute
  <2> QED BY <2>1 DEF Routed, Members, IInv, TypeOK
<1>6. OwnTunnels'
  <2>1. minted \subseteq minted' /\ \A r \in Sessions : todo'[r] \subseteq tunnels[r]
    BY <1>4 DEF Followed, OwnTunnels
  <2> QED BY <1>1, <1>3, <1>4, <2>1, OwnKept DEF Followed
<1>7. ASSUME NEW q \in Ports, Placed(q) PROVE Placed(q)'
  <2>1. CASE q = p
    BY <1>1, <1>3, <1>4, <1>5, <1>7, <2>1, PlaceRouted
  <2>2. CASE q # p
    <3>1. ~On(s, q)
      BY <1>1, <2>2 DEF On
    <3> QED BY <1>3, <1>4, <1>5, <1>7, <2>2, <3>1, PlaceUntouched
  <2> QED BY <2>1, <2>2
<1>8. PlacesInv'
  BY <1>7, PlacesKept DEF Followed, EdgeWaits
<1>9. FollowsDown' /\ FollowsUp'
  <2>1. \A q \in Ports \ {p} : Routed(q)' = Routed(q)
    BY <1>5 DEF Routed
  <2> QED BY <1>3, <1>4, <1>5, <2>1, FollowsRouted DEF Followed, EdgeWaits, IInv
<1> QED BY <1>6, <1>8, <1>9 DEF Followed

\* idx_vac.insert, tcp_group_index.remove: the task goes on with its port.
LEMMA GroupIndexFollowed ==
  ASSUME IInv, Followed, EdgeWaits, Tasks = Sessions, NEW a \in Tasks, NEW pc,
         \/ task[a].pc = "group" /\ pc = "index"
         \/ task[a].pc = "ungroup" /\ pc = "free",
         Goto(a, pc),
         UNCHANGED <<minted, tunnels, available, routes, tunnel_index, todo, events, lagged>>
  PROVE  Followed'
<1>1. PICK t \in Tunnels, p \in Ports, g \in Groups \cup {None} :
        t = task[a].id /\ p = task[a].port /\ g = task[a].group
  BY DEF IInv, TypeOK, Frame, FramesSet
<1>2. Moves(a, Local(pc, t, p, g))
  <2>1. pc \in PCs
    BY DEF PCs
  <2> QED BY <1>1, <2>1, GotoMoves DEF IInv
<1>3. OwnTunnels'
  <2>1. /\ minted \subseteq minted' /\ \A r \in Sessions : todo'[r] \subseteq tunnels[r]
        /\ pc \in {"route", "group", "index", "joined"} => Registering(a) /\ t = task[a].id
        /\ pc \notin {"announce", "unmember"}
    BY <1>1 DEF Followed, OwnTunnels, Registering
  <2> QED BY <1>2, <2>1, OwnKept DEF Followed
<1>4. ASSUME NEW q \in Ports, Placed(q) PROVE Placed(q)'
  <2>1. CASE q = p
    BY <1>1, <1>2, <1>4, <2>1, PlaceStays
  <2>2. CASE q # p
    <3>1. ~On(a, q)
      BY <1>1, <2>2 DEF On
    <3> QED BY <1>2, <1>4, <2>2, <3>1, PlaceUntouched
  <2> QED BY <2>1, <2>2
<1>5. PlacesInv'
  BY <1>4, PlacesKept DEF Followed, EdgeWaits
<1>6. FollowsDown' /\ FollowsUp'
  <2>1. /\ \A q \in Ports : Routed(q)' = Routed(q)
        /\ pc \in Leavers <=> task[a].pc \in Leavers
        /\ pc \in Arrivers <=> task[a].pc \in Arrivers
    BY DEF Routed, Leavers, Arrivers
  <2> QED BY <1>1, <1>2, <2>1, FollowsKept DEF Followed, EdgeWaits, IInv
<1> QED BY <1>3, <1>5, <1>6 DEF Followed

\* tunnel_index.insert and add_tunnel_to_session, of a first or a later member
LEMMA IndexFollowed ==
  ASSUME IInv, Followed, EdgeWaits, Tasks = Sessions, NEW s \in Tasks,
         NEW pc, NEW t, NEW p, NEW g, Moves(s, Local(pc, t, p, g)),
         \/ At(s, "index") /\ pc = "announce" /\ t = task[s].id /\ p = task[s].port
         \/ At(s, "joined") /\ pc = "idle",
         tunnel_index' = [tunnel_index EXCEPT ![task[s].id] = task[s].port],
         tunnels' = [tunnels EXCEPT ![s] = @ \cup {task[s].id}],
         UNCHANGED <<minted, available, routes, todo, events, lagged>>
  PROVE  Followed'
<1>1. PICK u \in Tunnels, r \in Ports : u = task[s].id /\ r = task[s].port
  BY DEF IInv, FramesSet, At
<1>2. Registering(s) /\ tunnel_index[u] = None /\ pc \notin Engaged /\ None \notin Ports
  BY <1>1, SoloOrNot DEF Registering, At, IInv, IdsFresh, Engaged
<1>3. OwnTunnels'
  BY <1>2, OwnIndexed DEF Followed
<1>4. ASSUME NEW q \in Ports, Placed(q) PROVE Placed(q)'
  <2>1. CASE q = r
    BY <1>1, <1>2, <1>4, <2>1, PlaceIndexed DEF IInv, At
  <2>2. CASE q # r
    <3>1. ~On(s, q)
      BY <1>1, <2>2 DEF On
    <3>2. \A x \in Tunnels : (tunnel_index'[x] = q) <=> (tunnel_index[x] = q)
      BY <1>1, <1>2, <2>2 DEF IInv, TypeOK
    <3> QED BY <1>2, <1>4, <3>1, <3>2, PlaceUntouched
  <2> QED BY <2>1, <2>2
<1>5. PlacesInv'
  BY <1>4, PlacesKept DEF Followed, EdgeWaits
<1>6. FollowsDown' /\ FollowsUp'
  <2>1. /\ \A q \in Ports : Routed(q)' = Routed(q)
        /\ pc \in Leavers <=> task[s].pc \in Leavers
        /\ pc \in Arrivers <=> task[s].pc \in Arrivers
        /\ pc \in Leavers \cup Arrivers => p = task[s].port
    BY DEF Routed, Leavers, Arrivers, At
  <2> QED BY <2>1, FollowsKept DEF Followed, EdgeWaits, IInv
<1> QED BY <1>3, <1>5, <1>6 DEF Followed

\* tunnel_index.remove of a session's own tunnel
LEMMA UnindexFollowed ==
  ASSUME IInv, Followed, EdgeWaits, Tasks = Sessions, NEW s \in Sessions, NEW t \in tunnels[s],
         task[s].pc \in {"idle", "closing"}, Unindex(s, t),
         \A r \in Sessions : todo'[r] \subseteq tunnels[r],
         UNCHANGED <<minted, tunnels, available, routes, events, lagged>>
  PROVE  Followed'
<1>1. t \in Tunnels
  BY DEF IInv, TypeOK
<1>2. PICK p \in Ports : p = tunnel_index[t]
  BY <1>1 DEF IInv, TypeOK, Unindex
<1>3. Moves(s, Local("unmember", t, p, None)) /\ None \notin Ports
  <2>1. Sound("unmember", t, p, None)
    BY <1>1 DEF Sound, PCs
  <2> QED BY <1>2, <2>1, SetMoves, SoloOrNot DEF Unindex, IInv
<1>4. tunnel_index' = [tunnel_index EXCEPT ![t] = None]
  BY DEF Unindex
<1>5. OwnTunnels'
  BY <1>3, <1>4, OwnUnindexed DEF Followed
<1>6. ASSUME NEW q \in Ports, Placed(q) PROVE Placed(q)'
  <2>1. ~On(s, q)
    BY DEF On, Engaged
  <2>2. CASE q = p
    BY <1>1, <1>2, <1>3, <1>4, <1>6, <2>1, <2>2, PlaceUnindexed DEF IInv
  <2>3. CASE q # p
    <3>1. \A u \in Tunnels : (tunnel_index'[u] = q) <=> (tunnel_index[u] = q)
      BY <1>1, <1>2, <1>3, <1>4, <2>3 DEF IInv, TypeOK
    <3> QED BY <1>3, <1>6, <2>1, <2>3, <3>1, PlaceUntouched
  <2> QED BY <2>2, <2>3
<1>7. PlacesInv'
  BY <1>6, PlacesKept DEF Followed, EdgeWaits
<1>8. FollowsDown' /\ FollowsUp'
  <2>1. /\ \A q \in Ports : Routed(q)' = Routed(q)
        /\ "unmember" \notin Leavers \cup Arrivers /\ task[s].pc \notin Leavers \cup Arrivers
    BY DEF Routed, Leavers, Arrivers
  <2> QED BY <1>3, <2>1, FollowsKept DEF Followed, EdgeWaits, IInv
<1> QED BY <1>5, <1>7, <1>8 DEF Followed

\* A turn of remove_session's loop in which the index has nothing
LEMMA SkipFollowed ==
  ASSUME IInv, Followed, EdgeWaits,
         \A r \in Sessions : todo'[r] \subseteq tunnels[r],
         UNCHANGED <<minted, tunnels, available, routes, tunnel_index, task, events, lagged>>
  PROVE  Followed'
<1>1. OwnTunnels'
  BY DEF Followed, OwnTunnels, Registering, At
<1>2. \A q \in Ports : Placed(q) => Placed(q)'
  BY DEF Placed, On, Holds, Routed, Members, At
<1>3. PlacesInv'
  BY <1>2, PlacesKept DEF Followed, EdgeWaits
<1>4. \A q : /\ Down(q)' <=> Down(q)
             /\ Up(q)' <=> Up(q)
             /\ Leaving(q)' <=> Leaving(q)
             /\ Arriving(q)' <=> Arriving(q)
             /\ Routed(q)' <=> Routed(q)
  BY DEF Down, Up, Leaving, Arriving, Routed, EdgeWaits
<1>5. FollowsDown'
  BY <1>4, OverlapGrows DEF Followed, FollowsDown, EdgeWaits
<1>6. FollowsUp'
  <2>1. ASSUME Calm' PROVE Calm
    BY <2>1, OverlapGrows DEF EdgeWaits
  <2>2. Calm' => \A b \in Tasks : task'[b].pc \in Leavers => ~Routed(task[b].port)'
    BY <2>1 DEF Followed, FollowsUp, Routed
  <2> QED BY <1>4, <2>1, <2>2 DEF Followed, FollowsUp, Routed
<1> QED BY <1>1, <1>3, <1>5, <1>6 DEF Followed

\* The member and the emptiness, under the route's guard
LEMMA UnmemberFollowed ==
  ASSUME IInv, Followed, EdgeWaits, Tasks = Sessions, NEW a \in Tasks, RemoveMember(a)
  PROVE  Followed'
<1>1. PICK u \in Tunnels, r \in Ports : u = task[a].id /\ r = task[a].port
  BY DEF IInv, FramesSet, RemoveMember, At
<1>2. At(a, "unmember") /\ u \in tunnels[a] /\ tunnel_index[u] = None
  BY <1>1 DEF RemoveMember, Followed, OwnTunnels
<1>3. /\ Members(r)' = Members(r) \ {u} /\ Routed(r)' = Routed(r)
      /\ \A q \in Ports \ {r} : routes'[q] = routes[q]
  <2>1. routes[r] \in Route /\ routes \in [Ports -> Route]
    BY DEF IInv, TypeOK
  <2>2. routes' = [routes EXCEPT ![r].members = Members(r) \ {u}]
    BY <1>1 DEF RemoveMember
  <2> QED BY <2>1, <2>2 DEF Routed, Members, Route
<1>4. PICK pc, t, p, g :
        /\ Moves(a, Local(pc, t, p, g))
        /\ \/ pc = "unroute" /\ p = r /\ Members(r)' = {}
           \/ pc \in {"idle", "closing"}
  <2>1. CASE Members(r) \ {u} = {}
    <3>1. task[a] \in Frame /\ routes[r].group \in Groups \cup {None} /\ "unroute" \in PCs
      BY DEF IInv, TypeOK, Route, PCs
    <3>2. PICK f \in Frame, g \in Groups \cup {None} : f = task[a] /\ g = routes[r].group
      BY <3>1
    <3>3. [f EXCEPT !.pc = "unroute", !.group = g] = Local("unroute", u, r, g)
      <4>1. f \in Frame /\ g \in Groups \cup {None} /\ "unroute" \in PCs
        BY <3>1, <3>2
      <4>2. [f EXCEPT !.pc = "unroute", !.group = g] = Local("unroute", f.id, f.port, g)
        BY <4>1, FrameExcept, Zenon
      <4>3. f.id = u /\ f.port = r
        BY <1>1, <3>2
      <4> QED BY <4>2, <4>3, Zenon
    <3>4. task' = [task EXCEPT ![a] = [f EXCEPT !.pc = "unroute", !.group = g]]
      BY <1>1, <2>1, <3>2 DEF RemoveMember
    <3>5. Local("unroute", u, r, g) \in Frame
      BY <3>1 DEF Local, Frame
    <3>6. PICK h \in Frame : h = Local("unroute", u, r, g)
      BY <3>5
    <3>7. task' = [task EXCEPT ![a] = h] /\ task \in [Tasks -> Frame]
      BY <3>3, <3>4, <3>6 DEF IInv, TypeOK
    <3>8. Moves(a, h)
      BY <3>7 DEF Moves
    <3>9. Moves(a, Local("unroute", u, r, g))
      BY <3>6, <3>8
    <3> QED BY <1>3, <2>1, <3>9
  <2>2. CASE Members(r) \ {u} # {}
    <3>1. Return(a)
      BY <1>1, <2>2 DEF RemoveMember
    <3>2. Moves(a, Local(Resume(a), None, None, None)) /\ Resume(a) \in {"idle", "closing"}
      BY <3>1, ReturnMoves DEF IInv, Resume
    <3> QED BY <3>2
  <2> QED BY <2>1, <2>2
<1>5. UNCHANGED <<minted, tunnels, available, tunnel_index, todo, events, lagged>>
  BY DEF RemoveMember
<1>6. OwnTunnels'
  <2>1. /\ minted \subseteq minted' /\ \A x \in Sessions : todo'[x] \subseteq tunnels[x]
        /\ pc \notin {"route", "group", "index", "joined", "announce", "unmember"}
    BY <1>4, <1>5 DEF Followed, OwnTunnels
  <2> QED BY <1>4, <1>5, <2>1, OwnKept DEF Followed
<1>7. \A b \in Tasks \ {a} : task[b].pc \in {"group", "index", "joined", "unmember"} => task[b].id # u
  <2> SUFFICES ASSUME NEW b \in Tasks \ {a}, task[b].pc \in {"group", "index", "joined", "unmember"},
                      task[b].id = u
               PROVE  FALSE
    OBVIOUS
  <2>1. CASE Registering(b)
    BY <1>2, <2>1 DEF Followed, OwnTunnels
  <2>2. CASE At(b, "unmember")
    BY <1>2, <2>2 DEF Followed, OwnTunnels
  <2> QED BY <2>1, <2>2 DEF Registering, At
<1>8. ASSUME NEW q \in Ports, Placed(q) PROVE Placed(q)'
  <2>1. CASE q = r
    <3>1. r # None /\ (pc \in {"idle", "closing"} => pc \notin Engaged)
      BY SoloOrNot DEF Engaged
    <3> QED BY <1>1, <1>2, <1>3, <1>4, <1>5, <1>7, <1>8, <2>1, <3>1, PlaceUnmembered
  <2>2. CASE q # r
    <3>1. ~On(a, q) /\ ~(p = q /\ pc \in Engaged)
      BY <1>1, <1>4, <2>2 DEF On, Engaged
    <3> QED BY <1>3, <1>4, <1>5, <1>8, <2>2, <3>1, PlaceUntouched
  <2> QED BY <2>1, <2>2
<1>9. PlacesInv'
  BY <1>8, PlacesKept DEF Followed, EdgeWaits
<1>10. FollowsDown' /\ FollowsUp'
  <2>1. /\ \A q \in Ports : Routed(q)' = Routed(q)
        /\ pc \notin Leavers \cup Arrivers /\ task[a].pc \notin Leavers \cup Arrivers
    BY <1>2, <1>3, <1>4 DEF Routed, Leavers, Arrivers, At
  <2> QED BY <1>4, <1>5, <2>1, FollowsKept DEF Followed, EdgeWaits, IInv
<1> QED BY <1>6, <1>9, <1>10 DEF Followed

\* routes.remove
LEMMA UnrouteFollowed ==
  ASSUME IInv, Followed, EdgeWaits, Tasks = Sessions, NEW a \in Tasks, RemoveRoute(a)
  PROVE  Followed'
<1>1. PICK t \in Tunnels, p \in Ports, g \in Groups \cup {None} :
        t = task[a].id /\ p = task[a].port /\ g = task[a].group
  BY DEF IInv, TypeOK, Frame, FramesSet, RemoveRoute, At
<1>2. PICK pc \in {"ungroup", "free"} : pc = IF g = None THEN "free" ELSE "ungroup"
  OBVIOUS
<1>3. Moves(a, Local(pc, t, p, g))
  <2>1. pc \in PCs
    BY DEF PCs
  <2>2. Goto(a, pc)
    BY <1>1, <1>2 DEF RemoveRoute
  <2> QED BY <1>1, <2>1, <2>2, GotoMoves DEF IInv
<1>4. /\ At(a, "unroute")
      /\ UNCHANGED <<minted, tunnels, available, tunnel_index, todo, events, lagged>>
  BY DEF RemoveRoute
<1>5. /\ ~Routed(p)' /\ Members(p)' = {}
      /\ \A q \in Ports \ {p} : routes'[q] = routes[q]
  <2>1. routes' = [routes EXCEPT ![p] = NoRoute]
    BY <1>1 DEF RemoveRoute
  <2> QED BY <2>1 DEF Routed, Members, IInv, TypeOK, NoRoute
<1>6. OwnTunnels'
  <2>1. /\ minted \subseteq minted' /\ \A x \in Sessions : todo'[x] \subseteq tunnels[x]
        /\ pc \notin {"route", "group", "index", "joined", "announce", "unmember"}
    BY <1>4 DEF Followed, OwnTunnels
  <2> QED BY <1>3, <1>4, <2>1, OwnKept DEF Followed
<1>7. ASSUME NEW q \in Ports, Placed(q) PROVE Placed(q)'
  <2>1. CASE q = p
    BY <1>1, <1>3, <1>4, <1>5, <1>7, <2>1, PlaceUnrouted
  <2>2. CASE q # p
    <3>1. ~On(a, q)
      BY <1>1, <2>2 DEF On
    <3> QED BY <1>3, <1>4, <1>5, <1>7, <2>2, <3>1, PlaceUntouched
  <2> QED BY <2>1, <2>2
<1>8. PlacesInv'
  BY <1>7, PlacesKept DEF Followed, EdgeWaits
<1>9. FollowsDown' /\ FollowsUp'
  <2>1. \A q \in Ports \ {p} : Routed(q)' = Routed(q)
    BY <1>5 DEF Routed
  <2> QED BY <1>3, <1>4, <1>5, <2>1, FollowsUnrouted DEF Followed, EdgeWaits, IInv
<1> QED BY <1>6, <1>8, <1>9 DEF Followed

\* push
LEMMA PushFollowed ==
  ASSUME IInv, Followed, EdgeWaits, Tasks = Sessions, NEW a \in Tasks, PushPort(a)
  PROVE  Followed'
<1>1. PICK t \in Tunnels, p \in Ports, g \in Groups \cup {None} :
        t = task[a].id /\ p = task[a].port /\ g = task[a].group
  BY DEF IInv, TypeOK, Frame, FramesSet, PushPort, At
<1>2. Moves(a, Local("retract", t, p, g))
  <2>1. "retract" \in PCs
    BY DEF PCs
  <2> QED BY <1>1, <2>1, GotoMoves DEF IInv, PushPort
<1>3. /\ At(a, "free") /\ available' = [available EXCEPT ![p] = @ + 1]
      /\ UNCHANGED <<minted, tunnels, routes, tunnel_index, todo, events, lagged>>
  BY <1>1 DEF PushPort
<1>4. OwnTunnels'
  <2>1. minted \subseteq minted' /\ \A x \in Sessions : todo'[x] \subseteq tunnels[x]
    BY <1>3 DEF Followed, OwnTunnels
  <2> QED BY <1>2, <1>3, <2>1, OwnKept DEF Followed
<1>5. ASSUME NEW q \in Ports, Placed(q) PROVE Placed(q)'
  <2>1. CASE q = p
    BY <1>1, <1>2, <1>3, <1>5, <2>1, PlacePushed DEF IInv
  <2>2. CASE q # p
    <3>1. ~On(a, q) /\ available'[q] = available[q]
      BY <1>1, <1>3, <2>2 DEF On, IInv, TypeOK
    <3> QED BY <1>2, <1>3, <1>5, <2>2, <3>1, PlaceUntouched
  <2> QED BY <2>1, <2>2
<1>6. PlacesInv'
  BY <1>5, PlacesKept DEF Followed, EdgeWaits
<1>7. FollowsDown' /\ FollowsUp'
  <2>1. /\ \A q \in Ports : Routed(q)' = Routed(q)
        /\ "retract" \in Leavers /\ "retract" \notin Arrivers
        /\ task[a].pc \in Leavers /\ task[a].pc \notin Arrivers
    BY <1>3 DEF Routed, Leavers, Arrivers, At
  <2> QED BY <1>1, <1>2, <1>3, <2>1, FollowsKept DEF Followed, EdgeWaits, IInv
<1> QED BY <1>4, <1>6, <1>7 DEF Followed

\* A send says what the task had still to say of its port.
LEMMA SendFollowed ==
  ASSUME IInv, Followed, EdgeWaits, Tasks = Sessions, NEW a \in Tasks, NEW p \in Ports,
         task[a].port = p, task[a].pc \in {"announce", "retract"},
         NEW kind \in {"registered", "unregistered"}, Send(Channel(p), kind, p),
         NEW pc \in {"idle", "closing"}, Moves(a, Local(pc, None, None, None)),
         UNCHANGED <<tunnels, minted, available, routes, tunnel_index, todo>>,
         Unmixed /\ ~Routed(p) => kind = "unregistered",
         Calm /\ Routed(p) => kind = "registered"
  PROVE  Followed'
<1>1. OwnTunnels'
  <2>1. minted \subseteq minted' /\ \A x \in Sessions : todo'[x] \subseteq tunnels[x]
    BY DEF Followed, OwnTunnels
  <2> QED BY <2>1, OwnKept DEF Followed
<1>2. ASSUME NEW q \in Ports, Placed(q) PROVE Placed(q)'
  BY <1>2, PlaceUntouched DEF On, Engaged
<1>3. PlacesInv'
  BY <1>2, PlacesKept DEF Followed, EdgeWaits
<1>4. /\ task'[a].pc = pc /\ task'[a].port = None /\ pc \notin Leavers \cup Arrivers
      /\ \A b \in Tasks \ {a} : task'[b] = task[b]
  BY MovedFrame DEF Leavers, Arrivers
<1>5. \A q \in Ports \ {p} : (Leaving(q)' <=> Leaving(q)) /\ (Arriving(q)' <=> Arriving(q))
  BY <1>4 DEF Leaving, Arriving
<1>6. ASSUME NEW q \in Ports
      PROVE  /\ q = p /\ kind = "unregistered" => Down(q)'
             /\ q = p /\ kind = "registered" => Up(q)'
             /\ q # p => (Down(q) => Down(q)') /\ (Up(q) => Up(q)')
  BY SendSettles DEF Down, Up, IInv, EdgeWaits
<1>7. ASSUME Unmixed', NEW q \in Ports, ~Routed(q)', ~Leaving(q)' PROVE Down(q)'
  <2>1. Unmixed /\ ~Routed(q)
    BY <1>7, OverlapGrows DEF EdgeWaits, Routed
  <2> QED BY <1>5, <1>6, <1>7, <2>1 DEF Followed, FollowsDown
<1>8. ASSUME Calm', NEW q \in TcpPorts, Routed(q)', ~Arriving(q)' PROVE Up(q)'
  <2>1. Calm /\ Routed(q) /\ q \in Ports
    BY <1>8, OverlapGrows DEF EdgeWaits, Routed, Ports
  <2> QED BY <1>5, <1>6, <1>8, <2>1 DEF Followed, FollowsUp
<1>9. ASSUME Calm', NEW b \in Tasks, task'[b].pc \in Leavers PROVE ~routes'[task'[b].port].present
  <2>1. Calm /\ b # a /\ task'[b] = task[b]
    BY <1>4, <1>9, OverlapGrows DEF EdgeWaits
  <2> QED BY <1>9, <2>1 DEF Followed, FollowsUp, Routed
<1>10. FollowsDown' /\ FollowsUp'
  BY <1>7, <1>8, <1>9 DEF FollowsDown, FollowsUp, Routed
<1> QED BY <1>1, <1>3, <1>10 DEF Followed

\* send Registered: the tunnel is still in the index, so its port has a route.
LEMMA AnnounceFollowed ==
  ASSUME IInv, Followed, EdgeWaits, Tasks = Sessions, NEW s \in Sessions, Announce(s)
  PROVE  Followed'
<1>1. PICK t \in Tunnels, p \in Ports : t = task[s].id /\ p = task[s].port
  BY DEF IInv, FramesSet, Announce, At
<1>2. Moves(s, Local("idle", None, None, None))
  <2>1. Sound("idle", None, None, None)
    BY SoloOrNot DEF Sound, PCs, Inside
  <2> QED BY <2>1, SetMoves DEF Announce, Rest, IInv
<1>3. /\ task[s].pc = "announce" /\ Send(Channel(p), "registered", p)
      /\ UNCHANGED <<tunnels, minted, available, routes, tunnel_index, todo>>
  BY <1>1 DEF Announce, At
<1>4. tunnel_index[t] = p
  BY <1>1, <1>3 DEF Followed, OwnTunnels, At
<1>5. Unmixed => Routed(p)
  BY <1>4 DEF Followed, PlacesInv, Placed
<1> QED BY <1>1, <1>2, <1>3, <1>5, SendFollowed

\* send Unregistered: nobody has put the route of the port up again since.
LEMMA RetractFollowed ==
  ASSUME IInv, Followed, EdgeWaits, Tasks = Sessions, NEW a \in Tasks, Retract(a)
  PROVE  Followed'
<1>1. PICK p \in Ports : p = task[a].port
  BY DEF IInv, FramesSet, Retract, At
<1>2. PICK pc \in {"idle", "closing"} : Moves(a, Local(pc, None, None, None))
  <2>1. Resume(a) \in {"idle", "closing"}
    BY DEF Resume
  <2> QED BY <2>1, ReturnMoves DEF Retract, IInv
<1>3. /\ task[a].pc = "retract" /\ Send(Channel(p), "unregistered", p)
      /\ UNCHANGED <<tunnels, minted, available, routes, tunnel_index, todo>>
  BY <1>1 DEF Retract, At
<1>4. Calm => ~Routed(p)
  BY <1>1, <1>3 DEF Followed, FollowsUp, Leavers
<1> QED BY <1>1, <1>2, <1>3, <1>4, SendFollowed

\* Every step of every session keeps it.
LEMMA NextFollowed ==
  ASSUME IInv, Followed, EdgeWaits, Admins = {}, Next
  PROVE  Followed'
<1>1. Tasks = Sessions
  BY DEF Tasks
<1>2. TypeOK /\ \A r \in Sessions : todo[r] \subseteq tunnels[r] /\ tunnels[r] \subseteq Tunnels
  BY DEF IInv, TypeOK, Followed, OwnTunnels
<1>3. ASSUME NEW s \in Sessions, RegisterSession(s) \/ RemoveSession(s) \/ CloseDone(s)
      PROVE  Followed'
  <2>1. PICK pc \in {"idle", "closing", "done"} : Goto(s, pc)
    BY <1>3 DEF RegisterSession, RemoveSession, CloseDone
  <2>2. Moves(s, Local(pc, task[s].id, task[s].port, task[s].group))
    <3>1. pc \in PCs
      BY <2>1 DEF PCs
    <3> QED BY <1>1, <1>2, <2>1, <3>1, GotoMoves
  <2>3. /\ task[s].pc \in {"new", "idle", "closing"}
        /\ \A r \in Sessions : todo'[r] \subseteq tunnels[r]
        /\ UNCHANGED <<tunnels, minted, available, routes, tunnel_index, events, lagged>>
    <3>1. todo' \in {todo, [todo EXCEPT ![s] = tunnels[s]]}
      BY <1>3 DEF RegisterSession, RemoveSession, CloseDone
    <3>2. \A r \in Sessions : todo'[r] \in {todo[r], tunnels[r]}
      BY <1>2, <3>1 DEF TypeOK
    <3> QED BY <1>2, <1>3, <3>2 DEF RegisterSession, RemoveSession, CloseDone, At
  <2> QED BY <1>1, <2>1, <2>2, <2>3, RestFollowed
<1>4. ASSUME NEW s \in Sessions, NEW t \in Tunnels, NEW p \in Ports, NEW g \in Groups \cup {None},
             g # None => p \in TcpPorts,
             At(s, "idle"), Mint(t), Pop(p), task' = [task EXCEPT ![s] = Local("route", t, p, g)],
             UNCHANGED <<tunnels, routes, tunnel_index, todo, events, lagged>>
      PROVE  Followed'
  <2>1. Sound("route", t, p, g)
    BY <1>4, SoloOrNot, PortNoneIsNoValue DEF Sound, PCs
  <2>2. Moves(s, Local("route", t, p, g))
    BY <1>1, <1>2, <1>4, <2>1, SetMoves
  <2> QED BY <1>1, <1>4, <2>2, PopFollowed
<1>5. ASSUME NEW s \in Sessions, Register(s) PROVE Followed'
  <2>1. PICK t \in Tunnels :
          \/ \E p \in TcpPorts : RegisterTcpSolo(s, t, p)
          \/ \E p \in UdpPorts : RegisterUdp(s, t, p)
          \/ \E p \in TcpPorts, g \in Groups : CreateTcpGroup(s, t, p, g)
          \/ \E g \in Groups : JoinTcpGroup(s, t, g)
    BY <1>5 DEF Register
  <2>2. ASSUME NEW p \in TcpPorts, RegisterTcpSolo(s, t, p) PROVE Followed'
    BY <1>4, <2>2 DEF RegisterTcpSolo, Ports
  <2>3. ASSUME NEW p \in UdpPorts, RegisterUdp(s, t, p) PROVE Followed'
    BY <1>4, <2>3 DEF RegisterUdp, Ports
  <2>4. ASSUME NEW p \in TcpPorts, NEW g \in Groups, CreateTcpGroup(s, t, p, g) PROVE Followed'
    BY <1>4, <2>4 DEF CreateTcpGroup, Ports
  <2> QED BY <1>1, <2>1, <2>2, <2>3, <2>4, JoinFollowed
<1>6. ASSUME NEW s \in Sessions, RegistrationStep(s) PROVE Followed'
  <2>1. ASSUME NEW g \in Groups, InsertGroupIndex(s, g) PROVE Followed'
    BY <1>1, <2>1, GroupIndexFollowed DEF InsertGroupIndex, At
  <2>2. ASSUME IndexTunnel(s) PROVE Followed'
    <3>1. Moves(s, Local("announce", task[s].id, task[s].port, task[s].group))
      <4>1. "announce" \in PCs
        BY DEF PCs
      <4> QED BY <1>1, <1>2, <2>2, <4>1, GotoMoves DEF IndexTunnel
    <3> QED BY <1>1, <2>2, <3>1, IndexFollowed DEF IndexTunnel
  <2>3. ASSUME NEW g \in Groups, IndexJoined(s, g) PROVE Followed'
    <3>1. Sound("idle", None, None, None)
      BY SoloOrNot DEF Sound, PCs, Inside
    <3>2. Moves(s, Local("idle", None, None, None))
      BY <1>1, <1>2, <2>3, <3>1, SetMoves DEF IndexJoined, Rest
    <3> QED BY <1>1, <2>3, <3>2, IndexFollowed DEF IndexJoined
  <2> QED BY <1>1, <1>6, <2>1, <2>2, <2>3, InsertFollowed, AnnounceFollowed DEF RegistrationStep
<1>7. ASSUME NEW s \in Sessions, CloseNext(s) PROVE Followed'
  <2>1. PICK t \in todo[s] :
          /\ At(s, "closing") /\ todo' = [todo EXCEPT ![s] = @ \ {t}]
          /\ \/ Unindex(s, t)
             \/ tunnel_index[t] = None /\ UNCHANGED <<tunnel_index, task>>
          /\ UNCHANGED <<minted, tunnels, available, routes, events, lagged>>
    BY <1>7 DEF CloseNext
  <2>2. t \in tunnels[s] /\ \A r \in Sessions : todo'[r] \subseteq tunnels[r]
    BY <1>2, <2>1 DEF TypeOK
  <2> QED BY <1>1, <2>1, <2>2, UnindexFollowed, SkipFollowed DEF At
<1>8. ASSUME NEW a \in Tasks, RemovalStep(a) PROVE Followed'
  <2>1. ASSUME NEW g \in Groups, RemoveGroupIndex(a, g) PROVE Followed'
    BY <1>1, <2>1, GroupIndexFollowed DEF RemoveGroupIndex, At
  <2> QED BY <1>1, <1>8, <2>1, UnmemberFollowed, UnrouteFollowed, PushFollowed, RetractFollowed
          DEF RemovalStep
<1>9. ASSUME NEW s \in Sessions, NEW t \in tunnels[s], RemoveTunnel(s, t) PROVE Followed'
  BY <1>1, <1>2, <1>9, UnindexFollowed DEF RemoveTunnel, At
<1> QED BY <1>3, <1>5, <1>6, <1>7, <1>8, <1>9 DEF Next, CloseStep

\* The shape of the edge's variables is kept by the core, whose events are about
\* ports of the channel they are sent on.
LEMMA NextShape ==
  ASSUME IInv, EdgeShape, EdgeWaits, lingering' = lingering, Next
  PROVE  EdgeShape'
<1>1. \/ events' = events
      \/ \E a \in Tasks : /\ task[a].pc \in {"announce", "retract"}
                          /\ \E kind \in {"registered", "unregistered"} :
                               Send(Channel(task[a].port), kind, task[a].port)
  <2>1. ASSUME NEW s \in Sessions, RegisterSession(s) \/ RemoveSession(s) \/ Register(s) \/ CloseStep(s)
        PROVE  events' = events
    BY <2>1 DEF RegisterSession, RemoveSession, Register, RegisterTcpSolo, RegisterUdp, CreateTcpGroup,
         JoinTcpGroup, CloseStep, CloseNext, CloseDone
  <2>2. ASSUME NEW s \in Sessions, RegistrationStep(s), ~Announce(s) PROVE events' = events
    BY <2>2 DEF RegistrationStep, InsertRoute, IndexTunnel, InsertGroupIndex, IndexJoined
  <2>3. ASSUME NEW a \in Tasks, RemovalStep(a), ~Retract(a) PROVE events' = events
    BY <2>3 DEF RemovalStep, RemoveMember, RemoveRoute, PushPort, RemoveGroupIndex
  <2>4. ASSUME NEW a, NEW t, RemoveTunnel(a, t) PROVE events' = events
    BY <2>4 DEF RemoveTunnel
  <2>5. ASSUME NEW s \in Sessions, Announce(s)
        PROVE  s \in Tasks /\ task[s].pc = "announce" /\ Send(Channel(task[s].port), "registered", task[s].port)
    BY <2>5 DEF Announce, At, Tasks
  <2>6. ASSUME NEW a \in Tasks, Retract(a)
        PROVE  task[a].pc = "retract" /\ Send(Channel(task[a].port), "unregistered", task[a].port)
    BY <2>6 DEF Retract, At
  <2> QED BY <2>1, <2>2, <2>3, <2>4, <2>5, <2>6 DEF Next
<1>2. \A c \in Channels : \A i \in 1 .. Len(events'[c]) : Channel(events'[c][i].port) = c
  <2>1. CASE events' = events
    BY <2>1 DEF EdgeShape
  <2>2. ASSUME NEW a \in Tasks, task[a].pc \in {"announce", "retract"},
               NEW kind \in {"registered", "unregistered"},
               Send(Channel(task[a].port), kind, task[a].port)
        PROVE  \A c \in Channels : \A i \in 1 .. Len(events'[c]) : Channel(events'[c][i].port) = c
    <3>1. task[a].port \in Ports
      BY <2>2 DEF IInv, FramesSet
    <3> QED BY <2>2, <3>1, SendShape
  <2> QED BY <1>1, <2>1, <2>2
<1>3. overlapped' \in {"none", "solo", "grouped"}
  BY DEF EdgeWaits, Overlap, EdgeShape, EdgeTypeOK
<1> QED BY <1>2, <1>3 DEF EdgeShape, EdgeTypeOK, EdgeWaits

-----------------------------------------------------------------------------
(* The steps of the edge. *)

\* What the edge does not touch.
CoreWaits ==
  UNCHANGED <<tunnels, minted, available, routes, guard, tunnel_index, task, todo, overlapped>>

\* A step of the edge leaves on its way down a port without a route, and on its
\* way up a TCP port with one.
LEMMA EdgeFollows ==
  ASSUME Followed, CoreWaits,
         \A p \in Ports : ~Routed(p) /\ Down(p) => Down(p)',
         \A p \in TcpPorts : Routed(p) /\ Up(p) => Up(p)'
  PROVE  Followed'
<1>1. Overlap' = Overlap
  BY DEF CoreWaits, Overlap, Busy, Grouped
<1>2. (Unmixed' <=> Unmixed) /\ (Calm' <=> Calm)
  BY <1>1 DEF Unmixed, Calm
<1>3. OwnTunnels'
  BY DEF CoreWaits, Followed, OwnTunnels, Registering, At
<1>4. \A p \in Ports : Placed(p) => Placed(p)'
  BY DEF CoreWaits, Placed, On, Holds, Routed, Members, At
<1>5. PlacesInv'
  BY <1>2, <1>4 DEF Followed, PlacesInv
<1>6. \A p : /\ Leaving(p)' <=> Leaving(p)
             /\ Arriving(p)' <=> Arriving(p)
             /\ Routed(p)' <=> Routed(p)
  BY DEF CoreWaits, Leaving, Arriving, Routed
<1>7. FollowsDown'
  BY <1>2, <1>6 DEF Followed, FollowsDown
<1>8. Calm' => \A p \in TcpPorts : Routed(p)' /\ ~Arriving(p)' => Up(p)'
  BY <1>2, <1>6 DEF Followed, FollowsUp
<1>9. Calm' => \A a \in Tasks : task'[a].pc \in Leavers => ~routes'[task'[a].port].present
  BY <1>2 DEF Followed, FollowsUp, CoreWaits, Routed
<1>10. FollowsUp'
  BY <1>8, <1>9 DEF FollowsUp, Routed
<1> QED BY <1>3, <1>5, <1>7, <1>10 DEF Followed

\* recv() and the start or stop of the listener: if nothing more is said of the
\* port, the event was the last word about it.
LEMMA RecvKept ==
  ASSUME IInv, EdgeShape, Followed, NEW c \in Channels, RecvEvent(c), overlapped' = overlapped
  PROVE  IInv' /\ EdgeShape' /\ Followed'
<1>1. events[c] \in Seq(Event) /\ events[c] # <<>> /\ ~lagged[c] /\ events \in [Channels -> Seq(Event)]
  BY DEF RecvEvent, IInv, TypeOK
<1>2. PICK q \in Seq(Event) : q = events[c] /\ q # <<>>
  BY <1>1
<1>3. PICK p \in Ports, kind \in {"registered", "unregistered"} :
        p = Head(q).port /\ kind = Head(q).kind
  <2>1. Head(q) \in Event
    BY <1>2
  <2> QED BY <2>1 DEF Event
<1>4. Channel(p) = c
  <2>1. 1 \in 1 .. Len(q) /\ Head(q) = q[1]
    BY <1>2
  <2> QED BY <1>2, <1>3, <2>1 DEF EdgeShape
<1>5. /\ events' = [events EXCEPT ![c] = Tail(q)] /\ lagged' = lagged
      /\ handles' = [handles EXCEPT ![p] = IF kind = "registered" THEN "spawned" ELSE "absent"]
      /\ lingering' \in {lingering, lingering \cup {p}}
      /\ UNCHANGED <<sessions, group_index>> /\ CoreWaits
  BY <1>2, <1>3 DEF RecvEvent, StartListener, StopListener, CoreWaits
<1>6. events'[c] = Tail(q) /\ \A d \in Channels \ {c} : events'[d] = events[d]
  BY <1>1, <1>5
<1>7. /\ handles'[p] = IF kind = "registered" THEN "spawned" ELSE "absent"
      /\ \A r \in Ports \ {p} : handles'[r] = handles[r]
      /\ handles' \in [Ports -> HandleStates] /\ lingering' \subseteq Ports
  BY <1>5 DEF EdgeShape, EdgeTypeOK, HandleStates
<1>8. Tail(q) \in Seq(Event) /\ Len(Tail(q)) = Len(q) - 1 /\ Len(q) \in Nat
      /\ \A i \in 1 .. Len(Tail(q)) : Tail(q)[i] = q[i + 1]
  BY <1>2
<1>9. IInv'
  <2>1. TypeOK'
    BY <1>5, <1>8 DEF IInv, TypeOK, CoreWaits
  <2> QED BY <1>5, <2>1, TablesUntouched DEF CoreWaits
<1>10. EdgeShape'
  <2>1. \A i \in 1 .. Len(Tail(q)) : Channel(Tail(q)[i].port) = c
    <3>1. \A i \in 1 .. Len(Tail(q)) : i + 1 \in 1 .. Len(q)
      BY <1>8
    <3> QED BY <1>2, <1>8, <3>1 DEF EdgeShape
  <2>2. EdgeTypeOK'
    BY <1>7 DEF EdgeShape, EdgeTypeOK
  <2>3. \A r \in TcpPorts : handles'[r] # "failed"
    BY <1>7 DEF EdgeShape, Ports
  <2> QED BY <1>6, <2>1, <2>2, <2>3 DEF EdgeShape
<1>11. ASSUME NEW r \in Ports, NEW k, NEW goal, k = kind /\ r = p => handles'[p] \in goal,
              Settles(events[Channel(r)], lagged[Channel(r)], handles[r], r, k, goal)
       PROVE  Settles(events'[Channel(r)], lagged'[Channel(r)], handles'[r], r, k, goal)
  <2>1. Channel(r) \in Channels
    BY DEF Channel, Channels
  <2>2. CASE Channel(r) # c
    BY <1>4, <1>5, <1>6, <1>7, <1>11, <2>1, <2>2
  <2>3. CASE Channel(r) = c
    <3>1. EndsWith(q, r, k) /\ (~Speaks(q, r) => handles[r] \in goal)
      BY <1>1, <1>2, <1>11, <2>3 DEF Settles
    <3>2. /\ EndsWith(Tail(q), r, k)
          /\ p # r => (Speaks(Tail(q), r) <=> Speaks(q, r))
          /\ p = r /\ ~Speaks(Tail(q), r) => kind = k
      BY <1>2, <1>3, <3>1, OldestGone
    <3>3. ~Speaks(Tail(q), r) => handles'[r] \in goal
      BY <1>7, <1>11, <3>1, <3>2
    <3> QED BY <1>6, <2>3, <3>2, <3>3 DEF Settles
  <2> QED BY <2>2, <2>3
<1>12. \A r \in Ports : (Down(r) => Down(r)') /\ (Up(r) => Up(r)')
  BY <1>7, <1>11 DEF Down, Up
<1>13. Followed'
  BY <1>5, <1>12, EdgeFollows DEF Ports
<1> QED BY <1>9, <1>10, <1>13

\* Lagged and resync_listeners: whatever was lost, the listeners are those of the
\* routes, and the events still in the channel end as the routes are.
LEMMA ResyncKept ==
  ASSUME IInv, EdgeShape, Followed, NEW c \in Channels, Resync(c), overlapped' = overlapped
  PROVE  IInv' /\ EdgeShape' /\ Followed'
<1>1. /\ lagged' = [lagged EXCEPT ![c] = FALSE] /\ events' = events
      /\ UNCHANGED <<sessions, group_index>> /\ CoreWaits
  BY DEF Resync, CoreWaits
<1>2. ASSUME NEW p \in Ports
      PROVE  /\ Channel(p) # c => handles'[p] = handles[p]
             /\ Channel(p) = c /\ ~Routed(p) => handles'[p] = "absent"
             /\ Channel(p) = c /\ Routed(p) =>
                  handles'[p] = IF handles[p] = "absent" THEN "spawned" ELSE handles[p]
  BY DEF Resync, EdgeShape, EdgeTypeOK
<1>3. /\ handles' \in [Ports -> HandleStates] /\ lingering' \subseteq Ports
      /\ \A p \in TcpPorts : handles'[p] # "failed"
  <2>1. \A p \in Ports : handles'[p] \in {"absent", "spawned", handles[p]}
    BY <1>2
  <2>2. handles' = [p \in Ports |-> handles'[p]]
    BY DEF Resync
  <2>3. handles' \in [Ports -> HandleStates]
    BY <2>1, <2>2 DEF EdgeShape, EdgeTypeOK, HandleStates
  <2>4. lingering' \subseteq Ports
    BY DEF Resync, EdgeShape, EdgeTypeOK
  <2> QED BY <2>1, <2>3, <2>4 DEF EdgeShape, Ports
<1>4. IInv'
  <2>1. TypeOK'
    BY <1>1 DEF IInv, TypeOK, CoreWaits
  <2> QED BY <1>1, <2>1, TablesUntouched DEF CoreWaits
<1>5. EdgeShape'
  BY <1>1, <1>3 DEF EdgeShape, EdgeTypeOK
<1>6. lagged \in [Channels -> BOOLEAN] /\ \A p \in Ports : Channel(p) \in Channels
  BY DEF IInv, TypeOK, Channel, Channels
<1>7. \A d \in Channels \ {c} : lagged'[d] = lagged[d]
  BY <1>1, <1>6
<1>8. ASSUME NEW p \in Ports, ~Routed(p), Down(p) PROVE Down(p)'
  BY <1>1, <1>2, <1>6, <1>7, <1>8 DEF Down, Settles
<1>9. ASSUME NEW p \in TcpPorts, Routed(p), Up(p) PROVE Up(p)'
  <2>1. p \in Ports /\ handles[p] \in {"absent", "spawned", "bound"}
    BY DEF Ports, EdgeShape, EdgeTypeOK, HandleStates
  <2> QED BY <1>1, <1>2, <1>6, <1>7, <1>9, <2>1 DEF Up, Settles
<1>10. Followed'
  BY <1>1, <1>8, <1>9, EdgeFollows
<1> QED BY <1>4, <1>5, <1>10

\* A listener task binds its socket.
LEMMA BindKept ==
  ASSUME IInv, EdgeShape, Followed, NEW p \in Ports, Bind(p), overlapped' = overlapped
  PROVE  IInv' /\ EdgeShape' /\ Followed'
<1>1. UNCHANGED vars /\ lingering' = lingering /\ handles[p] = "spawned"
  BY DEF Bind
<1>2. CoreWaits /\ events' = events /\ lagged' = lagged
  BY <1>1 DEF vars, CoreWaits
<1>3. PICK h \in {"bound", "failed"} :
        handles' = [handles EXCEPT ![p] = h] /\ (p \in TcpPorts => h = "bound")
  BY PortsDisjoint DEF Bind
<1>4. /\ handles'[p] = h /\ \A r \in Ports \ {p} : handles'[r] = handles[r]
      /\ handles' \in [Ports -> HandleStates]
  BY <1>3 DEF EdgeShape, EdgeTypeOK, HandleStates
<1>5. IInv'
  <2>1. TypeOK'
    BY <1>1 DEF IInv, TypeOK, vars
  <2> QED BY <1>1, <2>1, TablesUntouched DEF vars
<1>6. EdgeShape'
  BY <1>1, <1>2, <1>3, <1>4 DEF EdgeShape, EdgeTypeOK, Ports
<1>7. ASSUME NEW r \in Ports, Down(r) PROVE Down(r)'
  BY <1>1, <1>2, <1>4, <1>7 DEF Down, Settles
<1>8. ASSUME NEW r \in TcpPorts, Up(r) PROVE Up(r)'
  BY <1>2, <1>3, <1>4, <1>8 DEF Up, Settles, Ports
<1>9. Followed'
  BY <1>2, <1>7, <1>8, EdgeFollows
<1> QED BY <1>5, <1>6, <1>9

\* The socket of an aborted listener is closed; or nothing happens at all.
LEMMA LingeringKept ==
  ASSUME IInv, EdgeShape, Followed, UNCHANGED <<vars, handles, overlapped>>, lingering' \subseteq lingering
  PROVE  IInv' /\ EdgeShape' /\ Followed'
<1>1. CoreWaits /\ events' = events /\ lagged' = lagged
  BY DEF vars, CoreWaits
<1>2. IInv'
  <2>1. TypeOK'
    BY DEF IInv, TypeOK, vars
  <2> QED BY <2>1, TablesUntouched DEF vars
<1>3. EdgeShape'
  BY <1>1 DEF EdgeShape, EdgeTypeOK
<1>4. \A r : (Down(r) => Down(r)') /\ (Up(r) => Up(r)')
  BY <1>1 DEF Down, Up
<1>5. Followed'
  BY <1>1, <1>4, EdgeFollows
<1> QED BY <1>2, <1>3, <1>5

-----------------------------------------------------------------------------
(* The theorems about the listeners. *)

\* At the start no port has a route or a listener.
LEMMA EdgeInitInv ==
  ASSUME Admins = {}, EdgeInit
  PROVE  ListenerInv
<1>1. IInv
  BY InitInv DEF EdgeInit
<1>2. /\ \A a \in Tasks : task[a].pc = "new" /\ a \in Sessions
      /\ \A p \in Ports : available[p] = 1 /\ ~Routed(p) /\ Members(p) = {} /\ handles[p] = "absent"
      /\ \A t \in Tunnels : tunnel_index[t] = None
      /\ \A c \in Channels : events[c] = <<>> /\ ~lagged[c]
      /\ \A s \in Sessions : tunnels[s] = {} /\ todo[s] = {}
  BY DEF EdgeInit, Init, Tasks, Rest, Local, Routed, Members, NoRoute
<1>3. EdgeShape
  <2>1. \A c \in Channels : \A i \in 1 .. Len(events[c]) : FALSE
    BY <1>2
  <2> QED BY <1>2, <2>1 DEF EdgeInit, EdgeShape, EdgeTypeOK, HandleStates, Ports
<1>4. OwnTunnels
  BY <1>2 DEF OwnTunnels, Registering, At, Tasks
<1>5. PlacesInv
  <2>1. \A p \in Ports : p # None /\ \A a \in Tasks : ~On(a, p) /\ ~Holds(a, p)
    BY <1>2, PortNoneIsNoValue DEF On, Holds, Engaged, Ports
  <2> QED BY <1>2, <2>1 DEF PlacesInv, Placed
<1>6. FollowsDown /\ FollowsUp
  <2>1. \A p \in Ports : Channel(p) \in Channels
    BY DEF Channel, Channels
  <2>2. \A p \in Ports : \A i \in 1 .. Len(events[Channel(p)]) : FALSE
    BY <1>2, <2>1
  <2>3. \A p \in Ports : Down(p)
    BY <1>2, <2>1, <2>2 DEF Down, Settles, EndsWith
  <2>4. \A a \in Tasks : task[a].pc \notin Leavers
    BY <1>2 DEF Leavers
  <2> QED BY <1>2, <2>3, <2>4 DEF FollowsDown, FollowsUp, Ports
<1> QED BY <1>1, <1>3, <1>4, <1>5, <1>6 DEF ListenerInv, Followed

\* Every step of the core and of the edge keeps the invariant.
LEMMA EdgeNextInv ==
  ASSUME Admins = {}, ListenerInv, [EdgeNext]_allVars
  PROVE  ListenerInv'
<1>1. IInv /\ EdgeShape /\ Followed
  BY DEF ListenerInv
<1>2. CASE Next /\ UNCHANGED <<handles, lingering>> /\ overlapped' = Overlap
  <2>1. EdgeWaits
    BY <1>2 DEF EdgeWaits
  <2>2. IInv'
    BY <1>1, <1>2, NextInv
  <2>3. EdgeShape'
    BY <1>1, <1>2, <2>1, NextShape
  <2>4. Followed'
    BY <1>1, <1>2, <2>1, NextFollowed
  <2> QED BY <2>2, <2>3, <2>4 DEF ListenerInv
<1>3. CASE EdgeStep /\ UNCHANGED overlapped
  <2>1. IInv' /\ EdgeShape' /\ Followed'
    BY <1>1, <1>3, RecvKept, ResyncKept, BindKept DEF EdgeStep
  <2> QED BY <2>1 DEF ListenerInv
<1>4. ASSUME NEW p \in Ports, CloseSocket(p), UNCHANGED overlapped PROVE ListenerInv'
  <2>1. IInv' /\ EdgeShape' /\ Followed'
    BY <1>1, <1>4, LingeringKept DEF CloseSocket
  <2> QED BY <2>1 DEF ListenerInv
<1>5. CASE UNCHANGED allVars
  <2>1. IInv' /\ EdgeShape' /\ Followed'
    BY <1>1, <1>5, LingeringKept DEF allVars, edgeVars
  <2> QED BY <2>1 DEF ListenerInv
<1> QED BY <1>2, <1>3, <1>4, <1>5 DEF EdgeNext

\* Where nobody force-closes a tunnel (force_close_tunnel between a registration's
\* index and its Registered leaves a listener without a route), the inductive
\* invariant of the core and the edge holds throughout.
THEOREM ListenerInvariant ==
  ASSUME Admins = {}
  PROVE  EdgeSpec => []ListenerInv
<1>1. EdgeInit => ListenerInv
  BY EdgeInitInv
<1>2. ListenerInv /\ [EdgeNext]_allVars => ListenerInv'
  BY EdgeNextInv
<1> QED BY <1>1, <1>2, PTL DEF EdgeSpec

\* There, once things have settled, a port is not listened on without a tunnel
\* behind it unless a group's join overlapped its removal, and a routed TCP port
\* is listened on unless operations overlapped: for any number of sessions, ports
\* and groups, however small the channel and whatever it lost to lag (run_tcp_edge,
\* run_udp_edge, resync_listeners).
THEOREM ListenersStayMatched ==
  ASSUME Admins = {}
  PROVE  EdgeSpec => []ListenersMatch
<1>1. ASSUME ListenerInv PROVE ListenersMatch
  <2>1. IInv /\ EdgeShape /\ FollowsDown /\ FollowsUp
    BY <1>1 DEF ListenerInv, Followed
  <2>2. ASSUME Quiet
        PROVE  /\ Overlap = overlapped
               /\ \A p : ~Leaving(p) /\ ~Arriving(p)
               /\ \A p \in Ports : /\ ~Speaks(events[Channel(p)], p) /\ ~lagged[Channel(p)]
                                   /\ handles[p] # "spawned"
    <3>1. \A a \in Tasks : task[a].pc \notin Leavers \cup Arrivers
      BY <2>2 DEF Quiet, Busy, Leavers, Arrivers
    <3>2. \A p \in Ports : Channel(p) \in Channels
      BY DEF Channel, Channels
    <3>3. \A c \in Channels : \A i \in 1 .. Len(events[c]) : FALSE
      BY <2>2 DEF Quiet
    <3>4. Overlap = overlapped
      BY <2>2 DEF Quiet, Overlap
    <3> QED BY <2>2, <3>1, <3>2, <3>3, <3>4 DEF Quiet, Leaving, Arriving, Speaks
  <2>3. EveryListenerHasTunnel
    <3> SUFFICES ASSUME Quiet, overlapped # "grouped", NEW p \in Ports, handles[p] = "bound", ~Routed(p)
                 PROVE  FALSE
      BY DEF EveryListenerHasTunnel
    <3>1. Down(p)
      BY <2>1, <2>2 DEF FollowsDown, Unmixed
    <3> QED BY <2>2, <3>1 DEF Down, Settles
  <2>4. TcpTunnelHasListener
    <3> SUFFICES ASSUME Quiet, overlapped = "none", NEW p \in TcpPorts, Routed(p)
                 PROVE  handles[p] = "bound"
      BY DEF TcpTunnelHasListener
    <3>1. Up(p) /\ p \in Ports
      BY <2>1, <2>2 DEF FollowsUp, Calm, Ports
    <3> QED BY <2>2, <3>1 DEF Up, Settles
  <2> QED BY <2>1, <2>3, <2>4 DEF ListenersMatch, EdgeShape
<1> QED BY <1>1, ListenerInvariant, PTL

\* With the edge at work, force-closes included, UDP ports are conserved as they
\* are without it.
THEOREM EdgeKeepsUdpPorts == EdgeSpec => []UdpPortsConserved
<1>1. EdgeInit => IInv
  BY InitInv DEF EdgeInit
<1>2. IInv /\ [EdgeNext]_allVars => IInv'
  <2> SUFFICES ASSUME IInv, [EdgeNext]_allVars PROVE IInv'
    OBVIOUS
  <2>1. CASE [Next]_vars
    BY <2>1, NextInv
  <2>2. ASSUME NEW c \in Channels, RecvEvent(c) PROVE IInv'
    <3>1. events[c] \in Seq(Event) /\ events[c] # <<>>
      BY <2>2 DEF RecvEvent, IInv, TypeOK
    <3>2. Tail(events[c]) \in Seq(Event)
      BY <3>1
    <3>3. TypeOK'
      BY <2>2, <3>2 DEF RecvEvent, IInv, TypeOK
    <3> QED BY <2>2, <3>3, TablesUntouched DEF RecvEvent
  <2>3. ASSUME NEW c \in Channels, Resync(c) PROVE IInv'
    <3>1. TypeOK'
      BY <2>3 DEF Resync, IInv, TypeOK
    <3> QED BY <2>3, <3>1, TablesUntouched DEF Resync
  <2>4. ASSUME NEW p \in Ports, Bind(p) \/ CloseSocket(p) PROVE [Next]_vars
    BY <2>4 DEF Bind, CloseSocket
  <2> QED BY <2>1, <2>2, <2>3, <2>4 DEF EdgeNext, EdgeStep, allVars
<1>3. IInv => UdpPortsConserved
  BY OwnedIsHeldOnce DEF UdpPortsConserved, SoloPorts
<1> QED BY <1>1, <1>2, <1>3, PTL DEF EdgeSpec

=============================================================================
