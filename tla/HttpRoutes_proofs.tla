-------------------------- MODULE HttpRoutes_proofs --------------------------
(***************************************************************************)
(* Proofs about HttpRoutes for every set of sessions, dashboard requests,  *)
(* tunnels, subdomains, keys and protocols.                                *)
(***************************************************************************)
EXTENDS HttpRoutes, TLAPS

-----------------------------------------------------------------------------
(* The inductive invariant.  TypeOK and HttpRouted do not carry themselves: *)
(* what keeps a route in place is what the tasks inside an operation hold.  *)

\* The task has a tunnel in its hands that is a member and is not indexed.
Holds(a) == task[a].pc \in {"index", "unmember"}

\* The locals of a task that is inside an operation are set.
FramesSet ==
  \A a \in Tasks : task[a].pc \in {"index", "unmember", "unroute"} =>
    /\ task[a].id \in Tunnels
    /\ task[a].key \in Subdomains
    /\ At(a, "index") => a \in Sessions

\* A tunnel in a task's hands is a member of its route and is not indexed.
HeldIsMember ==
  \A a \in Tasks : Holds(a) =>
    task[a].id \in Members(task[a].key) /\ tunnel_index[task[a].id] = None

\* No tunnel is in two tasks' hands.
HeldOnce ==
  \A a, b \in Tasks : Holds(a) /\ Holds(b) /\ task[a].id = task[b].id => a = b

\* A route about to be removed exists and is empty: this is what refuses joins.
UnroutedIsEmpty ==
  \A a \in Tasks : At(a, "unroute") =>
    Routed(task[a].key) /\ Members(task[a].key) = {}

\* No route is removed by two tasks.
UnroutedOnce ==
  \A a, b \in Tasks :
    At(a, "unroute") /\ At(b, "unroute") /\ task[a].key = task[b].key => a = b

\* Only an existing route has members, each registered for its subdomain.
MembersBelong ==
  \A sub \in Subdomains : \A t \in Members(sub) :
    Routed(sub) /\ info[t].subdomain = sub

\* A route without members is in some task's hands.
EmptyIsUnrouted ==
  \A sub \in Subdomains : Routed(sub) /\ Members(sub) = {} =>
    \E a \in Tasks : At(a, "unroute") /\ task[a].key = sub

Routing ==
  /\ FramesSet
  /\ HeldIsMember
  /\ HeldOnce
  /\ UnroutedIsEmpty
  /\ UnroutedOnce
  /\ MembersBelong
  /\ EmptyIsUnrouted
  /\ HttpRouted
  /\ SharingIsAgreed

RouteInv == TypeOK /\ Routing

\* The second half: how tunnels hang on to their sessions.

Listed(q, t) == \E i \in 1..Len(q) : q[i] = t

\* A session's task inside the table or outside it.
SessionPhase ==
  \A s \in Sessions :
    /\ task[s].pc \in {"idle", "index"} => s \in sessions
    /\ task[s].pc \in {"new", "closing", "done"} => s \notin sessions

\* The tunnel a task is about to index is its own.
IndexesOwn == \A s \in Sessions : At(s, "index") => info[task[s].id].session = s

\* A session lists every tunnel it owns, but for the one it is registering.
OwnedIsListed ==
  \A s \in Sessions, t \in Tunnels : info[t].session = s =>
    Listed(tunnels[s], t) \/ (At(s, "index") /\ task[s].id = t)

\* What remove_session has still to visit holds every tunnel still indexed.
IndexedIsTodo ==
  \A s \in Sessions, t \in Tunnels :
    /\ At(s, "done") => todo[s] = <<>>
    /\ s \notin sessions /\ info[t].session = s /\ tunnel_index[t] # None =>
         Listed(todo[s], t)

\* A member that is not indexed is in a task's hands.
MemberIsReachable ==
  \A sub \in Subdomains : \A t \in Members(sub) :
    tunnel_index[t] # None \/ \E a \in Tasks : Holds(a) /\ task[a].id = t

SessionInv ==
  /\ SessionPhase
  /\ IndexesOwn
  /\ OwnedIsListed
  /\ IndexedIsTodo
  /\ MemberIsReachable

IInv == RouteInv /\ SessionInv

-----------------------------------------------------------------------------
(* Steps that do the same to the routing half of the invariant.             *)

\* A task that holds nothing before and after a step leaves the tables alone
\* (register_session, remove_session, the end of its loop).
LEMMA EmptyHanded ==
  ASSUME RouteInv, TypeOK',
         NEW a \in Tasks, NEW pc \in {"idle", "closing", "done"},
         task[a].pc \in {"new", "idle", "closing"}, Goto(a, pc, None, None),
         UNCHANGED <<info, http_routes, tunnel_index>>
  PROVE  Routing'
<1> USE DEF RouteInv, Routing, TypeOK, Frame, Goto, Local, At, Routed, Members, Holds
<1>1. FramesSet' /\ HeldIsMember' /\ HeldOnce'
  BY DEF FramesSet, HeldIsMember, HeldOnce
<1>2. UnroutedIsEmpty' /\ UnroutedOnce'
  BY DEF UnroutedIsEmpty, UnroutedOnce
<1>3. EmptyIsUnrouted'
  <2> SUFFICES ASSUME NEW sub \in Subdomains, Routed(sub), Members(sub) = {}
               PROVE  \E b \in Tasks : At(b, "unroute")' /\ task'[b].key = sub
    BY DEF EmptyIsUnrouted
  <2>1. PICK b \in Tasks : At(b, "unroute") /\ task[b].key = sub
    BY DEF EmptyIsUnrouted
  <2>2. b # a /\ task'[b] = task[b]
    BY <2>1
  <2> QED BY <2>1, <2>2
<1>4. MembersBelong' /\ HttpRouted' /\ SharingIsAgreed'
  BY DEF MembersBelong, HttpRouted, SharingIsAgreed
<1> QED BY <1>1, <1>2, <1>3, <1>4

\* Nothing the routing half speaks of changes.
LEMMA RoutingUntouched ==
  ASSUME RouteInv, UNCHANGED <<info, http_routes, tunnel_index, task>>
  PROVE  Routing'
BY DEF RouteInv, Routing, FramesSet, HeldIsMember, HeldOnce, UnroutedIsEmpty, UnroutedOnce,
       MembersBelong, EmptyIsUnrouted, HttpRouted, SharingIsAgreed, At, Routed, Members, Holds

\* A task takes a tunnel out of the index: nobody else holds it, since a held
\* tunnel is not indexed, and it is a member, since an indexed one is.
LEMMA UnindexStep ==
  ASSUME RouteInv, TypeOK',
         NEW a \in Tasks, NEW t \in Tunnels,
         task[a].pc \in {"idle", "closing"}, Unindex(a, t),
         UNCHANGED <<info, http_routes>>
  PROVE  Routing'
<1> USE NoneIsNoValue
    DEF RouteInv, Routing, TypeOK, Frame, Unindex, Goto, Local, At, Routed, Members, Holds
<1>1. FramesSet'
  BY DEF FramesSet
<1>2. HeldIsMember' /\ HeldOnce'
  BY DEF FramesSet, HeldIsMember, HeldOnce, HttpRouted
<1>3. UnroutedIsEmpty' /\ UnroutedOnce'
  BY DEF UnroutedIsEmpty, UnroutedOnce
<1>4. EmptyIsUnrouted'
  <2> SUFFICES ASSUME NEW sub \in Subdomains, Routed(sub), Members(sub) = {}
               PROVE  \E b \in Tasks : At(b, "unroute")' /\ task'[b].key = sub
    BY DEF EmptyIsUnrouted
  <2>1. PICK b \in Tasks : At(b, "unroute") /\ task[b].key = sub
    BY DEF EmptyIsUnrouted
  <2>2. b # a /\ task'[b] = task[b]
    BY <2>1
  <2> QED BY <2>1, <2>2
<1>5. MembersBelong' /\ HttpRouted' /\ SharingIsAgreed'
  BY DEF MembersBelong, HttpRouted, SharingIsAgreed
<1> QED BY <1>1, <1>2, <1>3, <1>4, <1>5

-----------------------------------------------------------------------------
(* The routing half is inductive.                                           *)

\* Changing the members of a group leaves a group.
LEMMA MembersUpdate ==
  ASSUME http_routes \in [Subdomains -> Group],
         NEW sub \in Subdomains, NEW S \in SUBSET Tunnels
  PROVE  [http_routes EXCEPT ![sub].members = S] \in [Subdomains -> Group]
<1> DEFINE g == [http_routes[sub] EXCEPT !.members = S]
<1>1. http_routes[sub] \in Group
  OBVIOUS
<1>2. g = [present |-> http_routes[sub].present, key_hash |-> http_routes[sub].key_hash,
           members |-> S]
  BY <1>1 DEF Group
<1>3. g \in Group
  BY <1>1, <1>2 DEF Group
<1> QED BY <1>3

\* The routing half holds before anybody has connected.
LEMMA RouteInit == Init => RouteInv
BY NoneIsNoValue
DEF Init, RouteInv, Routing, TypeOK, Tasks, Local, NoInfo, NoRoute, Info, Group, Frame, PCs,
    Replies, FramesSet, HeldIsMember, HeldOnce, UnroutedIsEmpty, UnroutedOnce, MembersBelong,
    EmptyIsUnrouted, HttpRouted, SharingIsAgreed, At, Routed, Members, Holds

\* An id that was never handed out is in no task's hands.
LEMMA FreshIsUnheld ==
  ASSUME RouteInv, NEW t \in Tunnels, info[t] = NoInfo
  PROVE  \A b \in Tasks : Holds(b) => task[b].id # t
<1> SUFFICES ASSUME NEW b \in Tasks, Holds(b), task[b].id = t PROVE FALSE
  OBVIOUS
<1>1. task[b].key \in Subdomains /\ t \in Members(task[b].key)
  BY DEF RouteInv, Routing, FramesSet, HeldIsMember, Holds
<1>2. info[t].subdomain = task[b].key
  BY <1>1 DEF RouteInv, Routing, MembersBelong
<1> QED BY <1>1, <1>2, NoneIsNoValue DEF NoInfo

\* A new group with its first member, in a place where there was none.
LEMMA CreateRouteStep ==
  ASSUME RouteInv,
         NEW s \in Sessions, NEW t \in Tunnels, NEW sub \in Subdomains,
         NEW p \in Protocols, NEW k \in Keys \cup {None}, CreateRoute(s, t, sub, p, k)
  PROVE  RouteInv'
<1> s \in Tasks
  BY DEF Tasks
<1> USE NoneIsNoValue
    DEF RouteInv, Routing, TypeOK, Frame, CreateRoute, Mint, Goto, Local, At, Routed, Members,
        Holds
<1>1. TypeOK'
  BY DEF Info, Group, PCs
<1>2. FramesSet' /\ HeldIsMember'
  BY <1>1 DEF FramesSet, HeldIsMember, MembersBelong, HttpRouted, NoInfo
<1>3. HeldOnce'
  BY <1>1, FreshIsUnheld DEF HeldOnce
<1>4. UnroutedIsEmpty' /\ UnroutedOnce'
  BY <1>1 DEF FramesSet, UnroutedIsEmpty, UnroutedOnce
<1>5. MembersBelong'
  BY <1>1 DEF MembersBelong, NoInfo, Group
<1>6. EmptyIsUnrouted'
  BY <1>1 DEF EmptyIsUnrouted, Group
<1>7. HttpRouted'
  BY <1>1 DEF HttpRouted, MembersBelong, NoInfo
<1>8. SharingIsAgreed'
  BY <1>1 DEF SharingIsAgreed, MembersBelong, NoInfo
<1> QED BY <1>1, <1>2, <1>3, <1>4, <1>5, <1>6, <1>7, <1>8

\* One more member of a group that has some: a group that is being taken down
\* has none, so ProtocolMatches keeps it from being joined.
LEMMA JoinRouteStep ==
  ASSUME RouteInv,
         NEW s \in Sessions, NEW t \in Tunnels, NEW sub \in Subdomains,
         NEW p \in Protocols, NEW k \in Keys \cup {None}, JoinRoute(s, t, sub, p, k)
  PROVE  RouteInv'
<1> s \in Tasks
  BY DEF Tasks
<1> USE NoneIsNoValue
    DEF RouteInv, Routing, TypeOK, Frame, JoinRoute, Mint, Goto, Local, At, Routed, Members,
        Holds
<1>1. TypeOK'
  <2>1. http_routes' \in [Subdomains -> Group]
    <3>1. http_routes[sub].members \cup {t} \in SUBSET Tunnels
      BY DEF Group
    <3> QED BY <3>1, MembersUpdate
  <2>2. info' \in [Tunnels -> Info]
    BY DEF Info
  <2> QED BY <2>1, <2>2 DEF PCs
<1>2. FramesSet' /\ HeldIsMember'
  BY <1>1 DEF FramesSet, HeldIsMember, MembersBelong, HttpRouted, NoInfo
<1>3. HeldOnce'
  BY <1>1, FreshIsUnheld DEF HeldOnce
<1>4. UnroutedIsEmpty' /\ UnroutedOnce'
  BY <1>1 DEF FramesSet, UnroutedIsEmpty, UnroutedOnce, ProtocolMatches
<1>5. MembersBelong'
  BY <1>1 DEF MembersBelong, NoInfo, Group
<1>6. EmptyIsUnrouted'
  BY <1>1 DEF EmptyIsUnrouted, Group
<1>7. HttpRouted'
  BY <1>1 DEF HttpRouted, MembersBelong, NoInfo
<1>8. SharingIsAgreed'
  BY <1>1 DEF SharingIsAgreed, MembersBelong, NoInfo, KeyMatches, ProtocolMatches
<1> QED BY <1>1, <1>2, <1>3, <1>4, <1>5, <1>6, <1>7, <1>8

\* The tunnel leaves the task's hands and goes into the index.
LEMMA IndexTunnelStep ==
  ASSUME RouteInv, NEW s \in Sessions, IndexTunnel(s)
  PROVE  RouteInv'
<1> s \in Tasks
  BY DEF Tasks
<1> USE NoneIsNoValue
    DEF RouteInv, Routing, TypeOK, Frame, IndexTunnel, Goto, Local, At, Routed, Members, Holds
<1>1. TypeOK'
  BY DEF FramesSet, PCs, Replies
<1>2. FramesSet' /\ HeldIsMember' /\ HeldOnce'
  BY <1>1 DEF FramesSet, HeldIsMember, HeldOnce
<1>3. UnroutedIsEmpty' /\ UnroutedOnce'
  BY <1>1 DEF UnroutedIsEmpty, UnroutedOnce
<1>4. EmptyIsUnrouted'
  BY <1>1 DEF EmptyIsUnrouted
<1>5. HttpRouted'
  BY <1>1 DEF FramesSet, HeldIsMember, MembersBelong, HttpRouted
<1>6. MembersBelong' /\ SharingIsAgreed'
  BY DEF MembersBelong, SharingIsAgreed
<1> QED BY <1>1, <1>2, <1>3, <1>4, <1>5, <1>6

\* The member leaves the group.  If it was the last one the task now holds the
\* empty route; it is the only one, since the route was not empty before.
LEMMA RemoveMemberStep ==
  ASSUME RouteInv, NEW a \in Tasks, RemoveMember(a)
  PROVE  RouteInv'
<1> DEFINE t == task[a].id
           sub == task[a].key
           left == Members(sub) \ {t}
<1> USE NoneIsNoValue DEF RouteInv, Routing, At, Routed, Members, Holds
<1>1. At(a, "unmember") /\ t \in Tunnels /\ sub \in Subdomains /\ t \in Members(sub)
      /\ tunnel_index[t] = None
  BY DEF RemoveMember, FramesSet, HeldIsMember
<1>2. /\ http_routes' = [http_routes EXCEPT ![sub].members = left]
      /\ UNCHANGED <<sessions, tunnels, info, tunnel_index, todo, reply>>
  BY DEF RemoveMember
<1>3. http_routes' \in [Subdomains -> Group]
  <2>1. left \in SUBSET Tunnels
    BY <1>1 DEF TypeOK, Group
  <2> QED BY <1>1, <1>2, <2>1, MembersUpdate DEF TypeOK
<1>4. \A d \in Subdomains : /\ Routed(d)' = Routed(d)
                            /\ Members(d)' = IF d = sub THEN left ELSE Members(d)
  BY <1>1, <1>2 DEF TypeOK, Group
<1>5. MembersBelong' /\ SharingIsAgreed' /\ HttpRouted'
  <2>1. MembersBelong'
    BY <1>1, <1>2, <1>4 DEF MembersBelong
  <2>2. SharingIsAgreed'
    BY <1>1, <1>2 DEF SharingIsAgreed, TypeOK, Group
  <2>3. HttpRouted'
    BY <1>1, <1>2, <1>4 DEF HttpRouted, TypeOK
  <2> QED BY <2>1, <2>2, <2>3
<1>6. \A b \in Tasks : At(b, "unroute") => task[b].key # sub
  BY <1>1 DEF UnroutedIsEmpty
<1>7. CASE left = {}
  <2>1. task' = [task EXCEPT ![a] = Local("unroute", t, sub)]
    BY <1>7 DEF RemoveMember, Goto
  <2>2. TypeOK'
    BY <1>1, <1>2, <1>3, <2>1 DEF TypeOK, Local, Frame, PCs
  <2>3. FramesSet' /\ HeldIsMember' /\ HeldOnce'
    <3> USE <2>1, <1>1 DEF Local, TypeOK
    <3>1. FramesSet'
      BY DEF FramesSet
    <3>2. HeldOnce'
      BY DEF HeldOnce
    <3>3. HeldIsMember'
      BY <1>2, <1>4, <3>1 DEF HeldIsMember, HeldOnce, FramesSet
    <3> QED BY <3>1, <3>2, <3>3
  <2>4. UnroutedIsEmpty' /\ UnroutedOnce'
    <3> USE <2>1, <1>1, <1>6 DEF Local, TypeOK
    <3>1. UnroutedOnce'
      BY DEF UnroutedOnce
    <3>2. Routed(sub)
      BY DEF MembersBelong
    <3>3. UnroutedIsEmpty'
      BY <1>4, <1>7, <3>2 DEF UnroutedIsEmpty, FramesSet
    <3> QED BY <3>1, <3>3
  <2>5. EmptyIsUnrouted'
    <3> SUFFICES ASSUME NEW d \in Subdomains, Routed(d)', Members(d)' = {}
                 PROVE  \E b \in Tasks : At(b, "unroute")' /\ task'[b].key = d
      BY DEF EmptyIsUnrouted
    <3>1. CASE d = sub
      BY <2>1, <3>1 DEF Local, TypeOK
    <3>2. CASE d # sub
      <4>1. PICK b \in Tasks : At(b, "unroute") /\ task[b].key = d
        BY <3>2, <1>4 DEF EmptyIsUnrouted
      <4> QED BY <4>1, <2>1, <1>1 DEF TypeOK
    <3> QED BY <3>1, <3>2
  <2> QED BY <1>5, <2>2, <2>3, <2>4, <2>5
<1>8. CASE left # {}
  <2>1. task' = [task EXCEPT ![a] = Local(Resume(a), None, None)]
    BY <1>8 DEF RemoveMember, Goto
  <2>2. Resume(a) \in {"idle", "closing"}
    BY DEF Resume
  <2>3. TypeOK'
    BY <1>1, <1>2, <1>3, <2>1, <2>2 DEF TypeOK, Local, Frame, PCs
  <2>4. FramesSet' /\ HeldIsMember' /\ HeldOnce'
    <3> USE <2>1, <2>2, <1>1 DEF Local, TypeOK
    <3>1. FramesSet'
      BY DEF FramesSet
    <3>2. HeldOnce'
      BY DEF HeldOnce
    <3>3. HeldIsMember'
      BY <1>2, <1>4, <3>1 DEF HeldIsMember, HeldOnce, FramesSet
    <3> QED BY <3>1, <3>2, <3>3
  <2>5. UnroutedIsEmpty' /\ UnroutedOnce'
    <3> USE <2>1, <2>2, <1>1, <1>6 DEF Local, TypeOK
    <3>1. UnroutedOnce'
      BY DEF UnroutedOnce
    <3>2. UnroutedIsEmpty'
      BY <1>4 DEF UnroutedIsEmpty, FramesSet
    <3> QED BY <3>1, <3>2
  <2>6. EmptyIsUnrouted'
    <3> SUFFICES ASSUME NEW d \in Subdomains, Routed(d)', Members(d)' = {}
                 PROVE  \E b \in Tasks : At(b, "unroute")' /\ task'[b].key = d
      BY DEF EmptyIsUnrouted
    <3>1. d # sub
      BY <1>4, <1>8
    <3>2. PICK b \in Tasks : At(b, "unroute") /\ task[b].key = d
      BY <3>1, <1>4 DEF EmptyIsUnrouted
    <3> QED BY <3>2, <2>1, <1>1 DEF TypeOK
  <2> QED BY <1>5, <2>3, <2>4, <2>5, <2>6
<1> QED BY <1>7, <1>8

\* The empty route goes; nobody was a member of it.
LEMMA RemoveRouteStep ==
  ASSUME RouteInv, NEW a \in Tasks, RemoveRoute(a)
  PROVE  RouteInv'
<1> USE NoneIsNoValue DEF RouteInv, Routing, At, Routed, Members, Holds
<1> DEFINE sub == task[a].key
<1>1. At(a, "unroute") /\ sub \in Subdomains /\ Members(sub) = {}
  BY DEF RemoveRoute, FramesSet, UnroutedIsEmpty
<1>2. /\ http_routes' = [http_routes EXCEPT ![sub] = NoRoute]
      /\ UNCHANGED <<sessions, tunnels, info, tunnel_index, todo, reply>>
      /\ task' = [task EXCEPT ![a] = Local(Resume(a), None, None)]
  BY DEF RemoveRoute, Goto
<1>3. Resume(a) \in {"idle", "closing"}
  BY DEF Resume
<1>4. TypeOK'
  BY <1>1, <1>2, <1>3 DEF TypeOK, Group, NoRoute, Local, Frame, PCs
<1>5. \A d \in Subdomains : /\ Members(d)' = Members(d)
                            /\ Routed(d)' <=> Routed(d) /\ d # sub
  BY <1>1, <1>2 DEF NoRoute, TypeOK, Group
<1>6. FramesSet' /\ HeldIsMember' /\ HeldOnce'
  <2> USE <1>1, <1>2, <1>3 DEF Local, TypeOK
  <2>1. FramesSet' /\ HeldOnce'
    BY DEF FramesSet, HeldOnce
  <2>2. HeldIsMember'
    BY <1>5, <2>1 DEF HeldIsMember, FramesSet
  <2> QED BY <2>1, <2>2
<1>7. UnroutedIsEmpty' /\ UnroutedOnce'
  BY <1>1, <1>2, <1>3, <1>5 DEF UnroutedIsEmpty, UnroutedOnce, FramesSet, Local, TypeOK
<1>8. EmptyIsUnrouted'
  <2> SUFFICES ASSUME NEW d \in Subdomains, Routed(d)', Members(d)' = {}
               PROVE  \E b \in Tasks : At(b, "unroute")' /\ task'[b].key = d
    BY DEF EmptyIsUnrouted
  <2>1. PICK b \in Tasks : At(b, "unroute") /\ task[b].key = d
    BY <1>5 DEF EmptyIsUnrouted
  <2>2. b # a
    BY <1>5, <2>1
  <2> QED BY <2>1, <2>2, <1>2 DEF TypeOK
<1>9. MembersBelong'
  BY <1>1, <1>2, <1>5 DEF MembersBelong
<1>10. HttpRouted'
  BY <1>2, <1>5 DEF HttpRouted, TypeOK
<1>11. SharingIsAgreed'
  BY <1>1, <1>2, <1>5 DEF SharingIsAgreed, NoRoute, TypeOK, Group
<1> QED BY <1>4, <1>6, <1>7, <1>8, <1>9, <1>10, <1>11

\* Every step keeps the routing half.
LEMMA RouteStep == RouteInv /\ [Next]_vars => RouteInv'
<1> SUFFICES ASSUME RouteInv, [Next]_vars PROVE RouteInv'
  OBVIOUS
<1> USE DEF RouteInv
<1>1. ASSUME NEW s \in Sessions, RegisterSession(s) PROVE RouteInv'
  <2>1. TypeOK'
    BY <1>1 DEF RegisterSession, TypeOK, Goto, Local, Frame, PCs, Tasks
  <2> QED BY <1>1, <2>1, EmptyHanded DEF RegisterSession, At, Tasks
<1>2. ASSUME NEW s \in Sessions, Register(s) PROVE RouteInv'
  <2>1. ASSUME NEW l \in Subdomains \cup BadLabels, NEW p \in Protocols,
               NEW k \in Keys \cup {None}, RefuseRegistration(s, l, p, k)
        PROVE  RouteInv'
    <3>1. TypeOK'
      BY <2>1 DEF RefuseRegistration, TypeOK, Refusal, Replies
    <3> QED BY <2>1, <3>1, RoutingUntouched DEF RefuseRegistration
  <2> QED BY <1>2, <2>1, CreateRouteStep, JoinRouteStep DEF Register
<1>3. ASSUME NEW s \in Sessions, IndexTunnel(s) PROVE RouteInv'
  BY <1>3, IndexTunnelStep
<1>4. ASSUME NEW s \in Sessions, RemoveSession(s) PROVE RouteInv'
  <2>1. TypeOK'
    BY <1>4 DEF RemoveSession, TypeOK, Goto, Local, Frame, PCs, Tasks
  <2> QED BY <1>4, <2>1, EmptyHanded DEF RemoveSession, At, Tasks
<1>5. ASSUME NEW s \in Sessions, CloseNext(s) PROVE RouteInv'
  <2>1. Head(todo[s]) \in Tunnels /\ todo' \in [Sessions -> Seq(Tunnels)]
    BY <1>5 DEF CloseNext, TypeOK
  <2>2. CASE Unindex(s, Head(todo[s]))
    <3>1. TypeOK'
      BY <1>5, <2>1, <2>2 DEF CloseNext, Unindex, TypeOK, Goto, Local, Frame, PCs, Tasks
    <3> QED BY <1>5, <2>1, <2>2, <3>1, UnindexStep DEF CloseNext, At, Tasks
  <2>3. CASE UNCHANGED <<tunnel_index, task>>
    <3>1. TypeOK'
      BY <1>5, <2>1, <2>3 DEF CloseNext, TypeOK
    <3> QED BY <1>5, <2>3, <3>1, RoutingUntouched DEF CloseNext
  <2> QED BY <1>5, <2>2, <2>3 DEF CloseNext
<1>6. ASSUME NEW s \in Sessions, CloseDone(s) PROVE RouteInv'
  <2>1. TypeOK'
    BY <1>6 DEF CloseDone, TypeOK, Goto, Local, Frame, PCs, Tasks
  <2> QED BY <1>6, <2>1, EmptyHanded DEF CloseDone, At, Tasks
<1>7. ASSUME NEW a \in Tasks, NEW t \in Tunnels, RemoveTunnel(a, t) PROVE RouteInv'
  <2>1. TypeOK'
    BY <1>7 DEF RemoveTunnel, Unindex, TypeOK, Goto, Local, Frame, PCs
  <2> QED BY <1>7, <2>1, UnindexStep DEF RemoveTunnel, At
<1>8. ASSUME NEW a \in Tasks, RemovalStep(a) PROVE RouteInv'
  BY <1>8, RemoveMemberStep, RemoveRouteStep DEF RemovalStep
<1>9. ASSUME UNCHANGED vars PROVE RouteInv'
  <2>1. TypeOK'
    BY <1>9 DEF vars, TypeOK
  <2> QED BY <1>9, <2>1, RoutingUntouched DEF vars
<1> QED
  BY <1>1, <1>2, <1>3, <1>4, <1>5, <1>6, <1>7, <1>8, <1>9 DEF Next, SessionStep

-----------------------------------------------------------------------------
(* Theorems *)

\* The routing half holds in every state.
THEOREM RouteInvariant == Spec => []RouteInv
BY RouteInit, RouteStep, PTL DEF Spec

\* Every variable keeps the shape of the Rust value it stands for, through every
\* step of TunnelCore's HTTP operations.
THEOREM TypeCorrect == Spec => []TypeOK
BY RouteInvariant, PTL DEF RouteInv

\* A tunnel in tunnel_index is a member of the route of its subdomain, however
\* registrations and removals of any number of tasks interleave.
THEOREM IndexedIsServed == Spec => []HttpRouted
BY RouteInvariant, PTL DEF RouteInv, Routing

\* A solo route has one owner and the members of a pool speak one protocol.
THEOREM SharingHolds == Spec => []SharingIsAgreed
BY RouteInvariant, PTL DEF RouteInv, Routing

\* An empty route is in the hands of exactly one remove_tunnel.
THEOREM EmptyRouteIsRemoved == Spec => []EmptyRouteHasRemover
<1>1. RouteInv => EmptyRouteHasRemover
  <2> SUFFICES ASSUME RouteInv, NEW sub \in Subdomains, Routed(sub), Members(sub) = {}
               PROVE  \E a \in Tasks :
                        /\ At(a, "unroute") /\ task[a].key = sub
                        /\ \A b \in Tasks : At(b, "unroute") /\ task[b].key = sub => b = a
    BY DEF EmptyRouteHasRemover
  <2>1. PICK a \in Tasks : At(a, "unroute") /\ task[a].key = sub
    BY DEF RouteInv, Routing, EmptyIsUnrouted
  <2> QED BY <2>1 DEF RouteInv, Routing, UnroutedOnce
<1> QED BY <1>1, RouteInvariant, PTL

\* http_routes.remove takes no route that has a member.
THEOREM RemovedRoutesAreEmpty == Spec => OnlyEmptyRoutesGo
<1> DEFINE Gone == \A sub \in Subdomains : Routed(sub) /\ ~Routed(sub)' => Members(sub) = {}
<1>1. RouteInv /\ [Next]_vars => [Gone]_vars
  <2> SUFFICES ASSUME RouteInv, Next, NEW sub \in Subdomains, Routed(sub), ~Routed(sub)'
               PROVE  Members(sub) = {}
    OBVIOUS
  <2> USE DEF RouteInv, TypeOK, Routed, Members
  <2>1. ASSUME NEW s \in Sessions, Register(s) PROVE FALSE
    <3>1. ASSUME NEW t \in Tunnels, NEW d \in Subdomains, NEW p \in Protocols,
                 NEW k \in Keys \cup {None}, CreateRoute(s, t, d, p, k)
          PROVE  FALSE
      BY <3>1 DEF CreateRoute, Group
    <3>2. ASSUME NEW t \in Tunnels, NEW d \in Subdomains, NEW p \in Protocols,
                 NEW k \in Keys \cup {None}, JoinRoute(s, t, d, p, k)
          PROVE  FALSE
      BY <3>2 DEF JoinRoute, Group
    <3> QED BY <2>1, <3>1, <3>2 DEF Register, RefuseRegistration
  <2>2. ASSUME NEW a \in Tasks, RemoveMember(a) PROVE FALSE
    BY <2>2 DEF RemoveMember, Group, Routing, FramesSet
  <2>3. ASSUME NEW a \in Tasks, RemoveRoute(a) PROVE Members(sub) = {}
    BY <2>3 DEF RemoveRoute, Routing, UnroutedIsEmpty, FramesSet
  <2>4. UNCHANGED http_routes => FALSE
    OBVIOUS
  <2> QED
    BY <2>1, <2>2, <2>3, <2>4
    DEF Next, SessionStep, RemovalStep, RegisterSession, IndexTunnel, RemoveSession, CloseNext,
        CloseDone, RemoveTunnel
<1> QED BY <1>1, RouteInvariant, PTL DEF Spec, OnlyEmptyRoutesGo

-----------------------------------------------------------------------------
(* The session half: what remove_session leaves behind.                     *)

\* An appended id is listed, and so is what was listed before.
LEMMA ListedAppend ==
  ASSUME NEW q \in Seq(Tunnels), NEW t \in Tunnels, NEW u \in Tunnels,
         Listed(q, t) \/ t = u
  PROVE  Listed(Append(q, u), t)
<1>1. CASE Listed(q, t)
  <2>1. PICK i \in 1..Len(q) : q[i] = t
    BY <1>1 DEF Listed
  <2>2. i \in 1..Len(Append(q, u)) /\ Append(q, u)[i] = t
    BY <2>1
  <2> QED BY <2>2 DEF Listed
<1>2. CASE t = u
  <2>1. Len(q) + 1 \in 1..Len(Append(q, u)) /\ Append(q, u)[Len(q) + 1] = t
    BY <1>2
  <2> QED BY <2>1 DEF Listed
<1> QED BY <1>1, <1>2

\* What is listed and is not the head is listed in the tail.
LEMMA ListedTail ==
  ASSUME NEW q \in Seq(Tunnels), q # <<>>, NEW t \in Tunnels, Listed(q, t), t # Head(q)
  PROVE  Listed(Tail(q), t)
<1>1. PICK i \in 1..Len(q) : q[i] = t
  BY DEF Listed
<1>2. i # 1
  BY <1>1
<1>3. i - 1 \in 1..Len(Tail(q)) /\ Tail(q)[i - 1] = t
  BY <1>1, <1>2
<1> QED BY <1>3 DEF Listed

\* The session half holds before anybody has connected.
LEMMA SessionInit == Init => SessionInv
BY NoneIsNoValue
DEF Init, SessionInv, SessionPhase, IndexesOwn, OwnedIsListed, IndexedIsTodo, MemberIsReachable,
    Tasks, Local, NoInfo, NoRoute, At, Members, Holds

\* A task that holds nothing before and after a step, and keeps its session in
\* the table or out of it.
LEMMA EmptyHandedSession ==
  ASSUME IInv, RouteInv',
         NEW a \in Tasks, NEW pc \in {"idle", "closing", "done"},
         task[a].pc \in {"new", "idle", "closing"}, Goto(a, pc, None, None),
         UNCHANGED <<info, http_routes, tunnel_index, tunnels>>
  PROVE  IndexesOwn' /\ OwnedIsListed' /\ MemberIsReachable'
<1> USE DEF IInv, RouteInv, SessionInv, TypeOK, Frame, Goto, Local, At, Members, Holds, Tasks
<1>1. IndexesOwn'
  BY DEF IndexesOwn
<1>2. OwnedIsListed'
  BY DEF OwnedIsListed, Listed
<1>3. MemberIsReachable'
  <2> SUFFICES ASSUME NEW sub \in Subdomains, NEW t \in Members(sub), tunnel_index[t] = None
               PROVE  \E b \in Tasks : Holds(b)' /\ task'[b].id = t
    BY DEF MemberIsReachable
  <2>1. PICK b \in Tasks : Holds(b) /\ task[b].id = t
    BY DEF MemberIsReachable
  <2> QED BY <2>1
<1> QED BY <1>1, <1>2, <1>3

\* A task takes a tunnel out of the index and into its hands.
LEMMA UnindexSession ==
  ASSUME IInv, RouteInv',
         NEW a \in Tasks, NEW t \in Tunnels,
         task[a].pc \in {"idle", "closing"}, Unindex(a, t),
         UNCHANGED <<sessions, info, http_routes, tunnels>>
  PROVE  SessionPhase' /\ IndexesOwn' /\ OwnedIsListed' /\ MemberIsReachable'
<1> USE DEF IInv, RouteInv, SessionInv, TypeOK, Frame, Unindex, Goto, Local, At, Members, Holds,
            Tasks
<1>1. SessionPhase'
  BY DEF SessionPhase
<1>2. IndexesOwn'
  BY DEF IndexesOwn
<1>3. OwnedIsListed'
  BY DEF OwnedIsListed, Listed
<1>4. MemberIsReachable'
  <2> SUFFICES ASSUME NEW sub \in Subdomains, NEW u \in Members(sub), tunnel_index'[u] = None
               PROVE  \E b \in Tasks : Holds(b)' /\ task'[b].id = u
    BY DEF MemberIsReachable
  <2>1. CASE u = t
    BY <2>1
  <2>2. CASE u # t
    <3>1. u \in Tunnels
      BY DEF Group
    <3>2. PICK b \in Tasks : Holds(b) /\ task[b].id = u
      BY <2>2, <3>1 DEF MemberIsReachable
    <3> QED BY <3>2
  <2> QED BY <2>1, <2>2
<1> QED BY <1>1, <1>2, <1>3, <1>4

\* A registration of either kind: t is new, s holds it, and s is in the table.
LEMMA RegistrationSession ==
  ASSUME IInv, RouteInv',
         NEW s \in Sessions, NEW t \in Tunnels, NEW sub \in Subdomains, NEW p \in Protocols,
         At(s, "idle"), Mint(s, t, p, sub), Goto(s, "index", t, sub),
         \A d \in Subdomains : Members(d)' \subseteq Members(d) \cup {t},
         UNCHANGED <<sessions, tunnels, tunnel_index, todo>>
  PROVE  SessionInv'
<1> USE DEF IInv, RouteInv, SessionInv, TypeOK, Frame, Mint, Goto, Local, At, Holds, Tasks
<1>1. SessionPhase'
  BY DEF SessionPhase
<1>2. IndexesOwn'
  <2> SUFFICES ASSUME NEW r \in Sessions, At(r, "index")'
               PROVE  info'[task'[r].id].session = r
    BY DEF IndexesOwn
  <2>1. CASE r = s
    BY <2>1
  <2>2. CASE r # s
    <3>1. task[r].id # t /\ task'[r] = task[r] /\ At(r, "index")
      BY <2>2, FreshIsUnheld
    <3> QED BY <3>1 DEF IndexesOwn
  <2> QED BY <2>1, <2>2
<1>3. OwnedIsListed'
  <2> SUFFICES ASSUME NEW r \in Sessions, NEW u \in Tunnels, info'[u].session = r
               PROVE  Listed(tunnels[r], u) \/ (At(r, "index")' /\ task'[r].id = u)
    BY DEF OwnedIsListed, Listed
  <2>1. CASE u = t
    BY <2>1
  <2>2. CASE u # t
    BY <2>2 DEF OwnedIsListed
  <2> QED BY <2>1, <2>2
<1>4. IndexedIsTodo'
  <2>1. s \in sessions
    BY DEF SessionPhase
  <2> QED BY <2>1 DEF IndexedIsTodo, Listed
<1>5. MemberIsReachable'
  <2> SUFFICES ASSUME NEW d \in Subdomains, NEW u \in Members(d)', tunnel_index[u] = None
               PROVE  \E b \in Tasks : Holds(b)' /\ task'[b].id = u
    BY DEF MemberIsReachable
  <2>1. CASE u = t
    BY <2>1
  <2>2. CASE u # t
    <3>1. PICK b \in Tasks : Holds(b) /\ task[b].id = u
      BY <2>2 DEF MemberIsReachable
    <3> QED BY <3>1
  <2> QED BY <2>1, <2>2
<1> QED BY <1>1, <1>2, <1>3, <1>4, <1>5

\* The removal of a member or of a route by a task that goes on to pc, which is
\* "unroute" or where remove_tunnel returns to.
LEMMA RemovalSession ==
  ASSUME IInv, RouteInv', NEW a \in Tasks, RemovalStep(a)
  PROVE  SessionInv'
<1> USE DEF IInv, RouteInv, SessionInv, TypeOK, Frame, At, Holds, Tasks
<1>1. PICK pc \in {"unroute", "idle", "closing"} :
        /\ task'[a].pc = pc
        /\ pc # "unroute" => pc = Resume(a)
  BY DEF RemovalStep, RemoveMember, RemoveRoute, Resume, Goto, Local
<1>2. /\ task[a].pc \in {"unmember", "unroute"}
      /\ \A b \in Tasks : b # a => task'[b] = task[b]
      /\ UNCHANGED <<sessions, tunnels, info, tunnel_index, todo>>
  BY DEF RemovalStep, RemoveMember, RemoveRoute, Goto
<1>3. SessionPhase'
  BY <1>1, <1>2 DEF SessionPhase, Resume
<1>4. IndexesOwn'
  BY <1>1, <1>2 DEF IndexesOwn
<1>5. OwnedIsListed'
  <2> SUFFICES ASSUME NEW s \in Sessions, NEW t \in Tunnels, info[t].session = s
               PROVE  Listed(tunnels[s], t) \/ (At(s, "index")' /\ task'[s].id = t)
    BY <1>2 DEF OwnedIsListed, Listed
  <2>1. Listed(tunnels[s], t) \/ (At(s, "index") /\ task[s].id = t)
    BY DEF OwnedIsListed
  <2> QED BY <1>2, <2>1
<1>6. IndexedIsTodo'
  <2> SUFFICES ASSUME NEW s \in Sessions, NEW t \in Tunnels
               PROVE  /\ At(s, "done")' => todo[s] = <<>>
                      /\ s \notin sessions /\ info[t].session = s /\ tunnel_index[t] # None =>
                           Listed(todo[s], t)
    BY <1>2 DEF IndexedIsTodo, Listed
  <2> QED BY <1>1, <1>2 DEF IndexedIsTodo
<1>7. MemberIsReachable'
  <2>1. \A d \in Subdomains : /\ Members(d)' \subseteq Members(d)
                              /\ At(a, "unmember") => task[a].id \notin Members(d)'
    <3>1. CASE RemoveMember(a)
      <4>1. \A d \in Subdomains : task[a].id \in Members(d) => d = task[a].key
        BY <3>1 DEF RemoveMember, Routing, FramesSet, HeldIsMember, MembersBelong
      <4>2. task[a].key \in Subdomains
        BY <3>1 DEF RemoveMember, Routing, FramesSet
      <4>3. \A d \in Subdomains : Members(d)' = IF d = task[a].key
                                                 THEN Members(d) \ {task[a].id} ELSE Members(d)
        BY <3>1, <4>2 DEF RemoveMember, Members, Group
      <4> QED BY <4>1, <4>3
    <3>2. CASE RemoveRoute(a)
      BY <3>2 DEF RemoveRoute, Routing, FramesSet, Members, NoRoute, Group
    <3> QED BY <3>1, <3>2 DEF RemovalStep
  <2> SUFFICES ASSUME NEW d \in Subdomains, NEW u \in Members(d)', tunnel_index[u] = None
               PROVE  \E b \in Tasks : Holds(b)' /\ task'[b].id = u
    BY <1>2 DEF MemberIsReachable
  <2>2. PICK b \in Tasks : Holds(b) /\ task[b].id = u
    BY <2>1 DEF MemberIsReachable
  <2>3. b # a
    BY <2>1, <2>2, <1>2
  <2> QED BY <2>2, <2>3, <1>2
<1> QED BY <1>3, <1>4, <1>5, <1>6, <1>7

\* Every step keeps both halves.
LEMMA OwnershipStep == IInv /\ [Next]_vars => IInv'
<1> SUFFICES ASSUME IInv, [Next]_vars PROVE SessionInv'
  BY RouteStep DEF IInv
<1>0. RouteInv'
  BY RouteStep DEF IInv
<1> USE DEF IInv
<1>1. ASSUME NEW s \in Sessions, RegisterSession(s) PROVE SessionInv'
  <2>1. SessionPhase'
    BY <1>1 DEF RegisterSession, SessionInv, SessionPhase, RouteInv, TypeOK, Frame, Goto, Local,
                At, Tasks
  <2>2. IndexedIsTodo'
    <3> SUFFICES ASSUME NEW r \in Sessions, NEW t \in Tunnels
                 PROVE  /\ At(r, "done")' => todo[r] = <<>>
                        /\ r \notin sessions' /\ info[t].session = r /\ tunnel_index[t] # None =>
                             Listed(todo[r], t)
      BY <1>1 DEF RegisterSession, IndexedIsTodo, Listed
    <3> QED BY <1>1 DEF RegisterSession, SessionInv, IndexedIsTodo, RouteInv, TypeOK, Goto,
                        Local, At, Tasks
  <2>3. IndexesOwn' /\ OwnedIsListed' /\ MemberIsReachable'
    BY <1>0, <1>1, EmptyHandedSession DEF RegisterSession, At, Tasks
  <2> QED BY <2>1, <2>2, <2>3 DEF SessionInv
<1>2. ASSUME NEW s \in Sessions, RemoveSession(s) PROVE SessionInv'
  <2>1. SessionPhase'
    BY <1>2 DEF RemoveSession, SessionInv, SessionPhase, RouteInv, TypeOK, Frame, Goto, Local,
                At, Tasks
  <2>2. IndexedIsTodo'
    <3> SUFFICES ASSUME NEW r \in Sessions, NEW t \in Tunnels
                 PROVE  /\ At(r, "done")' => todo'[r] = <<>>
                        /\ r \notin sessions' /\ info[t].session = r /\ tunnel_index[t] # None =>
                             Listed(todo'[r], t)
      BY <1>2 DEF RemoveSession, IndexedIsTodo, Listed
    <3>1. CASE r = s
      <4>1. todo'[s] = tunnels[s] /\ ~At(s, "done")' /\ ~At(s, "index")
        BY <1>2 DEF RemoveSession, RouteInv, TypeOK, Goto, Local, At, Tasks
      <4> QED BY <3>1, <4>1 DEF SessionInv, OwnedIsListed
    <3>2. CASE r # s
      <4>1. todo'[r] = todo[r] /\ (At(r, "done")' <=> At(r, "done")) /\ (r \in sessions' <=> r \in sessions)
        BY <1>2, <3>2 DEF RemoveSession, RouteInv, TypeOK, Goto, Local, At, Tasks
      <4> QED BY <4>1 DEF SessionInv, IndexedIsTodo
    <3> QED BY <3>1, <3>2
  <2>3. IndexesOwn' /\ OwnedIsListed' /\ MemberIsReachable'
    BY <1>0, <1>2, EmptyHandedSession DEF RemoveSession, At, Tasks
  <2> QED BY <2>1, <2>2, <2>3 DEF SessionInv
<1>3. ASSUME NEW s \in Sessions, Register(s) PROVE SessionInv'
  <2>1. ASSUME NEW t \in Tunnels, NEW d \in Subdomains, NEW p \in Protocols,
               NEW k \in Keys \cup {None}, CreateRoute(s, t, d, p, k) \/ JoinRoute(s, t, d, p, k)
        PROVE  SessionInv'
    <3>1. \A e \in Subdomains : Members(e)' \subseteq Members(e) \cup {t}
      <4> USE DEF Members, RouteInv, TypeOK, Group
      <4>1. CASE CreateRoute(s, t, d, p, k)
        BY <4>1 DEF CreateRoute
      <4>2. CASE JoinRoute(s, t, d, p, k)
        BY <4>2 DEF JoinRoute
      <4> QED BY <2>1, <4>1, <4>2
    <3> QED BY <1>0, <2>1, <3>1, RegistrationSession DEF CreateRoute, JoinRoute
  <2>2. ASSUME NEW l \in Subdomains \cup BadLabels, NEW p \in Protocols,
               NEW k \in Keys \cup {None}, RefuseRegistration(s, l, p, k)
        PROVE  SessionInv'
    BY <2>2 DEF RefuseRegistration, SessionInv, SessionPhase, IndexesOwn, OwnedIsListed,
                IndexedIsTodo, MemberIsReachable, Listed, At, Holds, Members
  <2> QED BY <1>3, <2>1, <2>2 DEF Register
<1>4. ASSUME NEW s \in Sessions, IndexTunnel(s) PROVE SessionInv'
  <2> USE DEF RouteInv, TypeOK, Frame, SessionInv, At, Holds, Tasks
  <2>1. /\ At(s, "index") /\ s \in sessions /\ task[s].id \in Tunnels
        /\ task[s].key \in Subdomains
    BY <1>4 DEF IndexTunnel, SessionPhase, Routing, FramesSet
  <2>2. /\ tunnel_index' = [tunnel_index EXCEPT ![task[s].id] = task[s].key]
        /\ tunnels' = [tunnels EXCEPT ![s] = Append(@, task[s].id)]
        /\ task' = [task EXCEPT ![s] = Local("idle", None, None)]
        /\ UNCHANGED <<sessions, info, http_routes, todo>>
    BY <1>4 DEF IndexTunnel, Goto
  <2>3. SessionPhase' /\ IndexesOwn'
    BY <2>1, <2>2 DEF SessionPhase, IndexesOwn, Local
  <2>4. OwnedIsListed'
    <3> SUFFICES ASSUME NEW r \in Sessions, NEW t \in Tunnels, info[t].session = r
                 PROVE  Listed(tunnels'[r], t) \/ (At(r, "index")' /\ task'[r].id = t)
      BY <2>2 DEF OwnedIsListed, Listed
    <3>1. CASE r = s
      <4>1. Listed(tunnels[s], t) \/ t = task[s].id
        BY <3>1 DEF OwnedIsListed
      <4>2. tunnels'[s] = Append(tunnels[s], task[s].id)
        BY <2>2
      <4> QED BY <2>1, <3>1, <4>1, <4>2, ListedAppend
    <3>2. CASE r # s
      BY <2>2, <3>2 DEF OwnedIsListed
    <3> QED BY <3>1, <3>2
  <2>5. IndexedIsTodo'
    <3> SUFFICES ASSUME NEW r \in Sessions, NEW t \in Tunnels
                 PROVE  /\ At(r, "done")' => todo[r] = <<>>
                        /\ r \notin sessions /\ info[t].session = r /\ tunnel_index'[t] # None =>
                             Listed(todo[r], t)
      BY <2>2 DEF IndexedIsTodo, Listed
    <3>1. CASE r = s
      BY <2>1, <2>2, <3>1 DEF Local
    <3>2. CASE r # s
      <4>1. task'[r] = task[r]
        BY <2>2, <3>2
      <4>2. info[t].session = r => tunnel_index'[t] = tunnel_index[t]
        BY <2>1, <2>2, <3>2 DEF IndexesOwn
      <4> QED BY <4>1, <4>2 DEF IndexedIsTodo
    <3> QED BY <3>1, <3>2
  <2>6. MemberIsReachable'
    <3> SUFFICES ASSUME NEW d \in Subdomains, NEW u \in Members(d), tunnel_index'[u] = None
                 PROVE  \E b \in Tasks : Holds(b)' /\ task'[b].id = u
      BY <2>2 DEF MemberIsReachable, Members
    <3>1. u \in Tunnels
      BY DEF Members, Group
    <3>2. u # task[s].id
      BY <2>1, <2>2, <3>1, NoneIsNoValue
    <3>3. PICK b \in Tasks : Holds(b) /\ task[b].id = u
      BY <2>2, <3>1, <3>2 DEF MemberIsReachable
    <3> QED BY <2>2, <3>2, <3>3
  <2> QED BY <2>3, <2>4, <2>5, <2>6
<1>5. ASSUME NEW s \in Sessions, CloseNext(s) PROVE SessionInv'
  <2> DEFINE h == Head(todo[s])
  <2> USE DEF RouteInv, TypeOK, Frame, SessionInv, At
  <2> s \in Tasks
    BY DEF Tasks
  <2>1. h \in Tunnels /\ todo' = [todo EXCEPT ![s] = Tail(@)] /\ todo[s] # <<>>
        /\ task[s].pc = "closing" /\ UNCHANGED <<sessions, tunnels, info, http_routes>>
    BY <1>5 DEF CloseNext
  <2>0. UNCHANGED <<sessions, info>>
    BY <2>1
  <2>2. tunnel_index'[h] = None /\ \A t \in Tunnels : t # h => tunnel_index'[t] = tunnel_index[t]
    BY <1>5, <2>1 DEF CloseNext, Unindex
  <2>3. \A r \in Tasks : r # s => task'[r] = task[r]
    BY <1>5 DEF CloseNext, Unindex, Goto
  <2>4. ~At(s, "done")'
    BY <1>5, <2>1 DEF CloseNext, Unindex, Goto, Local
  <2>5. IndexedIsTodo'
    <3> SUFFICES ASSUME NEW r \in Sessions, NEW t \in Tunnels
                 PROVE  /\ At(r, "done")' => todo'[r] = <<>>
                        /\ r \notin sessions /\ info[t].session = r /\ tunnel_index'[t] # None =>
                             Listed(todo'[r], t)
      BY <2>0 DEF IndexedIsTodo, Listed
    <3>1. CASE r = s
      <4>1. todo'[s] = Tail(todo[s])
        BY <2>1
      <4>2. ASSUME s \notin sessions, info[t].session = s, tunnel_index'[t] # None
            PROVE  Listed(Tail(todo[s]), t)
        <5>1. t # h /\ tunnel_index[t] # None
          BY <2>2, <4>2
        <5>2. Listed(todo[s], t)
          BY <4>2, <5>1 DEF IndexedIsTodo
        <5> QED BY <2>1, <5>1, <5>2, ListedTail
      <4> QED BY <2>4, <3>1, <4>1, <4>2
    <3>2. CASE r # s
      <4>1. todo'[r] = todo[r] /\ task'[r] = task[r]
        BY <2>1, <2>3, <3>2 DEF Tasks
      <4>2. tunnel_index'[t] # None => tunnel_index[t] # None
        BY <2>1, <2>2
      <4> QED BY <4>1, <4>2 DEF IndexedIsTodo
    <3> QED BY <3>1, <3>2
  <2>6. CASE Unindex(s, h)
    <3>1. SessionPhase' /\ IndexesOwn' /\ OwnedIsListed' /\ MemberIsReachable'
      BY <1>0, <2>1, <2>6, UnindexSession
    <3> QED BY <2>5, <3>1
  <2>7. CASE UNCHANGED <<tunnel_index, task>>
    <3>1. SessionPhase' /\ IndexesOwn' /\ OwnedIsListed' /\ MemberIsReachable'
      BY <2>1, <2>7 DEF SessionPhase, IndexesOwn, OwnedIsListed, MemberIsReachable, Listed,
                        Holds, Members
    <3> QED BY <2>5, <3>1
  <2> QED BY <1>5, <2>6, <2>7 DEF CloseNext
<1>6. ASSUME NEW s \in Sessions, CloseDone(s) PROVE SessionInv'
  <2>1. SessionPhase'
    BY <1>6 DEF CloseDone, SessionInv, SessionPhase, RouteInv, TypeOK, Frame, Goto, Local,
                At, Tasks
  <2>2. IndexedIsTodo'
    <3> SUFFICES ASSUME NEW r \in Sessions, NEW t \in Tunnels
                 PROVE  /\ At(r, "done")' => todo[r] = <<>>
                        /\ r \notin sessions /\ info[t].session = r /\ tunnel_index[t] # None =>
                             Listed(todo[r], t)
      BY <1>6 DEF CloseDone, IndexedIsTodo, Listed
    <3> QED BY <1>6 DEF CloseDone, SessionInv, IndexedIsTodo, RouteInv, TypeOK, Goto,
                        Local, At, Tasks
  <2>3. IndexesOwn' /\ OwnedIsListed' /\ MemberIsReachable'
    BY <1>0, <1>6, EmptyHandedSession DEF CloseDone, At, Tasks
  <2> QED BY <2>1, <2>2, <2>3 DEF SessionInv
<1>7. ASSUME NEW a \in Tasks, NEW t \in Tunnels, RemoveTunnel(a, t) PROVE SessionInv'
  <2>1. SessionPhase' /\ IndexesOwn' /\ OwnedIsListed' /\ MemberIsReachable'
    BY <1>0, <1>7, UnindexSession DEF RemoveTunnel, At
  <2>2. IndexedIsTodo'
    <3> SUFFICES ASSUME NEW r \in Sessions, NEW u \in Tunnels
                 PROVE  /\ At(r, "done")' => todo[r] = <<>>
                        /\ r \notin sessions /\ info[u].session = r /\ tunnel_index'[u] # None =>
                             Listed(todo[r], u)
      BY <1>7 DEF RemoveTunnel, IndexedIsTodo, Listed
    <3> QED BY <1>7 DEF RemoveTunnel, Unindex, SessionInv, IndexedIsTodo, RouteInv, TypeOK, Goto,
                        Local, At, Tasks
  <2> QED BY <2>1, <2>2 DEF SessionInv
<1>8. ASSUME NEW a \in Tasks, RemovalStep(a) PROVE SessionInv'
  BY <1>0, <1>8, RemovalSession
<1>9. ASSUME UNCHANGED vars PROVE SessionInv'
  BY <1>9 DEF vars, SessionInv, SessionPhase, IndexesOwn, OwnedIsListed, IndexedIsTodo,
              MemberIsReachable, Listed, At, Holds, Members
<1> QED
  BY <1>1, <1>2, <1>3, <1>4, <1>5, <1>6, <1>7, <1>8, <1>9 DEF Next, SessionStep

\* Both halves of the invariant hold in every state.
THEOREM Invariant == Spec => []IInv
<1>1. Init => IInv
  BY RouteInit, SessionInit DEF IInv
<1> QED BY <1>1, OwnershipStep, PTL DEF Spec

\* When remove_session has returned, no tunnel of the session is indexed, and
\* one that is still a member is being taken out by a force-close.
THEOREM SessionsLeaveNothing == Spec => []NothingSurvivesSession
<1>1. IInv => NothingSurvivesSession
  <2> SUFFICES ASSUME IInv, NEW s \in Sessions, At(s, "done"), NEW t \in Owned(s)
               PROVE  /\ tunnel_index[t] = None
                      /\ \A sub \in Subdomains : t \in Members(sub) =>
                           \E a \in Tasks \ {s} : At(a, "unmember") /\ task[a].id = t
    BY DEF NothingSurvivesSession
  <2> USE DEF IInv, SessionInv
  <2>1. tunnel_index[t] = None
    BY DEF Owned, IndexedIsTodo, SessionPhase, At, Listed
  <2>2. ASSUME NEW sub \in Subdomains, t \in Members(sub)
        PROVE  \E a \in Tasks \ {s} : At(a, "unmember") /\ task[a].id = t
    <3>1. PICK a \in Tasks : Holds(a) /\ task[a].id = t
      BY <2>1, <2>2 DEF MemberIsReachable
    <3>2. a # s
      BY <3>1 DEF Holds, At
    <3>3. ~At(a, "index")
      BY <3>1, <3>2 DEF IndexesOwn, Owned, RouteInv, Routing, FramesSet, At
    <3> QED BY <3>1, <3>2, <3>3 DEF Holds, At
  <2> QED BY <2>1, <2>2
<1> QED BY <1>1, Invariant, PTL

=============================================================================
