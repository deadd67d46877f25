------------------------------ MODULE HttpRoutes ------------------------------
(***************************************************************************)
(* The HTTP half of TunnelCore (core/router.rs): the `http_routes` table   *)
(* of tunnel groups, the `tunnel_index` that finds a tunnel's route again, *)
(* and the session table that owns tunnels.                                *)
(*                                                                         *)
(* TunnelCore has no global lock.  Every DashMap call is atomic by itself, *)
(* and an operation is a series of such calls, so each operation below is  *)
(* split where the code releases one table's guard before it takes the     *)
(* next.  Two kinds of task call into the core at the same time: one task  *)
(* per control session (its frames are handled one after the other) and    *)
(* the dashboard's force-close handlers.                                   *)
(***************************************************************************)
EXTENDS Naturals, Sequences, FiniteSets

CONSTANTS
  Sessions,      \* session ids (Uuid::new_v4: never used twice)
  Admins,        \* dashboard requests that force-close tunnels
  Tunnels,       \* tunnel ids (Uuid::new_v4: never used twice)
  Subdomains,    \* labels validate_subdomain accepts
  BadLabels,     \* labels validate_subdomain rejects
  Keys,          \* group key hashes
  Protocols,     \* Http, Https
  MaxTunnels,    \* limits.max_tunnels_per_session
  None           \* Option::None

ASSUME TasksDisjoint   == Sessions \cap Admins = {}
ASSUME LabelsDisjoint  == Subdomains \cap BadLabels = {}
ASSUME NoneIsNoValue   == None \notin Sessions \cup Tunnels \cup Subdomains \cup Keys
ASSUME MaxTunnelsNat   == MaxTunnels \in Nat

VARIABLES
  sessions,      \* keys of TunnelCore.sessions
  tunnels,       \* [Sessions -> Seq(Tunnels)]: SessionInfo.tunnels
  info,          \* TunnelInfo of every tunnel id minted so far
  http_routes,   \* [Subdomains -> group or NoRoute]
  tunnel_index,  \* [Tunnels -> Subdomains or None]
  task,          \* where each task stands inside the operation it runs
  todo,          \* the rest of remove_session's loop over session.tunnels
  reply          \* what the last registration of a session answered

vars == <<sessions, tunnels, info, http_routes, tunnel_index, task, todo, reply>>

Tasks == Sessions \cup Admins

NoInfo  == [session |-> None, protocol |-> None, subdomain |-> None]
NoRoute == [present |-> FALSE, key_hash |-> None, members |-> {}]

(***************************************************************************)
(* A task between two operations is "idle"; the other values name the next *)
(* call it will make:                                                      *)
(*   new         before register_session                                   *)
(*   index       tunnel_index.insert, then add_tunnel_to_session           *)
(*   unmember    members.remove and is_empty, under the route's guard      *)
(*   unroute     http_routes.remove, the guard having been dropped         *)
(*   closing     the next turn of remove_session's loop                    *)
(*   done        the session's task has returned                           *)
(***************************************************************************)
PCs == {"new", "idle", "index", "unmember", "unroute", "closing", "done"}

Replies == {"none", "ok", "limit", "invalid", "in_use", "key_mismatch", "protocol_mismatch"}

At(a, pc)        == task[a].pc = pc
Local(pc, t, k)  == [pc |-> pc, id |-> t, key |-> k]
Goto(a, pc, t, k) == task' = [task EXCEPT ![a] = Local(pc, t, k)]

\* Where a task goes when remove_tunnel returns to its caller.
Resume(a) == IF a \in Sessions /\ a \notin sessions THEN "closing" ELSE "idle"

Routed(sub) == http_routes[sub].present
Members(sub) == http_routes[sub].members

Init ==
  /\ sessions = {}
  /\ tunnels = [s \in Sessions |-> <<>>]
  /\ info = [t \in Tunnels |-> NoInfo]
  /\ http_routes = [sub \in Subdomains |-> NoRoute]
  /\ tunnel_index = [t \in Tunnels |-> None]
  /\ task = [a \in Tasks |-> Local(IF a \in Sessions THEN "new" ELSE "idle", None, None)]
  /\ todo = [s \in Sessions |-> <<>>]
  /\ reply = [s \in Sessions |-> "none"]

-----------------------------------------------------------------------------
(* Sessions *)

RegisterSession(s) ==
  /\ At(s, "new")
  /\ sessions' = sessions \cup {s}
  /\ Goto(s, "idle", None, None)
  /\ UNCHANGED <<tunnels, info, http_routes, tunnel_index, todo, reply>>

\* remove_session takes the entry out first and walks its tunnels afterwards.
RemoveSession(s) ==
  /\ At(s, "idle")
  /\ sessions' = sessions \ {s}
  /\ todo' = [todo EXCEPT ![s] = tunnels[s]]
  /\ Goto(s, "closing", None, None)
  /\ UNCHANGED <<tunnels, info, http_routes, tunnel_index, reply>>

-----------------------------------------------------------------------------
(* register_http_tunnel *)

\* check_session_limit: the length of session.tunnels, which only grows.
UnderLimit(s) == Len(tunnels[s]) < MaxTunnels

\* Variant: a registration without a group "matches" a route without a key.
KeyMatches_noneIsAKey(sub, k) == http_routes[sub].key_hash = k

KeyMatches(sub, k) == k # None /\ http_routes[sub].key_hash = k

\* Variant: every member has the protocol, which an empty group also satisfies.
ProtocolMatches_vacuous(sub, p) == \A m \in Members(sub) : info[m].protocol = p

\* existing.members.iter().next(): some member of the group, if it has one.
ProtocolMatches(sub, p) == \E m \in Members(sub) : info[m].protocol = p

Mint(s, t, p, sub) ==
  /\ info[t] = NoInfo
  /\ info' = [info EXCEPT ![t] = [session |-> s, protocol |-> p, subdomain |-> sub]]

\* Entry::Vacant: a new group, solo when k is None, with its first member.
CreateRoute(s, t, sub, p, k) ==
  /\ At(s, "idle")
  /\ UnderLimit(s)
  /\ ~Routed(sub)
  /\ Mint(s, t, p, sub)
  /\ http_routes' = [http_routes EXCEPT
                       ![sub] = [present |-> TRUE, key_hash |-> k, members |-> {t}]]
  /\ Goto(s, "index", t, sub)
  /\ UNCHANGED <<sessions, tunnels, tunnel_index, todo, reply>>

\* Entry::Occupied, every check passed: join the group under the entry's guard.
JoinRoute(s, t, sub, p, k) ==
  /\ At(s, "idle")
  /\ UnderLimit(s)
  /\ Routed(sub)
  /\ KeyMatches(sub, k)
  /\ ProtocolMatches(sub, p)
  /\ Mint(s, t, p, sub)
  /\ http_routes' = [http_routes EXCEPT ![sub].members = @ \cup {t}]
  /\ Goto(s, "index", t, sub)
  /\ UNCHANGED <<sessions, tunnels, tunnel_index, todo, reply>>

\* Why a registration is refused, in the order the checks are made.
Refusal(s, label, p, k) ==
  IF ~UnderLimit(s) THEN "limit"
  ELSE IF label \in BadLabels THEN "invalid"
  ELSE IF ~Routed(label) THEN "none"
  ELSE IF k = None THEN "in_use"
  ELSE IF ~KeyMatches(label, k) THEN "key_mismatch"
  ELSE IF ~ProtocolMatches(label, p) THEN "protocol_mismatch"
  ELSE "none"

\* An early return of register_http_tunnel: nothing but the answer changes.
RefuseRegistration(s, label, p, k) ==
  /\ At(s, "idle")
  /\ Refusal(s, label, p, k) # "none"
  /\ reply' = [reply EXCEPT ![s] = Refusal(s, label, p, k)]
  /\ UNCHANGED <<sessions, tunnels, info, http_routes, tunnel_index, task, todo>>

\* Variant: the session is not told of its tunnel.
IndexTunnel_unlisted(s) ==
  /\ At(s, "index")
  /\ tunnel_index' = [tunnel_index EXCEPT ![task[s].id] = task[s].key]
  /\ reply' = [reply EXCEPT ![s] = "ok"]
  /\ Goto(s, "idle", None, None)
  /\ UNCHANGED <<sessions, tunnels, info, http_routes, todo>>

\* tunnel_index.insert and add_tunnel_to_session.  Only this task reads or
\* writes its session's tunnel list, so the two calls make one step.
IndexTunnel(s) ==
  /\ At(s, "index")
  /\ tunnel_index' = [tunnel_index EXCEPT ![task[s].id] = task[s].key]
  /\ tunnels' = [tunnels EXCEPT ![s] = Append(@, task[s].id)]
  /\ reply' = [reply EXCEPT ![s] = "ok"]
  /\ Goto(s, "idle", None, None)
  /\ UNCHANGED <<sessions, info, http_routes, todo>>

-----------------------------------------------------------------------------
(* remove_tunnel, called by UnregisterTunnel, by force_close_tunnel and by *)
(* remove_session                                                          *)

\* tunnel_index.remove(id): whoever gets the key owns the rest of the removal.
Unindex(a, t) ==
  /\ tunnel_index[t] # None
  /\ tunnel_index' = [tunnel_index EXCEPT ![t] = None]
  /\ Goto(a, "unmember", t, tunnel_index[t])

RemoveTunnel(a, t) ==
  /\ At(a, "idle")
  /\ Unindex(a, t)
  /\ UNCHANGED <<sessions, tunnels, info, http_routes, todo, reply>>

\* Variant: the loop stops at the first tunnel that is already gone.
CloseNext_stops(s) ==
  /\ At(s, "closing")
  /\ todo[s] # <<>>
  /\ \/ /\ todo' = [todo EXCEPT ![s] = Tail(@)]
        /\ Unindex(s, Head(todo[s]))
     \/ /\ tunnel_index[Head(todo[s])] = None
        /\ todo' = [todo EXCEPT ![s] = <<>>]
        /\ UNCHANGED <<tunnel_index, task>>
  /\ UNCHANGED <<sessions, tunnels, info, http_routes, reply>>

\* One turn of remove_session's loop.  A tunnel that was unregistered earlier
\* is still listed and is no longer indexed: remove_tunnel returns at once.
CloseNext(s) ==
  /\ At(s, "closing")
  /\ todo[s] # <<>>
  /\ todo' = [todo EXCEPT ![s] = Tail(@)]
  /\ \/ Unindex(s, Head(todo[s]))
     \/ /\ tunnel_index[Head(todo[s])] = None
        /\ UNCHANGED <<tunnel_index, task>>
  /\ UNCHANGED <<sessions, tunnels, info, http_routes, reply>>

CloseDone(s) ==
  /\ At(s, "closing")
  /\ todo[s] = <<>>
  /\ Goto(s, "done", None, None)
  /\ UNCHANGED <<sessions, tunnels, info, http_routes, tunnel_index, todo, reply>>

\* Variant: every removal takes the route, as when groups had one member.
RemoveMember_assumesSolo(a) ==
  LET t == task[a].id
      sub == task[a].key
  IN  /\ At(a, "unmember")
      /\ http_routes' = [http_routes EXCEPT ![sub].members = @ \ {t}]
      /\ Goto(a, "unroute", t, sub)
      /\ UNCHANGED <<sessions, tunnels, info, tunnel_index, todo, reply>>

\* Under the route's guard: drop the member and look whether it was the last.
\* A missing route counts as empty (unwrap_or(true)).
RemoveMember(a) ==
  LET t == task[a].id
      sub == task[a].key
      left == Members(sub) \ {t}
  IN  /\ At(a, "unmember")
      /\ http_routes' = [http_routes EXCEPT ![sub].members = left]
      /\ IF left = {} THEN Goto(a, "unroute", t, sub)
                      ELSE Goto(a, Resume(a), None, None)
      /\ UNCHANGED <<sessions, tunnels, info, tunnel_index, todo, reply>>

\* The guard is gone; the route is removed whatever it holds by now.
RemoveRoute(a) ==
  /\ At(a, "unroute")
  /\ http_routes' = [http_routes EXCEPT ![task[a].key] = NoRoute]
  /\ Goto(a, Resume(a), None, None)
  /\ UNCHANGED <<sessions, tunnels, info, tunnel_index, todo, reply>>

-----------------------------------------------------------------------------

Register(s) ==
  \E p \in Protocols, k \in Keys \cup {None} :
    \/ \E t \in Tunnels, sub \in Subdomains :
         \/ CreateRoute(s, t, sub, p, k)
         \/ JoinRoute(s, t, sub, p, k)
    \/ \E label \in Subdomains \cup BadLabels : RefuseRegistration(s, label, p, k)

SessionStep(s) ==
  \/ RegisterSession(s)
  \/ Register(s)
  \/ IndexTunnel(s)
  \/ RemoveSession(s)
  \/ CloseNext(s)
  \/ CloseDone(s)

\* The steps of remove_tunnel after its first: no await between them.
RemovalStep(a) == RemoveMember(a) \/ RemoveRoute(a)

Next ==
  \/ \E s \in Sessions : SessionStep(s)
  \/ \E a \in Tasks, t \in Tunnels : RemoveTunnel(a, t)
  \/ \E a \in Tasks : RemovalStep(a)

Spec == Init /\ [][Next]_vars

(***************************************************************************)
(* An operation that has begun runs to its end: register_http_tunnel,      *)
(* remove_tunnel and remove_session contain no await, and the executor     *)
(* keeps running a task that is not waiting.  Nothing forces a client to   *)
(* register, to unregister or to disconnect.                               *)
(***************************************************************************)
Fairness ==
  /\ \A a \in Tasks : WF_vars(RemovalStep(a))
  /\ \A s \in Sessions : WF_vars(IndexTunnel(s) \/ CloseNext(s) \/ CloseDone(s))

FairSpec == Spec /\ Fairness

-----------------------------------------------------------------------------
(* Properties *)

Group == [present : BOOLEAN, key_hash : Keys \cup {None}, members : SUBSET Tunnels]
Info  == [session : Sessions, protocol : Protocols, subdomain : Subdomains] \cup {NoInfo}
Frame == [pc : PCs, id : Tunnels \cup {None}, key : Subdomains \cup {None}]

\* Every variable has the shape of the Rust value it stands for.
TypeOK ==
  /\ sessions \in SUBSET Sessions
  /\ tunnels \in [Sessions -> Seq(Tunnels)]
  /\ info \in [Tunnels -> Info]
  /\ http_routes \in [Subdomains -> Group]
  /\ tunnel_index \in [Tunnels -> Subdomains \cup {None}]
  /\ task \in [Tasks -> Frame]
  /\ todo \in [Sessions -> Seq(Tunnels)]
  /\ reply \in [Sessions -> Replies]

\* A tunnel the index knows is served: its subdomain has a route and the tunnel
\* is one of its members.  remove_tunnel decides that a group is empty under one
\* guard and removes the route under another, so a join in between would be
\* thrown away with the route.
HttpRouted ==
  \A t \in Tunnels : tunnel_index[t] # None =>
    /\ tunnel_index[t] = info[t].subdomain
    /\ t \in Members(tunnel_index[t])

\* What register_http_tunnel promises about sharing a subdomain: a solo route
\* has one owner, and the members of a pool all speak one protocol.
SharingIsAgreed ==
  \A sub \in Subdomains : \A t, u \in Members(sub) :
    /\ info[t].protocol = info[u].protocol
    /\ http_routes[sub].key_hash = None => t = u

\* A route without members is about to be removed by exactly one task: no
\* subdomain stays taken with nobody behind it.
EmptyRouteHasRemover ==
  \A sub \in Subdomains : Routed(sub) /\ Members(sub) = {} =>
    \E a \in Tasks :
      /\ At(a, "unroute") /\ task[a].key = sub
      /\ \A b \in Tasks : At(b, "unroute") /\ task[b].key = sub => b = a

Owned(s) == {t \in Tunnels : info[t].session = s}

\* remove_session removes a session and all tunnels it owns: when it returns,
\* none of them is indexed, and one that is still a member is in the hands of
\* a force-close that got to it first.
NothingSurvivesSession ==
  \A s \in Sessions : At(s, "done") => \A t \in Owned(s) :
    /\ tunnel_index[t] = None
    /\ \A sub \in Subdomains : t \in Members(sub) =>
         \E a \in Tasks \ {s} : At(a, "unmember") /\ task[a].id = t

\* http_routes.remove never takes a route that serves somebody: whatever
\* happened since the group was found empty, it is still empty.
OnlyEmptyRoutesGo ==
  [][\A sub \in Subdomains : Routed(sub) /\ ~Routed(sub)' => Members(sub) = {}]_vars

\* Once its session is being removed, a tunnel stops being routed, so that the
\* client can take its subdomain again when it reconnects.
SubdomainReleased ==
  \A s \in Sessions :
    At(s, "closing") ~> \A t \in Owned(s), sub \in Subdomains : t \notin Members(sub)

=============================================================================
