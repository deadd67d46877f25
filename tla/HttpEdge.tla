------------------------------ MODULE HttpEdge ------------------------------
(***************************************************************************)
(* A public HTTP request through the edge of rustunnel-server              *)
(* (edge/http.rs): the per-address sliding window (core/ip_limiter.rs),    *)
(* the plain-HTTP gate, dispatch, the per-tunnel token bucket              *)
(* (core/limiter.rs), the connection permit, the hand-off to the session,  *)
(* the forwarded response or the WebSocket bridge, and the capture service *)
(* that stores what the dashboard shows (edge/capture.rs,                  *)
(* dashboard/capture.rs).                                                  *)
(*                                                                         *)
(* All requests come from one address and are for one tunnel, the keys of  *)
(* the two limiters.  How a data stream reaches its request is the subject *)
(* of DataPlane; here it arrives, is refused, or times out.                *)
(***************************************************************************)
EXTENDS Integers, Sequences, FiniteSets, SequencesExt

CONSTANTS
    Requests,        \* public requests, each a conn_id
    MaxPerWindow,    \* IpRateLimiter.max_per_window (0 disables it)
    Window,          \* its window, in clock ticks
    Rps,             \* rate_limit_rps: the bucket's size and its refill per second
    Second,          \* clock ticks per second
    MaxConnections,  \* permits of the tunnel's conn_semaphore
    ControlCapacity, \* capacity of the session's control channel
    CaptureCapacity, \* CAPTURE_CHANNEL_SIZE
    RingCapacity,    \* RING_CAPACITY
    MaxTime          \* bound: the clock

ASSUME EdgeBounds ==
    /\ MaxPerWindow \in Nat /\ Window \in Nat /\ MaxTime \in Nat
    /\ {Rps, Second, MaxConnections, ControlCapacity, CaptureCapacity, RingCapacity} \subseteq Nat \ {0}

VARIABLES
    pc,          \* pc[r]: where the request's task stands
    clock,
    window,      \* IpRateLimiter.windows of the address
    admitted,    \* when the window let a request in (history)
    bucket,      \* Bucket: tokens, in 1/Second of a request, and last_refill
    passed,      \* when the bucket let a request in (history)
    member,      \* the tunnel's member: "up", "down", "orphan" (session gone) or "gone"
    permits,     \* free permits of conn_semaphore
    pending,     \* core.pending_conns
    control,     \* the session's control channel: NewConnection messages
    headed,      \* requests whose response head came through the tunnel (history)
    lost,        \* requests whose capture event found the channel full (history)
    captureq,    \* the capture channel
    storing,     \* the row between the database and the ring, or NoRow
    ring,        \* the ring buffer of the tunnel
    rows,        \* captured_requests in SQLite
    stored       \* the requests whose rows the capture service has handled, by
                 \* the tunnel the row names (history)

limiterVars == <<clock, window, admitted, bucket, passed>>
captureVars == <<captureq, lost, storing, ring, rows, stored>>
tunnelVars == <<member, control>>
holdVars == <<permits, pending, headed>>
vars == <<pc, limiterVars, captureVars, tunnelVars, holdVars>>

Event(r, tunnel) == [conn |-> r, tunnel |-> tunnel]
NoRow == Event("none", "none")
FullBucket == [tokens |-> Rps * Second, last |-> 0]

Init ==
    /\ pc = [r \in Requests |-> "new"]
    /\ clock = 0 /\ window = <<>> /\ admitted = <<>>
    /\ bucket = FullBucket /\ passed = <<>>
    /\ member = "up" /\ permits = MaxConnections /\ pending = {} /\ control = <<>>
    /\ headed = {} /\ lost = {}
    /\ captureq = <<>> /\ storing = NoRow /\ ring = <<>> /\ rows = {}
    /\ stored = [t \in {"tunnel", "nil"} |-> <<>>]

At(r, here) == pc[r] = here
Go(r, there) == pc' = [pc EXCEPT ![r] = there]

----------------------------------------------------------------------------
(* Limiters                                                                *)

\* The entries popped while the front of the deque is older than the window.
\* Variant: a request exactly one window old no longer counts.
Popped_early(deque) == {i \in 1..Len(deque) : \A j \in 1..i : deque[j] <= clock - Window}
Popped(deque) == {i \in 1..Len(deque) : \A j \in 1..i : deque[j] < clock - Window}
InWindow(deque) == SubSeq(deque, Cardinality(Popped(deque)) + 1, Len(deque))

\* IpRateLimiter::check, atomic under the map entry.
check(allowed) ==
    /\ allowed = (MaxPerWindow = 0 \/ Len(InWindow(window)) < MaxPerWindow)
    /\ window' = IF MaxPerWindow = 0 THEN window
                 ELSE IF allowed THEN Append(InWindow(window), clock) ELSE InWindow(window)
    /\ admitted' = IF allowed THEN Append(admitted, clock) ELSE admitted

Least(a, b) == IF a < b THEN a ELSE b

\* Variant: the refill is not capped at the bucket's size.
Refilled_uncapped == bucket.tokens + (clock - bucket.last) * Rps
Refilled == Least(bucket.tokens + (clock - bucket.last) * Rps, Rps * Second)

\* Bucket::try_consume: refill for the time elapsed, then take one request.
try_consume(allowed) ==
    /\ allowed = (Refilled >= Second)
    /\ bucket' = [tokens |-> IF allowed THEN Refilled - Second ELSE Refilled, last |-> clock]
    /\ passed' = IF allowed THEN Append(passed, clock) ELSE passed

Tick ==
    /\ clock < MaxTime /\ clock' = clock + 1
    /\ UNCHANGED <<pc, window, admitted, bucket, passed, captureVars, tunnelVars, holdVars>>

----------------------------------------------------------------------------
(* Arrival: the plain listener and the TLS listener                        *)

\* plain_http_request and the service closure of run_https_proxy check the
\* window before anything else; the plain listener then asks whether the host
\* has a route.
Arrive(r) ==
    /\ At(r, "new")
    /\ \/ check(FALSE) /\ Go(r, "done")
       \/ check(TRUE) /\ \E listener \in {"gate", "resolve"} : Go(r, listener)
    /\ UNCHANGED <<clock, bucket, passed, captureVars, tunnelVars, holdVars>>

has_http_route == member # "gone"

\* Plain HTTP in "proxy" mode: proxied if the route is there, redirected with a
\* 308 otherwise.  In "redirect" mode every request is redirected.
plain_http_request(r) ==
    /\ At(r, "gate")
    /\ \/ has_http_route /\ Go(r, "resolve")
       \/ Go(r, "done")                                  \* redirect_to_https
    /\ UNCHANGED <<limiterVars, captureVars, tunnelVars, holdVars>>

\* resolve_http: a healthy member whose session is still there, or 502.
Resolve(r) ==
    /\ At(r, "resolve")
    /\ Go(r, IF member = "up" THEN "admit" ELSE "done")
    /\ UNCHANGED <<limiterVars, captureVars, tunnelVars, holdVars>>

----------------------------------------------------------------------------
(* proxy_request                                                           *)

\* The token bucket, the Content-Length limit and the permit, in this order:
\* 429, 413 or 503.  A request that holds its permit registers its conn_id.
Admit(r) ==
    /\ At(r, "admit")
    /\ \/ try_consume(FALSE) /\ Go(r, "done") /\ UNCHANGED <<permits, pending>>
       \/ /\ try_consume(TRUE)
          /\ \/ Go(r, "done") /\ UNCHANGED <<permits, pending>>          \* body too large
             \/ permits = 0 /\ Go(r, "done") /\ UNCHANGED <<permits, pending>>
             \/ /\ permits > 0 /\ permits' = permits - 1
                /\ pending' = pending \cup {r}                           \* register_pending_conn
                /\ Go(r, "notify")
    /\ UNCHANGED <<clock, window, admitted, captureVars, tunnelVars, headed>>

\* proxy_request returns: its permit is dropped with it.
Leave(r, there) == Go(r, there) /\ permits' = permits + 1

\* control_tx.send: waits while the channel is full, fails once the session
\* has dropped its receiver.
Notify(r) ==
    /\ At(r, "notify")
    /\ \/ /\ member \in {"up", "down"} /\ Len(control) < ControlCapacity
          /\ control' = Append(control, r)
          /\ Go(r, "waiting") /\ UNCHANGED <<permits, pending>>
       \/ /\ member \in {"orphan", "gone"}
          /\ Leave(r, "done") /\ pending' = pending \ {r}                \* cancel_pending_conn
          /\ UNCHANGED control
    /\ UNCHANGED <<limiterVars, captureVars, member, headed>>

\* The session's main loop takes the message and has the client notified.
SessionDrain ==
    /\ member \in {"up", "down"} /\ control # <<>>
    /\ control' = Tail(control)
    /\ UNCHANGED <<pc, limiterVars, captureVars, member, holdVars>>

\* The driver resolves the pending entry with the client's data stream ...
StreamArrives(r) ==
    /\ At(r, "waiting") /\ r \in pending /\ ~Contains(control, r)
    /\ pending' = pending \ {r}
    /\ Go(r, "stream")
    /\ UNCHANGED <<limiterVars, captureVars, tunnelVars, permits, headed>>

\* ... or it drops the sender, and the caller gets a 502 at once.
SenderDropped(r) ==
    /\ At(r, "waiting") /\ r \in pending
    /\ pending' = pending \ {r}
    /\ Leave(r, "done")
    /\ UNCHANGED <<limiterVars, captureVars, tunnelVars, headed>>

\* Variant: a request whose session has gone is left waiting.
StreamTimeout_live(r) ==
    /\ At(r, "waiting") /\ member = "up"
    /\ pending' = pending \ {r}
    /\ Leave(r, "done")
    /\ UNCHANGED <<limiterVars, captureVars, tunnelVars, headed>>
\* STREAM_TIMEOUT.
StreamTimeout(r) ==
    /\ At(r, "waiting")
    /\ pending' = pending \ {r}
    /\ Leave(r, "done")
    /\ UNCHANGED <<limiterVars, captureVars, tunnelVars, headed>>

\* emit_capture: try_send, an event that finds the channel full is lost.
emit_capture(event) ==
    IF Len(captureq) < CaptureCapacity
    THEN captureq' = Append(captureq, event) /\ UNCHANGED lost
    ELSE lost' = lost \cup {event.conn} /\ UNCHANGED captureq

\* handle_ws_upgrade: the bridge is a task of its own, the handler returns the
\* 101 and its permit at once, and the event names no tunnel (Uuid::nil).
handle_ws_upgrade(r) ==
    /\ At(r, "stream")
    /\ Leave(r, "bridged")
    /\ emit_capture(Event(r, "nil"))
    /\ UNCHANGED <<limiterVars, storing, ring, rows, stored, tunnelVars, pending, headed>>

BridgeEnds(r) ==
    /\ At(r, "bridged") /\ Go(r, "done")
    /\ UNCHANGED <<limiterVars, captureVars, tunnelVars, holdVars>>

\* Variant: an error on the way out keeps the permit.
ForwardFails_leaks(r) ==
    /\ At(r, "stream") /\ Go(r, "done")
    /\ UNCHANGED <<limiterVars, captureVars, tunnelVars, holdVars>>
\* forward_http fails, or PROXY_TIMEOUT passes before the head: 502 or 504, and
\* no capture event.
ForwardFails(r) ==
    /\ At(r, "stream") /\ Leave(r, "done")
    /\ UNCHANGED <<limiterVars, captureVars, tunnelVars, pending, headed>>

\* The response head arrives: the handler returns it, the body is streamed
\* from then on without the permit.
HeadArrives(r) ==
    /\ At(r, "stream") /\ Leave(r, "body")
    /\ headed' = headed \cup {r}
    /\ UNCHANGED <<limiterVars, captureVars, tunnelVars, pending>>

\* Variant: the event is sent when the body is exhausted, and not when the
\* caller hangs up.
BodyEnds_normal(r) ==
    /\ At(r, "body") /\ Go(r, "done")
    /\ \/ emit_capture(Event(r, "tunnel"))
       \/ UNCHANGED <<captureq, lost>>
    /\ UNCHANGED <<limiterVars, storing, ring, rows, stored, tunnelVars, holdVars>>
\* The body ends, fails, or the caller hangs up: CaptureGuard::drop.
BodyEnds(r) ==
    /\ At(r, "body") /\ Go(r, "done")
    /\ emit_capture(Event(r, "tunnel"))
    /\ UNCHANGED <<limiterVars, storing, ring, rows, stored, tunnelVars, holdVars>>

----------------------------------------------------------------------------
(* The capture service                                                     *)

\* A row is written to SQLite first, a failed insert is only logged ...
persist_row ==
    /\ captureq # <<>> /\ storing = NoRow
    /\ captureq' = Tail(captureq) /\ storing' = Head(captureq)
    /\ \/ rows' = rows \cup {Head(captureq)}
       \/ UNCHANGED rows
    /\ stored' = [stored EXCEPT ![Head(captureq).tunnel] = Append(@, Head(captureq).conn)]
    /\ UNCHANGED <<pc, limiterVars, lost, ring, tunnelVars, holdVars>>

\* ... and then pushed onto the ring of its tunnel, which drops its oldest.
RingPush ==
    /\ storing # NoRow /\ storing' = NoRow
    /\ ring' = IF storing.tunnel = "nil" THEN ring
               ELSE Append(IF Len(ring) >= RingCapacity THEN Tail(ring) ELSE ring, storing.conn)
    /\ UNCHANGED <<pc, limiterVars, captureq, lost, rows, stored, tunnelVars, holdVars>>

----------------------------------------------------------------------------
(* The tunnel's member                                                     *)

\* Health reports flip the member's bit while its session lives.
HealthReport ==
    /\ member \in {"up", "down"} /\ member' = IF member = "up" THEN "down" ELSE "up"
    /\ UNCHANGED <<pc, limiterVars, captureVars, control, holdVars>>

\* remove_session: the session entry goes first and its channel with it, then
\* the route.
SessionGone ==
    /\ member \in {"up", "down"} /\ member' = "orphan" /\ control' = <<>>
    /\ UNCHANGED <<pc, limiterVars, captureVars, holdVars>>

RouteGone ==
    /\ member = "orphan" /\ member' = "gone"
    /\ UNCHANGED <<pc, limiterVars, captureVars, control, holdVars>>

----------------------------------------------------------------------------
RequestStep(r) ==
    \/ Arrive(r) \/ plain_http_request(r) \/ Resolve(r) \/ Admit(r) \/ Notify(r)
    \/ StreamArrives(r) \/ SenderDropped(r) \/ StreamTimeout(r)
    \/ handle_ws_upgrade(r) \/ ForwardFails(r) \/ HeadArrives(r) \/ BodyEnds(r)
    \/ BridgeEnds(r)

Next ==
    \/ \E r \in Requests : RequestStep(r)
    \/ SessionDrain \/ persist_row \/ RingPush
    \/ HealthReport \/ SessionGone \/ RouteGone \/ Tick

\* The tasks of a request run on: the handler's own steps, its two timers, the
\* session's main loop and the capture service.  Nothing makes the client open
\* its stream, the upstream answer, or a body or a bridge end.
Fairness ==
    /\ \A r \in Requests :
          /\ WF_vars(plain_http_request(r)) /\ WF_vars(Resolve(r)) /\ WF_vars(Admit(r))
          /\ SF_vars(Notify(r)) /\ WF_vars(StreamTimeout(r)) /\ WF_vars(ForwardFails(r))
    /\ WF_vars(SessionDrain) /\ WF_vars(persist_row) /\ WF_vars(RingPush)

Spec == Init /\ [][Next]_vars
FairSpec == Spec /\ Fairness

----------------------------------------------------------------------------
Holding == {r \in Requests : pc[r] \in {"notify", "waiting", "stream"}}

\* Type invariant; the channels and the ring never outgrow their capacities.
EdgeTypeOK ==
    /\ pc \in [Requests -> {"new", "gate", "resolve", "admit", "notify", "waiting", "stream",
                            "body", "bridged", "done"}]
    /\ permits \in 0..MaxConnections /\ pending \subseteq Requests
    /\ Len(control) <= ControlCapacity /\ Len(captureq) <= CaptureCapacity
    /\ Len(ring) <= RingCapacity /\ ToSet(ring) \subseteq Requests
    /\ bucket.tokens \in 0..(Rps * Second) /\ bucket.last \in 0..clock

\* Every way out of proxy_request gives the permit back, and none gives back
\* one it did not take: the tunnel never runs short of connections because
\* requests failed.
PermitsReturn == permits = MaxConnections - Cardinality(Holding)

\* The sliding window is exact (IpRateLimiter::check): no closed interval of
\* the window's length holds more admitted requests than the limit, however
\* requests and clock ticks interleave.
WindowIsExact ==
    MaxPerWindow > 0 =>
        \A i \in DOMAIN admitted :
            Cardinality({j \in DOMAIN admitted : admitted[j] \in admitted[i]..(admitted[i] + Window)})
                <= MaxPerWindow

\* The token bucket honours its rate (Bucket::try_consume): between any two
\* accepted requests no more got through than a full bucket and the refill for
\* the time between them, so idle time never builds up a larger burst.
BucketHonoursRate ==
    \A i \in DOMAIN passed : \A j \in i..Len(passed) :
        Second * (j - i + 1) <= Second * Rps + (passed[j] - passed[i]) * Rps

Captured == stored["tunnel"] \o stored["nil"] \o [i \in DOMAIN captureq |-> captureq[i].conn]
Newest(seq) == SubSeq(seq, IF Len(seq) > RingCapacity THEN Len(seq) - RingCapacity + 1 ELSE 1, Len(seq))

\* Capture is complete and unduplicated (CaptureGuard, start_capture_service):
\* a request that was answered through the tunnel and is over has exactly one
\* event, unless the channel was full when it ended; no request has two; and
\* the ring holds the newest rows of its tunnel in order.
CaptureIsComplete ==
    /\ IsInjective(Captured)
    /\ \A r \in headed : At(r, "done") => r \in ToSet(Captured) \cup lost
    /\ storing = NoRow => ring = Newest(stored["tunnel"])

\* A request that got past the window is answered or has its head: whatever
\* happens to the session, no caller waits for ever (STREAM_TIMEOUT,
\* PROXY_TIMEOUT, cancel_pending_conn).  The send to the control channel has
\* no timeout of its own: it relies on the session's loop to go on or end.
EveryRequestAnswered ==
    \A r \in Requests : pc[r] \in {"gate", "resolve"} ~> pc[r] \in {"body", "bridged", "done"}

\* The three limits a request passes are exact at their boundaries: the window
\* of its address, the bucket of its tunnel, and the permits, which are held by
\* the requests under way and by nobody else (ip_limiter.rs, limiter.rs, http.rs).
AdmissionIsExact == EdgeTypeOK /\ PermitsReturn /\ WindowIsExact /\ BucketHonoursRate

=============================================================================
