------------------------------ MODULE DataPlane ------------------------------
(***************************************************************************)
(* How a public connection gets its yamux stream: the edge task registers  *)
(* itself in `pending_conns` and sends NewConnection to the session's main *)
(* loop; the main loop passes the id to the yamux driver; the driver opens *)
(* a stream and a writer task delivers it to the waiting edge task.        *)
(*                                                                         *)
(* One session, any number of connections.  The data WebSocket may drop at *)
(* any time: the driver then ends, and the main loop builds a new one.     *)
(* (control/session.rs, core/router.rs, edge/http.rs, edge/tcp.rs)         *)
(***************************************************************************)
EXTENDS Naturals, Sequences, FiniteSets

CONSTANTS
  HttpConns,     \* connections handled by edge/http.rs
  TcpConns,      \* connections handled by edge/tcp.rs
  CtrlCap,       \* CTRL_CHANNEL_SIZE (64)
  OpenCap,       \* capacity of the driver's open channel (16)
  MaxConns,      \* limits.max_connections_per_tunnel, of the TCP tunnel
  None           \* Option::None

ASSUME ConnsDisjoint  == HttpConns \cap TcpConns = {}
ASSUME CapsPositive   == CtrlCap \in Nat \ {0} /\ OpenCap \in Nat \ {0} /\ MaxConns \in Nat \ {0}
ASSUME NoneIsNoConn   == None \notin HttpConns \cup TcpConns

VARIABLES
  edge,          \* where the edge task of each connection stands
  permits,       \* free permits of the TCP tunnel's conn_semaphore
  pending,       \* keys of TunnelCore.pending_conns
  oneshot,       \* what each edge task's receiver would return
  ctrl,          \* the session's control channel
  alive,         \* the session's main loop runs
  hand,          \* the connection the main loop is passing to the driver
  driver,        \* state of the current yamux driver task
  opening,       \* the connection the driver is opening a stream for
  openq,         \* the driver's open channel
  link,          \* the yamux connection of the current driver works
  writer         \* the task writing conn_id on a fresh stream

vars == <<edge, permits, pending, oneshot, ctrl, alive, hand, driver, opening, openq, link, writer>>

Conns == HttpConns \cup TcpConns

EdgeStates == {"new", "turned_away", "registered", "waiting", "served", "refused", "timed_out",
               "abandoned", "closed"}
Ended == {"served", "refused", "timed_out", "abandoned", "closed"}

Init ==
  /\ edge = [c \in Conns |-> "new"]
  /\ permits = MaxConns
  /\ pending = {}
  /\ oneshot = [c \in Conns |-> "empty"]
  /\ ctrl = <<>>
  /\ alive = TRUE
  /\ hand = None
  /\ driver = "running"
  /\ opening = None
  /\ openq = <<>>
  /\ link = TRUE
  /\ writer = [c \in Conns |-> "none"]

mainVars == <<ctrl, alive, hand>>
driverVars == <<driver, opening, openq, link>>

SetEdge(c, e) == edge' = [edge EXCEPT ![c] = e]

\* The end of proxy_tcp_connection drops _permit.
\* Variant: a connection that ends without a stream forgets its permit.
Leave_forgets(c, e) ==
  /\ SetEdge(c, e)
  /\ permits' = IF c \in TcpConns /\ e = "closed" THEN permits + 1 ELSE permits
Leave(c, e) ==
  /\ SetEdge(c, e)
  /\ permits' = IF c \in TcpConns THEN permits + 1 ELSE permits

\* Variant: the sender is kept alive somewhere, so nobody is woken.
Cancel_keepsSender(c) == pending' = pending \ {c} /\ UNCHANGED oneshot

\* cancel_pending_conn: dropping the sender wakes the receiver with an error.
Cancel(c) ==
  /\ pending' = pending \ {c}
  /\ oneshot' = IF c \in pending THEN [oneshot EXCEPT ![c] = "dropped"] ELSE oneshot

\* resolve_pending_conn: deliver the stream if somebody is still registered.
Resolve(c) ==
  /\ pending' = pending \ {c}
  /\ oneshot' = IF c \in pending THEN [oneshot EXCEPT ![c] = "stream"] ELSE oneshot

-----------------------------------------------------------------------------
(* The edge task of a connection *)

\* register_pending_conn of the HTTP edge (HttpEdge has what comes before it).
ArriveHttp(c) ==
  /\ edge[c] = "new"
  /\ SetEdge(c, "registered")
  /\ pending' = pending \cup {c}
  /\ UNCHANGED <<permits, oneshot, writer, mainVars, driverVars>>

\* The accept loop of port_listener drops a connection over the IP limit, and
\* proxy_tcp_connection one without a route or a permit.
TurnAway(c) ==
  /\ edge[c] = "new"
  /\ SetEdge(c, "turned_away")
  /\ UNCHANGED <<permits, pending, oneshot, writer, mainVars, driverVars>>

\* proxy_tcp_connection up to register_pending_conn.
ArriveTcp(c) ==
  /\ edge[c] = "new" /\ permits > 0
  /\ SetEdge(c, "registered")
  /\ permits' = permits - 1
  /\ pending' = pending \cup {c}
  /\ UNCHANGED <<oneshot, writer, mainVars, driverVars>>

\* control_tx.send().await waits for room in the channel.
SendControl(c) ==
  /\ edge[c] = "registered" /\ alive
  /\ Len(ctrl) < CtrlCap
  /\ ctrl' = Append(ctrl, c)
  /\ SetEdge(c, "waiting")
  /\ UNCHANGED <<permits, pending, oneshot, alive, hand, writer, driverVars>>

\* The session is gone: the HTTP edge cancels before it answers 502.
SendFailsHttp(c) ==
  /\ edge[c] = "registered" /\ ~alive
  /\ Leave(c, "refused")
  /\ Cancel(c)
  /\ UNCHANGED <<writer, mainVars, driverVars>>

\* The TCP edge returns with `?` and leaves its registration behind.
SendFailsTcp(c) ==
  /\ edge[c] = "registered" /\ ~alive
  /\ Leave(c, "refused")
  /\ UNCHANGED <<pending, oneshot, writer, mainVars, driverVars>>

\* timeout(STREAM_TIMEOUT, stream_rx) returning before its deadline.
Receive(c) ==
  /\ edge[c] = "waiting" /\ oneshot[c] # "empty"
  /\ IF oneshot[c] = "stream" THEN SetEdge(c, "served") /\ UNCHANGED permits ELSE Leave(c, "refused")
  /\ UNCHANGED <<pending, oneshot, writer, mainVars, driverVars>>

\* Variant: the HTTP edge forgets its registration, as the TCP edge does.
TimeoutHttp_forgets(c) ==
  /\ edge[c] = "waiting" /\ oneshot[c] = "empty"
  /\ Leave(c, "timed_out")
  /\ UNCHANGED <<pending, oneshot, writer, mainVars, driverVars>>

TimeoutHttp(c) ==
  /\ edge[c] = "waiting" /\ oneshot[c] = "empty"
  /\ Leave(c, "timed_out")
  /\ Cancel(c)
  /\ UNCHANGED <<writer, mainVars, driverVars>>

TimeoutTcp(c) ==
  /\ edge[c] = "waiting" /\ oneshot[c] = "empty"
  /\ Leave(c, "timed_out")
  /\ UNCHANGED <<pending, oneshot, writer, mainVars, driverVars>>

\* The HTTP server drops the request's future when the public client hangs up.
AbandonHttp(c) ==
  /\ edge[c] \in {"registered", "waiting"}
  /\ SetEdge(c, "abandoned")
  /\ UNCHANGED <<permits, pending, oneshot, writer, mainVars, driverVars>>

\* copy_bidirectional ends, in order or with an error; the byte counts of the
\* former go to the tunnel's meter (Metering).
CopyEnds(c) ==
  /\ edge[c] = "served"
  /\ Leave(c, "closed")
  /\ UNCHANGED <<pending, oneshot, writer, mainVars, driverVars>>

-----------------------------------------------------------------------------
(* The main loop *)

TakeControl ==
  /\ alive /\ hand = None /\ ctrl # <<>>
  /\ hand' = Head(ctrl)
  /\ ctrl' = Tail(ctrl)
  /\ UNCHANGED <<edge, permits, pending, oneshot, alive, writer, driverVars>>

\* Variant: a dead driver is taken for a busy one.
PassOn_waits ==
  /\ hand # None
  /\ hand' = None
  /\ driver # "dead" /\ Len(openq) < OpenCap
  /\ openq' = Append(openq, hand)
  /\ UNCHANGED <<edge, permits, pending, oneshot, ctrl, alive, driver, opening, link, writer>>

\* open_tx.send().await: an error once the driver has dropped its receiver,
\* otherwise it waits for room.  On success the client is told.
PassOn ==
  /\ hand # None
  /\ hand' = None
  /\ \/ /\ driver = "dead"
        /\ Cancel(hand)
        /\ UNCHANGED openq
     \/ /\ driver # "dead" /\ Len(openq) < OpenCap
        /\ openq' = Append(openq, hand)
        /\ UNCHANGED <<pending, oneshot>>
  /\ UNCHANGED <<edge, permits, ctrl, alive, driver, opening, link, writer>>

\* The driver_handle arm: a new MuxSession, pipe, channel and driver.
Rebuild ==
  /\ alive /\ hand = None /\ driver = "dead"
  /\ driver' = "running" /\ link' = TRUE
  /\ openq' = <<>> /\ opening' = None
  /\ UNCHANGED <<edge, permits, pending, oneshot, writer, mainVars>>

\* main_loop returns (peer gone, heartbeat, shutdown, failed send): the control
\* channel and the open channel's sender are dropped.
EndSession ==
  /\ alive /\ hand = None
  /\ alive' = FALSE
  /\ ctrl' = <<>>
  /\ UNCHANGED <<edge, permits, pending, oneshot, hand, writer, driverVars>>

-----------------------------------------------------------------------------
(* The yamux driver and its writers *)

\* Variant: the request is read and stays in the channel.
TakeOpen_peek ==
  /\ driver = "running" /\ opening = None /\ openq # <<>>
  /\ opening' = Head(openq)
  /\ UNCHANGED <<edge, permits, pending, oneshot, driver, openq, link, writer, mainVars>>

TakeOpen ==
  /\ driver = "running" /\ opening = None /\ openq # <<>>
  /\ opening' = Head(openq)
  /\ openq' = Tail(openq)
  /\ UNCHANGED <<edge, permits, pending, oneshot, driver, link, writer, mainVars>>

\* poll_new_outbound succeeded: a task of its own writes conn_id on the stream.
OpenOk ==
  /\ opening # None /\ link
  /\ opening' = None
  /\ writer' = [writer EXCEPT ![opening] = "writing"]
  /\ UNCHANGED <<edge, permits, pending, oneshot, driver, openq, link, mainVars>>

\* poll_new_outbound returned an error: it is logged.
OpenErr ==
  /\ opening # None /\ ~link
  /\ opening' = None
  /\ UNCHANGED <<edge, permits, pending, oneshot, driver, openq, link, writer, mainVars>>

\* Five seconds without an answer.
OpenTimeout ==
  /\ opening # None
  /\ opening' = None
  /\ Cancel(opening)
  /\ UNCHANGED <<edge, permits, driver, openq, link, writer, mainVars>>

\* The bridge to the data WebSocket ends: the yamux connection is closed, and
\* with it every stream that is being written.
DataDrop ==
  /\ link
  /\ link' = FALSE
  /\ writer' = [c \in Conns |-> IF writer[c] = "writing" THEN "cut" ELSE writer[c]]
  /\ UNCHANGED <<edge, permits, pending, oneshot, driver, opening, openq, mainVars>>

\* The driver leaves its loop: poll_next_inbound saw the end of the connection,
\* or the main loop's sender is gone and the channel is empty.
StopDriver ==
  /\ driver = "running" /\ opening = None
  /\ ~link \/ (~alive /\ openq = <<>>)
  /\ driver' = "draining"
  /\ UNCHANGED <<edge, permits, pending, oneshot, opening, openq, link, writer, mainVars>>

\* while let Ok(conn_id) = open_rx.try_recv()
Drain ==
  /\ driver = "draining" /\ openq # <<>>
  /\ openq' = Tail(openq)
  /\ Cancel(Head(openq))
  /\ UNCHANGED <<edge, permits, driver, opening, link, writer, mainVars>>

DrainEnd ==
  /\ driver = "draining" /\ openq = <<>>
  /\ driver' = "exiting"
  /\ UNCHANGED <<edge, permits, pending, oneshot, opening, openq, link, writer, mainVars>>

\* The task returns and open_rx is dropped, with what came in since the drain.
ExitDriver ==
  /\ driver = "exiting"
  /\ driver' = "dead"
  /\ openq' = <<>>
  /\ UNCHANGED <<edge, permits, pending, oneshot, opening, link, writer, mainVars>>

\* conn_id written and flushed: hand the stream over.  A cut writer may have
\* flushed before the cut.
Deliver(c) ==
  /\ writer[c] # "none"
  /\ writer' = [writer EXCEPT ![c] = "none"]
  /\ Resolve(c)
  /\ UNCHANGED <<edge, permits, mainVars, driverVars>>

\* write_all or flush failed: the task returns.
WriteFails(c) ==
  /\ writer[c] = "cut"
  /\ writer' = [writer EXCEPT ![c] = "none"]
  /\ UNCHANGED <<edge, permits, pending, oneshot, mainVars, driverVars>>

-----------------------------------------------------------------------------

EdgeStep(c) ==
  \/ SendControl(c)
  \/ Receive(c)
  \/ c \in HttpConns /\ (SendFailsHttp(c) \/ TimeoutHttp(c))
  \/ c \in TcpConns /\ (SendFailsTcp(c) \/ TimeoutTcp(c))

MainStep == TakeControl \/ PassOn \/ Rebuild

DriverStep == TakeOpen \/ OpenErr \/ OpenTimeout \/ StopDriver \/ Drain \/ DrainEnd \/ ExitDriver

Environment ==
  \/ \E c \in HttpConns : ArriveHttp(c)
  \/ \E c \in TcpConns : ArriveTcp(c) \/ TurnAway(c) \/ CopyEnds(c)
  \/ \E c \in HttpConns : AbandonHttp(c)
  \/ OpenOk
  \/ DataDrop
  \/ EndSession

Next ==
  \/ \E c \in Conns : EdgeStep(c) \/ Deliver(c) \/ WriteFails(c)
  \/ MainStep
  \/ DriverStep
  \/ Environment

Spec == Init /\ [][Next]_vars

(***************************************************************************)
(* Every task that can run does, and a timer that has been started fires   *)
(* when nothing else ends the wait.  select! picks among the ready arms at *)
(* random, so no arm of the main loop starves another; waiting senders of  *)
(* a tokio channel are served in their order.  That a stream is opened     *)
(* (OpenOk) is up to the client and is not assumed.                        *)
(***************************************************************************)
Fairness ==
  /\ \A c \in Conns : WF_vars(EdgeStep(c)) /\ WF_vars(Deliver(c) \/ WriteFails(c))
  /\ \A c \in Conns : SF_vars(SendControl(c))
  /\ WF_vars(TakeControl) /\ WF_vars(PassOn) /\ WF_vars(Rebuild)
  /\ WF_vars(DriverStep)

FairSpec == Spec /\ Fairness

-----------------------------------------------------------------------------
(* Properties *)

\* Every variable has the shape of the Rust value it stands for, and no channel
\* holds more than its capacity.
TypeOK ==
  /\ edge \in [Conns -> EdgeStates]
  /\ permits \in 0..MaxConns
  /\ pending \in SUBSET Conns
  /\ oneshot \in [Conns -> {"empty", "stream", "dropped"}]
  /\ ctrl \in Seq(Conns) /\ Len(ctrl) <= CtrlCap
  /\ alive \in BOOLEAN
  /\ hand \in Conns \cup {None}
  /\ driver \in {"running", "draining", "exiting", "dead"}
  /\ opening \in Conns \cup {None}
  /\ openq \in Seq(Conns) /\ Len(openq) <= OpenCap
  /\ link \in BOOLEAN
  /\ writer \in [Conns -> {"none", "writing", "cut"}]

\* A connection's request is in at most one place: no stream is opened twice
\* for one connection, whatever is drained, rebuilt or retried.
RequestIsSingle ==
  \A c \in Conns :
    Cardinality({i \in 1..Len(ctrl) : ctrl[i] = c} \X {"ctrl"}
                \cup {i \in 1..Len(openq) : openq[i] = c} \X {"openq"}
                \cup {i \in {1} : hand = c} \X {"hand"}
                \cup {i \in {1} : opening = c} \X {"opening"}
                \cup {i \in {1} : writer[c] # "none"} \X {"writer"}) <= 1

\* An edge task's receiver is decided exactly when its registration is gone;
\* so a late stream never reaches a connection that was cancelled, and a
\* waiting edge task always has a sender or an answer.
PendingMeansUndecided ==
  \A c \in Conns : edge[c] \in {"registered", "waiting"} =>
    (c \in pending <=> oneshot[c] = "empty")

\* However a TCP connection ends, its permit comes back: what is missing from
\* the semaphore is held by connections that wait or are copied.
TcpPermitsReturn ==
  permits + Cardinality({c \in TcpConns : edge[c] \in {"registered", "waiting", "served"}}) = MaxConns

\* A registration that outlives its HTTP edge task is due to the public client
\* hanging up: every return of proxy_request cleans up.
HttpLeavesNothing ==
  \A c \in HttpConns : edge[c] \in Ended /\ c \in pending => edge[c] = "abandoned"

\* Every connection is answered: the three bounded waits (room in the control
\* channel, room in the open channel, the stream) never close a circle.
EveryConnectionEnds ==
  \A c \in Conns : edge[c] = "registered" ~> edge[c] \in Ended

\* While the session lasts, a driver that has ended is replaced.
DataPlaneComesBack ==
  driver = "dead" ~> (driver = "running" \/ ~alive)

\* A connection is in one place and is decided once: its id is in one stage of
\* the hand-off, and it is registered only while nothing has been decided about it
\* (register_pending_conn, resolve_pending_conn, cancel_pending_conn).
OneDecision == TypeOK /\ RequestIsSingle /\ PendingMeansUndecided

\* However a connection ends, its permit is back, and an HTTP one has left no
\* registration (proxy_http_request, handle_tcp_connection).
EndedLeavesNothing == TcpPermitsReturn /\ HttpLeavesNothing

\* Neither a public connection nor the session waits forever for a driver that
\* is gone (drive_server_mux, the driver_handle arm of main_loop).
NobodyIsStranded == EveryConnectionEnds /\ DataPlaneComesBack

=============================================================================
