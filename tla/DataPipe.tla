------------------------------ MODULE DataPipe ------------------------------
(***************************************************************************)
(* How a session's data WebSocket finds its yamux driver.  The main loop   *)
(* leaves one end of the driver's loopback pipe in the session; the        *)
(* handler of /_data/<session_id> takes it and copies bytes until either   *)
(* end closes.  When the driver ends the main loop builds another, and the *)
(* client, which notices the loss by itself, connects again.               *)
(* (control/session.rs, control/mux.rs, control/server.rs, core/router.rs, *)
(* client control.rs)                                                      *)
(***************************************************************************)
EXTENDS Naturals, FiniteSets

CONSTANTS
  Sockets,        \* data WebSockets that exist at the same time
  MaxTries,       \* looks for the pipe before the handler gives up (40)
  MaxReconnects,  \* DATA_WS_RECONNECT_MAX_ATTEMPTS (5)
  MaxBlips        \* bound: things that go wrong

ASSUME PipeBounds == MaxTries \in Nat \ {0} /\ MaxReconnects \in Nat \ {0} /\ MaxBlips \in Nat

VARIABLES
  registered,  \* the session is in core.sessions
  epoch,       \* number of yamux drivers built so far; the last is the current one
  running,     \* the current driver's task runs
  slot,        \* SessionInfo.data_pipe: the driver whose pipe it is, or 0
  sock,        \* [Sockets -> the WebSocket and its handler on the server]
  local,       \* the client's main loop, as far as it is about data
  peers,       \* peers[e]: WebSockets that were bridged to driver e (history)
  blips

pipeVars == <<registered, epoch, running, slot, sock, local, peers, blips>>

\* Each blip costs at most one driver (PipeTypeOK), so the bound takes none away.
MaxEpoch == MaxBlips + 1
Unused == [srv |-> "none", tries |-> 0, pipe |-> 0, net |-> "ok", open |-> FALSE]
Client(pc, w, n) == [pc |-> pc, sock |-> w, failed |-> n]
Nowhere == "nowhere"

PipeInit ==
  /\ registered = TRUE
  /\ epoch = 0 /\ running = FALSE /\ slot = 0
  /\ sock = [w \in Sockets |-> Unused]
  /\ local = Client("first", Nowhere, 0)
  /\ peers = [e \in 1 .. MaxEpoch |-> 0]
  /\ blips = 0

Blip == blips < MaxBlips /\ blips' = blips + 1

-----------------------------------------------------------------------------
(* The session's main loop and the driver                                  *)

\* spawn_yamux_driver: start_detached, set_data_pipe over whatever is there,
\* and the task.  First by run_session, after AuthOk has been sent; then when
\* the driver has ended.
\* Variant: a pipe is stored only into an empty slot.
spawn_yamux_driver_polite ==
  /\ registered /\ ~running /\ epoch < MaxEpoch
  /\ epoch' = epoch + 1 /\ running' = TRUE
  /\ slot' = IF slot = 0 THEN epoch + 1 ELSE slot
  /\ UNCHANGED <<registered, sock, local, peers, blips>>
spawn_yamux_driver ==
  /\ registered /\ ~running /\ epoch < MaxEpoch
  /\ epoch' = epoch + 1 /\ running' = TRUE
  /\ slot' = epoch + 1
  /\ UNCHANGED <<registered, sock, local, peers, blips>>

Held(e) == slot = e \/ \E w \in Sockets : sock[w].srv = "bridging" /\ sock[w].pipe = e

\* poll_next_inbound sees the pipe closed, or open_rx the session gone.
DriverEnds ==
  /\ running /\ (~Held(epoch) \/ ~registered)
  /\ running' = FALSE
  /\ UNCHANGED <<registered, epoch, slot, sock, local, peers, blips>>

\* A yamux error, with the pipe in whoever's hands.
DriverFails ==
  /\ running /\ Blip
  /\ running' = FALSE
  /\ UNCHANGED <<registered, epoch, slot, sock, local, peers>>

\* The control connection ends, on its own or with the client: remove_session
\* drops the slot.
SessionOver ==
  /\ registered
  /\ \/ local.pc = "gone" /\ UNCHANGED blips
     \/ Blip
  /\ registered' = FALSE /\ slot' = 0
  /\ local' = Client("gone", Nowhere, 0)
  /\ sock' = [w \in Sockets |-> [sock[w] EXCEPT !.open = FALSE]]
  /\ UNCHANGED <<epoch, running, peers>>

-----------------------------------------------------------------------------
(* handle_data_connection                                                  *)

\* The handler returns: the WebSocket and the pipe's end are dropped.
\* Variant: the pipe goes back for the next WebSocket.
Returns_pipe_back(w) ==
  /\ sock' = [sock EXCEPT ![w] = IF @.open THEN [@ EXCEPT !.srv = "done", !.pipe = 0] ELSE Unused]
  /\ slot' = IF registered /\ sock[w].pipe = epoch THEN epoch ELSE slot
  /\ UNCHANGED <<registered, epoch, running, local, peers, blips>>
Returns(w) ==
  /\ sock' = [sock EXCEPT ![w] = IF @.open THEN [@ EXCEPT !.srv = "done", !.pipe = 0] ELSE Unused]
  /\ UNCHANGED <<registered, epoch, running, slot, local, peers, blips>>

\* take_data_pipe
TakePipe(w) ==
  /\ sock[w].srv = "finding" /\ slot # 0
  /\ sock' = [sock EXCEPT ![w].srv = "bridging", ![w].pipe = slot]
  /\ peers' = [peers EXCEPT ![slot] = @ + 1]
  /\ slot' = 0
  /\ UNCHANGED <<registered, epoch, running, local, blips>>

\* sleep(5 ms), and the next look
TryAgain(w) ==
  /\ sock[w].srv = "finding" /\ slot = 0 /\ sock[w].tries < MaxTries
  /\ sock' = [sock EXCEPT ![w].tries = @ + 1]
  /\ UNCHANGED <<registered, epoch, running, slot, local, peers, blips>>

NotFound(w) ==
  /\ sock[w].srv = "finding" /\ slot = 0 /\ sock[w].tries = MaxTries
  /\ Returns(w)

\* The copy loop ends: the WebSocket was closed or reset, a ping went without
\* its pong, or the pipe's other end is gone.  A pong that is under way arrives
\* before the next tick.
BridgeEnds(w) ==
  /\ sock[w].srv = "bridging"
  /\ \/ sock[w].net # "ok" \/ ~sock[w].open
     \/ sock[w].pipe # epoch \/ ~running
  /\ Returns(w)

ServerSide(w) == TakePipe(w) \/ TryAgain(w) \/ NotFound(w) \/ BridgeEnds(w)

-----------------------------------------------------------------------------
(* The client's main loop                                                  *)

\* run_control_plane upgrades whatever comes, and hands /_data/<id> to
\* handle_data_connection.
Accepted == [Unused EXCEPT !.srv = "finding", !.open = TRUE]

\* connect_data_ws: the WebSocket is upgraded before the server looks for the
\* pipe, so the client has a connection that may lead nowhere.
ConnectData(w) ==
  /\ local.pc \in {"first", "retry"} /\ registered
  /\ sock[w] = Unused
  /\ sock' = [sock EXCEPT ![w] = Accepted]
  /\ local' = Client("connected", w, 0)
  /\ UNCHANGED <<registered, epoch, running, slot, peers, blips>>

\* A failure of the first is only logged; of the others, the loop gives up
\* after MaxReconnects and the control connection is left.
ConnectFails ==
  /\ local.pc \in {"first", "retry"} /\ Blip
  /\ local' = CASE local.pc = "first" -> Client("without", Nowhere, 0)
                [] local.pc = "retry" /\ local.failed + 1 = MaxReconnects -> Client("gone", Nowhere, 0)
                [] OTHER -> [local EXCEPT !.failed = @ + 1]
  /\ UNCHANGED <<registered, epoch, running, slot, sock, peers>>

\* poll_read of the client's WsCompat: an end of file when the server hung up,
\* an error when the connection was reset, nothing from a silent one.
ReadEnds(w) == sock[w].srv = "done" /\ sock[w].net = "ok"
ReadErr(w) == sock[w].net = "reset"

\* drive_client_mux leaves its loop, so recv() returns None.
\* Variant: only the end of file ends the loop.
Noticed_eof_only(w) == ReadEnds(w)
Noticed(w) == ReadEnds(w) \/ ReadErr(w)
DataLost(w) ==
  /\ local = Client("connected", w, 0) /\ Noticed(w)
  /\ local' = Client("retry", Nowhere, 0)
  /\ sock' = [sock EXCEPT ![w] = IF @.srv = "done" THEN Unused ELSE [@ EXCEPT !.open = FALSE]]
  /\ UNCHANGED <<registered, epoch, running, slot, peers, blips>>

\* The network resets a connection, or swallows what it carries.
NetworkFails(w) ==
  /\ sock[w].open /\ sock[w].net = "ok" /\ Blip
  /\ \E n \in {"reset", "silent"} : sock' = [sock EXCEPT ![w].net = n]
  /\ UNCHANGED <<registered, epoch, running, slot, local, peers>>

PipeNext ==
  \/ spawn_yamux_driver \/ DriverEnds \/ DriverFails \/ SessionOver \/ ConnectFails
  \/ \E w \in Sockets : ServerSide(w) \/ ConnectData(w) \/ DataLost(w) \/ NetworkFails(w)

PipeSpec == PipeInit /\ [][PipeNext]_pipeVars

-----------------------------------------------------------------------------
(* Properties                                                              *)

\* Type invariant.  A blip costs at most one driver, and none is replaced in a
\* circle: while the session lasts there is always another for one that ended.
PipeTypeOK ==
  /\ registered \in BOOLEAN /\ running \in BOOLEAN
  /\ epoch \in 0 .. MaxEpoch /\ (registered /\ ~running => epoch < MaxEpoch)
  /\ sock \in [Sockets -> [srv : {"none", "finding", "bridging", "done"}, tries : 0 .. MaxTries,
                           pipe : 0 .. MaxEpoch, net : {"ok", "reset", "silent"}, open : BOOLEAN]]
  /\ local.pc \in {"first", "connected", "retry", "without", "gone"}
  /\ blips \in 0 .. MaxBlips

\* The pipe in the slot is the current driver's: a WebSocket that takes it
\* while that driver runs reaches the driver the main loop talks to.
SlotIsCurrent == slot # 0 => slot = epoch

\* A driver meets one WebSocket in its life, and no other continues the
\* conversation: both ends of a yamux connection count their streams from the
\* start (Connection::new on either side).
OneConversation == \A e \in DOMAIN peers : peers[e] <= 1

Attached ==
  /\ local.pc = "connected" /\ running
  /\ sock[local.sock].srv = "bridging" /\ sock[local.sock].pipe = epoch /\ sock[local.sock].net = "ok"

\* After the last fault the data plane comes together: the client's WebSocket
\* ends at the driver that runs, whichever side saw the loss first and whatever
\* handlers of earlier WebSockets are still about.  Two states are final
\* instead, besides the session's end: a client whose first data connection
\* failed never tries again (control.rs:526), and one whose connection went
\* silent does not hear of it (drive_client_mux has no deadline).
DataPlaneAttached ==
  <>[](\/ Attached \/ ~registered \/ local.pc = "without"
       \/ local.pc = "connected" /\ sock[local.sock].net = "silent")

\* Whatever takes the pipe gets the current driver's, and is the only one that
\* ever talks to it (set_data_pipe, take_data_pipe, handle_data_connection).
PipesAreCurrent == PipeTypeOK /\ SlotIsCurrent /\ OneConversation

=============================================================================
