---------------------------- MODULE ClientSession ----------------------------
(***************************************************************************)
(* One client and the sessions it opens, one after the other: connecting,  *)
(* authenticating, registering its tunnels, serving, and trying again      *)
(* (client: reconnect.rs, control.rs), against the server's session tasks, *)
(* their heartbeat and their cleanup (server: control/session.rs) and the  *)
(* shutdown of the process (server: main.rs).                              *)
(*                                                                         *)
(* The client's token is valid, and nobody else wants its names.  What     *)
(* goes wrong comes from outside and is counted in faults: a network that  *)
(* silently stops, a peer too slow for a deadline, a data WebSocket that   *)
(* cannot be rebuilt, a database that does not answer, a restart.          *)
(***************************************************************************)
EXTENDS Naturals, Sequences

CONSTANTS
  NumTunnels,    \* tunnels of the client's configuration, each with a subdomain
  MaxAttempts,   \* calls of control::connect; attempt s opens session s
  MaxFaults,     \* faults, of all kinds together
  MaxConns       \* public connections that arrive

ASSUME SessionBounds ==
  /\ NumTunnels \in Nat \ {0} /\ MaxAttempts \in Nat \ {0}
  /\ MaxFaults \in Nat /\ MaxConns \in Nat

VARIABLES
  client,        \* the client: [pc, conn, next, awaiting, exit]
  link,          \* the control WebSocket of each attempt
  toServer,      \* frames on their way to the session task
  toClient,      \* frames on their way to the client
  task,          \* where the session task of each attempt stands
  pending,       \* heartbeat_task: a ping is unanswered
  stopping,      \* sessions with Shutdown in their control channel
  sessions,      \* keys of TunnelCore.sessions
  owner,         \* the session that has each tunnel's name, or 0
  process,       \* the server process: "up" or "draining"
  faults,        \* faults so far
  conns          \* public connections so far

vars == <<client, link, toServer, toClient, task, pending, stopping, sessions, owner,
          process, faults, conns>>

Attempts == 1..MaxAttempts
Tunnels == 1..NumTunnels

(***************************************************************************)
(* The client is at                                                        *)
(*   start     the top of run_with_reconnect's loop, backoff included      *)
(*   auth      waiting for the answer to Auth                              *)
(*   ask       about to register tunnel next                               *)
(*   answer    waiting for the answer to RegisterTunnel                    *)
(*   online    main_loop                                                   *)
(*   exited    run_with_reconnect has returned; exit says why              *)
(* A session task is at                                                    *)
(*   auth      auth_handshake, before the frame is read                    *)
(*   authed    the session is registered, AuthOk is not sent               *)
(*   loop      main_loop                                                   *)
(*   cleanup   main_loop has returned                                      *)
(*   over      run_session has returned                                    *)
(***************************************************************************)
ClientPCs == {"start", "auth", "ask", "answer", "online", "exited"}
TaskPCs == {"none", "auth", "authed", "loop", "cleanup", "over"}
Exits == {"none", "asked", "closed", "auth", "tunnel"}

Kinds == {"auth", "register", "ping", "pong", "authok", "autherror", "registered",
          "refused", "newconn", "close", "reset"}

Frame(kind) == [kind |-> kind, tunnel |-> 0]

At(s, pc) == task[s] = pc
ClientAt(pc) == client.pc = pc
Goto(s, pc) == task' = [task EXCEPT ![s] = pc]

\* run_session returns: what its channels and its socket still held is gone.
Finish(s) ==
  /\ Goto(s, "over")
  /\ toServer' = [toServer EXCEPT ![s] = <<>>]
  /\ pending' = [pending EXCEPT ![s] = FALSE]
  /\ stopping' = stopping \ {s}

\* The client still has its end of attempt s, and the network carries frames.
Present(s) == client.conn = s /\ client.pc \notin {"start", "exited"}
Connected(s) == link[s] = "up" /\ Present(s)

\* WebSocket sends: on a dead link the kernel takes the bytes and they are lost.
Tell(s, f) == toClient' = [toClient EXCEPT ![s] = IF Connected(s) THEN Append(@, f) ELSE @]
Reply(f) ==
  LET s == client.conn
  IN  toServer' = [toServer EXCEPT
                     ![s] = IF link[s] = "up" /\ ~At(s, "over") THEN Append(@, f) ELSE @]

Heard(s, kind) == toServer[s] # <<>> /\ Head(toServer[s]).kind = kind
Told(kind) == toClient[client.conn] # <<>> /\ Head(toClient[client.conn]).kind = kind
Consume(s) == toServer' = [toServer EXCEPT ![s] = Tail(@)]
Take == toClient' = [toClient EXCEPT ![client.conn] = Tail(@)]

\* One more thing goes wrong.
Fault == faults < MaxFaults /\ faults' = faults + 1
NoFault == UNCHANGED faults

Init ==
  /\ client = [pc |-> "start", conn |-> 0, next |-> 1, awaiting |-> FALSE, exit |-> "none"]
  /\ link = [s \in Attempts |-> "none"]
  /\ toServer = [s \in Attempts |-> <<>>]
  /\ toClient = [s \in Attempts |-> <<>>]
  /\ task = [s \in Attempts |-> "none"]
  /\ pending = [s \in Attempts |-> FALSE]
  /\ stopping = {}
  /\ sessions = {}
  /\ owner = [i \in Tunnels |-> 0]
  /\ process = "up"
  /\ faults = 0
  /\ conns = 0

-----------------------------------------------------------------------------
(* The client *)

\* control::connect returns and drops the WebSocket: the server hears a reset,
\* or the close frame the client sent, and what was under way to it is gone.
Leave(mark, pc, why) ==
  /\ client' = [client EXCEPT !.pc = pc, !.exit = why]
  /\ Reply(Frame(mark))
  /\ toClient' = [toClient EXCEPT ![client.conn] = <<>>]

\* A retryable error (is_fatal says no): back to the loop and its backoff.
Retry == Leave("reset", "start", "none")

\* Connect and send Auth.  A refused connection only lengthens the backoff.
Dial ==
  LET s == client.conn + 1
  IN  /\ ClientAt("start") /\ s \in Attempts
      /\ client' = [client EXCEPT !.pc = "auth", !.conn = s, !.next = 1, !.awaiting = FALSE]
      /\ link' = [link EXCEPT ![s] = "up"]
      /\ toServer' = [toServer EXCEPT ![s] = <<Frame("auth")>>]
      /\ Goto(s, "auth")
      /\ UNCHANGED <<toClient, pending, stopping, sessions, owner, process, faults, conns>>

RecvAuth ==
  /\ ClientAt("auth")
  /\ \/ /\ Told("authok") /\ Take
        /\ client' = [client EXCEPT !.pc = "ask"]
        /\ UNCHANGED toServer
     \/ Told("autherror") /\ Leave("reset", "exited", "auth")
     \/ Told("reset") /\ Retry
  /\ UNCHANGED <<link, task, pending, stopping, sessions, owner, process, faults, conns>>

\* send RegisterTunnel for the next tunnel of the configuration.
Ask ==
  /\ ClientAt("ask") /\ client.next \in Tunnels
  /\ Reply([kind |-> "register", tunnel |-> client.next])
  /\ client' = [client EXCEPT !.pc = "answer"]
  /\ UNCHANGED <<link, toClient, task, pending, stopping, sessions, owner, process, faults, conns>>

\* The next frame must be the answer.  Any other, also a Ping or the
\* NewConnection of a tunnel that is already public, ends the attempt.
RecvAnswer ==
  /\ ClientAt("answer")
  /\ \/ /\ Told("registered") /\ Take
        /\ client' = [client EXCEPT !.pc = "ask", !.next = @ + 1]
        /\ UNCHANGED toServer
     \/ Told("refused") /\ Leave("reset", "exited", "tunnel")
     \/ (\E k \in {"ping", "newconn", "close", "reset"} : Told(k)) /\ Retry
  /\ UNCHANGED <<link, task, pending, stopping, sessions, owner, process, faults, conns>>

\* Variant: a deadline that only runs while the network does.
AwaitTimeout_none ==
  /\ client.pc \in {"auth", "answer"} /\ toClient[client.conn] = <<>>
  /\ link[client.conn] = "up" /\ Fault
  /\ Retry
  /\ UNCHANGED <<link, task, pending, stopping, sessions, owner, process, conns>>

\* recv_frame_timeout: no answer within AUTH_TIMEOUT.
AwaitTimeout ==
  /\ client.pc \in {"auth", "answer"} /\ toClient[client.conn] = <<>>
  /\ IF link[client.conn] = "up" THEN Fault ELSE NoFault
  /\ Retry
  /\ UNCHANGED <<link, task, pending, stopping, sessions, owner, process, conns>>

\* Everything is registered: the data WebSocket, the display, main_loop.
GoOnline ==
  /\ ClientAt("ask") /\ client.next > NumTunnels
  /\ client' = [client EXCEPT !.pc = "online"]
  /\ UNCHANGED <<link, toServer, toClient, task, pending, stopping, sessions, owner,
                 process, faults, conns>>

\* The control arm of main_loop.  The stream that ends after a close frame is a
\* clean exit (None => Ok), one that breaks off is an error.
ServeFrame ==
  /\ ClientAt("online")
  /\ \/ Told("newconn") /\ Take /\ UNCHANGED <<client, toServer>>
     \/ Told("ping") /\ Take /\ Reply(Frame("pong")) /\ UNCHANGED client
     \/ Told("pong") /\ Take /\ client' = [client EXCEPT !.awaiting = FALSE] /\ UNCHANGED toServer
     \/ Told("close") /\ Leave("reset", "exited", "closed")
     \/ Told("reset") /\ Retry
  /\ UNCHANGED <<link, task, pending, stopping, sessions, owner, process, faults, conns>>

ClientPing ==
  /\ ClientAt("online") /\ ~client.awaiting
  /\ Reply(Frame("ping"))
  /\ client' = [client EXCEPT !.awaiting = TRUE]
  /\ UNCHANGED <<link, toClient, task, pending, stopping, sessions, owner, process, faults, conns>>

\* The next tick of the ping interval finds the pong overdue.
ClientPongOverdue ==
  /\ ClientAt("online") /\ client.awaiting
  /\ IF link[client.conn] = "up" THEN Fault ELSE NoFault
  /\ Retry
  /\ UNCHANGED <<link, task, pending, stopping, sessions, owner, process, conns>>

\* The data WebSocket drops and DATA_WS_RECONNECT_MAX_ATTEMPTS attempts fail.
DataLost ==
  /\ ClientAt("online") /\ Fault
  /\ Retry
  /\ UNCHANGED <<link, task, pending, stopping, sessions, owner, process, conns>>

\* Ctrl-C in main_loop: a close frame, and a clean exit.
Interrupt ==
  /\ ClientAt("online")
  /\ Leave("close", "exited", "asked")
  /\ UNCHANGED <<link, task, pending, stopping, sessions, owner, process, faults, conns>>

\* A shutdown the user asks for ends the backoff.
InterruptBackoff ==
  /\ ClientAt("start") /\ client.conn > 0
  /\ client' = [client EXCEPT !.pc = "exited", !.exit = "asked"]
  /\ UNCHANGED <<link, toServer, toClient, task, pending, stopping, sessions, owner,
                 process, faults, conns>>

-----------------------------------------------------------------------------
(* The server's session tasks *)

\* auth_handshake: the session is in the table before the client hears of it.
AcceptAuth(s) ==
  /\ At(s, "auth") /\ Heard(s, "auth") /\ Consume(s)
  /\ sessions' = sessions \cup {s}
  /\ Goto(s, "authed")
  /\ UNCHANGED <<client, link, toClient, pending, stopping, owner, process, faults, conns>>

\* verify_token fails: a database error is an invalid token to the handshake.
RejectAuth(s) ==
  /\ At(s, "auth") /\ Heard(s, "auth")
  /\ Fault
  /\ Tell(s, Frame("autherror"))
  /\ Finish(s)
  /\ UNCHANGED <<client, link, sessions, owner, process, conns>>

\* AUTH_TIMEOUT of the server: nothing came.
NoAuth(s) ==
  /\ At(s, "auth") /\ toServer[s] = <<>>
  /\ Tell(s, Frame("reset"))
  /\ Finish(s)
  /\ UNCHANGED <<client, link, sessions, owner, process, faults, conns>>

\* AuthOk is sent: the heartbeat and main_loop start.
SendAuthOk(s) ==
  /\ At(s, "authed")
  /\ Tell(s, Frame("authok"))
  /\ Goto(s, "loop")
  /\ UNCHANGED <<client, link, toServer, pending, stopping, sessions, owner, process, faults, conns>>

\* The send fails: `?` leaves run_session, and the session stays in the table.
AuthOkFails(s) ==
  /\ At(s, "authed") /\ ~Connected(s)
  /\ Finish(s)
  /\ UNCHANGED <<client, link, toClient, sessions, owner, process, faults, conns>>

\* register_http_tunnel refuses a name that is taken; here by an own old session.
Granted(s, i) == owner[i] = 0

\* RegisterTunnel, with its answer.
HandleRegister(s) ==
  LET i == Head(toServer[s]).tunnel
  IN  /\ At(s, "loop") /\ Heard(s, "register") /\ Consume(s)
      /\ IF Granted(s, i)
         THEN owner' = [owner EXCEPT ![i] = s] /\ Tell(s, Frame("registered"))
         ELSE UNCHANGED owner /\ Tell(s, Frame("refused"))
      /\ UNCHANGED <<client, link, task, pending, stopping, sessions, process, faults, conns>>

\* The plan limits cannot be read (evaluate_hobby_limits): `?` leaves main_loop
\* before the registration, and no answer is sent.
RegisterFails(s) ==
  /\ At(s, "loop") /\ Heard(s, "register") /\ Consume(s)
  /\ Fault
  /\ Goto(s, "cleanup")
  /\ UNCHANGED <<client, link, toClient, pending, stopping, sessions, owner, process, conns>>

HandlePing(s) ==
  /\ At(s, "loop") /\ Heard(s, "ping") /\ Consume(s)
  /\ Tell(s, Frame("pong"))
  /\ UNCHANGED <<client, link, task, pending, stopping, sessions, owner, process, faults, conns>>

HandlePong(s) ==
  /\ At(s, "loop") /\ Heard(s, "pong") /\ Consume(s)
  /\ pending' = [pending EXCEPT ![s] = FALSE]
  /\ UNCHANGED <<client, link, toClient, task, stopping, sessions, owner, process, faults, conns>>

\* The stream ends or breaks: main_loop returns.
PeerGone(s) ==
  /\ At(s, "loop") /\ (Heard(s, "reset") \/ Heard(s, "close")) /\ Consume(s)
  /\ Goto(s, "cleanup")
  /\ UNCHANGED <<client, link, toClient, pending, stopping, sessions, owner, process, faults, conns>>

\* A send of main_loop fails on a connection that is dead.
SendFails(s) ==
  /\ At(s, "loop") /\ ~Connected(s)
  /\ Goto(s, "cleanup")
  /\ UNCHANGED <<client, link, toServer, toClient, pending, stopping, sessions, owner,
                 process, faults, conns>>

\* heartbeat_task: PING_INTERVAL passes and nothing is pending.  The first tick
\* is 30 s into the session; a client still registering then is a slow one.
PingTick(s) ==
  /\ At(s, "loop") /\ ~pending[s]
  /\ IF Present(s) /\ ~ClientAt("online") THEN Fault ELSE NoFault
  /\ Tell(s, Frame("ping"))
  /\ pending' = [pending EXCEPT ![s] = TRUE]
  /\ UNCHANGED <<client, link, toServer, task, stopping, sessions, owner, process, conns>>

\* Variant: the overdue ping is sent again and nobody gives up.
PongOverdue_resend(s) ==
  /\ At(s, "loop") /\ pending[s] /\ ~Connected(s)
  /\ pending' = [pending EXCEPT ![s] = FALSE]
  /\ UNCHANGED <<client, link, toServer, toClient, task, stopping, sessions, owner, process,
                 faults, conns>>

\* Variant: the connection is dropped before the cleanup.
PongOverdue_hangsUp(s) ==
  /\ At(s, "loop") /\ pending[s]
  /\ IF Connected(s) THEN Fault ELSE NoFault
  /\ Tell(s, Frame("reset"))
  /\ Goto(s, "cleanup")
  /\ UNCHANGED <<client, link, toServer, pending, stopping, sessions, owner, process, conns>>

\* The next tick finds the pong overdue (it looks at PONG_DEADLINE only then):
\* the task ends, ping_out_rx closes and main_loop returns.
PongOverdue(s) ==
  /\ At(s, "loop") /\ pending[s]
  /\ IF Connected(s) THEN Fault ELSE NoFault
  /\ Goto(s, "cleanup")
  /\ UNCHANGED <<client, link, toServer, toClient, pending, stopping, sessions, owner,
                 process, conns>>

\* A public connection to one of the session's tunnels: NewConnection.
PublicConnection(s) ==
  /\ At(s, "loop") /\ (\E i \in Tunnels : owner[i] = s)
  /\ conns < MaxConns /\ conns' = conns + 1
  /\ Tell(s, Frame("newconn"))
  /\ UNCHANGED <<client, link, toServer, task, pending, stopping, sessions, owner, process, faults>>

\* ControlMessage::Shutdown: a close frame, and main_loop returns.
HandleShutdown(s) ==
  /\ At(s, "loop") /\ s \in stopping
  /\ Tell(s, Frame("close"))
  /\ Goto(s, "cleanup")
  /\ UNCHANGED <<client, link, toServer, pending, stopping, sessions, owner, process, faults, conns>>

\* Variant: remove_session takes every route away.
Cleanup_all(s) ==
  /\ At(s, "cleanup")
  /\ sessions' = sessions \ {s}
  /\ owner' = [i \in Tunnels |-> 0]
  /\ Tell(s, Frame("reset"))
  /\ Finish(s)
  /\ UNCHANGED <<client, link, process, faults, conns>>

\* The end of run_session: the tunnels are closed in the log, remove_session
\* frees their names, and then the WebSocket is dropped.
Cleanup(s) ==
  /\ At(s, "cleanup")
  /\ sessions' = sessions \ {s}
  /\ owner' = [i \in Tunnels |-> IF owner[i] = s THEN 0 ELSE owner[i]]
  /\ Tell(s, Frame("reset"))
  /\ Finish(s)
  /\ UNCHANGED <<client, link, process, faults, conns>>

-----------------------------------------------------------------------------
(* The network and the server process *)

\* The network stops carrying frames and tells nobody.
Cut(s) ==
  /\ link[s] = "up" /\ Present(s) /\ Fault
  /\ link' = [link EXCEPT ![s] = "cut"]
  /\ toServer' = [toServer EXCEPT ![s] = <<>>]
  /\ toClient' = [toClient EXCEPT ![s] = <<>>]
  /\ UNCHANGED <<client, task, pending, stopping, sessions, owner, process, conns>>

\* The shutdown signal: try_send to every session, which a full control channel
\* refuses.  The control listener goes on accepting.
ShutdownSignal ==
  /\ process = "up" /\ Fault
  /\ process' = "draining"
  /\ \E refused \in SUBSET sessions : stopping' = sessions \ refused
  /\ UNCHANGED <<client, link, toServer, toClient, task, pending, sessions, owner, conns>>

\* SHUTDOWN_TIMEOUT: the listener tasks never end, so the wait is always the
\* full one.  Whatever is left goes with the process, and a new one starts.
ProcessExit ==
  /\ process = "draining"
  /\ process' = "up"
  /\ task' = [s \in Attempts |-> IF At(s, "none") THEN "none" ELSE "over"]
  /\ toClient' = [s \in Attempts |->
                    IF Connected(s) /\ ~At(s, "over") THEN Append(toClient[s], Frame("reset"))
                    ELSE toClient[s]]
  /\ toServer' = [s \in Attempts |-> <<>>]
  /\ pending' = [s \in Attempts |-> FALSE]
  /\ sessions' = {} /\ stopping' = {}
  /\ owner' = [i \in Tunnels |-> 0]
  /\ UNCHANGED <<client, link, faults, conns>>

-----------------------------------------------------------------------------

ClientStep ==
  Dial \/ RecvAuth \/ Ask \/ RecvAnswer \/ AwaitTimeout \/ GoOnline \/ ServeFrame
  \/ ClientPing \/ ClientPongOverdue

SessionStep(s) ==
  \/ AcceptAuth(s) \/ NoAuth(s) \/ SendAuthOk(s)
  \/ HandleRegister(s) \/ HandlePing(s) \/ HandlePong(s) \/ PeerGone(s)
  \/ PingTick(s) \/ PongOverdue(s) \/ HandleShutdown(s) \/ Cleanup(s)

Environment(s) ==
  RejectAuth(s) \/ AuthOkFails(s) \/ RegisterFails(s) \/ SendFails(s)
  \/ PublicConnection(s) \/ Cut(s)

Next ==
  \/ ClientStep \/ DataLost \/ Interrupt \/ InterruptBackoff
  \/ \E s \in Attempts : SessionStep(s) \/ Environment(s)
  \/ ShutdownSignal \/ ProcessExit

Spec == Init /\ [][Next]_vars

\* The client's loop, each session task and its heartbeat, and the timer of the
\* shutdown run.  No fault, no connection and no interrupt is assumed.
Fairness ==
  /\ WF_vars(ClientStep)
  /\ \A s \in Attempts : WF_vars(SessionStep(s))
  /\ WF_vars(ProcessExit)

FairSpec == Spec /\ Fairness

-----------------------------------------------------------------------------
(* Properties *)

Frames == [kind : Kinds, tunnel : 0..NumTunnels]

\* Every variable has the shape of the Rust value it stands for.
TypeOK ==
  /\ client \in [pc : ClientPCs, conn : 0..MaxAttempts, next : 1..(NumTunnels + 1),
                 awaiting : BOOLEAN, exit : Exits]
  /\ link \in [Attempts -> {"none", "up", "cut"}]
  /\ toServer \in [Attempts -> Seq(Frames)]
  /\ toClient \in [Attempts -> Seq(Frames)]
  /\ task \in [Attempts -> TaskPCs]
  /\ pending \in [Attempts -> BOOLEAN]
  /\ stopping \subseteq Attempts
  /\ sessions \subseteq Attempts
  /\ owner \in [Tunnels -> 0..MaxAttempts]
  /\ process \in {"up", "draining"}
  /\ faults \in 0..MaxFaults
  /\ conns \in 0..MaxConns

\* While the session of an online client runs, it has every name the client was
\* promised, whatever becomes of the client's earlier sessions (connect's
\* registration loop, remove_session).
OnlineIsServed ==
  ClientAt("online") /\ At(client.conn, "loop") => \A i \in Tunnels : owner[i] = client.conn

\* When the server's end makes the client reconnect, the names are free already:
\* run_session drops the WebSocket after remove_session.
ResetAfterCleanup ==
  \A s \in Attempts : (\E n \in 1..Len(toClient[s]) : toClient[s][n].kind = "reset") =>
    \A i \in Tunnels : owner[i] # s

\* Names do not stay with a session the client has left, also when the network
\* said nothing: the heartbeat gives it up and run_session cleans up.
NamesComeFree ==
  \A i \in Tunnels : (owner[i] # 0 /\ ~Present(owner[i])) ~> (owner[i] = 0)

\* Faults are finite: the client ends online or out of its loop, and is not caught
\* in an attempt that makes no progress (recv_frame_timeout, main_loop's heartbeat).
ClientSettles == <>[](client.pc \in {"online", "exited"})

\* Client and server agree on the client's names at both ends of a session: an
\* online client has all of them, and a client told to come back finds them free.
SessionsAgree == TypeOK /\ OnlineIsServed /\ ResetAfterCleanup

=============================================================================
