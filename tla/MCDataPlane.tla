---------------------------- MODULE MCDataPlane ----------------------------
(***************************************************************************)
(* The data plane for TLC: what happens to connections while drivers come  *)
(* and go (DataPlane), and how drivers and data WebSockets come together   *)
(* (DataPipe).  A behaviour is one of either; the other stands still.      *)
(***************************************************************************)
EXTENDS DataPlane, DataPipe

VARIABLE part

DataInit == part \in {"connections", "pipe"} /\ Init /\ PipeInit

DataNext ==
  /\ UNCHANGED part
  /\ \/ part = "connections" /\ Next /\ UNCHANGED pipeVars
     \/ part = "pipe" /\ PipeNext /\ UNCHANGED vars

Connections(A) == part = "connections" /\ A
Pipe(A) == part = "pipe" /\ A

\* Fairness of DataPlane, and for DataPipe: every task that can run does, a
\* timer that was started fires, and a WebSocket that can be opened is.
DataFairness ==
  /\ \A c \in Conns : /\ WF_vars(Connections(EdgeStep(c)))
                      /\ WF_vars(Connections(Deliver(c) \/ WriteFails(c)))
                      /\ SF_vars(Connections(SendControl(c)))
  /\ WF_vars(Connections(TakeControl)) /\ WF_vars(Connections(PassOn))
  /\ WF_vars(Connections(Rebuild)) /\ WF_vars(Connections(DriverStep))
  /\ WF_pipeVars(Pipe(spawn_yamux_driver)) /\ WF_pipeVars(Pipe(DriverEnds))
  /\ \A w \in Sockets : WF_pipeVars(Pipe(ServerSide(w))) /\ WF_pipeVars(Pipe(DataLost(w)))
  /\ WF_pipeVars(Pipe(\E w \in Sockets : ConnectData(w)))
  /\ WF_pipeVars(Pipe(local.pc = "gone" /\ SessionOver))

DataSpec == DataInit /\ [][DataNext]_<<part, vars, pipeVars>> /\ DataFairness

\* DataPlaneAttached of the behaviours in which the pipe is what moves: after
\* the last fault the client's data WebSocket ends at the driver that runs.
PipeComesTogether == part = "pipe" => DataPlaneAttached
=============================================================================
