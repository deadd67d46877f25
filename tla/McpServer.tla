------------------------------ MODULE McpServer ------------------------------
(***************************************************************************)
(* The MCP server: it handles one JSON-RPC message at a time, and opens a  *)
(* tunnel by starting the rustunnel CLI and polling the dashboard API for  *)
(* a tunnel that was not there before.  The CLI processes, the temporary   *)
(* config files of load-balanced tunnels and the tunnels on the server     *)
(* change meanwhile: a CLI may exit, or reconnect under a new tunnel id,   *)
(* and others use the same token.  (rustunnel-mcp main.rs, tools.rs,       *)
(* tunnel_manager.rs)                                                      *)
(***************************************************************************)
EXTENDS Naturals, FiniteSets

CONSTANTS
  Procs,         \* CLI processes
  TunnelIds,     \* tunnel ids
  Requests,      \* arguments of create_tunnel: [proto, group, key, secret, name, target]
  MaxPolls,      \* the 30 polls of create_tunnel
  Stranger,      \* another client with the same token
  Nothing        \* Option::None

ASSUME McpDistinct == Stranger \notin Procs /\ Nothing \notin Procs \cup {Stranger}
ASSUME PollBound == MaxPolls \in Nat

VARIABLES
  server,        \* "idle", a state of the call it is handling, or "gone"
  call,          \* the create_tunnel call: [proc, temp, before, polls, crowded]
  connects,      \* the processes that are P2P subscribers: they register nothing
  cli,           \* state of each CLI process
  files,         \* the processes whose temp config is on disk
  listed,        \* GET /api/tunnels: tunnel -> the one that registered it
  history,       \* who has registered each tunnel id
  tracked        \* TunnelManager.processes: tunnel -> [proc, temp, clean]

mcpVars == <<server, call, connects, cli, files, listed, history, tracked>>

NoCall == [proc |-> Nothing, temp |-> FALSE, before |-> {}, polls |-> 0, crowded |-> FALSE]
NotTracked == [proc |-> Nothing, temp |-> FALSE, clean |-> FALSE]
Running == {"starting", "online"}

McpInit ==
  /\ server = "idle"
  /\ call = NoCall
  /\ connects = {}
  /\ cli = [p \in Procs |-> "new"]
  /\ files = {}
  /\ listed = [t \in TunnelIds |-> Nothing]
  /\ history = [t \in TunnelIds |-> Nothing]
  /\ tracked = [t \in TunnelIds |-> NotTracked]

Listed == {t \in TunnelIds : listed[t] # Nothing}
Without(p) == [t \in TunnelIds |-> IF listed[t] = p THEN Nothing ELSE listed[t]]

\* Variant: an error path returns without removing the file.
cleanup_temp_forgets(fs, p) == fs

cleanup_temp(fs, p) == fs \ {p}

Return == server' = "idle" /\ call' = NoCall

-----------------------------------------------------------------------------
(* create_tunnel *)

\* How the CLI is to be started: with a config file, with arguments, or not at
\* all when the arguments do not fit together.
plan_spawn(a) ==
  CASE a.group \/ a.key -> IF a.group /\ a.key /\ a.proto \in {"http", "tcp"} THEN "config" ELSE "error"
    [] ~(a.group \/ a.key) /\ a.proto = "p2p" -> IF a.secret /\ (a.name # a.target) THEN "args" ELSE "error"
    [] OTHER -> "args"

\* The file of a load-balanced tunnel is written by plan_spawn itself.
WithFile(p, a) == IF plan_spawn(a) = "config" THEN files \cup {p} ELSE files

\* create_tunnel begins.  Without a token or a plan the call ends here.
PlanSpawn(p, a) ==
  /\ server = "idle" /\ cli[p] = "new"
  /\ plan_spawn(a) # "error"
  /\ server' = "snapshot"
  /\ call' = [NoCall EXCEPT !.proc = p, !.temp = plan_spawn(a) = "config"]
  /\ connects' = IF a.target THEN connects \cup {p} ELSE connects
  /\ files' = WithFile(p, a)
  /\ UNCHANGED <<cli, listed, history, tracked>>

\* get_connection_info makes the same plan to show it, and removes the file.
ConnectionInfo(p, a) ==
  /\ server = "idle" /\ cli[p] = "new"
  /\ plan_spawn(a) # "error"
  /\ files' = cleanup_temp(WithFile(p, a), p)
  /\ UNCHANGED <<server, call, connects, cli, listed, history, tracked>>

\* Variant: the tunnels that are open already are not remembered.
BeforeIds_none == {}

BeforeIds == Listed

Snapshot ==
  /\ server = "snapshot"
  /\ server' = "spawn"
  /\ call' = [call EXCEPT !.before = BeforeIds]
  /\ UNCHANGED <<cli, files, listed, history, tracked, connects>>

\* The API cannot be reached, or the CLI cannot be started.
CreateFails ==
  /\ server \in {"snapshot", "spawn"}
  /\ files' = cleanup_temp(files, call.proc)
  /\ Return
  /\ UNCHANGED <<cli, listed, history, tracked, connects>>

Spawn ==
  /\ server = "spawn"
  /\ server' = "poll"
  /\ cli' = [cli EXCEPT ![call.proc] = "starting"]
  /\ UNCHANGED <<call, files, listed, history, tracked, connects>>

\* The first listed tunnel that was not there before is taken for the new one,
\* and the process is tracked under its id.
PollFinds(t) ==
  /\ server = "poll" /\ call.polls < MaxPolls
  /\ t \in Listed \ call.before
  /\ tracked' = [tracked EXCEPT ![t] = [proc |-> call.proc, temp |-> call.temp, clean |-> ~call.crowded]]
  /\ Return
  /\ UNCHANGED <<cli, files, listed, history, connects>>

\* Nothing new, or the API failed: try again.
PollAgain ==
  /\ server = "poll" /\ call.polls < MaxPolls /\ cli[call.proc] \in Running
  /\ call' = [call EXCEPT !.polls = @ + 1]
  /\ UNCHANGED <<server, cli, files, listed, history, tracked, connects>>

\* Variant: the process is given up without being killed.
GiveUp_lets_go ==
  /\ server = "poll"
  /\ call.polls = MaxPolls \/ cli[call.proc] \notin Running
  /\ files' = cleanup_temp(files, call.proc)
  /\ Return
  /\ UNCHANGED <<cli, listed, history, tracked, connects>>

\* The polls are used up, or try_wait says that the CLI has exited: it is killed
\* and waited for, and its file removed.
GiveUp ==
  /\ server = "poll"
  /\ call.polls = MaxPolls \/ cli[call.proc] \notin Running
  /\ cli' = [cli EXCEPT ![call.proc] = "ended"]
  /\ listed' = Without(call.proc)
  /\ files' = cleanup_temp(files, call.proc)
  /\ Return
  /\ UNCHANGED <<history, tracked, connects>>

-----------------------------------------------------------------------------
(* close_tunnel and the end of the server *)

\* TunnelManager::kill, then DELETE /api/tunnels/:id, which may fail.
CloseTunnel(t) ==
  /\ server = "idle" /\ (t \in Listed \/ tracked[t] # NotTracked)
  /\ LET p == tracked[t].proc IN
     /\ tracked' = [tracked EXCEPT ![t] = NotTracked]
     /\ cli' = IF p = Nothing THEN cli ELSE [cli EXCEPT ![p] = "ended"]
     /\ files' = IF tracked[t].temp THEN cleanup_temp(files, p) ELSE files
     /\ \E ok \in BOOLEAN :
          listed' = [u \in TunnelIds |-> IF (u = t /\ ok) \/ (p # Nothing /\ listed[u] = p)
                                         THEN Nothing ELSE listed[u]]
  /\ UNCHANGED <<server, call, history, connects>>

\* Stdin is closed: kill_all, and the process exits.
StdinClosed ==
  /\ server = "idle"
  /\ server' = "gone"
  /\ LET killed == {tracked[t].proc : t \in TunnelIds} IN
     /\ cli' = [p \in Procs |-> IF p \in killed THEN "ended" ELSE cli[p]]
     /\ listed' = [t \in TunnelIds |-> IF listed[t] \in killed THEN Nothing ELSE listed[t]]
  /\ files' = files \ {tracked[t].proc : t \in TunnelIds}
  /\ tracked' = [t \in TunnelIds |-> NotTracked]
  /\ UNCHANGED <<call, history, connects>>

-----------------------------------------------------------------------------
(* The CLI processes and the server's other clients *)

FreshId(t) == history[t] = Nothing

\* Someone else's tunnel appears while a call waits for its own.
Crowd(p) == call' = [call EXCEPT !.crowded = @ \/ (call.proc # Nothing /\ p # call.proc)]

\* A CLI registers; after a lost connection under a new id.
CliRegisters(p, t) ==
  /\ cli[p] \in Running /\ p \notin connects /\ FreshId(t)
  /\ cli' = [cli EXCEPT ![p] = "online"]
  /\ listed' = [Without(p) EXCEPT ![t] = p]
  /\ history' = [history EXCEPT ![t] = p]
  /\ Crowd(p)
  /\ UNCHANGED <<server, files, tracked, connects>>

CliExits(p) ==
  /\ cli[p] \in Running
  /\ cli' = [cli EXCEPT ![p] = "ended"]
  /\ listed' = Without(p)
  /\ UNCHANGED <<server, call, files, history, tracked, connects>>

StrangerRegisters(t) ==
  /\ FreshId(t)
  /\ listed' = [listed EXCEPT ![t] = Stranger]
  /\ history' = [history EXCEPT ![t] = Stranger]
  /\ Crowd(Stranger)
  /\ UNCHANGED <<server, cli, files, tracked, connects>>

McpNext ==
  \/ \E p \in Procs : CliExits(p) \/ (\E a \in Requests : PlanSpawn(p, a) \/ ConnectionInfo(p, a)) \/ \E t \in TunnelIds : CliRegisters(p, t)
  \/ Snapshot \/ CreateFails \/ Spawn \/ PollAgain \/ GiveUp \/ StdinClosed
  \/ \E t \in TunnelIds : PollFinds(t) \/ CloseTunnel(t) \/ StrangerRegisters(t)

McpSpec == McpInit /\ [][McpNext]_mcpVars

-----------------------------------------------------------------------------
(* Properties *)

\* Every variable has the shape of the Rust value it stands for.
McpTypeOK ==
  /\ server \in {"idle", "snapshot", "spawn", "poll", "gone"}
  /\ call.polls \in 0..MaxPolls /\ call.before \subseteq TunnelIds
  /\ (server \in {"idle", "gone"}) <=> (call = NoCall)
  /\ cli \in [Procs -> {"new", "starting", "online", "ended"}]
  /\ files \subseteq Procs /\ connects \subseteq Procs

\* A config file, which holds the API token, is on disk only for the call under
\* way or for a tracked process: no path through create_tunnel, close_tunnel or
\* the exit leaves one behind.
NoConfigLeaks ==
  \A p \in files : (call.proc = p /\ call.temp) \/ \E t \in TunnelIds : tracked[t].proc = p /\ tracked[t].temp

\* A CLI that runs was started by the call under way, or can be killed by
\* close_tunnel and by the end of the server.
NoOrphans ==
  \A p \in Procs : cli[p] \in Running => call.proc = p \/ \E t \in TunnelIds : tracked[t].proc = p

\* A process is tracked under a tunnel it has registered itself, if nobody else
\* registered one while the call was waiting.
TracksItsOwn == \A t \in TunnelIds : tracked[t].clean => history[t] = tracked[t].proc

\* Every CLI process and every config file is accounted for, and tracked under
\* the tunnel it has registered (create_tunnel, TunnelManager).
ProcessesAccounted == McpTypeOK /\ NoConfigLeaks /\ NoOrphans /\ TracksItsOwn

=============================================================================
