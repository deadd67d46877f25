------------------------------ MODULE MCClient ------------------------------
(***************************************************************************)
(* The programs around one client, which share no state: the control       *)
(* connection (ClientSession), the local proxy with its tap (ClientTap),   *)
(* the UDP bridge (UdpBridge) and the MCP server (McpServer).  A behaviour *)
(* is one of one of them, chosen at the start; the others stand still.     *)
(***************************************************************************)
EXTENDS ClientSession, MCClientTap, UdpBridge, McpServer, TLC

VARIABLE part

R(proto, group, key, secret, name, target) ==
  [proto |-> proto, group |-> group, key |-> key, secret |-> secret, name |-> name, target |-> target]

\* A plain tunnel, a member of a group, a half-specified group, a P2P
\* publisher, a subscriber, and one that would be both.
MCRequests == {R("http", FALSE, FALSE, FALSE, FALSE, FALSE), R("tcp", TRUE, TRUE, FALSE, FALSE, FALSE),
               R("udp", TRUE, TRUE, FALSE, FALSE, FALSE), R("http", TRUE, FALSE, FALSE, FALSE, FALSE),
               R("p2p", FALSE, FALSE, TRUE, FALSE, TRUE), R("p2p", FALSE, FALSE, TRUE, TRUE, TRUE)}

ClientInit ==
  /\ part \in {"session", "tap", "udp", "mcp"}
  /\ Init /\ TapInit /\ UdpInit /\ McpInit

ClientNext ==
  /\ UNCHANGED part
  /\ \/ part = "session" /\ Next /\ UNCHANGED <<tapVars, udpVars, mcpVars>>
     \/ part = "tap" /\ TapNext /\ UNCHANGED <<vars, udpVars, mcpVars>>
     \/ part = "udp" /\ UdpNext /\ UNCHANGED <<vars, tapVars, mcpVars>>
     \/ part = "mcp" /\ McpNext /\ UNCHANGED <<vars, tapVars, udpVars>>

\* ClientSession's fairness excludes the behaviours of the other parts from the
\* liveness properties, which are ClientSession's.
ClientSpec == ClientInit /\ [][ClientNext]_<<part, vars, tapVars, udpVars, mcpVars>> /\ Fairness

=============================================================================
