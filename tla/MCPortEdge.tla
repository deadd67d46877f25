----------------------------- MODULE MCPortEdge -----------------------------
(* Bounded instances of PortEdge for TLC. *)
EXTENDS PortEdge, TLC

\* Sessions, tunnels and TCP ports are interchangeable.
Symmetry == Permutations(Sessions) \cup Permutations(Tunnels) \cup Permutations(TcpPorts)

=============================================================================
