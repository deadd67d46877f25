---------------------------- MODULE MCPortRoutes ----------------------------
(* Bounded instances of PortRoutes for TLC. *)
EXTENDS PortRoutes, TLC

\* Sessions, tunnels, ports of one protocol and groups are interchangeable.
Symmetry == Permutations(Sessions) \cup Permutations(Tunnels)
            \cup Permutations(TcpPorts) \cup Permutations(UdpPorts)

=============================================================================
