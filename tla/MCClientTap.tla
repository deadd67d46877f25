----------------------------- MODULE MCClientTap -----------------------------
(* Bounded instances of ClientTap for TLC. *)
EXTENDS ClientTap

B(f, n) == [f |-> f, n |-> n]
E(m, rq, st, i, rs) == [method |-> m, rq |-> rq, status |-> st, interim |-> i, rs |-> rs]

\* Keep-alive with every framing, and an upgrade.
MCScripts == {
  <<E("HEAD", B("none", 0), "200", 0, B("length", 2)), E("GET", B("none", 0), "200", 0, B("chunked", 2)),
    E("GET", B("none", 0), "200", 0, B("eof", 1))>>,
  <<E("POST", B("chunked", 1), "204", 1, B("length", 1)), E("POST", B("length", 2), "200", 0, B("length", 1))>>,
  <<E("GET", B("none", 0), "200", 0, B("none", 0)), E("GET", B("none", 0), "101", 0, B("none", 0))>> }

\* One tunnel of each protocol; and two tunnels of one protocol.
OneOfEach == <<[label |-> "db", proto |-> "tcp", local |-> "5432"], [label |-> "web", proto |-> "http", local |-> "3000"]>>
TwoHttp == <<[label |-> "frontend", proto |-> "http", local |-> "3000"], [label |-> "backend", proto |-> "http", local |-> "8080"]>>

=============================================================================
