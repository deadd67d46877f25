----------------------------- MODULE MCRequest -----------------------------
(***************************************************************************)
(* The public side of an HTTP tunnel for TLC: the life of requests         *)
(* (HttpEdge), and the health of the group members they are given to       *)
(* (GroupHealth).  A behaviour is one of either; the other stands still.   *)
(***************************************************************************)
EXTENDS HttpEdge, GroupHealth

VARIABLE part

\* A part that stands still has one initial state.
RequestInit ==
    /\ part \in {"requests", "health"} /\ Init /\ HealthInit
    /\ part = "requests" => \A m \in Members : service[m]

RequestNext ==
    /\ UNCHANGED part
    /\ \/ part = "requests" /\ Next /\ UNCHANGED healthVars
       \/ part = "health" /\ HealthNext /\ UNCHANGED vars

OfRequests(A) == part = "requests" /\ A
OfHealth(A) == part = "health" /\ A

\* Fairness and HealthFairness, each where its part is the one that moves.
RequestFairness ==
    /\ \A r \in Requests :
          /\ WF_vars(OfRequests(plain_http_request(r))) /\ WF_vars(OfRequests(Resolve(r)))
          /\ WF_vars(OfRequests(Admit(r))) /\ SF_vars(OfRequests(Notify(r)))
          /\ WF_vars(OfRequests(StreamTimeout(r))) /\ WF_vars(OfRequests(ForwardFails(r)))
    /\ WF_vars(OfRequests(SessionDrain)) /\ WF_vars(OfRequests(persist_row)) /\ WF_vars(OfRequests(RingPush))
    /\ \A m \in Members : /\ WF_healthVars(OfHealth(run_probe_loop(m)))
                          /\ WF_healthVars(OfHealth(Handle(m)))

RequestSpec == RequestInit /\ [][RequestNext]_<<part, vars, healthVars>> /\ RequestFairness
=============================================================================
