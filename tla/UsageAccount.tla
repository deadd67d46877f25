---------------------------- MODULE UsageAccount ----------------------------
(***************************************************************************)
(* What the `tunnel_log` table promises to billing, whatever races write   *)
(* it: a row is opened once, its byte counter only grows and never exceeds *)
(* the bytes the tunnel really carried, and a closed row never changes     *)
(* again.  Metering is shown to implement this specification; UsageRollup  *)
(* is built on it.                                                         *)
(***************************************************************************)
EXTENDS Naturals

CONSTANTS
  Tunnels,       \* tunnel ids, each used for one registration
  MaxBytes       \* bound on the bytes one tunnel carries

VARIABLES
  used,          \* bytes each tunnel has really carried
  rows           \* the tunnel_log row of each tunnel

accountVars == <<used, rows>>

RowStates == {"none", "open", "closed"}
NoRow     == [state |-> "none", bytes |-> 0]
OpenRows  == {t \in Tunnels : rows[t].state = "open"}

AccountInit ==
  /\ used = [t \in Tunnels |-> 0]
  /\ rows = [t \in Tunnels |-> NoRow]

\* A proxied byte.
Carry(t) ==
  /\ used[t] < MaxBytes
  /\ used' = [used EXCEPT ![t] = @ + 1]
  /\ UNCHANGED rows

\* log_tunnel_registered: the INSERT.
OpenRow(t) ==
  /\ rows[t].state = "none"
  /\ rows' = [rows EXCEPT ![t] = [state |-> "open", bytes |-> 0]]
  /\ UNCHANGED used

\* Any write of counters onto an open row.
Record(t, n) ==
  /\ rows[t].state = "open"
  /\ n \in rows[t].bytes .. used[t]
  /\ rows' = [rows EXCEPT ![t].bytes = n]
  /\ UNCHANGED used

\* Any write that closes a row, with its last counters.
CloseRow(t, n) ==
  /\ rows[t].state = "open"
  /\ n \in rows[t].bytes .. used[t]
  /\ rows' = [rows EXCEPT ![t] = [state |-> "closed", bytes |-> n]]
  /\ UNCHANGED used

\* The start-up statement: several rows are closed as they stand.
CloseRows(S) ==
  /\ S # {} /\ S \subseteq OpenRows
  /\ rows' = [t \in Tunnels |-> IF t \in S THEN [rows[t] EXCEPT !.state = "closed"]
                                           ELSE rows[t]]
  /\ UNCHANGED used

AccountNext ==
  \/ \E t \in Tunnels : Carry(t) \/ OpenRow(t)
  \/ \E t \in Tunnels, n \in 0 .. MaxBytes : Record(t, n) \/ CloseRow(t, n)
  \/ \E S \in SUBSET Tunnels : CloseRows(S)

AccountSpec == AccountInit /\ [][AccountNext]_accountVars
=============================================================================
