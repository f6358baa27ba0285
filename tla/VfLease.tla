------------------------------ MODULE VfLease ------------------------------
(***************************************************************************)
(* What the host's CNI path promises for the VFs of a DPU: a VF is lent to *)
(* one sandbox at a time, and has its bridge port on the DPU for as long   *)
(* as it is lent.                                                          *)
(***************************************************************************)
CONSTANTS Sandboxes, VFs

VARIABLES
  users,     \* users[v]: sandboxes that VF v is lent to
  plumbed    \* VFs that have a bridge port

vars == <<users, plumbed>>

Init == users = [v \in VFs |-> {}] /\ plumbed = {}

Lend(s, v) ==
  /\ users[v] = {}
  /\ users' = [users EXCEPT ![v] = {s}]
  /\ plumbed' = plumbed \cup {v}

Return(s, v) ==
  /\ s \in users[v]
  /\ users' = [users EXCEPT ![v] = @ \ {s}]
  /\ UNCHANGED plumbed

\* A port may be there without a user: before, after, or for a failed ADD.
Plumb(v) == plumbed' = plumbed \cup {v} /\ UNCHANGED users

Unplumb(v) ==
  /\ users[v] = {}
  /\ plumbed' = plumbed \ {v}
  /\ UNCHANGED users

Next ==
  \E v \in VFs :
    \/ \E s \in Sandboxes : Lend(s, v) \/ Return(s, v)
    \/ Plumb(v) \/ Unplumb(v)

Spec == Init /\ [][Next]_vars

=============================================================================
