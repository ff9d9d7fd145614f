----------------------------- MODULE Settlement -----------------------------
(***************************************************************************)
(* What a lane promises its clients, whatever happens inside: an admitted  *)
(* request is settled once, with one outcome; a successful cancel commits  *)
(* the lane to the outcome "cancelled"; nothing else leads to it.          *)
(***************************************************************************)
CONSTANT Requests

VARIABLES
    admitted,     \* requests the lane has accepted
    committed,    \* requests whose cancellation has succeeded
    outcome       \* per request: "none" until it is settled

svars == <<admitted, committed, outcome>>

Outcome == {"completed", "cancelled", "failed"}

SInit ==
    /\ admitted = {}
    /\ committed = {}
    /\ outcome = [r \in Requests |-> "none"]

Admit(group) ==
    /\ group \cap admitted = {}
    /\ admitted' = admitted \cup group
    /\ UNCHANGED <<committed, outcome>>

CommitCancel(r) ==
    /\ r \in admitted \ committed
    /\ outcome[r] = "none"
    /\ committed' = committed \cup {r}
    /\ UNCHANGED <<admitted, outcome>>

Settle(r, o) ==
    /\ r \in admitted
    /\ outcome[r] = "none"
    /\ o = "cancelled" <=> r \in committed
    /\ outcome' = [outcome EXCEPT ![r] = o]
    /\ UNCHANGED <<admitted, committed>>

SNext ==
    \/ \E group \in SUBSET Requests : Admit(group)
    \/ \E r \in Requests : CommitCancel(r)
    \/ \E r \in Requests, o \in Outcome : Settle(r, o)

SSpec == SInit /\ [][SNext]_svars
=============================================================================
