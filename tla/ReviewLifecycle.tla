-------------------------- MODULE ReviewLifecycle ---------------------------
(***************************************************************************)
(* What the review of supplement proposals promises, with no locks, no     *)
(* Notion page and no process: each request has a status and a target, and *)
(* searchable is the set of requests whose content production retrieval    *)
(* can return.                                                             *)
(*                                                                         *)
(* The promise is the one the code keeps, which is weaker than the one the *)
(* documentation makes in two places: a request that has been accepted can *)
(* still be rejected, and content of a request that is not accepted may be *)
(* searchable.  What remains is that a request is accepted only from       *)
(* pending, that rejected is final, that a decided request keeps its       *)
(* target, and that accepted content is searchable from the step that      *)
(* accepts it until the request is rejected.                               *)
(***************************************************************************)
CONSTANTS Requests, Pages, None

VARIABLES status, target, searchable

vars == <<status, target, searchable>>

Accepted == {r \in Requests : status[r] = "accepted"}

Init ==
    /\ status = [r \in Requests |-> "pending"]
    /\ target \in [Requests -> Pages \cup {None}]
    /\ searchable = {}

Accept(r) ==
    /\ status[r] = "pending"
    /\ status' = [status EXCEPT ![r] = "accepted"]
    /\ searchable' \in SUBSET Requests
    /\ Accepted \cup {r} \subseteq searchable'
    /\ UNCHANGED target

Reject(r) ==
    /\ status[r] \in {"pending", "accepted"}
    /\ status' = [status EXCEPT ![r] = "rejected"]
    /\ UNCHANGED <<target, searchable>>

Retarget(r) ==
    /\ status[r] = "pending"
    /\ \E p \in Pages : target' = [target EXCEPT ![r] = p]
    /\ UNCHANGED <<status, searchable>>

\* A page is indexed: any content may come or go but the accepted one.
Reindex ==
    /\ searchable' \in SUBSET Requests
    /\ Accepted \subseteq searchable'
    /\ UNCHANGED <<status, target>>

Next ==
    \/ \E r \in Requests : Accept(r) \/ Reject(r) \/ Retarget(r)
    \/ Reindex

Spec == Init /\ [][Next]_vars
=============================================================================
