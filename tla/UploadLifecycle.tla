-------------------------- MODULE UploadLifecycle --------------------------
(***************************************************************************)
(* What an upload session promises: media is collected until the batch is  *)
(* closed, the batch is then fixed, it is worked on by one process at a    *)
(* time, ingested once, and turned into one proposal.  A failed proposal   *)
(* may be tried again without another ingestion.                           *)
(***************************************************************************)
EXTENDS Naturals

CONSTANTS Photos   \* what may be uploaded in one session

VARIABLES
    phase,      \* where the session is
    batch,      \* the media collected
    ingests,    \* source documents made of the batch
    proposals   \* change requests made of the source document

vars == <<phase, batch, ingests, proposals>>

Phases == {"none", "open", "closed", "working", "failed", "done"}

Init ==
    /\ phase = "none"
    /\ batch = {}
    /\ ingests = 0
    /\ proposals = 0

Collect(p) ==
    /\ phase \in {"none", "open"}
    /\ phase' = "open"
    /\ batch' = batch \cup {p}
    /\ UNCHANGED <<ingests, proposals>>

Close ==
    /\ phase = "open"
    /\ phase' = "closed"
    /\ UNCHANGED <<batch, ingests, proposals>>

Claim ==
    /\ phase \in {"closed", "failed"}
    /\ proposals = 0
    /\ phase' = "working"
    /\ UNCHANGED <<batch, ingests, proposals>>

Ingest ==
    /\ phase = "working"
    /\ ingests = 0
    /\ ingests' = 1
    /\ UNCHANGED <<phase, batch, proposals>>

Propose ==
    /\ phase = "working"
    /\ ingests = 1
    /\ proposals = 0
    /\ proposals' = 1
    /\ UNCHANGED <<phase, batch, ingests>>

Fail ==
    /\ phase = "working"
    /\ phase' = "failed"
    /\ UNCHANGED <<batch, ingests, proposals>>

Finish ==
    /\ phase = "working"
    /\ proposals = 1
    /\ phase' = "done"
    /\ UNCHANGED <<batch, ingests, proposals>>

Expire ==
    /\ phase' = "none"
    /\ batch' = {}
    /\ ingests' = 0
    /\ proposals' = 0

Next ==
    \/ \E p \in Photos : Collect(p)
    \/ Close \/ Claim \/ Ingest \/ Propose \/ Fail \/ Finish \/ Expire

Spec == Init /\ [][Next]_vars
=============================================================================
