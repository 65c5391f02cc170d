--------------------------- MODULE UploadSession ---------------------------
(***************************************************************************)
(* One Telegram upload session (services/telegram_session_store.py) and    *)
(* the calls that race for it.                                             *)
(*                                                                         *)
(*   - Every photo of a media group is an update of its own; its job adds  *)
(*     the photo, claims a settle version and schedules a delayed job.     *)
(*   - A settle job of the current version closes the batch and sends the  *)
(*     page picker; the owner can also ask for the picker, or name the     *)
(*     target page in the caption of an upload.                            *)
(*   - Choosing a target ingests the batch and proposes a change request;  *)
(*     a proposal the model got wrong is retried from its source.          *)
(*   - The preview is delivered by whoever claims it.                      *)
(*                                                                         *)
(* A step is one operation of the Redis store, which holds the lock of the *)
(* session, or one external effect.  Workers are RQ worker processes.      *)
(***************************************************************************)
EXTENDS Naturals

CONSTANTS
    Photos,       \* the media of the group
    Workers,      \* worker processes
    Screenshots,  \* is the source a batch of screenshots, or a PDF?
    MaxVersion,   \* bound: settle versions of a session
    MaxSessions,  \* bound: sessions under this key, one after the other
    MaxFaults     \* bound: workers that die and calls that break off

ASSUME ConstantsAssumption ==
    /\ Screenshots \in BOOLEAN
    /\ MaxVersion \in Nat /\ MaxSessions \in Nat /\ MaxFaults \in Nat

VARIABLES
    session,     \* the record under the session key
    due,         \* how many settle jobs of each version are queued
    pc,          \* what each worker does next
    arg,         \* the settle version a worker carries
    claimed,     \* the attachments when the settle version was last claimed
    pickers,     \* pickers sent by settle jobs of this session
    ingests,     \* source documents made of this session
    proposals,   \* change requests made of this session
    sessions,    \* sessions created under the key
    faults       \* workers dead and calls broken off

\* Nothing in the code reads these: they record what was done for a session.
effectVars == <<claimed, pickers, ingests, proposals>>
countVars == <<sessions, faults>>
vars == <<session, due, pc, arg, effectVars, countVars>>

-----------------------------------------------------------------------------
States == {"missing", "collecting", "settled", "awaiting_target", "processing",
           "proposal_created", "failed"}
Reasons == {"none", "LLM_OUTPUT_INVALID", "other"}
Previews == {"not_started", "sending", "succeeded", "failed"}
Versions == 0 .. MaxVersion

\* preview_sent is preview = "succeeded", written with it; the target is set
\* by the first claim of the session.
Sessions ==
    [state : States, attachments : SUBSET Photos, scheduled : BOOLEAN,
     version : Versions, pickerSent : BOOLEAN, receiptSent : BOOLEAN,
     source : BOOLEAN, reason : Reasons, preview : Previews]

Fresh ==
    [state |-> "collecting", attachments |-> {}, scheduled |-> FALSE,
     version |-> 0, pickerSent |-> FALSE, receiptSent |-> FALSE,
     source |-> FALSE, reason |-> "none", preview |-> "not_started"]

Missing == [Fresh EXCEPT !.state = "missing"]

Settling == {"settle", "picker", "send"}
Working == {"ingest", "source", "propose", "repropose", "record", "failLLM", "failOther"}
Delivering == {"deliver", "delivered", "undelivered"}
Steps == {"idle", "schedule", "read", "enqueue", "receipt", "await", "target", "preview"}
         \cup Settling \cup Working \cup Delivering

TypeOK ==
    /\ session \in Sessions
    /\ due \in [Versions -> Nat]
    /\ pc \in [Workers -> Steps]
    /\ arg \in [Workers -> Versions]
    /\ claimed \subseteq Photos
    /\ pickers \in Nat /\ ingests \in Nat /\ proposals \in Nat
    /\ sessions \in Nat /\ faults \in Nat

Init ==
    /\ session = Missing
    /\ due = [v \in Versions |-> 0]
    /\ pc = [w \in Workers |-> "idle"]
    /\ arg = [w \in Workers |-> 0]
    /\ claimed = {}
    /\ pickers = 0 /\ ingests = 0 /\ proposals = 0
    /\ sessions = 0 /\ faults = 0

Goto(w, step) == pc' = [pc EXCEPT ![w] = step]
Return(w) == Goto(w, "idle")

-----------------------------------------------------------------------------
(* The job of one photo. *)

\* Mutant: a photo that arrives after the claim does not refresh the debounce.
CollectedKeepingSchedule(s, p) ==
    IF s.state = "collecting" THEN [s EXCEPT !.attachments = @ \cup {p}] ELSE s

\* A photo that is new voids the settle job that has been scheduled; once the
\* batch is closed a photo is dropped.
Collected(s, p) ==
    IF s.state = "collecting"
    THEN [s EXCEPT !.attachments = @ \cup {p}, !.scheduled = @ /\ p \in s.attachments]
    ELSE s

Upsert(p) ==
    session' = Collected(IF session.state = "missing" THEN Fresh ELSE session, p)

\* Telegram delivers an update of the group, or RQ runs its job again.  The
\* caption of an upload may name the target page.
UploadPhoto(w, p) ==
    /\ pc[w] = "idle"
    /\ session.state = "missing" => sessions < MaxSessions
    /\ Upsert(p)
    /\ sessions' = IF session.state = "missing" THEN sessions + 1 ELSE sessions
    /\ Goto(w, "schedule") \/ Goto(w, "await")
    /\ UNCHANGED <<due, arg, effectVars, faults>>

\* Mutant: the version moves although the job of the last claim is queued.
ClaimSettleAgain(w) ==
    /\ pc[w] = "schedule"
    /\ IF session.state = "collecting" /\ session.version < MaxVersion
       THEN /\ session' = [session EXCEPT !.scheduled = TRUE, !.version = @ + 1]
            /\ claimed' = session.attachments
            /\ Goto(w, IF session.scheduled THEN "receipt" ELSE "read")
       ELSE /\ Goto(w, "receipt")
            /\ UNCHANGED <<session, claimed>>
    /\ UNCHANGED <<due, arg, pickers, ingests, proposals, countVars>>

ClaimSettle(w) ==
    /\ pc[w] = "schedule"
    /\ IF session.state = "collecting" /\ ~session.scheduled
       THEN /\ session.version < MaxVersion
            /\ session' = [session EXCEPT !.scheduled = TRUE, !.version = @ + 1]
            /\ claimed' = session.attachments
            /\ Goto(w, "read")
       ELSE /\ Goto(w, "receipt")
            /\ UNCHANGED <<session, claimed>>
    /\ UNCHANGED <<due, arg, pickers, ingests, proposals, countVars>>

\* The version is read without the lock, after the claim.
ReadVersion(w) ==
    /\ pc[w] = "read"
    /\ arg' = [arg EXCEPT ![w] = session.version]
    /\ Goto(w, "enqueue")
    /\ UNCHANGED <<session, due, effectVars, countVars>>

ScheduleSettle(w) ==
    /\ pc[w] = "enqueue"
    /\ due' = [due EXCEPT ![arg[w]] = @ + 1]
    /\ Goto(w, "receipt")
    /\ UNCHANGED <<session, arg, effectVars, countVars>>

ClaimReceipt(w) ==
    /\ pc[w] = "receipt"
    /\ session' = IF session.state = "missing" THEN session
                  ELSE [session EXCEPT !.receiptSent = TRUE]
    /\ Return(w)
    /\ UNCHANGED <<due, arg, effectVars, countVars>>

\* With a target in the caption the batch is closed as it is.
AwaitTarget(w) ==
    /\ pc[w] = "await"
    /\ session' = IF session.state = "collecting"
                  THEN [session EXCEPT !.state = "awaiting_target", !.pickerSent = TRUE]
                  ELSE session
    /\ Goto(w, "target")
    /\ UNCHANGED <<due, arg, effectVars, countVars>>

-----------------------------------------------------------------------------
(* The settle job, and the owner who asks for the picker. *)

StartSettle(w, v) ==
    /\ pc[w] = "idle"
    /\ due[v] > 0
    /\ due' = [due EXCEPT ![v] = @ - 1]
    /\ arg' = [arg EXCEPT ![w] = v]
    /\ Goto(w, "settle")
    /\ UNCHANGED <<session, effectVars, countVars>>

\* Only the job of the current version, with no photo since, closes the batch.
Current(w) ==
    /\ session.state = "collecting" /\ ~session.pickerSent
    /\ session.scheduled
    /\ session.version = arg[w]

ClaimSettled(w) ==
    /\ pc[w] = "settle"
    /\ IF Current(w)
       THEN /\ session' = [session EXCEPT !.state = "settled", !.scheduled = FALSE]
            /\ Goto(w, "picker")
       ELSE /\ Return(w)
            /\ UNCHANGED session
    /\ UNCHANGED <<due, arg, effectVars, countVars>>

Pickable ==
    /\ ~session.pickerSent
    /\ session.state \in {"collecting", "settled", "awaiting_target"}

PickerClaimed == [session EXCEPT !.state = "awaiting_target", !.pickerSent = TRUE]

ClaimPicker(w) ==
    /\ pc[w] = "picker"
    /\ IF Pickable
       THEN session' = PickerClaimed /\ Goto(w, "send")
       ELSE UNCHANGED session /\ Return(w)
    /\ UNCHANGED <<due, arg, effectVars, countVars>>

\* Mutant: the message is sent again until its answer arrives.
SendPickerAgain(w) ==
    /\ pc[w] = "send"
    /\ pickers < 2
    /\ pickers' = pickers + 1
    /\ Return(w) \/ UNCHANGED pc
    /\ UNCHANGED <<session, due, arg, claimed, ingests, proposals, countVars>>

SendPicker(w) ==
    /\ pc[w] = "send"
    /\ pickers' = pickers + 1
    /\ Return(w)
    /\ UNCHANGED <<session, due, arg, claimed, ingests, proposals, countVars>>

\* /ingest without media shows the picker, whether or not this claims it.
ShowPicker ==
    /\ Pickable
    /\ session' = PickerClaimed
    /\ UNCHANGED <<due, pc, arg, effectVars, countVars>>

-----------------------------------------------------------------------------
(* Choosing the target, and retrying a proposal. *)

Retryable == session.state = "failed" /\ session.reason = "LLM_OUTPUT_INVALID"

\* Mutant: a session that is being processed is claimed once more.
TargetClaimTwice ==
    CASE session.state = "proposal_created" -> "already"
      [] session.state \in {"awaiting_target", "processing"} -> "new"
      [] Retryable /\ session.source /\ Screenshots -> "retry"
      [] OTHER -> "refused"

\* How the store answers the claim of a target.
TargetClaim ==
    CASE session.state = "proposal_created" -> "already"
      [] session.state = "awaiting_target" -> "new"
      [] Retryable /\ session.source /\ Screenshots -> "retry"
      [] OTHER -> "refused"

Processing == [session EXCEPT !.state = "processing"]
Reclaimed == [session EXCEPT !.state = "processing", !.reason = "none"]

\* A proposal that is there already is shown again.
ShowAgain(w) == Goto(w, "preview") /\ UNCHANGED session

\* A callback, a command or the caption of an upload names the target page.  A
\* claim that is refused only answers the owner.
ClaimTarget(w) ==
    /\ pc[w] \in {"idle", "target"}
    /\ \/ TargetClaim = "new" /\ session' = Processing /\ Goto(w, "ingest")
       \/ TargetClaim = "retry" /\ session' = Reclaimed /\ Goto(w, "repropose")
       \/ TargetClaim = "already" /\ ShowAgain(w)
       \/ TargetClaim = "refused" /\ pc[w] = "target" /\ Return(w) /\ UNCHANGED session
    /\ UNCHANGED <<due, arg, effectVars, countVars>>

\* How it answers /retry-proposal.
RetryClaim ==
    CASE session.state = "proposal_created" -> "already"
      [] Retryable /\ session.source -> "new"
      [] OTHER -> "refused"

ClaimRetry(w) ==
    /\ pc[w] = "idle"
    /\ \/ RetryClaim = "new" /\ session' = Reclaimed /\ Goto(w, "repropose")
       \/ RetryClaim = "already" /\ ShowAgain(w)
    /\ UNCHANGED <<due, arg, effectVars, countVars>>

-----------------------------------------------------------------------------
(* Ingesting the batch and proposing the change request. *)

\* A PDF or a batch of screenshots becomes a source document.
CommitSource(w) == ingests' = ingests + 1 /\ Goto(w, "source")

\* A file cannot be downloaded, or its content is refused.
RefuseMedia(w) == UNCHANGED ingests /\ Goto(w, "failOther")

Ingest(w) ==
    /\ pc[w] = "ingest"
    /\ CommitSource(w) \/ RefuseMedia(w)
    /\ UNCHANGED <<session, due, arg, claimed, pickers, proposals, countVars>>

RecordSource(w) ==
    /\ pc[w] = "source"
    /\ session' = [session EXCEPT !.source = TRUE]
    /\ Goto(w, "propose")
    /\ UNCHANGED <<due, arg, effectVars, countVars>>

\* The change request is committed, or no proposal was made.  The preview of a
\* first proposal is built before the session learns of it, and may fail.
Propose(w) ==
    /\ pc[w] \in {"propose", "repropose"}
    /\ \/ proposals' = proposals + 1 /\ Goto(w, "record")
       \/ pc[w] = "propose" /\ proposals' = proposals + 1 /\ Goto(w, "failOther")
       \/ UNCHANGED proposals /\ (Goto(w, "failLLM") \/ Goto(w, "failOther"))
    /\ UNCHANGED <<session, due, arg, claimed, pickers, ingests, countVars>>

\* Mutant: only the reason is written.
FailKeepingState(w) ==
    /\ pc[w] \in {"failLLM", "failOther"}
    /\ session' = [session EXCEPT !.reason = IF pc[w] = "failLLM" THEN "LLM_OUTPUT_INVALID"
                                                                  ELSE "other"]
    /\ Return(w)
    /\ UNCHANGED <<due, arg, effectVars, countVars>>

Fail(w) ==
    /\ pc[w] \in {"failLLM", "failOther"}
    /\ session' = [session EXCEPT !.state = "failed",
                                  !.reason = IF pc[w] = "failLLM" THEN "LLM_OUTPUT_INVALID"
                                                                  ELSE "other"]
    /\ Return(w)
    /\ UNCHANGED <<due, arg, effectVars, countVars>>

\* Mutant: a state the store does not know.
RecordUnknownState(w) ==
    /\ pc[w] = "record"
    /\ session' = [session EXCEPT !.state = "proposed", !.source = TRUE]
    /\ Goto(w, "preview") \/ Return(w)
    /\ UNCHANGED <<due, arg, effectVars, countVars>>

\* The preview is built from the change request; when that fails, it is not
\* claimed.
Record(w) ==
    /\ pc[w] = "record"
    /\ session' = [session EXCEPT !.state = "proposal_created", !.source = TRUE]
    /\ Goto(w, "preview") \/ Return(w)
    /\ UNCHANGED <<due, arg, effectVars, countVars>>

-----------------------------------------------------------------------------
(* Delivering the preview. *)

\* Mutant: a preview that is being sent may be claimed.
ClaimPreviewTwice(w) ==
    /\ pc[w] = "preview"
    /\ IF session.preview # "succeeded"
       THEN session' = [session EXCEPT !.preview = "sending"] /\ Goto(w, "deliver")
       ELSE UNCHANGED session /\ Return(w)
    /\ UNCHANGED <<due, arg, effectVars, countVars>>

ClaimPreview(w) ==
    /\ pc[w] = "preview"
    /\ IF session.state # "missing" /\ session.preview \notin {"sending", "succeeded"}
       THEN session' = [session EXCEPT !.preview = "sending"] /\ Goto(w, "deliver")
       ELSE UNCHANGED session /\ Return(w)
    /\ UNCHANGED <<due, arg, effectVars, countVars>>

Deliver(w) ==
    /\ pc[w] = "deliver"
    /\ Goto(w, "delivered") \/ Goto(w, "undelivered")
    /\ UNCHANGED <<session, due, arg, effectVars, countVars>>

CompletePreview(w) ==
    /\ pc[w] \in {"delivered", "undelivered"}
    /\ session' = IF pc[w] = "delivered"
                  THEN [session EXCEPT !.preview = "succeeded"]
                  ELSE [session EXCEPT !.preview = "failed", !.reason = "other"]
    /\ Return(w)
    /\ UNCHANGED <<due, arg, effectVars, countVars>>

-----------------------------------------------------------------------------
(* What goes wrong, and what ends. *)

\* A worker dies, or its call ends in an error that leaves the session as it
\* is: the queue or Telegram cannot be reached, an exception that is not an
\* ingestion error.  RQ may run the settle job of a dead worker again.
Break(w) ==
    /\ pc[w] # "idle"
    /\ faults < MaxFaults
    /\ faults' = faults + 1
    /\ \/ UNCHANGED due
       \/ pc[w] \in Settling /\ due' = [due EXCEPT ![arg[w]] = @ + 1]
    /\ Return(w)
    /\ UNCHANGED <<session, arg, effectVars, sessions>>

\* The key expires, long after the last write: no job runs that long.
Expire ==
    /\ session.state # "missing"
    /\ \A w \in Workers : pc[w] = "idle"
    /\ session' = Missing
    /\ claimed' = {}
    /\ pickers' = 0 /\ ingests' = 0 /\ proposals' = 0
    /\ UNCHANGED <<due, pc, arg, countVars>>

-----------------------------------------------------------------------------
\* What a worker does next once its call has begun.
Advance(w) ==
    \/ ClaimSettle(w) \/ ReadVersion(w) \/ ScheduleSettle(w) \/ ClaimReceipt(w)
    \/ AwaitTarget(w) \/ (pc[w] = "target" /\ ClaimTarget(w))
    \/ ClaimSettled(w) \/ ClaimPicker(w) \/ SendPicker(w)
    \/ Ingest(w) \/ RecordSource(w) \/ Propose(w) \/ Fail(w) \/ Record(w)
    \/ ClaimPreview(w) \/ Deliver(w) \/ CompletePreview(w)

\* An update or a job that reaches an idle worker.
Begin(w) ==
    \/ \E p \in Photos : UploadPhoto(w, p)
    \/ \E v \in Versions : StartSettle(w, v)
    \/ pc[w] = "idle" /\ ClaimTarget(w)
    \/ ClaimRetry(w)

Next ==
    \/ \E w \in Workers : Begin(w) \/ Advance(w) \/ Break(w)
    \/ ShowPicker
    \/ Expire

Spec == Init /\ [][Next]_vars

\* A worker that lives finishes its call, and RQ's queue is first in first out:
\* a settle job that is due is not passed over forever.
Fairness ==
    /\ \A w \in Workers : WF_vars(Advance(w))
    /\ \A v \in Versions : SF_vars(\E w \in Workers : StartSettle(w, v))

FairSpec == Spec /\ Fairness

-----------------------------------------------------------------------------
(* Properties. *)

\* A settle job closes exactly the batch its version was claimed for: a photo
\* that arrives in between is never ingested in a batch the owner was not shown,
\* nor is a batch closed while the newest photo still waits for its settle job
\* (claim_settle, claim_settled and the refresh in upsert_upload).
SettledBatchIsCurrent ==
    [][session.state = "collecting" /\ session'.state = "settled"
         => session.attachments = claimed]_vars

\* However many settle jobs are queued, repeated or late, they send the page
\* picker of a session once (process_telegram_upload_settle_job: "Redis state
\* prevents duplicate pickers").
OnePicker == pickers <= 1

\* A preview with live review buttons is on its way from at most one worker,
\* and no other may claim it until that one has answered (claim_preview,
\* complete_preview).
OneDelivery ==
    \A w \in Workers : pc[w] \in Delivering =>
        /\ session.preview = "sending"
        /\ \A x \in Workers \ {w} : pc[x] \notin Delivering

\* A session is worked on by one process at a time, ingests its closed batch
\* once, and makes one proposal of it; a failure that may be retried has made
\* none (claim_target, claim_retry, record_proposal, fail_upload).
Phase ==
    CASE session.state = "missing" -> "none"
      [] session.state = "collecting" -> "open"
      [] session.state \in {"settled", "awaiting_target"} -> "closed"
      [] session.state = "processing" -> "working"
      [] session.state = "failed" -> "failed"
      [] OTHER -> "done"

Lifecycle == INSTANCE UploadLifecycle
    WITH phase <- Phase, batch <- session.attachments

ImplementsLifecycle == Lifecycle!Spec

\* A batch that is being collected is closed in the end, unless a worker died
\* or the queue could not be reached: whatever order the photos and the settle
\* jobs come in, one settle job is current.
BatchIsOffered ==
    session.state = "collecting" ~> (session.state # "collecting" \/ faults > 0)

\* A session that is being processed leaves that state, unless a worker died or
\* raised an error that is not an ingestion error.
WorkEnds ==
    session.state = "processing" ~> (session.state # "processing" \/ faults > 0)
=============================================================================
