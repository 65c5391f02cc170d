---------------------------- MODULE ApiIngestion ----------------------------
(***************************************************************************)
(* POST /api/ingest/<route> with an Idempotency-Key.                       *)
(*                                                                         *)
(*   - The middleware claims the key in api_idempotency_records, lets the  *)
(*     owner's request through and stores its response; another request    *)
(*     with the key replays the response, is told to wait, or conflicts    *)
(*     (app/api_idempotency.py, services/api_idempotency.py).              *)
(*   - The request itself checks its input, opens a workflow_runs row,     *)
(*     parses the source with a tool, commits one source document and      *)
(*     closes the row (the ingestion orchestrators, workflow_run_service). *)
(*                                                                         *)
(* The module is one key on one route.  Every database write may raise,    *)
(* whether or not it has been applied, and a call may die at any step.     *)
(***************************************************************************)
EXTENDS Naturals, FiniteSets

CONSTANTS
    Calls,      \* HTTP requests with the key
    Payloads,   \* request fingerprints
    None,       \* no payload, no outcome
    MaxFaults   \* bound on raised writes and dead calls

ASSUME ConstantsAssumption ==
    /\ None \notin Payloads
    /\ None \notin {"ok", "error", "audit", "exception",
                    "conflict", "inProgress", "unavailable", "crash"}
    /\ MaxFaults \in Nat

VARIABLES
    route,      \* the route of the requests
    record,     \* the api_idempotency_records row
    run,        \* the workflow_runs row of each call
    documents,  \* the calls that have committed a source document
    pc,         \* what a call does next
    payload,    \* what a call carries
    outcome,    \* the response a call is about to give, or has given
    raised,     \* history: the writes of a call that raised
    faults      \* bounded by MaxFaults

rowVars == <<record, run, documents>>
callVars == <<pc, payload, outcome>>
ghostVars == <<raised, faults>>
vars == <<route, rowVars, callVars, ghostVars>>

-----------------------------------------------------------------------------
Routes == {"source", "chat-text", "url", "youtube", "document", "image-ocr"}
Parsed == Routes \ {"source", "chat-text"}

\* "error" is any refusal, "audit" the 503 of a failed audit update and
\* "exception" the stored 500 of an exception that left the route.
Answers == {"ok", "error", "audit", "exception"}
Excuses == {"conflict", "inProgress", "unavailable", "crash"}

Records == [status : {"none", "running", "succeeded", "failed"},
            print : Payloads \cup {None}, answer : Answers \cup {None}]
Unclaimed == [status |-> "none", print |-> None, answer |-> None]

\* The calls at these steps own the key.
Owning == {"check", "start", "parse", "commit", "audit", "markFailed", "complete", "except"}
Steps == Owning \cup {"idle", "lookup", "insert", "reply", "done", "gone"}
Writes == {"claim", "work", "answer"}

TypeOK ==
    /\ route \in Routes
    /\ record \in Records
    /\ run \in [Calls -> {"none", "running", "succeeded", "failed"}]
    /\ documents \subseteq Calls
    /\ pc \in [Calls -> Steps]
    /\ payload \in [Calls -> Payloads \cup {None}]
    /\ outcome \in [Calls -> Answers \cup Excuses \cup {None}]
    /\ raised \in [Calls -> SUBSET Writes]
    /\ faults \in Nat

Init ==
    /\ route \in Routes
    /\ record = Unclaimed
    /\ run = [c \in Calls |-> "none"]
    /\ documents = {}
    /\ pc = [c \in Calls |-> "idle"]
    /\ payload = [c \in Calls |-> None]
    /\ outcome = [c \in Calls |-> None]
    /\ raised = [c \in Calls |-> {}]
    /\ faults = 0

Goto(c, step) ==
    /\ pc' = [pc EXCEPT ![c] = step]
    /\ UNCHANGED outcome

\* The call has an outcome r and goes on to a step that stores or gives it.
GotoWith(c, step, r) ==
    /\ pc' = [pc EXCEPT ![c] = step]
    /\ outcome' = [outcome EXCEPT ![c] = r]

NoFault == UNCHANGED ghostVars

Fault == faults < MaxFaults /\ faults' = faults + 1

\* A write of kind k raises; writes of no kind are not told apart.
Raise(c, k) ==
    /\ Fault
    /\ raised' = [raised EXCEPT ![c] = @ \cup k]

-----------------------------------------------------------------------------
(* The claim of the key. *)

\* Mutant: the fingerprint is not compared.
ReplayAnyPayload(p) ==
    IF record.status = "running" THEN "inProgress" ELSE record.answer

\* What a request that finds the record is told.
Replay(p) ==
    IF record.print # p THEN "conflict"
    ELSE IF record.status = "running" THEN "inProgress" ELSE record.answer

Send(c, p) ==
    /\ pc[c] = "idle"
    /\ payload' = [payload EXCEPT ![c] = p]
    /\ Goto(c, "lookup")
    /\ NoFault /\ UNCHANGED <<route, rowVars>>

Lookup(c) ==
    /\ pc[c] = "lookup"
    /\ IF record.status = "none"
       THEN Goto(c, "insert")
       ELSE GotoWith(c, "reply", Replay(payload[c]))
    /\ NoFault /\ UNCHANGED <<route, rowVars, payload>>

ClaimedBy(c) == [status |-> "running", print |-> payload[c], answer |-> None]

\* Mutant: the insert does not meet the unique constraint on scope and key.
InsertAnyway(c) ==
    /\ pc[c] = "insert"
    /\ record' = ClaimedBy(c)
    /\ Goto(c, "check")
    /\ NoFault /\ UNCHANGED <<route, run, documents, payload>>

\* Mutant: a key whose record has failed may be claimed again.
InsertOverFailed(c) ==
    /\ pc[c] = "insert"
    /\ IF record.status \in {"none", "failed"}
       THEN /\ record' = ClaimedBy(c)
            /\ Goto(c, "check")
       ELSE /\ GotoWith(c, "reply", Replay(payload[c]))
            /\ UNCHANGED record
    /\ NoFault /\ UNCHANGED <<route, run, documents, payload>>

\* The unique constraint decides between requests that found no record; the
\* loser reads the record of the winner.
Insert(c) ==
    /\ pc[c] = "insert"
    /\ IF record.status = "none"
       THEN /\ record' = ClaimedBy(c)
            /\ Goto(c, "check")
       ELSE /\ GotoWith(c, "reply", Replay(payload[c]))
            /\ UNCHANGED record
    /\ NoFault /\ UNCHANGED <<route, run, documents, payload>>

\* Any error of the store is a 503, even when the insert was applied.
ClaimRaises(c) ==
    /\ pc[c] \in {"lookup", "insert"}
    /\ \/ UNCHANGED record
       \/ /\ pc[c] = "insert" /\ record.status = "none"
          /\ record' = ClaimedBy(c)
    /\ GotoWith(c, "reply", "unavailable")
    /\ Raise(c, {"claim"})
    /\ UNCHANGED <<route, run, documents, payload>>

-----------------------------------------------------------------------------
(* The request of the owner. *)

\* An argument is missing, of the wrong type or over a limit: no row is opened.
Refuse(c) ==
    /\ pc[c] = "check"
    /\ GotoWith(c, "complete", "error")
    /\ NoFault /\ UNCHANGED <<route, rowVars, payload>>

Accept(c) ==
    /\ pc[c] = "check"
    /\ Goto(c, "start")
    /\ NoFault /\ UNCHANGED <<route, rowVars, payload>>

Start(c) ==
    /\ pc[c] = "start"
    /\ run' = [run EXCEPT ![c] = "running"]
    /\ Goto(c, IF route \in Parsed THEN "parse" ELSE "commit")
    /\ NoFault /\ UNCHANGED <<route, record, documents, payload>>

\* Only a WorkflowRunAuditUpdateError has a handler: an error here leaves the
\* route as it is.
StartRaises(c) ==
    /\ pc[c] = "start"
    /\ \/ UNCHANGED run
       \/ run' = [run EXCEPT ![c] = "running"]
    /\ Goto(c, "except")
    /\ Raise(c, {})
    /\ UNCHANGED <<route, record, documents, payload>>

Parse(c) ==
    /\ pc[c] = "parse"
    /\ Goto(c, "commit")
    /\ NoFault /\ UNCHANGED <<route, rowVars, payload>>

\* The source cannot be fetched or read, has no text or more than accepted.
ParseFails(c) ==
    /\ pc[c] = "parse"
    /\ Goto(c, "markFailed")
    /\ NoFault /\ UNCHANGED <<route, rowVars, payload>>

Commit(c) ==
    /\ pc[c] = "commit"
    /\ documents' = documents \cup {c}
    /\ Goto(c, "audit")
    /\ NoFault /\ UNCHANGED <<route, record, run, payload>>

CommitRaises(c) ==
    /\ pc[c] = "commit"
    /\ documents' \in {documents, documents \cup {c}}
    /\ Goto(c, "markFailed")
    /\ Raise(c, {"work"})
    /\ UNCHANGED <<route, record, run, payload>>

MarkSucceeded(c) ==
    /\ pc[c] = "audit"
    /\ run' = [run EXCEPT ![c] = "succeeded"]
    /\ GotoWith(c, "complete", "ok")
    /\ NoFault /\ UNCHANGED <<route, record, documents, payload>>

\* Mutant: the handler of all other errors also takes the audit error.
AuditErrorFailsRun(c) ==
    /\ pc[c] = "audit"
    /\ run' \in {run, [run EXCEPT ![c] = "succeeded"]}
    /\ Goto(c, "markFailed")
    /\ Raise(c, {})
    /\ UNCHANGED <<route, record, documents, payload>>

\* The document stays; the 503 says so, and the row is left to an operator.
AuditRaises(c) ==
    /\ pc[c] = "audit"
    /\ run' \in {run, [run EXCEPT ![c] = "succeeded"]}
    /\ GotoWith(c, "complete", "audit")
    /\ Raise(c, {})
    /\ UNCHANGED <<route, record, documents, payload>>

MarkFailed(c) ==
    /\ pc[c] = "markFailed"
    /\ run' = [run EXCEPT ![c] = "failed"]
    /\ GotoWith(c, "complete", "error")
    /\ NoFault /\ UNCHANGED <<route, record, documents, payload>>

\* mark_workflow_failed swallows its own errors.
MarkFailedRaises(c) ==
    /\ pc[c] = "markFailed"
    /\ run' \in {run, [run EXCEPT ![c] = "failed"]}
    /\ GotoWith(c, "complete", "error")
    /\ Raise(c, {})
    /\ UNCHANGED <<route, record, documents, payload>>

-----------------------------------------------------------------------------
(* The answer of the key. *)

\* Mutant: the outcome itself is taken for the status.
SettledWithOutcome(r) == [record EXCEPT !.status = r, !.answer = r]

\* complete() writes whatever the record holds; below 400 is a success.
SettledWith(r) ==
    [record EXCEPT !.status = IF r = "ok" THEN "succeeded" ELSE "failed", !.answer = r]

Complete(c) ==
    /\ pc[c] = "complete"
    /\ record' = SettledWith(outcome[c])
    /\ Goto(c, "reply")
    /\ NoFault /\ UNCHANGED <<route, run, documents, payload>>

\* A response that cannot be stored is not given: the middleware raises.
CompleteRaises(c) ==
    /\ pc[c] = "complete"
    /\ record' \in {record, SettledWith(outcome[c])}
    /\ GotoWith(c, "reply", "crash")
    /\ Raise(c, {"answer"})
    /\ UNCHANGED <<route, run, documents, payload>>

\* Mutant: an exception passes the middleware by.
RethrowOnly(c) ==
    /\ pc[c] = "except"
    /\ GotoWith(c, "reply", "crash")
    /\ NoFault /\ UNCHANGED <<route, rowVars, payload>>

\* A 500 is stored for the key, and the exception goes on its way.
CompleteException(c) ==
    /\ pc[c] = "except"
    /\ record' = SettledWith("exception")
    /\ GotoWith(c, "reply", "crash")
    /\ NoFault /\ UNCHANGED <<route, run, documents, payload>>

CompleteExceptionRaises(c) ==
    /\ pc[c] = "except"
    /\ record' \in {record, SettledWith("exception")}
    /\ GotoWith(c, "reply", "crash")
    /\ Raise(c, {"answer"})
    /\ UNCHANGED <<route, run, documents, payload>>

Reply(c) ==
    /\ pc[c] = "reply"
    /\ Goto(c, "done")
    /\ NoFault /\ UNCHANGED <<route, rowVars, payload>>

\* The process dies or the request is cancelled.
Die(c) ==
    /\ pc[c] \notin {"idle", "done", "gone"}
    /\ Goto(c, "gone")
    /\ Fault /\ UNCHANGED <<route, rowVars, payload, raised>>

-----------------------------------------------------------------------------
Step(c) ==
    \/ Lookup(c) \/ Insert(c) \/ Refuse(c) \/ Accept(c) \/ Start(c)
    \/ Parse(c) \/ ParseFails(c) \/ Commit(c) \/ MarkSucceeded(c) \/ MarkFailed(c)
    \/ Complete(c) \/ CompleteException(c) \/ Reply(c)

Raises(c) ==
    \/ ClaimRaises(c) \/ StartRaises(c) \/ CommitRaises(c) \/ AuditRaises(c)
    \/ MarkFailedRaises(c) \/ CompleteRaises(c) \/ CompleteExceptionRaises(c)

Next ==
    \E c \in Calls :
        \/ \E p \in Payloads : Send(c, p)
        \/ Step(c)
        \/ Raises(c)
        \/ Die(c)

Spec == Init /\ [][Next]_vars

\* A request that has been sent runs to its end.
FairSpec == Spec /\ \A c \in Calls : WF_vars(Step(c))

-----------------------------------------------------------------------------
(* Properties. *)

\* Of all requests with a key at most one stores a source document, however
\* they race for the claim, are repeated after an error, or die.
ExecutesOnce == \A c, d \in documents : c = d

\* Whoever is told "ok", first or by a replay, has its own payload stored: a
\* key never answers for another payload, nor before the commit.
OkIsStored ==
    \A c \in Calls :
        outcome[c] = "ok" => \E d \in documents : payload[d] = payload[c]

\* The audit row agrees with the business transaction: a succeeded run has its
\* document, and a failed one has none, unless the commit itself raised.  An
\* audit write that fails after the commit must not make the run look failed.
RunTellsTruth ==
    \A c \in Calls :
        /\ run[c] = "succeeded" => c \in documents
        /\ run[c] = "failed" /\ "work" \notin raised[c] => c \notin documents

\* The requests with a key see one register that is held once and answers once.
Phase == CASE record.status = "none" -> "free"
           [] record.status = "running" -> "held"
           [] OTHER -> "settled"
Stored == {payload[c] : c \in documents}
Replies == [c \in Calls |-> IF pc[c] = "done" THEN outcome[c] ELSE None]

Key == INSTANCE KeyedMutation WITH
    phase <- Phase, holder <- record.print, stored <- Stored,
    answer <- record.answer, reply <- Replies

ImplementsKey == Key!Spec

\* A claimed key gets an answer, whatever becomes of the request, unless the
\* owner dies or cannot write its claim or its answer: then the key stays
\* "in progress" for good.
Lost == \E c \in Calls : pc[c] = "gone" \/ raised[c] \cap {"claim", "answer"} # {}

KeyIsAnswered == record.status = "running" ~> (record.status # "running" \/ Lost)
=============================================================================
