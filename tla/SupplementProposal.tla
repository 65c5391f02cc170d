------------------------- MODULE SupplementProposal -------------------------
(***************************************************************************)
(* One call of propose_change_request: a source document becomes a pending *)
(* change request (orchestrators/supplement_propose_orchestrator.py).      *)
(*                                                                         *)
(*   - A source the index already holds becomes a reference to it.  Else   *)
(*     an LLM writes a proposal, and the wording of that is looked up too. *)
(*   - A proposal about a screenshot is judged part by part against the    *)
(*     OCR text (services/screenshot_quality.py).  A part that fails for a *)
(*     repairable reason is written once more, and the proposal is judged  *)
(*     again; a failed title may also be built from the source itself.     *)
(*   - The request is committed, and the workflow_runs row is closed with  *)
(*     the repairs that were made and the tokens they cost.                *)
(*                                                                         *)
(* What the parts say is reduced to what the judge finds in them.          *)
(***************************************************************************)
EXTENDS Naturals, FiniteSets

CONSTANTS
    None,       \* no value
    MaxFaults   \* bound on raised writes and crashes

VARIABLES
    kind,       \* the source document is a screenshot or not
    pc,         \* what the call does next
    proposal,   \* the proposal as it stands
    by,         \* history: who wrote each part of it
    duplicate,  \* a duplicate was found: a reference replaces the proposal
    attempted,  \* repairs attempted, the flags of the call
    succeeded,  \* repairs that succeeded, the flags of the call
    tokens,     \* tokens the call has counted
    failure,    \* the class of error that ended the work
    run,        \* status of the workflow_runs row
    evidence,   \* metadata of the closed workflow_runs row
    stored,     \* the pending change request
    outcome,    \* what the caller is told
    asked,      \* history: requests sent to the provider for each purpose
    usage,      \* history: tokens the provider has reported
    raised,     \* history: the writes that raised
    faults      \* bounded by MaxFaults

draftVars == <<proposal, by, duplicate, attempted, succeeded>>
costVars == <<tokens, asked, usage>>
rowVars == <<run, evidence, stored>>
ghostVars == <<raised, faults>>
vars == <<kind, pc, failure, outcome, draftVars, costVars, rowVars, ghostVars>>

-----------------------------------------------------------------------------
\* A "partial" title has anchors in the source and nothing foreign to it that
\* matters, so it may fall back; "advice" is grounded but claims something new.
Titles == {"ok", "partial", "unrelated", "advice"}

\* "weak" fails for reasons that are safe to repair, "false" for another one.
Qualities == {"ok", "weak", "false"}

\* Bounds: "over" breaks one the judge checks and "foreign" its rule for the
\* language; "long" breaks one that only the schema checks, the length of a
\* title or of all text with the target path.
Forms == {"fits", "long", "over", "foreign"}

Proposals == [title : Titles, summary : Qualities, body : Qualities, form : Forms]
Repairs == {"title", "summary", "body"}
Purposes == Repairs \cup {"generate"}
Flags == Repairs \cup {"fallback"}

Writers == {"generate", "repair", "fallback"}
Requests == [duplicate : BOOLEAN, proposal : Proposals \cup {None}, by : [Repairs -> Writers]]

Evidence == [attempted : SUBSET Flags, succeeded : SUBSET Flags, tokens : Nat \cup {None}]

ASSUME ConstantsAssumption ==
    /\ None \notin Nat \cup Requests
    /\ None \notin {"ok", "error", "audit", "exception", "plain", "invalid"}
    /\ None \notin {"running", "succeeded", "failed"}
    /\ MaxFaults \in Nat

\* The step that asks the provider for each purpose, and all other steps.
Asking == {"generate", "title", "summary", "body"}
Working ==
    Asking \cup {"start", "load", "early", "fallback", "late", "persist", "audit", "markFailed"}
Steps == Working \cup {"idle", "done", "gone"}

DraftType ==
    /\ proposal \in Proposals \cup {None}
    /\ by \in [Repairs -> Writers]
    /\ duplicate \in BOOLEAN
    /\ attempted \subseteq Flags /\ succeeded \subseteq Flags

CallType ==
    /\ kind \in {"screenshot", "other"}
    /\ pc \in Steps
    /\ failure \in {"plain", "invalid", None}
    /\ outcome \in {"ok", "error", "audit", "exception", None}
    /\ asked \in [Purposes -> Nat]
    /\ tokens \in Nat \cup {None} /\ usage \in Nat

RowType ==
    /\ run \in {"none", "running", "succeeded", "failed"}
    /\ evidence \in Evidence \cup {None}
    /\ stored \in Requests \cup {None}
    /\ raised \subseteq {"start", "persist", "audit"}
    /\ faults \in Nat

TypeOK == DraftType /\ CallType /\ RowType

Init ==
    /\ kind \in {"screenshot", "other"}
    /\ pc = "idle"
    /\ proposal = None /\ duplicate = FALSE
    /\ by = [r \in Repairs |-> "generate"]
    /\ attempted = {} /\ succeeded = {}
    /\ tokens = None /\ usage = 0
    /\ failure = None /\ outcome = None
    /\ run = "none" /\ evidence = None /\ stored = None
    /\ asked = [p \in Purposes |-> 0]
    /\ raised = {} /\ faults = 0

-----------------------------------------------------------------------------
(* The judge. *)

\* The first check that fails decides; the summary and the body are looked at
\* together, and a summary that fails alone has a repair of its own.
Verdict(p) ==
    IF p.form \in {"over", "foreign"} THEN "refused"
    ELSE IF p.title \in {"partial", "unrelated"} THEN "title"
    ELSE IF p.title = "advice" \/ "false" \in {p.summary, p.body} THEN "refused"
    ELSE IF p.body = "weak" THEN "body"
    ELSE IF p.summary = "weak" THEN "summary" ELSE "ok"

\* A repaired title has failed when the error names it or its diagnostics do,
\* which a proposal over the bounds has none of.
TitleFails(p) ==
    /\ p.form # "over"
    /\ p.title \in {"partial", "unrelated"} \/ (p.title = "advice" /\ p.form # "foreign")

\* Only an error that names the title stops a title built from the source.
FallbackFails(p) == p.form \notin {"over", "foreign"} /\ p.title # "ok"

\* Where the call goes when the title has passed or been repaired, and after
\* the second repair, which is the last.
Resume(p) == [ok |-> "late", summary |-> "summary", body |-> "body",
              title |-> "markFailed", refused |-> "markFailed"][Verdict(p)]
Finish(p) == IF Verdict(p) = "ok" THEN "late" ELSE "markFailed"

-----------------------------------------------------------------------------
Goto(step) ==
    /\ pc' = step
    /\ failure' = IF step = "markFailed" THEN "invalid" ELSE failure
    /\ UNCHANGED outcome

\* An error that is not a validation error: its handlers know no repairs.
Fail ==
    /\ pc' = "markFailed" /\ failure' = "plain"
    /\ UNCHANGED outcome

Return(r) ==
    /\ pc' = "done" /\ outcome' = r
    /\ UNCHANGED failure

NoFault == UNCHANGED ghostVars

Raise(writes) ==
    /\ faults < MaxFaults
    /\ faults' = faults + 1
    /\ raised' = raised \cup writes

\* Token counts are optional: what a reply does not report is not added.
Sum(a, b) == IF a = None THEN b ELSE IF b = None THEN a ELSE a + b

\* The provider is asked for p and its reply reports n tokens.
Answered(p, n) ==
    /\ asked' = [asked EXCEPT ![p] = @ + 1]
    /\ tokens' = Sum(tokens, n)
    /\ usage' = usage + (IF n = None THEN 0 ELSE n)

-----------------------------------------------------------------------------
(* The call up to the proposal. *)

Refuse ==
    /\ pc = "idle"
    /\ Return("error")
    /\ NoFault /\ UNCHANGED <<kind, draftVars, costVars, rowVars>>

Accept ==
    /\ pc = "idle"
    /\ Goto("start")
    /\ NoFault /\ UNCHANGED <<kind, draftVars, costVars, rowVars>>

Start ==
    /\ pc = "start"
    /\ run' = "running"
    /\ Goto("load")
    /\ NoFault /\ UNCHANGED <<kind, draftVars, costVars, evidence, stored>>

\* The row is opened before the try block: an error leaves the call as it is.
StartRaises ==
    /\ pc = "start"
    /\ run' \in {"none", "running"}
    /\ Return("exception")
    /\ Raise({"start"})
    /\ UNCHANGED <<kind, draftVars, costVars, evidence, stored>>

\* The prompt, the source document and the target page are read.
Load ==
    /\ pc = "load"
    /\ Goto("early")
    /\ NoFault /\ UNCHANGED <<kind, draftVars, costVars, rowVars>>

\* One of them is missing, or the page has no usable path.
LoadFails ==
    /\ pc = "load"
    /\ Fail
    /\ NoFault /\ UNCHANGED <<kind, draftVars, costVars, rowVars>>

EarlyMiss ==
    /\ pc = "early"
    /\ Goto("generate")
    /\ NoFault /\ UNCHANGED <<kind, draftVars, costVars, rowVars>>

\* The provider is not asked.
EarlyMatch ==
    /\ pc = "early"
    /\ duplicate' = TRUE
    /\ Goto("persist")
    /\ NoFault /\ UNCHANGED <<kind, proposal, by, attempted, succeeded, costVars, rowVars>>

\* The generated parts are merged with source and target and fit the schema;
\* those of a screenshot are judged.
Generate(p, n) ==
    /\ pc = "generate"
    /\ p.form # "long"
    /\ Answered("generate", n)
    /\ proposal' = p
    /\ Goto(IF kind = "other" THEN "late"
            ELSE IF Verdict(p) = "title" THEN "title" ELSE Resume(p))
    /\ NoFault /\ UNCHANGED <<kind, by, duplicate, attempted, succeeded, rowVars>>

\* The reply is no JSON object of the schema, or the merged text is too long.
GenerateInvalid(n) ==
    /\ pc = "generate"
    /\ Answered("generate", n)
    /\ Goto("markFailed")
    /\ NoFault /\ UNCHANGED <<kind, draftVars, rowVars>>

\* Mutant: the first request is flagged like a repair.
AttemptedAny(p) == attempted \cup {p}

\* The flag of a repair is set before the prompt is loaded and the provider asked.
Attempted(p) == IF p \in Repairs THEN attempted \cup {p} ELSE attempted

\* Mutant: a provider error leaves the call like an audit error.
ProviderFailsQuietly ==
    /\ pc \in Asking
    /\ asked' \in {asked, [asked EXCEPT ![pc] = @ + 1]}
    /\ attempted' = Attempted(pc)
    /\ Return("error")
    /\ NoFault /\ UNCHANGED <<kind, proposal, by, duplicate, succeeded, tokens, usage, rowVars>>

\* There is no such prompt or provider, or the request fails or times out.
ProviderFails ==
    /\ pc \in Asking
    /\ asked' \in {asked, [asked EXCEPT ![pc] = @ + 1]}
    /\ attempted' = Attempted(pc)
    /\ Fail
    /\ NoFault /\ UNCHANGED <<kind, proposal, by, duplicate, succeeded, tokens, usage, rowVars>>

-----------------------------------------------------------------------------
(* Repairs. *)

Retitled(t, f) == [proposal EXCEPT !.title = t, !.form = f]

\* Mutant: the tokens of the repair replace those of the proposal.
RepairTitleOverwrites(t, f, n) ==
    /\ pc = "title"
    /\ asked' = [asked EXCEPT !["title"] = @ + 1]
    /\ tokens' = n
    /\ usage' = usage + (IF n = None THEN 0 ELSE n)
    /\ attempted' = attempted \cup {"title"}
    /\ ~ TitleFails(Retitled(t, f))
    /\ proposal' = Retitled(t, f)
    /\ by' = [by EXCEPT !["title"] = "repair"]
    /\ succeeded' = succeeded \cup {"title"}
    /\ Goto(Resume(Retitled(t, f)))
    /\ NoFault /\ UNCHANGED <<kind, duplicate, rowVars>>

\* The new title passes; an error that remains is about another part.
RepairTitle(t, f, n) ==
    /\ pc = "title"
    /\ ~ TitleFails(Retitled(t, f))
    /\ Answered("title", n)
    /\ attempted' = attempted \cup {"title"}
    /\ proposal' = Retitled(t, f)
    /\ by' = [by EXCEPT !["title"] = "repair"]
    /\ succeeded' = succeeded \cup {"title"}
    /\ Goto(Resume(Retitled(t, f)))
    /\ NoFault /\ UNCHANGED <<kind, duplicate, rowVars>>

\* It fails too, and is dropped; the diagnostics may allow a fallback.
RepairTitleFails(t, f, n) ==
    /\ pc = "title"
    /\ TitleFails(Retitled(t, f))
    /\ Answered("title", n)
    /\ attempted' = attempted \cup {"title"}
    /\ Goto(IF t = "partial" /\ f # "foreign" THEN "fallback" ELSE "markFailed")
    /\ NoFault /\ UNCHANGED <<kind, proposal, by, duplicate, succeeded, rowVars>>

\* A title joined from headings or keywords of the source: it claims nothing
\* new, but need not be supported, nor short.
Fallback(t, f) ==
    /\ pc = "fallback"
    /\ t # "advice"
    /\ attempted' = attempted \cup {"fallback"}
    /\ IF FallbackFails(Retitled(t, f))
       THEN /\ Goto("markFailed")
            /\ UNCHANGED <<proposal, by, succeeded>>
       ELSE /\ proposal' = Retitled(t, f)
            /\ by' = [by EXCEPT !["title"] = "fallback"]
            /\ succeeded' = succeeded \cup {"fallback"}
            /\ Goto(Resume(Retitled(t, f)))
    /\ NoFault /\ UNCHANGED <<kind, duplicate, costVars, rowVars>>

Resummarised(s, f) == [proposal EXCEPT !.summary = s, !.form = f]

\* Mutant: the new summary is not judged.
RepairSummaryUnchecked(s, f, n) ==
    /\ pc = "summary"
    /\ Answered("summary", n)
    /\ attempted' = attempted \cup {"summary"}
    /\ proposal' = Resummarised(s, f)
    /\ by' = [by EXCEPT !["summary"] = "repair"]
    /\ succeeded' = succeeded \cup {"summary"}
    /\ Goto("late")
    /\ NoFault /\ UNCHANGED <<kind, duplicate, rowVars>>

RepairSummary(s, f, n) ==
    /\ pc = "summary"
    /\ Answered("summary", n)
    /\ attempted' = attempted \cup {"summary"}
    /\ proposal' = Resummarised(s, f)
    /\ by' = [by EXCEPT !["summary"] = "repair"]
    /\ succeeded' = IF Verdict(proposal') = "ok" THEN succeeded \cup {"summary"} ELSE succeeded
    /\ Goto(Finish(proposal'))
    /\ NoFault /\ UNCHANGED <<kind, duplicate, rowVars>>

Rewritten(s, b, f) == [proposal EXCEPT !.summary = s, !.body = b, !.form = f]

\* Mutant: a body that still fails is repaired once more.
RepairBodyAgain(s, b, f, n) ==
    /\ pc = "body"
    /\ Answered("body", n)
    /\ attempted' = attempted \cup {"body"}
    /\ proposal' = Rewritten(s, b, f)
    /\ by' = [by EXCEPT !["summary"] = "repair", !["body"] = "repair"]
    /\ succeeded' = IF Verdict(proposal') = "ok" THEN succeeded \cup {"body"} ELSE succeeded
    /\ Goto(IF asked["body"] = 0 THEN Resume(proposal') ELSE Finish(proposal'))
    /\ NoFault /\ UNCHANGED <<kind, duplicate, rowVars>>

\* The summary, the concepts and the notes are written anew.
RepairBody(s, b, f, n) ==
    /\ pc = "body"
    /\ Answered("body", n)
    /\ attempted' = attempted \cup {"body"}
    /\ proposal' = Rewritten(s, b, f)
    /\ by' = [by EXCEPT !["summary"] = "repair", !["body"] = "repair"]
    /\ succeeded' = IF Verdict(proposal') = "ok" THEN succeeded \cup {"body"} ELSE succeeded
    /\ Goto(Finish(proposal'))
    /\ NoFault /\ UNCHANGED <<kind, duplicate, rowVars>>

\* The reply is no JSON object of the schema of its repair.  An unreadable title
\* leaves no diagnostics that could allow a fallback.
RepairInvalid(n) ==
    /\ pc \in Repairs
    /\ Answered(pc, n)
    /\ attempted' = Attempted(pc)
    /\ Goto("markFailed")
    /\ NoFault /\ UNCHANGED <<kind, proposal, by, duplicate, succeeded, rowVars>>

-----------------------------------------------------------------------------
(* The call from the proposal on. *)

LateMiss ==
    /\ pc = "late"
    /\ Goto("persist")
    /\ NoFault /\ UNCHANGED <<kind, draftVars, costVars, rowVars>>

LateMatch ==
    /\ pc = "late"
    /\ duplicate' = TRUE
    /\ Goto("persist")
    /\ NoFault /\ UNCHANGED <<kind, proposal, by, attempted, succeeded, costVars, rowVars>>

\* There is no text to look up, the index cannot be read, or the reference does
\* not fit the schema, as with a long display name in its title.
LookupFails ==
    /\ pc \in {"early", "late"}
    /\ Fail
    /\ NoFault /\ UNCHANGED <<kind, draftVars, costVars, rowVars>>

Request == [duplicate |-> duplicate, proposal |-> proposal, by |-> by]

Persist ==
    /\ pc = "persist"
    /\ stored' = Request
    /\ Goto("audit")
    /\ NoFault /\ UNCHANGED <<kind, draftVars, costVars, run, evidence>>

PersistRaises ==
    /\ pc = "persist"
    /\ stored' \in {stored, Request}
    /\ Fail
    /\ Raise({"persist"})
    /\ UNCHANGED <<kind, draftVars, costVars, run, evidence>>

Flagged == [attempted |-> attempted, succeeded |-> succeeded, tokens |-> tokens]
Unflagged == [attempted |-> {}, succeeded |-> {}, tokens |-> tokens]

CloseRun(status, e) == run' = status /\ evidence' = e

MarkSucceeded ==
    /\ pc = "audit"
    /\ CloseRun("succeeded", Flagged)
    /\ Return("ok")
    /\ NoFault /\ UNCHANGED <<kind, draftVars, costVars, stored>>

\* Mutant: the handler of all other errors also takes the audit error.
AuditErrorFailsRun ==
    /\ pc = "audit"
    /\ UNCHANGED <<run, evidence>>
    /\ Fail
    /\ Raise({"audit"})
    /\ UNCHANGED <<kind, draftVars, costVars, stored>>

\* The request stays; the run is left to an operator.
AuditRaises ==
    /\ pc = "audit"
    /\ UNCHANGED <<run, evidence>> \/ CloseRun("succeeded", Flagged)
    /\ Return("audit")
    /\ Raise({"audit"})
    /\ UNCHANGED <<kind, draftVars, costVars, stored>>

FailureEvidence == IF failure = "invalid" THEN Flagged ELSE Unflagged

MarkFailed ==
    /\ pc = "markFailed"
    /\ CloseRun("failed", FailureEvidence)
    /\ Return("error")
    /\ NoFault /\ UNCHANGED <<kind, draftVars, costVars, stored>>

\* mark_workflow_failed swallows its own errors.
MarkFailedRaises ==
    /\ pc = "markFailed"
    /\ UNCHANGED <<run, evidence>> \/ CloseRun("failed", FailureEvidence)
    /\ Return("error")
    /\ Raise({"audit"})
    /\ UNCHANGED <<kind, draftVars, costVars, stored>>

Die ==
    /\ pc \in Working
    /\ pc' = "gone"
    /\ faults < MaxFaults /\ faults' = faults + 1
    /\ UNCHANGED <<kind, failure, outcome, draftVars, costVars, rowVars, raised>>

-----------------------------------------------------------------------------
Reported == {None, 1}

Replies ==
    \E n \in Reported :
        \/ \E p \in Proposals : Generate(p, n)
        \/ GenerateInvalid(n)
        \/ \E t \in Titles, f \in Forms : RepairTitle(t, f, n) \/ RepairTitleFails(t, f, n)
        \/ \E s \in Qualities, f \in Forms : RepairSummary(s, f, n)
        \/ \E s, b \in Qualities, f \in Forms : RepairBody(s, b, f, n)
        \/ RepairInvalid(n)

Step ==
    \/ Start \/ Load \/ LoadFails \/ EarlyMiss \/ EarlyMatch
    \/ Replies \/ ProviderFails
    \/ \E t \in Titles, f \in Forms : Fallback(t, f)
    \/ LateMiss \/ LateMatch \/ LookupFails
    \/ Persist \/ MarkSucceeded \/ MarkFailed

Raises == StartRaises \/ PersistRaises \/ AuditRaises \/ MarkFailedRaises

Next == Refuse \/ Accept \/ Step \/ Raises \/ Die

Spec == Init /\ [][Next]_vars

\* A call that has been accepted runs on, and the provider answers or times out.
FairSpec == Spec /\ WF_vars(Step)

-----------------------------------------------------------------------------
(* Properties. *)

\* The proposal a screenshot has stored, when it is no reference.
Kept == kind = "screenshot" /\ stored # None /\ ~ stored.duplicate

\* Whatever repairs and fallbacks have put together, in whatever order, every
\* part of a stored screenshot proposal is supported by the source.
StoredIsGrounded ==
    Kept =>
        /\ stored.proposal.title = "ok"
        /\ stored.proposal.summary = "ok" /\ stored.proposal.body = "ok"

\* Each repair asks the provider at most once, the summary and the body are not
\* both repaired, and nothing but a screenshot's proposal is repaired at all.
RepairsBounded ==
    /\ \A p \in Purposes : asked[p] <= 1
    /\ asked["summary"] + asked["body"] <= 1
    /\ \A p \in Repairs : asked[p] > 0 => kind = "screenshot" /\ asked["generate"] = 1

\* The closed run reports the tokens of all replies, whatever became of them,
\* and a succeeded one names the repairs that were asked for and says who wrote
\* each part of the stored proposal.
WrittenBy(part, writer) == stored.by[part] = writer

EvidenceTellsTruth ==
    /\ evidence # None => evidence.tokens = (IF usage = 0 THEN None ELSE usage)
    /\ run = "succeeded" =>
          evidence.attempted \cap Repairs = {p \in Repairs : asked[p] > 0}
    /\ run = "succeeded" /\ ~ stored.duplicate =>
          /\ "title" \in evidence.succeeded <=> WrittenBy("title", "repair")
          /\ "fallback" \in evidence.succeeded <=> WrittenBy("title", "fallback")
          /\ "body" \in evidence.succeeded <=> WrittenBy("body", "repair")
          /\ {"summary", "body"} \cap evidence.succeeded # {} <=> WrittenBy("summary", "repair")

\* A succeeded run has its pending request, and a failed run has none, unless
\* the commit raised; nobody is told "ok" before both rows say so.
RunTellsTruth ==
    /\ run = "succeeded" => stored # None
    /\ run = "failed" /\ "persist" \notin raised => stored = None
    /\ outcome = "ok" => run = "succeeded"

\* The run of a call is closed, unless the process dies or a write of the run
\* itself raises.
RunCloses ==
    run = "running" ~> (run # "running" \/ pc = "gone" \/ raised \cap {"start", "audit"} # {})

\* docs/02-workflows.md:86 has every repaired or fallback proposal pass the same
\* schema before it is stored, the schema by which a stored proposal is read again.
StoredFitsSchema == stored # None /\ ~ stored.duplicate => stored.proposal.form # "long"
=============================================================================
