----------------------- MODULE SupplementProposalProofs -----------------------
(***************************************************************************)
(* Proofs about SupplementProposal, for any number of faults, and about    *)
(* what its parts stand for in SourceGrounding, for any vocabulary.        *)
(***************************************************************************)
EXTENDS SupplementProposal, TLAPS

\* The steps of a call that has not yet asked for anything.
Fresh == {"idle", "start", "load", "early", "generate"}

\* The steps at which the proposal has passed, or needs no repair.
Passed == {"late", "persist", "audit"}

Repairing == Repairs \cup {"fallback"}

\* Where there is a proposal, and that a screenshot's has passed the judge when
\* the call no longer repairs it.
DraftInv ==
    /\ pc \in Repairing => kind = "screenshot" /\ proposal \in Proposals
    /\ pc \in Fresh \cup Repairing \cup {"late"} => ~ duplicate
    /\ pc = "late" => proposal \in Proposals
    /\ pc \in Passed /\ ~ duplicate =>
          proposal \in Proposals /\ (kind = "screenshot" => Verdict(proposal) = "ok")

\* What has been asked for at each step: every repair is still to come.
AskedInv ==
    /\ pc \in Fresh => \A p \in Purposes : asked[p] = 0
    /\ pc \in Repairing => asked["generate"] = 1 /\ asked["summary"] = 0 /\ asked["body"] = 0
    /\ pc = "title" => asked["title"] = 0

\* The flags are those of the requests and of the writers, as long as no error
\* has stopped the call.
FlagsInv ==
    pc \in Fresh \cup Repairing \cup Passed =>
        /\ attempted \cap Repairs = {p \in Repairs : asked[p] > 0}
        /\ "title" \in succeeded <=> by["title"] = "repair"
        /\ "fallback" \in succeeded <=> by["title"] = "fallback"
        /\ "body" \in succeeded <=> by["body"] = "repair"
        /\ {"summary", "body"} \cap succeeded # {} <=> by["summary"] = "repair"
        /\ pc \in Fresh \cup Repairing => {"summary", "body"} \cap succeeded = {}
        /\ pc \in Fresh \cup {"title", "fallback"} => succeeded = {}

CostInv == tokens = IF usage = 0 THEN None ELSE usage

\* How far the rows have come at each step.
RowsInv ==
    /\ pc \in {"idle", "start"} => run = "none"
    /\ pc \in Working \ {"start"} => run = "running"
    /\ run \notin {"succeeded", "failed"} => evidence = None
    /\ stored # None => pc \in {"audit", "markFailed", "done", "gone"}
    /\ pc = "audit" => stored = Request
    /\ pc = "markFailed" /\ stored # None => "persist" \in raised
    /\ pc # "done" => outcome = None

IInv ==
    /\ TypeOK /\ DraftInv /\ AskedInv /\ FlagsInv /\ CostInv /\ RowsInv
    /\ StoredIsGrounded /\ RepairsBounded /\ EvidenceTellsTruth /\ RunTellsTruth

-----------------------------------------------------------------------------
LEMMA InitInv == Init => IInv
<1> USE ConstantsAssumption
    DEF ConstantsAssumption, Init, Fresh, Repairing, Passed, Repairs, Purposes, Working, Asking
<1>1. Init => TypeOK
  <2>1. Init => DraftType
    BY DEF DraftType, Flags, Writers
  <2>2. Init => CallType
    BY DEF CallType, Steps
  <2>3. Init => RowType
    BY DEF RowType
  <2> QED BY <2>1, <2>2, <2>3 DEF TypeOK
<1>2. Init => DraftInv /\ AskedInv /\ FlagsInv /\ CostInv /\ RowsInv
  BY DEF DraftInv, AskedInv, FlagsInv, CostInv, RowsInv
<1>3. Init => StoredIsGrounded /\ RepairsBounded /\ EvidenceTellsTruth /\ RunTellsTruth
  BY DEF StoredIsGrounded, Kept, RepairsBounded, EvidenceTellsTruth, RunTellsTruth
<1> QED BY <1>1, <1>2, <1>3 DEF IInv

\* The judge passes nothing but supported parts, and only what it passes goes on
\* to the second duplicate check.
LEMMA VerdictOk ==
    ASSUME NEW p \in Proposals
    PROVE  /\ Verdict(p) \in {"ok", "summary", "body", "title", "refused"}
           /\ Verdict(p) = "ok" => p.title = "ok" /\ p.summary = "ok" /\ p.body = "ok"
           /\ Resume(p) \in {"late", "summary", "body", "markFailed"}
           /\ Resume(p) = "late" => Verdict(p) = "ok"
           /\ Finish(p) \in {"late", "markFailed"}
           /\ Finish(p) = "late" => Verdict(p) = "ok"
<1>1. Verdict(p) \in {"ok", "summary", "body", "title", "refused"}
  BY DEF Verdict
<1>2. Verdict(p) = "ok" => p.title = "ok" /\ p.summary = "ok" /\ p.body = "ok"
  BY DEF Verdict, Proposals, Titles, Qualities
<1>3. /\ Resume(p) \in {"late", "summary", "body", "markFailed"}
      /\ Resume(p) = "late" => Verdict(p) = "ok"
  BY <1>1 DEF Resume
<1> QED BY <1>1, <1>2, <1>3 DEF Finish

\* A repair leaves a proposal.
LEMMA RepairedType ==
    ASSUME proposal \in Proposals, NEW t \in Titles, NEW s \in Qualities, NEW b \in Qualities,
           NEW f \in Forms
    PROVE  /\ Retitled(t, f) \in Proposals
           /\ Resummarised(s, f) \in Proposals
           /\ Rewritten(s, b, f) \in Proposals
BY DEF Proposals, Retitled, Resummarised, Rewritten

-----------------------------------------------------------------------------
(* The steps of a call, in the groups that the proofs below treat alike.      *)

\* Steps that move on, or that find a duplicate.
Moves ==
    \/ Refuse \/ Accept \/ Load \/ LoadFails \/ EarlyMiss \/ EarlyMatch
    \/ LateMiss \/ LateMatch \/ LookupFails

\* Replies and provider errors that leave the proposal as it is.
Misses ==
    \/ ProviderFails
    \/ \E n \in Reported :
          \/ GenerateInvalid(n) \/ RepairInvalid(n)
          \/ \E t \in Titles, f \in Forms : RepairTitleFails(t, f, n)

\* Replies that change it.
Writes ==
    \E n \in Reported :
        \/ \E p \in Proposals : Generate(p, n)
        \/ \E t \in Titles, f \in Forms : RepairTitle(t, f, n)
        \/ \E s \in Qualities, f \in Forms : RepairSummary(s, f, n)
        \/ \E s, b \in Qualities, f \in Forms : RepairBody(s, b, f, n)

FallsBack == \E t \in Titles, f \in Forms : Fallback(t, f)
Opens == Start \/ StartRaises
Persists == Persist \/ PersistRaises
Closes == MarkSucceeded \/ AuditRaises \/ MarkFailed \/ MarkFailedRaises

LEMMA NextSteps ==
    ASSUME [Next]_vars
    PROVE  \/ Moves \/ Misses \/ Writes \/ FallsBack \/ Opens \/ Persists \/ Closes
           \/ Die \/ UNCHANGED vars
BY DEF Next, Step, Raises, Replies, Moves, Misses, Writes, FallsBack, Opens, Persists, Closes

-----------------------------------------------------------------------------
(* Type correctness, of the draft, the call and the rows. *)

LEMMA ProposalStep ==
    ASSUME DraftType, DraftInv, Writes \/ FallsBack
    PROVE  proposal' \in Proposals \cup {None}
<1> USE DEF DraftType, DraftInv, Repairing, Repairs
<1>1. ASSUME NEW n \in Reported, NEW p \in Proposals, Generate(p, n) PROVE proposal' \in Proposals
  BY <1>1 DEF Generate
<1>2. ASSUME NEW n \in Reported, NEW t \in Titles, NEW f \in Forms, RepairTitle(t, f, n)
      PROVE  proposal' \in Proposals
  BY <1>2 DEF RepairTitle, Retitled, Proposals
<1>3. ASSUME NEW n \in Reported, NEW s \in Qualities, NEW f \in Forms, RepairSummary(s, f, n)
      PROVE  proposal' \in Proposals
  BY <1>3 DEF RepairSummary, Resummarised, Proposals
<1>4. ASSUME NEW n \in Reported, NEW s \in Qualities, NEW b \in Qualities, NEW f \in Forms,
             RepairBody(s, b, f, n)
      PROVE  proposal' \in Proposals
  BY <1>4 DEF RepairBody, Rewritten, Proposals
<1>5. ASSUME NEW t \in Titles, NEW f \in Forms, Fallback(t, f) PROVE proposal' \in Proposals
  BY <1>5 DEF Fallback, Retitled, Proposals
<1> QED BY <1>1, <1>2, <1>3, <1>4, <1>5 DEF Writes, FallsBack

LEMMA DraftTypeStep == ASSUME DraftType, DraftInv, [Next]_vars PROVE DraftType'
<1> USE DEF draftVars, vars
<1>1. CASE Moves
  BY <1>1 DEF DraftType, Moves, Refuse, Accept, Load, LoadFails, EarlyMiss, EarlyMatch,
     LateMiss, LateMatch, LookupFails
<1>2. CASE Misses
  BY <1>2 DEF DraftType, Misses, ProviderFails, GenerateInvalid, RepairInvalid, RepairTitleFails,
     Attempted, Flags, Repairs
<1>3. CASE Writes \/ FallsBack
  <2>1. proposal' \in Proposals \cup {None}
    BY <1>3, ProposalStep
  <2>2. duplicate' \in BOOLEAN /\ attempted' \subseteq Flags /\ succeeded' \subseteq Flags
    BY <1>3 DEF DraftType, Writes, FallsBack, Generate, RepairTitle, RepairSummary, RepairBody,
       Fallback, Flags, Repairs
  <2>3. by' \in [Repairs -> Writers]
    BY <1>3 DEF DraftType, Writes, FallsBack, Generate, RepairTitle, RepairSummary, RepairBody,
       Fallback, Repairs, Writers
  <2> QED BY <2>1, <2>2, <2>3 DEF DraftType
<1>4. CASE Opens \/ Persists \/ Closes \/ Die \/ UNCHANGED vars
  BY <1>4 DEF DraftType, Opens, Start, StartRaises, Persists, Persist, PersistRaises, Closes,
     MarkSucceeded, AuditRaises, MarkFailed, MarkFailedRaises, Die
<1> QED BY <1>1, <1>2, <1>3, <1>4, NextSteps

LEMMA CallTypeStep == ASSUME DraftType, DraftInv, CallType, [Next]_vars PROVE CallType'
<1> USE DEF CallType, Steps, Working, Asking, Goto, Fail, Return, costVars, vars
<1>1. CASE Moves
  BY <1>1 DEF Moves, Refuse, Accept, Load, LoadFails, EarlyMiss, EarlyMatch,
     LateMiss, LateMatch, LookupFails
<1>2. ASSUME NEW n \in Reported, NEW p \in Purposes, Answered(p, n)
      PROVE  asked' \in [Purposes -> Nat] /\ tokens' \in Nat \cup {None} /\ usage' \in Nat
  BY <1>2 DEF Answered, Reported, Sum
<1>3. CASE Misses
  BY <1>2, <1>3 DEF Misses, ProviderFails, GenerateInvalid, RepairInvalid, RepairTitleFails,
     Purposes, Repairs
<1>4. ASSUME NEW n \in Reported, NEW p \in Proposals, Generate(p, n) PROVE CallType'
  BY <1>2, <1>4, VerdictOk DEF Generate, Purposes
<1>5. ASSUME NEW n \in Reported, NEW t \in Titles, NEW f \in Forms, RepairTitle(t, f, n)
      PROVE  CallType'
  <2>1. Resume(Retitled(t, f)) \in {"late", "summary", "body", "markFailed"}
    BY <1>5, VerdictOk, RepairedType DEF RepairTitle, DraftInv, Repairing, Repairs, Qualities
  <2> QED BY <1>2, <1>5, <2>1 DEF RepairTitle, Purposes, Repairs
<1>6. ASSUME NEW n \in Reported, NEW s \in Qualities, NEW b \in Qualities, NEW f \in Forms,
             RepairSummary(s, f, n) \/ RepairBody(s, b, f, n)
      PROVE  CallType'
  BY <1>2, <1>6 DEF RepairSummary, RepairBody, Finish, Purposes, Repairs
<1>7. CASE FallsBack
  <2>1. PICK t \in Titles, f \in Forms : Fallback(t, f)
    BY <1>7 DEF FallsBack
  <2>2. Resume(Retitled(t, f)) \in {"late", "summary", "body", "markFailed"}
    BY <2>1, VerdictOk, RepairedType DEF Fallback, DraftInv, Repairing, Qualities
  <2> QED BY <2>1, <2>2 DEF Fallback
<1>8. CASE Opens \/ Persists
  BY <1>8 DEF Opens, Start, StartRaises, Persists, Persist, PersistRaises
<1>9. CASE Closes \/ Die \/ UNCHANGED vars
  BY <1>9 DEF Closes, MarkSucceeded, AuditRaises, MarkFailed, MarkFailedRaises, Die
<1> QED BY <1>1, <1>3, <1>4, <1>5, <1>6, <1>7, <1>8, <1>9, NextSteps DEF Writes

LEMMA RowTypeStep == ASSUME DraftType, CallType, RowType, [Next]_vars PROVE RowType'
<1> USE DEF RowType, rowVars, ghostVars, vars, NoFault, Raise
<1>1. CASE Moves \/ FallsBack
  BY <1>1 DEF Moves, Refuse, Accept, Load, LoadFails, EarlyMiss, EarlyMatch,
     LateMiss, LateMatch, LookupFails, FallsBack, Fallback
<1>2. CASE Misses \/ Writes
  BY <1>2 DEF Misses, ProviderFails, GenerateInvalid, RepairInvalid, RepairTitleFails,
     Writes, Generate, RepairTitle, RepairSummary, RepairBody
<1>3. CASE Opens
  <2>1. CASE Start
    BY <2>1 DEF Start
  <2>2. CASE StartRaises
    BY <2>2 DEF StartRaises
  <2> QED BY <1>3, <2>1, <2>2 DEF Opens
<1>4. CASE Persists
  <2>1. Request \in Requests
    BY DEF Request, Requests, DraftType
  <2>2. CASE Persist
    BY <2>1, <2>2 DEF Persist
  <2>3. CASE PersistRaises
    BY <2>1, <2>3 DEF PersistRaises
  <2> QED BY <1>4, <2>2, <2>3 DEF Persists
<1>5. CASE Closes
  <2>1. Flagged \in Evidence /\ FailureEvidence \in Evidence
    BY DEF Flagged, Unflagged, FailureEvidence, Evidence, DraftType, CallType
  <2>2. CASE MarkSucceeded \/ MarkFailed
    BY <2>1, <2>2 DEF MarkSucceeded, MarkFailed, CloseRun
  <2>3. CASE AuditRaises
    BY <2>1, <2>3 DEF AuditRaises, CloseRun
  <2>4. CASE MarkFailedRaises
    BY <2>1, <2>4 DEF MarkFailedRaises, CloseRun
  <2> QED BY <1>5, <2>2, <2>3, <2>4 DEF Closes
<1>6. CASE Die
  BY <1>6 DEF Die
<1>7. CASE UNCHANGED vars
  BY <1>7
<1> QED BY <1>1, <1>2, <1>3, <1>4, <1>5, <1>6, <1>7, NextSteps

-----------------------------------------------------------------------------
(* The invariant, part by part. *)

LEMMA DraftStep == ASSUME TypeOK, DraftInv, [Next]_vars PROVE DraftInv'
<1> USE DEF DraftInv, Fresh, Repairing, Repairs, Passed, Goto, Fail, Return, draftVars, vars
<1>1. CASE Moves
  BY <1>1 DEF Moves, Refuse, Accept, Load, LoadFails, EarlyMiss, EarlyMatch,
     LateMiss, LateMatch, LookupFails
<1>2. CASE Misses
  BY <1>2 DEF Misses, ProviderFails, GenerateInvalid, RepairInvalid, RepairTitleFails
<1>3. ASSUME NEW n \in Reported, NEW p \in Proposals, Generate(p, n) PROVE DraftInv'
  BY <1>3, VerdictOk DEF Generate, TypeOK, CallType
<1>4. ASSUME NEW n \in Reported, NEW t \in Titles, NEW f \in Forms,
             RepairTitle(t, f, n) \/ Fallback(t, f)
      PROVE  DraftInv'
  <2>1. Retitled(t, f) \in Proposals
    BY <1>4, RepairedType DEF RepairTitle, Fallback, Qualities
  <2> QED BY <1>4, <2>1, VerdictOk DEF RepairTitle, Fallback
<1>5. ASSUME NEW n \in Reported, NEW s \in Qualities, NEW b \in Qualities, NEW f \in Forms,
             RepairSummary(s, f, n) \/ RepairBody(s, b, f, n)
      PROVE  DraftInv'
  <2>1. Resummarised(s, f) \in Proposals /\ Rewritten(s, b, f) \in Proposals
    BY <1>5, RepairedType DEF RepairSummary, RepairBody, Titles
  <2> QED BY <1>5, <2>1, VerdictOk DEF RepairSummary, RepairBody
<1>6. CASE Opens \/ Persists
  BY <1>6 DEF Opens, Start, StartRaises, Persists, Persist, PersistRaises
<1>7. CASE Closes \/ Die \/ UNCHANGED vars
  BY <1>7 DEF Closes, MarkSucceeded, AuditRaises, MarkFailed, MarkFailedRaises, Die
<1> QED BY <1>1, <1>2, <1>3, <1>4, <1>5, <1>6, <1>7, NextSteps
   DEF Writes, FallsBack, Reported

LEMMA AskedStep ==
    ASSUME TypeOK, DraftInv, AskedInv, RepairsBounded, [Next]_vars
    PROVE  AskedInv' /\ RepairsBounded'
<1> USE DEF AskedInv, RepairsBounded, Fresh, Repairing, Repairs, Purposes, Asking, TypeOK, CallType,
        Goto, Fail, Return, costVars, vars
<1>1. CASE Moves
  BY <1>1 DEF Moves, Refuse, Accept, Load, LoadFails, EarlyMiss, EarlyMatch,
     LateMiss, LateMatch, LookupFails
<1>2. CASE ProviderFails
  BY <1>2 DEF ProviderFails, DraftInv
<1>3. ASSUME NEW n \in Reported, GenerateInvalid(n) \/ RepairInvalid(n)
      PROVE  AskedInv' /\ RepairsBounded'
  BY <1>3 DEF GenerateInvalid, RepairInvalid, Answered, DraftInv
<1>4. ASSUME NEW n \in Reported, NEW p \in Proposals, Generate(p, n)
      PROVE  AskedInv' /\ RepairsBounded'
  BY <1>4, VerdictOk DEF Generate, Answered
<1>5. ASSUME NEW n \in Reported, NEW t \in Titles, NEW f \in Forms,
             RepairTitle(t, f, n) \/ RepairTitleFails(t, f, n)
      PROVE  AskedInv' /\ RepairsBounded'
  <2>1. Resume(Retitled(t, f)) \in {"late", "summary", "body", "markFailed"}
    BY <1>5, VerdictOk, RepairedType DEF RepairTitle, RepairTitleFails, DraftInv, Qualities
  <2> QED BY <1>5, <2>1 DEF RepairTitle, RepairTitleFails, Answered, DraftInv
<1>6. ASSUME NEW n \in Reported, NEW s \in Qualities, NEW b \in Qualities, NEW f \in Forms,
             RepairSummary(s, f, n) \/ RepairBody(s, b, f, n)
      PROVE  AskedInv' /\ RepairsBounded'
  BY <1>6 DEF RepairSummary, RepairBody, Finish, Answered, DraftInv
<1>7. ASSUME NEW t \in Titles, NEW f \in Forms, Fallback(t, f) PROVE AskedInv' /\ RepairsBounded'
  <2>1. Resume(Retitled(t, f)) \in {"late", "summary", "body", "markFailed"}
    BY <1>7, VerdictOk, RepairedType DEF Fallback, DraftInv, Qualities
  <2> QED BY <1>7, <2>1 DEF Fallback
<1>8. CASE Opens \/ Persists
  BY <1>8 DEF Opens, Start, StartRaises, Persists, Persist, PersistRaises
<1>9. CASE Closes \/ Die \/ UNCHANGED vars
  BY <1>9 DEF Closes, MarkSucceeded, AuditRaises, MarkFailed, MarkFailedRaises, Die
<1> QED
  BY <1>1, <1>2, <1>3, <1>4, <1>5, <1>6, <1>7, <1>8, <1>9, NextSteps DEF Misses, Writes, FallsBack

LEMMA CostStep == ASSUME TypeOK, CostInv, [Next]_vars PROVE CostInv'
<1> USE DEF CostInv, costVars, vars
<1>1. ASSUME NEW n \in Reported, NEW p, Answered(p, n) PROVE CostInv'
  BY <1>1, ConstantsAssumption DEF ConstantsAssumption, Answered, Sum, Reported, TypeOK, CallType
<1>2. CASE Misses
  BY <1>1, <1>2 DEF Misses, ProviderFails, GenerateInvalid, RepairInvalid, RepairTitleFails
<1>3. CASE Writes
  BY <1>1, <1>3 DEF Writes, Generate, RepairTitle, RepairSummary, RepairBody
<1>4. CASE Moves \/ FallsBack
  BY <1>4 DEF Moves, Refuse, Accept, Load, LoadFails, EarlyMiss, EarlyMatch,
     LateMiss, LateMatch, LookupFails, FallsBack, Fallback
<1>5. CASE Opens \/ Persists \/ Closes \/ Die \/ UNCHANGED vars
  BY <1>5 DEF Opens, Start, StartRaises, Persists, Persist, PersistRaises, Closes,
     MarkSucceeded, AuditRaises, MarkFailed, MarkFailedRaises, Die
<1> QED BY <1>2, <1>3, <1>4, <1>5, NextSteps

LEMMA RowsStep ==
    ASSUME TypeOK, DraftInv, RowsInv, [Next]_vars
    PROVE  RowsInv'
<1> USE DEF RowsInv, Working, Asking, Goto, Fail, Return, rowVars, draftVars, ghostVars, vars,
        NoFault, Raise
<1>1. CASE Moves
  BY <1>1 DEF Moves, Refuse, Accept, Load, LoadFails, EarlyMiss, EarlyMatch,
     LateMiss, LateMatch, LookupFails
<1>2. CASE Misses
  BY <1>2 DEF Misses, ProviderFails, GenerateInvalid, RepairInvalid, RepairTitleFails, Repairs
<1>3. ASSUME NEW n \in Reported, NEW p \in Proposals, Generate(p, n) PROVE RowsInv'
  BY <1>3, VerdictOk DEF Generate
<1>4. ASSUME NEW n \in Reported, NEW t \in Titles, NEW f \in Forms,
             RepairTitle(t, f, n) \/ Fallback(t, f)
      PROVE  RowsInv'
  <2>1. Resume(Retitled(t, f)) \in {"late", "summary", "body", "markFailed"}
    BY <1>4, VerdictOk, RepairedType DEF RepairTitle, Fallback, DraftInv, Repairing, Repairs,
         Qualities
  <2> QED BY <1>4, <2>1 DEF RepairTitle, Fallback
<1>5. ASSUME NEW n \in Reported, NEW s \in Qualities, NEW b \in Qualities, NEW f \in Forms,
             RepairSummary(s, f, n) \/ RepairBody(s, b, f, n)
      PROVE  RowsInv'
  BY <1>5 DEF RepairSummary, RepairBody, Finish
<1>6. CASE Opens
  BY <1>6 DEF Opens, Start, StartRaises
<1>7. CASE Persists
  BY <1>7 DEF Persists, Persist, PersistRaises, Request
<1>8. CASE Closes \/ Die \/ UNCHANGED vars
  BY <1>8 DEF Closes, MarkSucceeded, AuditRaises, MarkFailed, MarkFailedRaises, CloseRun, Die,
       Request
<1> QED BY <1>1, <1>2, <1>3, <1>4, <1>5, <1>6, <1>7, <1>8, NextSteps DEF Writes, FallsBack, Reported

LEMMA FlagsStep ==
    ASSUME TypeOK, DraftInv, AskedInv, RepairsBounded, FlagsInv, [Next]_vars
    PROVE  FlagsInv'
<1> USE DEF FlagsInv, Fresh, Repairing, Repairs, Passed, TypeOK, DraftType, CallType,
        Goto, Fail, Return, draftVars, costVars, vars
<1>1. CASE Moves
  BY <1>1 DEF Moves, Refuse, Accept, Load, LoadFails, EarlyMiss, EarlyMatch,
     LateMiss, LateMatch, LookupFails
<1>2. ASSUME ProviderFails \/ \E n \in Reported : GenerateInvalid(n) \/ RepairInvalid(n)
      PROVE  FlagsInv'
  BY <1>2 DEF ProviderFails, GenerateInvalid, RepairInvalid
<1>3. ASSUME NEW n \in Reported, NEW t \in Titles, NEW f \in Forms, RepairTitleFails(t, f, n)
      PROVE  FlagsInv'
  BY <1>3 DEF RepairTitleFails, Answered, AskedInv, Purposes
<1>4. ASSUME NEW n \in Reported, NEW p \in Proposals, Generate(p, n) PROVE FlagsInv'
  BY <1>4, VerdictOk DEF Generate, Answered, AskedInv, Purposes
<1>5. ASSUME NEW n \in Reported, NEW t \in Titles, NEW f \in Forms, RepairTitle(t, f, n)
      PROVE  FlagsInv'
  <2>1. Resume(Retitled(t, f)) \in {"late", "summary", "body", "markFailed"}
    BY <1>5, VerdictOk, RepairedType DEF RepairTitle, DraftInv, Qualities
  <2> QED BY <1>5, <2>1 DEF RepairTitle, Answered, AskedInv, Purposes
<1>6. ASSUME NEW n \in Reported, NEW s \in Qualities, NEW f \in Forms, RepairSummary(s, f, n)
      PROVE  FlagsInv'
  BY <1>6 DEF RepairSummary, Finish, Answered, AskedInv, Purposes
<1>7. ASSUME NEW n \in Reported, NEW s \in Qualities, NEW b \in Qualities, NEW f \in Forms,
             RepairBody(s, b, f, n)
      PROVE  FlagsInv'
  BY <1>7 DEF RepairBody, Finish, Answered, AskedInv, Purposes
<1>8. ASSUME NEW t \in Titles, NEW f \in Forms, Fallback(t, f) PROVE FlagsInv'
  <2>1. Resume(Retitled(t, f)) \in {"late", "summary", "body", "markFailed"}
    BY <1>8, VerdictOk, RepairedType DEF Fallback, DraftInv, Qualities
  <2>2. pc' \in {"late", "summary", "body", "markFailed"}
    BY <1>8, <2>1 DEF Fallback
  <2>3. succeeded = {} /\ by["title"] # "repair" /\ by["body"] # "repair" /\ by["summary"] # "repair"
    BY <1>8 DEF Fallback
  <2> QED BY <1>8, <2>2, <2>3 DEF Fallback
<1>9. CASE Opens \/ Persists
  BY <1>9 DEF Opens, Start, StartRaises, Persists, Persist, PersistRaises
<1>10. CASE Closes \/ Die \/ UNCHANGED vars
  BY <1>10 DEF Closes, MarkSucceeded, AuditRaises, MarkFailed, MarkFailedRaises, Die
<1> QED
  BY <1>1, <1>2, <1>3, <1>4, <1>5, <1>6, <1>7, <1>8, <1>9, <1>10, NextSteps
  DEF Misses, Writes, FallsBack

-----------------------------------------------------------------------------
(* The properties. *)

LEMMA GroundedStep ==
    ASSUME TypeOK, DraftInv, RowsInv, StoredIsGrounded, [Next]_vars
    PROVE  StoredIsGrounded'
<1> USE DEF StoredIsGrounded, Kept, rowVars, vars
<1>1. ASSUME UNCHANGED <<kind, stored>> PROVE StoredIsGrounded'
  BY <1>1
<1>2. CASE Persists
  <2>1. UNCHANGED <<kind, stored>> \/ (UNCHANGED kind /\ stored' = Request)
    BY <1>2 DEF Persists, Persist, PersistRaises
  <2>2. ASSUME kind = "screenshot", ~ duplicate
        PROVE  proposal.title = "ok" /\ proposal.summary = "ok" /\ proposal.body = "ok"
    BY <1>2, <2>2, VerdictOk DEF Persists, Persist, PersistRaises, DraftInv, Passed
  <2> QED BY <1>1, <2>1, <2>2 DEF Request
<1>3. CASE Moves \/ Misses
  BY <1>1, <1>3 DEF Moves, Refuse, Accept, Load, LoadFails, EarlyMiss, EarlyMatch, LateMiss,
     LateMatch, LookupFails, Misses, ProviderFails, GenerateInvalid, RepairInvalid, RepairTitleFails
<1>4. CASE Writes \/ FallsBack
  BY <1>1, <1>4 DEF Writes, Generate, RepairTitle, RepairSummary, RepairBody, FallsBack, Fallback
<1>5. CASE Opens \/ Closes \/ Die \/ UNCHANGED vars
  BY <1>1, <1>5 DEF Opens, Start, StartRaises, Closes, MarkSucceeded, AuditRaises, MarkFailed,
     MarkFailedRaises, Die
<1> QED BY <1>2, <1>3, <1>4, <1>5, NextSteps

\* Evidence is written once, when the run is closed; nothing it tells of changes
\* before, as far as a run that is not closed has none, nor after.
LEMMA EvidenceStep ==
    ASSUME TypeOK, AskedInv, FlagsInv, CostInv, RowsInv, EvidenceTellsTruth, [Next]_vars
    PROVE  EvidenceTellsTruth'
<1> USE DEF EvidenceTellsTruth, WrittenBy, costVars, rowVars, vars
<1>1. ASSUME run' # "succeeded", evidence' = None PROVE EvidenceTellsTruth'
  BY <1>1
<1>2. ASSUME UNCHANGED <<costVars, rowVars>> PROVE EvidenceTellsTruth'
  BY <1>2
<1>3. CASE Misses \/ Writes
  <2>1. run = "running" /\ evidence = None /\ UNCHANGED rowVars
    BY <1>3 DEF Misses, ProviderFails, GenerateInvalid, RepairInvalid, RepairTitleFails, Writes,
       Generate, RepairTitle, RepairSummary, RepairBody, RowsInv, Working, Asking, Repairs
  <2> QED BY <1>1, <2>1
<1>4. CASE Moves \/ FallsBack \/ Die \/ UNCHANGED vars
  BY <1>2, <1>4 DEF Moves, Refuse, Accept, Load, LoadFails, EarlyMiss, EarlyMatch, LateMiss,
     LateMatch, LookupFails, FallsBack, Fallback, Die
<1>5. CASE Opens \/ Persists
  <2>1. run' # "succeeded" /\ evidence' = None
    BY <1>5 DEF Opens, Start, StartRaises, Persists, Persist, PersistRaises, RowsInv, Working
  <2> QED BY <1>1, <2>1
<1>6. CASE Closes
  <2>1. UNCHANGED <<asked, tokens, usage, stored>>
    BY <1>6 DEF Closes, MarkSucceeded, AuditRaises, MarkFailed, MarkFailedRaises
  <2>2. CASE UNCHANGED <<run, evidence>>
    BY <1>2, <2>1, <2>2
  <2>3. CASE pc = "audit" /\ CloseRun("succeeded", Flagged)
    BY <2>1, <2>3 DEF CloseRun, Flagged, FlagsInv, Passed, CostInv, RowsInv, Request
  <2>4. CASE CloseRun("failed", FailureEvidence)
    BY <2>1, <2>4 DEF CloseRun, FailureEvidence, Flagged, Unflagged, CostInv
  <2> QED
    BY <1>6, <2>2, <2>3, <2>4 DEF Closes, MarkSucceeded, AuditRaises, MarkFailed, MarkFailedRaises
<1> QED BY <1>3, <1>4, <1>5, <1>6, NextSteps

LEMMA RunStep ==
    ASSUME TypeOK, RowsInv, RunTellsTruth, [Next]_vars
    PROVE  RunTellsTruth'
<1> USE DEF RunTellsTruth, RowsInv, Working, Asking, Goto, Fail, Return, rowVars, ghostVars, vars,
        NoFault, Raise
<1>1. CASE Moves
  BY <1>1, ConstantsAssumption DEF ConstantsAssumption, Moves, Refuse, Accept, Load, LoadFails,
     EarlyMiss, EarlyMatch, LateMiss, LateMatch, LookupFails
<1>2. CASE Misses \/ Writes \/ FallsBack
  BY <1>2 DEF Misses, ProviderFails, GenerateInvalid, RepairInvalid, RepairTitleFails, Writes,
     Generate, RepairTitle, RepairSummary, RepairBody, FallsBack, Fallback
<1>3. CASE Opens \/ Persists
  BY <1>3 DEF Opens, Start, StartRaises, Persists, Persist, PersistRaises
<1>4. CASE Closes
  <2>1. Request # None
    BY ConstantsAssumption DEF ConstantsAssumption, TypeOK, DraftType, Request, Requests
  <2>2. CASE MarkSucceeded \/ AuditRaises
    BY <2>1, <2>2 DEF MarkSucceeded, AuditRaises, CloseRun
  <2>3. CASE MarkFailed \/ MarkFailedRaises
    BY <2>3 DEF MarkFailed, MarkFailedRaises, CloseRun
  <2> QED BY <1>4, <2>2, <2>3 DEF Closes
<1>5. CASE Die \/ UNCHANGED vars
  BY <1>5 DEF Die
<1> QED BY <1>1, <1>2, <1>3, <1>4, <1>5, NextSteps

-----------------------------------------------------------------------------
LEMMA Invariance == Spec => []IInv
<1>1. ASSUME IInv, [Next]_vars PROVE IInv'
  <2> USE <1>1 DEF IInv
  <2>1. TypeOK'
    BY DraftTypeStep, CallTypeStep, RowTypeStep DEF TypeOK
  <2>2. DraftInv' /\ AskedInv' /\ RepairsBounded'
    BY DraftStep, AskedStep
  <2>3. FlagsInv' /\ CostInv' /\ RowsInv'
    BY FlagsStep, CostStep, RowsStep
  <2>4. StoredIsGrounded' /\ EvidenceTellsTruth' /\ RunTellsTruth'
    BY GroundedStep, EvidenceStep, RunStep
  <2> QED BY <2>1, <2>2, <2>3, <2>4
<1> QED BY InitInv, <1>1, PTL DEF Spec

\* Every variable of a call keeps its type.
THEOREM TypeCorrect == Spec => []TypeOK
<1>1. IInv => TypeOK
  BY DEF IInv
<1> QED BY Invariance, <1>1, PTL

\* No part of a stored screenshot proposal is unsupported by the source, whoever
\* wrote it: _validate_screenshot_proposal has judged the parts together.
THEOREM StoredGrounded == Spec => []StoredIsGrounded
<1>1. IInv => StoredIsGrounded
  BY DEF IInv
<1> QED BY Invariance, <1>1, PTL

\* A call asks the provider at most three times: for the proposal, the title, and
\* the summary or the body.
THEOREM RepairsAreBounded == Spec => []RepairsBounded
<1>1. IInv => RepairsBounded
  BY DEF IInv
<1> QED BY Invariance, <1>1, PTL

\* The metadata of a closed run agrees with the replies and the stored proposal.
THEOREM EvidenceIsTrue == Spec => []EvidenceTellsTruth
<1>1. IInv => EvidenceTellsTruth
  BY DEF IInv
<1> QED BY Invariance, <1>1, PTL

\* The status of the run agrees with the pending request.
THEOREM ProposalRunsTellTruth == Spec => []RunTellsTruth
<1>1. IInv => RunTellsTruth
  BY DEF IInv
<1> QED BY Invariance, <1>1, PTL

-----------------------------------------------------------------------------
(* The texts that the parts stand for: the verdict, and what is stored.       *)

CONSTANTS
    Numbers, Identifiers, Words, Chinese, Products, Terms, Generic, Frame, Safe,
    Spelled, Signals, Kana, Hangul, Simplified, Markers, Absolutes, ContextWords,
    ContextRuns, Advice, Comparison, Conclusion, Semantics, GenericTitles, Chrome,
    MaxAnchors

G == INSTANCE SourceGroundingProofs

\* The model may keep this of p: the judge does not count what only the schema does.
Keeps(p, s) ==
    LET judged == G!Judged(p, s)
    IN {judged} \cup (IF judged.form = "fits" THEN {[judged EXCEPT !.form = "long"]} ELSE {})

\* What is kept of the failures tells whether there are any, and what may be
\* written anew: reasons that are safe by themselves are safe together.
LEMMA ScopeIsKept ==
  ASSUME NEW failures
  PROVE  LET summary == G!QualityOf({f \in failures : f.region = "summary"})
             rest == G!QualityOf(failures \ {f \in failures : f.region = "summary"})
         IN /\ {summary, rest} \subseteq {"ok", "weak", "false"}
            /\ failures = {} <=> summary = "ok" /\ rest = "ok"
            /\ failures # {} =>
                 G!RepairScope(failures) =
                   IF "false" \in {summary, rest} THEN "refused"
                   ELSE IF rest = "weak" THEN "body" ELSE "summary"
<1> DEFINE summary == {f \in failures : f.region = "summary"}
           rest == failures \ summary
           Mild(f) == f.reason \in {"anchors", "paraphrase", "coverage", "duplicate"}
<1>1. \A F : G!RepairScope(F) = "refused" <=> \E f \in F : ~Mild(f)
  BY DEF G!RepairScope
<1>2. \A F : /\ G!QualityOf(F) = "ok" <=> F = {}
             /\ G!QualityOf(F) = "false" <=> \E f \in F : ~Mild(f)
             /\ G!QualityOf(F) \in {"ok", "weak", "false"}
  <2> HIDE DEF Mild
  <2> QED BY <1>1 DEF G!QualityOf
<1>3. G!RepairScope(failures) = "refused" <=>
        "false" \in {G!QualityOf(summary), G!QualityOf(rest)}
  <2>1. (\E f \in failures : ~Mild(f)) <=>
           (\E f \in summary : ~Mild(f)) \/ (\E f \in rest : ~Mild(f))
    <3> HIDE DEF Mild
    <3> QED OBVIOUS
  <2> HIDE DEF Mild, summary, rest
  <2> QED BY <1>1, <1>2, <2>1
<1>4. ASSUME failures # {}, G!RepairScope(failures) # "refused"
      PROVE  G!RepairScope(failures) = IF rest = {} THEN "summary" ELSE "body"
  <2>1. {f.region : f \in failures} = {"summary"} <=> rest = {}
    BY <1>4
  <2> QED BY <1>4, <2>1 DEF G!RepairScope
<1>5. failures = {} <=> G!QualityOf(summary) = "ok" /\ G!QualityOf(rest) = "ok"
  BY <1>2
<1> HIDE DEF summary, rest
<1>6. failures # {} =>
         G!RepairScope(failures) =
           IF "false" \in {G!QualityOf(summary), G!QualityOf(rest)} THEN "refused"
           ELSE IF G!QualityOf(rest) = "weak" THEN "body" ELSE "summary"
  BY <1>2, <1>3, <1>4
<1> QED BY <1>2, <1>5, <1>6 DEF summary, rest

\* The verdict of the model on what it keeps of a proposal is the judgement of
\* the whole proposal (validate_screenshot_proposal_quality): where the workflow
\* goes depends on nothing else in the texts.
THEOREM VerdictIsJudgement ==
  ASSUME NEW p, NEW s
  PROVE  Verdict(G!Judged(p, s)) = G!Judge(p, s)
<1> DEFINE j == G!Judged(p, s)
           failures == G!Failures(p, s)
           summary == G!QualityOf({f \in failures : f.region = "summary"})
           rest == G!QualityOf(failures \ {f \in failures : f.region = "summary"})
<1>1. /\ j.title = G!TitleOf(p.title, s)
      /\ j.summary = summary /\ j.body = rest
      /\ j.form = IF G!WrongLanguage(p, s) THEN "foreign" ELSE "fits"
  BY DEF G!Judged
<1>2. /\ {summary, rest} \subseteq {"ok", "weak", "false"}
      /\ failures = {} <=> summary = "ok" /\ rest = "ok"
      /\ failures # {} => G!RepairScope(failures) =
           IF "false" \in {summary, rest} THEN "refused"
           ELSE IF rest = "weak" THEN "body" ELSE "summary"
  <2> HIDE DEF failures
  <2> QED BY ScopeIsKept
<1> HIDE DEF summary, rest, failures, j
<1>3. G!Judge(p, s) =
        IF G!WrongLanguage(p, s) THEN "refused"
        ELSE IF ~G!Supported(p.title, s) THEN "title"
        ELSE IF G!TitleOf(p.title, s) = "advice" THEN "refused"
        ELSE IF failures = {} THEN "ok" ELSE G!RepairScope(failures)
  BY DEF G!Judge, G!TitleOf, failures
<1>4. /\ ~G!Supported(p.title, s) <=> G!TitleOf(p.title, s) \in {"partial", "unrelated"}
      /\ G!TitleOf(p.title, s) \in {"partial", "unrelated", "advice", "ok"}
  BY DEF G!TitleOf
<1>5. Verdict(j) = G!Judge(p, s)
  BY <1>1, <1>2, <1>3, <1>4 DEF Verdict
<1> QED BY <1>5 DEF j

\* What is stored of a screenshot has passed the judge, as it is.
StoredIsJudged == Kept => Verdict(stored.proposal) = "ok"

LEMMA JudgedStep ==
    ASSUME TypeOK, DraftInv, StoredIsJudged, [Next]_vars
    PROVE  StoredIsJudged'
<1> USE DEF StoredIsJudged, Kept, rowVars, vars
<1>1. ASSUME UNCHANGED <<kind, stored>> PROVE StoredIsJudged'
  BY <1>1
<1>2. CASE Persists
  <2>1. UNCHANGED <<kind, stored>> \/ (UNCHANGED kind /\ stored' = Request)
    BY <1>2 DEF Persists, Persist, PersistRaises
  <2>2. ASSUME kind = "screenshot", ~ duplicate PROVE Verdict(proposal) = "ok"
    BY <1>2, <2>2 DEF Persists, Persist, PersistRaises, DraftInv, Passed
  <2> QED BY <1>1, <2>1, <2>2 DEF Request
<1>3. CASE Moves \/ Misses
  BY <1>1, <1>3 DEF Moves, Refuse, Accept, Load, LoadFails, EarlyMiss, EarlyMatch, LateMiss,
     LateMatch, LookupFails, Misses, ProviderFails, GenerateInvalid, RepairInvalid, RepairTitleFails
<1>4. CASE Writes \/ FallsBack
  BY <1>1, <1>4 DEF Writes, Generate, RepairTitle, RepairSummary, RepairBody, FallsBack, Fallback
<1>5. CASE Opens \/ Closes \/ Die \/ UNCHANGED vars
  BY <1>1, <1>5 DEF Opens, Start, StartRaises, Closes, MarkSucceeded, AuditRaises, MarkFailed,
     MarkFailedRaises, Die
<1> QED BY <1>2, <1>3, <1>4, <1>5, NextSteps

\* Whatever texts a stored screenshot proposal is of, and whoever wrote its parts:
\* the title is supported by the source, every claim is grounded in it, the notes
\* cover the concepts, and the language is the right one.  The workflow judges
\* again after every repair (_validate_screenshot_proposal).
THEOREM StoredTextsAreGrounded ==
  ASSUME G!NoneIsNoReason, NEW CONSTANT p, NEW CONSTANT s
  PROVE  Spec => [](Kept /\ stored.proposal \in Keeps(p, s) =>
           /\ G!Supported(p.title, s) /\ ~G!WrongLanguage(p, s)
           /\ p.summary # {} /\ \A c \in p.summary \cup p.concepts : G!Matched(c, s, {})
           /\ \A i \in DOMAIN p.notes :
                G!Matched(p.notes[i], s, {G!Whole(k) : k \in p.concepts})
           /\ \A k \in p.concepts : \E i \in DOMAIN p.notes : G!Covers(p.notes[i], G!Whole(k)))
<1> DEFINE Grounded ==
             /\ G!Supported(p.title, s) /\ ~G!WrongLanguage(p, s)
             /\ p.summary # {} /\ \A c \in p.summary \cup p.concepts : G!Matched(c, s, {})
             /\ \A i \in DOMAIN p.notes :
                  G!Matched(p.notes[i], s, {G!Whole(k) : k \in p.concepts})
             /\ \A k \in p.concepts : \E i \in DOMAIN p.notes : G!Covers(p.notes[i], G!Whole(k))
<1>1. Init => StoredIsJudged
  BY DEF Init, StoredIsJudged, Kept
<1>2. IInv /\ StoredIsJudged /\ [Next]_vars => StoredIsJudged'
  BY JudgedStep DEF IInv
<1>3. StoredIsJudged => (Kept /\ stored.proposal \in Keeps(p, s) => Grounded)
  <2> SUFFICES ASSUME Kept, Verdict(stored.proposal) = "ok", stored.proposal \in Keeps(p, s)
               PROVE  Grounded
    BY DEF StoredIsJudged
  <2> DEFINE j == G!Judged(p, s)
  <2>1. Verdict(j) = "ok"
    <3>1. Verdict([j EXCEPT !.form = "long"]) = Verdict(j) \/ j.form # "fits"
      BY DEF Verdict, G!Judged
    <3> QED BY <3>1 DEF Keeps
  <2>2. G!Judge(p, s) = "ok"
    BY <2>1, VerdictIsJudgement
  <2>3. ~G!WrongLanguage(p, s)
    BY <2>2 DEF G!Judge
  <2> QED BY <2>2, <2>3, G!AcceptedIsGrounded
<1> HIDE DEF Grounded
<1>4. Spec => [](Kept /\ stored.proposal \in Keeps(p, s) => Grounded)
  BY Invariance, <1>1, <1>2, <1>3, PTL DEF Spec
<1> QED BY <1>4 DEF Grounded
=============================================================================
