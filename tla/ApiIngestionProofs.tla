------------------------- MODULE ApiIngestionProofs -------------------------
(***************************************************************************)
(* Proofs about ApiIngestion, for any requests, payloads and faults.       *)
(***************************************************************************)
EXTENDS ApiIngestion, TLAPS

Settled == {"succeeded", "failed"}

\* The record has an answer when it is settled, and "ok" has a document.
RecordInv ==
    /\ record.status = "none" => record = Unclaimed
    /\ record.status = "running" => record.answer = None
    /\ record.status \in Settled => record.answer \in Answers
    /\ record.answer = "ok" => documents # {}

\* The owner of a running record is the only one, and works for its payload.
OwnerInv ==
    \A c \in Calls : pc[c] \in Owning =>
        /\ record.status = "running" /\ record.print = payload[c]
        /\ \A d \in Calls : pc[d] \in Owning => d = c
        /\ documents \subseteq {c}

\* A document is the work of one owner, past its commit, for the claimed key.
DocumentInv ==
    /\ ExecutesOnce
    /\ \A c \in documents :
          /\ record.status # "none" /\ record.print = payload[c]
          /\ pc[c] \in {"audit", "markFailed", "complete", "reply", "done", "gone"}

\* What a call carries, where its outcome is known, and that an answer given is
\* that of the record.
OutcomeInv ==
    \A c \in Calls :
        /\ pc[c] # "idle" => payload[c] \in Payloads
        /\ pc[c] \notin {"complete", "reply", "done", "gone"} => outcome[c] = None
        /\ pc[c] = "complete" => outcome[c] \in Answers
        /\ pc[c] \in {"reply", "done"} => outcome[c] \in Answers \cup Excuses
        /\ pc[c] \in {"reply", "done"} /\ outcome[c] \in Answers =>
              record.status \in Settled /\ outcome[c] = record.answer

\* How far a run has come at each step, and which documents it may have.
RunInv ==
    \A c \in Calls :
        /\ pc[c] \in {"idle", "lookup", "insert", "check", "start"} => run[c] = "none"
        /\ pc[c] \in {"parse", "commit", "audit"} => run[c] = "running"
        /\ pc[c] = "audit" => c \in documents
        /\ pc[c] = "markFailed" /\ c \in documents => "work" \in raised[c]

IInv ==
    /\ TypeOK /\ RecordInv /\ OwnerInv /\ DocumentInv /\ OutcomeInv /\ OkIsStored
    /\ RunInv /\ RunTellsTruth

-----------------------------------------------------------------------------
LEMMA InitInv == Init => IInv
<1> USE ConstantsAssumption
    DEF ConstantsAssumption, Init, Unclaimed, Answers, Excuses, Owning
<1>1. Init => TypeOK
  BY DEF TypeOK, Records, Steps, Routes
<1>2. Init => RecordInv /\ OwnerInv /\ DocumentInv
  BY DEF RecordInv, OwnerInv, DocumentInv, ExecutesOnce, Settled
<1>3. Init => OutcomeInv /\ OkIsStored /\ RunInv /\ RunTellsTruth
  BY DEF OutcomeInv, OkIsStored, RunInv, RunTellsTruth
<1> QED BY <1>1, <1>2, <1>3 DEF IInv

\* What a request that finds the record is told is an outcome, and the answer of
\* a settled record for its own payload if it is an answer.
LEMMA ReplayType ==
    ASSUME TypeOK, RecordInv, NEW p, record.status # "none"
    PROVE  /\ Replay(p) \in Answers \cup Excuses
           /\ Replay(p) \in Answers =>
                 record.status \in Settled /\ Replay(p) = record.answer /\ record.print = p
<1> USE DEF Replay, RecordInv, TypeOK, Records, Answers, Excuses, Settled
<1>1. CASE record.print # p
  BY <1>1
<1>2. CASE record.print = p /\ record.status = "running"
  BY <1>2
<1>3. CASE record.print = p /\ record.status \in Settled
  BY <1>3
<1> QED BY <1>1, <1>2, <1>3

-----------------------------------------------------------------------------
(* Type correctness. *)

LEMMA TypeStep == ASSUME TypeOK, RecordInv, OutcomeInv, [Next]_vars PROVE TypeOK'
<1> USE ConstantsAssumption
    DEF ConstantsAssumption, TypeOK, Records, Steps, Owning, Writes, Goto, GotoWith,
        NoFault, Fault, Raise, rowVars, callVars, ghostVars, vars
<1>1. ASSUME NEW c \in Calls, NEW p \in Payloads, Send(c, p) PROVE TypeOK'
  BY <1>1 DEF Send
<1>2. ASSUME NEW c \in Calls, Lookup(c) \/ Insert(c) PROVE TypeOK'
  BY <1>2, ReplayType DEF Lookup, Insert, ClaimedBy
<1>3. ASSUME NEW c \in Calls, ClaimRaises(c) PROVE TypeOK'
  BY <1>3 DEF ClaimRaises, ClaimedBy, Excuses
<1>4. ASSUME NEW c \in Calls, Refuse(c) \/ Accept(c) \/ Parse(c) \/ ParseFails(c) \/ Reply(c) \/ Die(c)
      PROVE  TypeOK'
  BY <1>4 DEF Refuse, Accept, Parse, ParseFails, Reply, Die, Answers
<1>5. ASSUME NEW c \in Calls, Start(c) \/ StartRaises(c) \/ Commit(c) \/ CommitRaises(c)
      PROVE  TypeOK'
  BY <1>5 DEF Start, StartRaises, Commit, CommitRaises
<1>6. ASSUME NEW c \in Calls,
             MarkSucceeded(c) \/ AuditRaises(c) \/ MarkFailed(c) \/ MarkFailedRaises(c)
      PROVE  TypeOK'
  BY <1>6 DEF MarkSucceeded, AuditRaises, MarkFailed, MarkFailedRaises, Answers
<1>7. ASSUME NEW r \in Answers PROVE SettledWith(r) \in Records
  BY <1>7 DEF SettledWith
<1>8. ASSUME NEW c \in Calls, Complete(c) \/ CompleteRaises(c) PROVE TypeOK'
  <2>1. SettledWith(outcome[c]) \in Records
    BY <1>7, <1>8 DEF OutcomeInv, Complete, CompleteRaises
  <2> QED BY <1>8, <2>1 DEF Complete, CompleteRaises, Excuses
<1>9. ASSUME NEW c \in Calls, CompleteException(c) \/ CompleteExceptionRaises(c) PROVE TypeOK'
  <2>1. SettledWith("exception") \in Records
    BY <1>7 DEF Answers
  <2> QED BY <1>9, <2>1 DEF CompleteException, CompleteExceptionRaises, Excuses
<1>10. CASE UNCHANGED vars
  BY <1>10
<1> QED
  BY <1>1, <1>2, <1>3, <1>4, <1>5, <1>6, <1>8, <1>9, <1>10 DEF Next, Step, Raises

-----------------------------------------------------------------------------
(* The invariant, part by part.  Most steps leave the record, the documents   *)
(* and the payloads alone, and make no call an owner.                         *)

LEMMA RecordStep ==
    ASSUME TypeOK, RecordInv, OwnerInv, DocumentInv, OutcomeInv, OkIsStored, [Next]_vars
    PROVE  RecordInv'
<1> USE DEF TypeOK, Records, RecordInv, Goto, GotoWith, rowVars, vars, Unclaimed
<1>1. ASSUME UNCHANGED record, documents \subseteq documents' PROVE RecordInv'
  BY <1>1
<1>2. ASSUME NEW c \in Calls, record' = ClaimedBy(c), UNCHANGED documents PROVE RecordInv'
  <2>1. record'.status = "running" /\ record'.answer = None
    BY <1>2 DEF ClaimedBy
  <2> QED BY <2>1, ConstantsAssumption DEF Settled, ConstantsAssumption
<1>3. ASSUME NEW r \in Answers, record' = SettledWith(r), r = "ok" => documents # {},
             UNCHANGED documents
      PROVE  RecordInv'
  <2>1. record'.status \in Settled /\ record'.answer = r
    BY <1>3 DEF SettledWith, Settled
  <2> QED BY <1>3, <2>1 DEF Settled
<1>4. ASSUME NEW c \in Calls, NEW p \in Payloads, Send(c, p) PROVE RecordInv'
  BY <1>1, <1>4 DEF Send
<1>5. ASSUME NEW c \in Calls, Lookup(c) \/ Insert(c) \/ ClaimRaises(c) PROVE RecordInv'
  BY <1>1, <1>2, <1>5 DEF Lookup, Insert, ClaimRaises
<1>6. ASSUME NEW c \in Calls, Refuse(c) \/ Accept(c) \/ Parse(c) \/ ParseFails(c) \/ Reply(c) \/ Die(c)
      PROVE  RecordInv'
  BY <1>1, <1>6 DEF Refuse, Accept, Parse, ParseFails, Reply, Die
<1>7. ASSUME NEW c \in Calls,
             \/ Start(c) \/ StartRaises(c) \/ Commit(c) \/ CommitRaises(c)
             \/ MarkSucceeded(c) \/ AuditRaises(c) \/ MarkFailed(c) \/ MarkFailedRaises(c)
      PROVE  RecordInv'
  BY <1>1, <1>7
  DEF Start, StartRaises, Commit, CommitRaises, MarkSucceeded, AuditRaises, MarkFailed,
      MarkFailedRaises
<1>8. ASSUME NEW c \in Calls, Complete(c) \/ CompleteRaises(c) PROVE RecordInv'
  <2>1. outcome[c] \in Answers /\ (outcome[c] = "ok" => documents # {})
    BY <1>8 DEF OutcomeInv, OkIsStored, Complete, CompleteRaises
  <2> QED BY <1>1, <1>3, <1>8, <2>1 DEF Complete, CompleteRaises
<1>9. ASSUME NEW c \in Calls, CompleteException(c) \/ CompleteExceptionRaises(c) PROVE RecordInv'
  BY <1>1, <1>3, <1>9 DEF CompleteException, CompleteExceptionRaises, Answers
<1>10. CASE UNCHANGED vars
  BY <1>10
<1> QED
  BY <1>4, <1>5, <1>6, <1>7, <1>8, <1>9, <1>10 DEF Next, Step, Raises

\* Ownership and documents go together: the owner is the one who stores.
LEMMA OwnerStep ==
    ASSUME TypeOK, RecordInv, OwnerInv, DocumentInv, [Next]_vars
    PROVE  OwnerInv' /\ DocumentInv'
<1> DEFINE Inv == OwnerInv /\ DocumentInv
<1> USE DEF TypeOK, Records, OwnerInv, DocumentInv, ExecutesOnce, Owning, Goto, GotoWith,
            rowVars, callVars, vars
<1>1. ASSUME NEW c \in Calls, NEW p \in Payloads, Send(c, p) PROVE Inv'
  BY <1>1 DEF Send
<1>2. ASSUME NEW c \in Calls, Lookup(c) PROVE Inv'
  BY <1>2 DEF Lookup
<1>3. ASSUME NEW c \in Calls, Insert(c) \/ ClaimRaises(c) PROVE Inv'
  <2>1. CASE record' = ClaimedBy(c) /\ record.status = "none"
    <3>1. documents = {} /\ \A d \in Calls : pc[d] \notin Owning
      BY <2>1
    <3>2. record'.status = "running" /\ record'.print = payload[c]
      BY <2>1 DEF ClaimedBy
    <3> QED BY <1>3, <3>1, <3>2 DEF Insert, ClaimRaises
  <2>2. CASE UNCHANGED record /\ pc'[c] = "reply"
    BY <1>3, <2>2 DEF Insert, ClaimRaises
  <2> QED BY <1>3, <2>1, <2>2 DEF Insert, ClaimRaises
<1>4. ASSUME NEW c \in Calls, Refuse(c) \/ Accept(c) \/ Parse(c) \/ ParseFails(c) PROVE Inv'
  BY <1>4 DEF Refuse, Accept, Parse, ParseFails
<1>5. ASSUME NEW c \in Calls, Reply(c) \/ Die(c) PROVE Inv'
  BY <1>5 DEF Reply, Die
<1>6. ASSUME NEW c \in Calls, Start(c) \/ StartRaises(c) PROVE Inv'
  BY <1>6 DEF Start, StartRaises
<1>7. ASSUME NEW c \in Calls, Commit(c) \/ CommitRaises(c) PROVE Inv'
  <2>1. documents \subseteq {c} /\ record.status = "running" /\ record.print = payload[c]
    BY <1>7 DEF Commit, CommitRaises
  <2>2. documents' \subseteq {c} /\ pc' = [pc EXCEPT ![c] = IF Commit(c) THEN "audit" ELSE "markFailed"]
        /\ UNCHANGED <<record, payload>>
    BY <1>7, <2>1 DEF Commit, CommitRaises
  <2> QED BY <1>7, <2>1, <2>2 DEF Commit, CommitRaises
<1>8. ASSUME NEW c \in Calls,
             MarkSucceeded(c) \/ AuditRaises(c) \/ MarkFailed(c) \/ MarkFailedRaises(c)
      PROVE  Inv'
  BY <1>8 DEF MarkSucceeded, AuditRaises, MarkFailed, MarkFailedRaises
<1>9. ASSUME NEW c \in Calls, pc[c] \in {"complete", "except"}, pc' = [pc EXCEPT ![c] = "reply"],
             UNCHANGED <<documents, payload>>,
             UNCHANGED record \/ \E r : record' = SettledWith(r)
      PROVE  Inv'
  <2>1. record'.status # "none" /\ record'.print = record.print
    BY <1>9 DEF SettledWith
  <2>2. \A d \in Calls : pc'[d] \notin Owning
    BY <1>9
  <2> QED BY <1>9, <2>1, <2>2
<1>10. ASSUME NEW c \in Calls,
              \/ Complete(c) \/ CompleteRaises(c)
              \/ CompleteException(c) \/ CompleteExceptionRaises(c)
       PROVE  Inv'
  BY <1>9, <1>10 DEF Complete, CompleteRaises, CompleteException, CompleteExceptionRaises
<1>11. CASE UNCHANGED vars
  BY <1>11
<1> QED
  BY <1>1, <1>2, <1>3, <1>4, <1>5, <1>6, <1>7, <1>8, <1>10, <1>11 DEF Next, Step, Raises

\* A settled record keeps its answer while calls reply with it: nobody owns it.
LEMMA OutcomeStep ==
    ASSUME TypeOK, RecordInv, OwnerInv, OutcomeInv, [Next]_vars
    PROVE  OutcomeInv'
<1> USE ConstantsAssumption
    DEF ConstantsAssumption, TypeOK, Records, OutcomeInv, Goto, GotoWith,
        rowVars, callVars, vars
<1>1. ASSUME NEW c \in Calls, NEW p \in Payloads, Send(c, p) PROVE OutcomeInv'
  BY <1>1 DEF Send
<1>2. ASSUME NEW c \in Calls, Lookup(c) PROVE OutcomeInv'
  BY <1>2, ReplayType DEF Lookup
<1>3. ASSUME NEW c \in Calls, Insert(c) PROVE OutcomeInv'
  <2>1. CASE record.status = "none"
    BY <1>3, <2>1 DEF Insert, Settled
  <2>2. CASE record.status # "none"
    BY <1>3, <2>2, ReplayType DEF Insert
  <2> QED BY <2>1, <2>2
<1>4. ASSUME NEW c \in Calls, ClaimRaises(c) PROVE OutcomeInv'
  <2>1. "unavailable" \in Excuses \ Answers
    BY DEF Excuses, Answers
  <2> QED BY <1>4, <2>1 DEF ClaimRaises, Settled
<1>5. ASSUME NEW c \in Calls, Refuse(c) \/ Accept(c) \/ Parse(c) \/ ParseFails(c) PROVE OutcomeInv'
  BY <1>5 DEF Refuse, Accept, Parse, ParseFails, Answers
<1>6. ASSUME NEW c \in Calls, Reply(c) \/ Die(c) PROVE OutcomeInv'
  BY <1>6 DEF Reply, Die
<1>7. ASSUME NEW c \in Calls, Start(c) \/ StartRaises(c) \/ Commit(c) \/ CommitRaises(c)
      PROVE  OutcomeInv'
  BY <1>7 DEF Start, StartRaises, Commit, CommitRaises
<1>8. ASSUME NEW c \in Calls,
             MarkSucceeded(c) \/ AuditRaises(c) \/ MarkFailed(c) \/ MarkFailedRaises(c)
      PROVE  OutcomeInv'
  BY <1>8 DEF MarkSucceeded, AuditRaises, MarkFailed, MarkFailedRaises, Answers
<1>9. ASSUME NEW c \in Calls, NEW r \in Answers, pc[c] \in Owning,
             record' = SettledWith(r), pc' = [pc EXCEPT ![c] = "reply"], UNCHANGED payload,
             \/ r = outcome[c] /\ UNCHANGED outcome
             \/ outcome' = [outcome EXCEPT ![c] = "crash"]
      PROVE  OutcomeInv'
  <2>1. record.status \notin Settled
    BY <1>9 DEF OwnerInv, Settled
  <2>2. record'.status \in Settled /\ record'.answer = r
    BY <1>9 DEF SettledWith, Settled
  <2>3. "crash" \in Excuses \ Answers
    BY DEF Excuses, Answers
  <2> QED BY <1>9, <2>1, <2>2, <2>3 DEF Owning
<1>10. ASSUME NEW c \in Calls, pc[c] \in Owning, UNCHANGED <<record, payload>>,
              pc' = [pc EXCEPT ![c] = "reply"],
              outcome' = [outcome EXCEPT ![c] = "crash"]
       PROVE  OutcomeInv'
  <2>1. "crash" \in Excuses \ Answers
    BY DEF Excuses, Answers
  <2> QED BY <1>10, <2>1 DEF Owning
<1>11. ASSUME NEW c \in Calls, Complete(c) \/ CompleteRaises(c) PROVE OutcomeInv'
  <2>1. outcome[c] \in Answers /\ pc[c] \in Owning
    BY <1>11 DEF Complete, CompleteRaises, Owning
  <2> QED BY <1>9, <1>10, <1>11, <2>1 DEF Complete, CompleteRaises
<1>12. ASSUME NEW c \in Calls, CompleteException(c) \/ CompleteExceptionRaises(c) PROVE OutcomeInv'
  <2>1. "exception" \in Answers /\ pc[c] \in Owning
    BY <1>12 DEF CompleteException, CompleteExceptionRaises, Owning, Answers
  <2> QED BY <1>9, <1>10, <1>12, <2>1 DEF CompleteException, CompleteExceptionRaises
<1>13. CASE UNCHANGED vars
  BY <1>13
<1> QED
  BY <1>1, <1>2, <1>3, <1>4, <1>5, <1>6, <1>7, <1>8, <1>11, <1>12, <1>13
  DEF Next, Step, Raises

\* "ok" is said by the owner after its commit, or replayed for the same payload.
LEMMA OkStep ==
    ASSUME TypeOK, RecordInv, DocumentInv, OutcomeInv, RunInv, OkIsStored, [Next]_vars
    PROVE  OkIsStored'
<1> USE ConstantsAssumption
    DEF ConstantsAssumption, TypeOK, OkIsStored, Goto, GotoWith, rowVars, callVars, vars
<1>1. ASSUME UNCHANGED payload, documents \subseteq documents',
             NEW c \in Calls, NEW r, outcome' = [outcome EXCEPT ![c] = r],
             r = "ok" => \E d \in documents : payload[d] = payload[c]
      PROVE  OkIsStored'
  BY <1>1
<1>2. ASSUME UNCHANGED <<payload, outcome>>, documents \subseteq documents' PROVE OkIsStored'
  BY <1>2
<1>3. ASSUME NEW c \in Calls, NEW p \in Payloads, Send(c, p) PROVE OkIsStored'
  <2>1. c \notin documents /\ outcome[c] = None
    BY <1>3 DEF Send, DocumentInv, OutcomeInv
  <2> QED BY <1>3, <2>1 DEF Send
<1>4. ASSUME NEW c \in Calls, Replay(payload[c]) = "ok", record.status # "none"
      PROVE  \E d \in documents : payload[d] = payload[c]
  <2>1. record.answer = "ok" /\ record.print = payload[c]
    BY <1>4, ReplayType DEF Answers
  <2> QED BY <2>1 DEF RecordInv, DocumentInv
<1>5. ASSUME NEW c \in Calls, Lookup(c) \/ Insert(c) PROVE OkIsStored'
  <2>1. CASE UNCHANGED outcome
    BY <1>2, <1>5, <2>1 DEF Lookup, Insert
  <2>2. CASE record.status # "none" /\ outcome' = [outcome EXCEPT ![c] = Replay(payload[c])]
    BY <1>1, <1>4, <1>5, <2>2 DEF Lookup, Insert
  <2> QED BY <1>5, <2>1, <2>2 DEF Lookup, Insert
<1>6. ASSUME NEW c \in Calls, ClaimRaises(c) PROVE OkIsStored'
  BY <1>1, <1>6 DEF ClaimRaises
<1>7. ASSUME NEW c \in Calls, Refuse(c) PROVE OkIsStored'
  BY <1>1, <1>7 DEF Refuse
<1>8. ASSUME NEW c \in Calls,
             \/ Accept(c) \/ Parse(c) \/ ParseFails(c) \/ Reply(c) \/ Die(c) \/ Complete(c)
             \/ Start(c) \/ StartRaises(c) \/ Commit(c) \/ CommitRaises(c)
      PROVE  OkIsStored'
  BY <1>2, <1>8
  DEF Accept, Parse, ParseFails, Reply, Die, Complete, Start, StartRaises, Commit, CommitRaises
<1>9. ASSUME NEW c \in Calls, MarkSucceeded(c) PROVE OkIsStored'
  <2>1. c \in documents
    BY <1>9 DEF MarkSucceeded, RunInv
  <2> QED BY <1>1, <1>9, <2>1 DEF MarkSucceeded
<1>10. ASSUME NEW c \in Calls, AuditRaises(c) \/ MarkFailed(c) \/ MarkFailedRaises(c)
       PROVE  OkIsStored'
  BY <1>1, <1>10 DEF AuditRaises, MarkFailed, MarkFailedRaises
<1>11. ASSUME NEW c \in Calls,
              CompleteRaises(c) \/ CompleteException(c) \/ CompleteExceptionRaises(c)
       PROVE  OkIsStored'
  BY <1>1, <1>11 DEF CompleteRaises, CompleteException, CompleteExceptionRaises
<1>12. CASE UNCHANGED vars
  BY <1>2, <1>12
<1> QED
  BY <1>3, <1>5, <1>6, <1>7, <1>8, <1>9, <1>10, <1>11, <1>12 DEF Next, Step, Raises

\* A run closes as its transaction ended.
LEMMA RunStep ==
    ASSUME TypeOK, DocumentInv, RunInv, RunTellsTruth, [Next]_vars
    PROVE  RunInv' /\ RunTellsTruth'
<1> DEFINE Inv == RunInv /\ RunTellsTruth
<1> USE DEF TypeOK, RunInv, RunTellsTruth, Goto, GotoWith, NoFault, Fault, Raise,
            rowVars, callVars, ghostVars, vars
<1>1. ASSUME NEW c \in Calls, NEW p \in Payloads, Send(c, p) PROVE Inv'
  BY <1>1 DEF Send
<1>2. ASSUME NEW c \in Calls, Lookup(c) \/ Insert(c) \/ Refuse(c) \/ Accept(c) PROVE Inv'
  BY <1>2 DEF Lookup, Insert, Refuse, Accept
<1>3. ASSUME NEW c \in Calls, ClaimRaises(c) PROVE Inv'
  BY <1>3 DEF ClaimRaises
<1>4. ASSUME NEW c \in Calls, Start(c) \/ StartRaises(c) PROVE Inv'
  BY <1>4 DEF Start, StartRaises
<1>5. ASSUME NEW c \in Calls, Parse(c) \/ ParseFails(c) PROVE Inv'
  BY <1>5 DEF Parse, ParseFails, DocumentInv
<1>6. ASSUME NEW c \in Calls, Commit(c) PROVE Inv'
  BY <1>6 DEF Commit, DocumentInv
<1>7. ASSUME NEW c \in Calls, CommitRaises(c) PROVE Inv'
  BY <1>7 DEF CommitRaises, DocumentInv
<1>8. ASSUME NEW c \in Calls, MarkSucceeded(c) \/ AuditRaises(c) PROVE Inv'
  BY <1>8 DEF MarkSucceeded, AuditRaises
<1>9. ASSUME NEW c \in Calls, MarkFailed(c) \/ MarkFailedRaises(c) PROVE Inv'
  BY <1>9 DEF MarkFailed, MarkFailedRaises
<1>10. ASSUME NEW c \in Calls, Complete(c) \/ CompleteException(c) \/ Reply(c) \/ Die(c) PROVE Inv'
  BY <1>10 DEF Complete, CompleteException, Reply, Die
<1>11. ASSUME NEW c \in Calls, CompleteRaises(c) \/ CompleteExceptionRaises(c) PROVE Inv'
  BY <1>11 DEF CompleteRaises, CompleteExceptionRaises
<1>12. CASE UNCHANGED vars
  BY <1>12
<1> QED
  BY <1>1, <1>2, <1>3, <1>4, <1>5, <1>6, <1>7, <1>8, <1>9, <1>10, <1>11, <1>12
  DEF Next, Step, Raises

-----------------------------------------------------------------------------
(* Theorems. *)

\* The inductive invariant: who owns a key, what it has stored, and what each
\* call, record and run says of it.
THEOREM Invariant == Spec => []IInv
<1>1. IInv /\ [Next]_vars => IInv'
  BY TypeStep, RecordStep, OwnerStep, OutcomeStep, OkStep, RunStep DEF IInv
<1> QED BY InitInv, <1>1, PTL DEF Spec

\* Every variable keeps its type.
THEOREM TypeCorrect == Spec => []TypeOK
<1>1. IInv => TypeOK
  BY DEF IInv
<1> QED BY Invariant, <1>1, PTL

\* A key stores at most one source document, for any number of requests and any
\* write that raises or call that dies (api_idempotency.py: claim before work).
THEOREM KeyExecutesOnce == Spec => []ExecutesOnce
<1>1. IInv => ExecutesOnce
  BY DEF IInv, DocumentInv
<1> QED BY Invariant, <1>1, PTL

\* A request that is told "ok" has its own payload stored (api_idempotency.py:
\* the fingerprint is compared before a replay).
THEOREM OkIsAlwaysStored == Spec => []OkIsStored
<1>1. IInv => OkIsStored
  BY DEF IInv
<1> QED BY Invariant, <1>1, PTL

\* A closed run tells what the business transaction did (the orchestrators: the
\* audit error is raised again before the handler that fails the run).
THEOREM RunsTellTruth == Spec => []RunTellsTruth
<1>1. IInv => RunTellsTruth
  BY DEF IInv
<1> QED BY Invariant, <1>1, PTL

-----------------------------------------------------------------------------
(* Refinement. *)

\* A step that leaves the record and the documents alone and ends no call is a
\* stutter; the others are told by what they do to the three.
LEMMA AbstractStutter ==
    ASSUME IInv, UNCHANGED <<record, documents>>,
           \A c \in documents : payload'[c] = payload[c],
           \A c \in Calls : pc[c] = "done" => pc'[c] = "done" /\ outcome'[c] = outcome[c],
           \A c \in Calls : pc'[c] = "done" => pc[c] = "done"
    PROVE  UNCHANGED <<Phase, record.print, Stored, record.answer, Replies>>
<1>1. UNCHANGED <<Phase, record.print, record.answer>>
  BY DEF Phase
<1>2. UNCHANGED Stored
  BY DEF Stored
<1>3. UNCHANGED Replies
  BY DEF Replies
<1> QED BY <1>1, <1>2, <1>3

\* Every step of every request is a step of the register or a stutter: the key is
\* held once, stores once, and gives one answer to whoever is given one.
THEOREM RequestsImplementKey == Spec => ImplementsKey
<1>1. Init => Key!Init
  BY DEF Init, Key!Init, Phase, Stored, Replies, Unclaimed
<1> DEFINE Abstract == Key!Next \/ UNCHANGED Key!vars
<1>2. ASSUME IInv, [Next]_vars PROVE Abstract
  <2> USE <1>2, ConstantsAssumption
      DEF IInv, TypeOK, Records, Goto, GotoWith, rowVars, callVars, vars,
          ConstantsAssumption
  <2>1. ASSUME UNCHANGED <<record, documents>>,
               \A c \in documents : payload'[c] = payload[c],
               \A c \in Calls : pc[c] = "done" => pc'[c] = "done" /\ outcome'[c] = outcome[c],
               \A c \in Calls : pc'[c] = "done" => pc[c] = "done"
        PROVE  Abstract
    BY <2>1, AbstractStutter DEF Key!vars
  <2>2. ASSUME UNCHANGED <<record, documents, payload>>, NEW c \in Calls, NEW step,
               pc' = [pc EXCEPT ![c] = step], pc[c] # "done", step # "done",
               UNCHANGED outcome \/ \E r : outcome' = [outcome EXCEPT ![c] = r]
        PROVE  Abstract
    BY <2>1, <2>2
  <2>3. ASSUME NEW c \in Calls, NEW p \in Payloads, Send(c, p) PROVE Abstract
    <3>1. c \notin documents
      BY <2>3 DEF Send, DocumentInv
    <3> QED BY <2>1, <2>3, <3>1 DEF Send
  <2>4. ASSUME NEW c \in Calls, Lookup(c) \/ Refuse(c) \/ Accept(c) PROVE Abstract
    BY <2>2, <2>4 DEF Lookup, Refuse, Accept
  <2>5. ASSUME NEW c \in Calls, Start(c) \/ StartRaises(c) \/ Parse(c) \/ ParseFails(c)
        PROVE  Abstract
    BY <2>2, <2>5 DEF Start, StartRaises, Parse, ParseFails
  <2>6. ASSUME NEW c \in Calls,
               MarkSucceeded(c) \/ AuditRaises(c) \/ MarkFailed(c) \/ MarkFailedRaises(c)
        PROVE  Abstract
    BY <2>2, <2>6 DEF MarkSucceeded, AuditRaises, MarkFailed, MarkFailedRaises
  <2>7. ASSUME NEW c \in Calls, Die(c) PROVE Abstract
    BY <2>2, <2>7 DEF Die
  <2>8. ASSUME NEW c \in Calls, Insert(c) \/ ClaimRaises(c) PROVE Abstract
    <3>1. payload[c] \in Payloads /\ UNCHANGED <<documents, payload>> /\ UNCHANGED Replies
      BY <2>8 DEF Insert, ClaimRaises, OutcomeInv, Replies
    <3>2. UNCHANGED Stored
      BY <3>1 DEF Stored
    <3>3. CASE record' = ClaimedBy(c) /\ record.status = "none"
      <4>1. Phase = "free" /\ Phase' = "held" /\ record'.print = payload[c]
            /\ record'.answer = record.answer
        BY <3>3 DEF Phase, ClaimedBy, RecordInv, Unclaimed
      <4>2. Key!Hold(payload[c])
        BY <3>1, <3>2, <4>1 DEF Key!Hold
      <4> QED BY <3>1, <4>2 DEF Key!Next
    <3>4. CASE UNCHANGED record
      BY <2>2, <2>8, <3>4 DEF Insert, ClaimRaises
    <3> QED BY <2>8, <3>3, <3>4 DEF Insert, ClaimRaises
  <2>9. ASSUME NEW c \in Calls, Commit(c) \/ CommitRaises(c) PROVE Abstract
    <3>1. documents = {} /\ record.status = "running" /\ record.print = payload[c]
      BY <2>9 DEF Commit, CommitRaises, OwnerInv, Owning, DocumentInv
    <3>2. CASE documents' = {c}
      <4>1. Phase = "held" /\ Stored = {} /\ Stored' = {record.print}
        BY <2>9, <3>1, <3>2 DEF Phase, Stored, Commit, CommitRaises
      <4>2. UNCHANGED <<Phase, record.print, record.answer, Replies>>
        BY <2>9 DEF Phase, Replies, Commit, CommitRaises
      <4> QED BY <4>1, <4>2 DEF Key!Next, Key!Store
    <3>3. CASE UNCHANGED documents
      BY <2>2, <2>9, <3>3 DEF Commit, CommitRaises
    <3> QED BY <2>9, <3>1, <3>2, <3>3 DEF Commit, CommitRaises
  <2>10. ASSUME NEW c \in Calls, pc[c] \in {"complete", "except"},
                NEW r \in Answers, r = "ok" => outcome[c] = "ok",
                record' = SettledWith(r), UNCHANGED <<documents, payload>>, UNCHANGED Replies
         PROVE  Abstract
    <3>1. record.status = "running" /\ record.print = payload[c] /\ documents \subseteq {c}
      BY <2>10 DEF OwnerInv, Owning
    <3>2. r = "ok" => Stored = {record.print}
      BY <2>10, <3>1 DEF OkIsStored, Stored
    <3>3. Phase = "held" /\ Phase' = "settled" /\ record'.answer = r /\ UNCHANGED record.print
      BY <2>10, <3>1 DEF Phase, SettledWith
    <3>4. UNCHANGED Stored
      BY <2>10 DEF Stored
    <3> QED BY <2>10, <3>2, <3>3, <3>4 DEF Key!Next, Key!Settle
  <2>11. ASSUME NEW c \in Calls, Complete(c) \/ CompleteRaises(c) PROVE Abstract
    <3>1. pc[c] = "complete" /\ outcome[c] \in Answers /\ UNCHANGED <<documents, payload>>
      BY <2>11 DEF Complete, CompleteRaises, OutcomeInv
    <3>2. UNCHANGED Replies
      BY <2>11 DEF Complete, CompleteRaises, Replies
    <3>3. CASE UNCHANGED record
      BY <2>2, <2>11, <3>3 DEF Complete, CompleteRaises
    <3> QED BY <2>10, <2>11, <3>1, <3>2, <3>3 DEF Complete, CompleteRaises
  <2>12. ASSUME NEW c \in Calls, CompleteException(c) \/ CompleteExceptionRaises(c) PROVE Abstract
    <3>1. pc[c] = "except" /\ "exception" \in Answers /\ UNCHANGED <<documents, payload>>
      BY <2>12 DEF CompleteException, CompleteExceptionRaises, Answers
    <3>2. UNCHANGED Replies
      BY <2>12 DEF CompleteException, CompleteExceptionRaises, Replies
    <3>3. CASE UNCHANGED record
      BY <2>2, <2>12, <3>3 DEF CompleteExceptionRaises, CompleteException
    <3> QED BY <2>10, <2>12, <3>1, <3>2, <3>3 DEF CompleteException, CompleteExceptionRaises
  <2>13. ASSUME NEW c \in Calls, Reply(c) PROVE Abstract
    <3>1. /\ pc[c] = "reply" /\ outcome[c] \in Answers \cup Excuses
          /\ UNCHANGED <<record, documents, payload, outcome>>
      BY <2>13 DEF Reply, OutcomeInv
    <3>2. Replies[c] = None /\ Replies' = [Replies EXCEPT ![c] = outcome[c]]
      BY <2>13, <3>1 DEF Reply, Replies
    <3>3. outcome[c] \in Excuses \/ (Phase = "settled" /\ outcome[c] = record.answer)
      BY <3>1 DEF OutcomeInv, Phase, Settled
    <3>4. UNCHANGED <<Phase, Stored>>
      BY <3>1 DEF Phase, Stored
    <3> QED BY <3>1, <3>2, <3>3, <3>4 DEF Key!Next, Key!Reply
  <2>14. CASE UNCHANGED vars
    BY <2>1, <2>14
  <2> QED
    BY <2>3, <2>4, <2>5, <2>6, <2>7, <2>8, <2>9, <2>11, <2>12, <2>13, <2>14
    DEF Next, Step, Raises
<1> QED BY Invariant, <1>1, <1>2, PTL DEF Spec, ImplementsKey, Key!Spec
=============================================================================
