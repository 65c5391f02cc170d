------------------------ MODULE UploadSessionProofs ------------------------
(***************************************************************************)
(* Proofs about UploadSession, for any media group, any workers and any    *)
(* bounds.                                                                 *)
(***************************************************************************)
EXTENDS UploadSession, TLAPS

\* A session that is gone is blank; one that a preview is made for has its
\* proposal.
RecordInv ==
    /\ session.state = "missing" => session = Missing
    /\ \A w \in Workers : pc[w] \in {"preview"} \cup Delivering =>
          session.state = "proposal_created"

\* The photos of a scheduled batch are those its version was claimed for.
BatchInv ==
    session.state = "collecting" /\ session.scheduled => session.attachments = claimed

\* The picker is sent by the one worker that set the flag.
PickerInv ==
    /\ OnePicker
    /\ ~session.pickerSent => pickers = 0 /\ \A w \in Workers : pc[w] # "send"
    /\ \A w \in Workers : pc[w] = "send" =>
          pickers = 0 /\ \A x \in Workers \ {w} : pc[x] # "send"

\* One worker works on a session, and its step tells what has been committed; a
\* failure that may be retried left no proposal.
WorkInv ==
    /\ \A w \in Workers : pc[w] \in Working =>
          /\ session.state = "processing"
          /\ \A x \in Workers \ {w} : pc[x] \notin Working
          /\ pc[w] = "ingest" => ingests = 0
          /\ pc[w] \in {"source", "propose", "repropose", "record", "failLLM"} => ingests = 1
          /\ pc[w] \in {"ingest", "source", "propose", "repropose", "failLLM"} => proposals = 0
          /\ pc[w] = "record" => proposals = 1
    /\ session.state \in {"missing", "collecting", "settled", "awaiting_target"} =>
          ingests = 0 /\ proposals = 0
    /\ Retryable => ingests = 1 /\ proposals = 0

IInv == TypeOK /\ RecordInv /\ BatchInv /\ PickerInv /\ WorkInv /\ OneDelivery

-----------------------------------------------------------------------------
(* A blank session is one. *)

LEMMA BlankType == Fresh \in Sessions /\ Missing \in Sessions
<1>1. 0 \in Versions
  BY ConstantsAssumption DEF ConstantsAssumption, Versions
<1>2. Fresh \in Sessions
  BY <1>1 DEF Fresh, Sessions, States, Reasons, Previews
<1>3. Missing \in Sessions
  BY <1>2 DEF Missing, Sessions, States
<1> QED BY <1>2, <1>3

LEMMA InitInv == Init => IInv
<1> USE ConstantsAssumption DEF ConstantsAssumption, Init, Missing, Fresh
<1>1. Init => TypeOK
  BY BlankType DEF TypeOK, Versions, Steps
<1>2. Init => RecordInv /\ BatchInv /\ PickerInv /\ OneDelivery
  BY DEF RecordInv, BatchInv, PickerInv, OnePicker, OneDelivery, Delivering
<1>3. Init => WorkInv
  BY DEF WorkInv, Working, Retryable
<1> QED BY <1>1, <1>2, <1>3 DEF IInv

-----------------------------------------------------------------------------
(* Type correctness. *)

\* The session stays a session.
LEMMA SessionStep == ASSUME TypeOK, [Next]_vars PROVE session' \in Sessions
<1> USE ConstantsAssumption
    DEF ConstantsAssumption, TypeOK, Sessions, States, Reasons, Previews, vars
<1>1. ASSUME NEW w \in Workers, NEW p \in Photos, UploadPhoto(w, p) PROVE session' \in Sessions
  <2>1. CASE session.state = "missing"
    <3>1. session' = [Fresh EXCEPT !.attachments = @ \cup {p}, !.scheduled = @ /\ p \in Fresh.attachments]
      BY <1>1, <2>1 DEF UploadPhoto, Upsert, Collected, Fresh
    <3>2. Fresh.attachments \subseteq Photos /\ Fresh.scheduled \in BOOLEAN
      BY BlankType DEF Sessions
    <3> QED BY <3>1, <3>2, BlankType DEF Sessions
  <2>2. CASE session.state # "missing"
    BY <1>1, <2>2 DEF UploadPhoto, Upsert, Collected
  <2> QED BY <2>1, <2>2
<1>2. ASSUME NEW w \in Workers, ClaimSettle(w) PROVE session' \in Sessions
  <2>1. CASE session' = [session EXCEPT !.scheduled = TRUE, !.version = session.version + 1]
             /\ session.version < MaxVersion
    <3>1. session.version + 1 \in Versions
      BY <2>1 DEF Versions
    <3> QED BY <2>1, <3>1
  <2> QED BY <1>2, <2>1 DEF ClaimSettle
<1>3. ASSUME NEW w \in Workers,
             ClaimReceipt(w) \/ AwaitTarget(w) \/ ClaimSettled(w) \/ ClaimPicker(w)
      PROVE  session' \in Sessions
  BY <1>3 DEF ClaimReceipt, AwaitTarget, ClaimSettled, Current, ClaimPicker, PickerClaimed
<1>4. ASSUME NEW w \in Workers, RecordSource(w) \/ Record(w) \/ ClaimPreview(w)
      PROVE  session' \in Sessions
  BY <1>4 DEF RecordSource, Record, ClaimPreview
<1>5. ASSUME NEW w \in Workers, CompletePreview(w) PROVE session' \in Sessions
  BY <1>5 DEF CompletePreview
<1>6. ASSUME NEW w \in Workers, ClaimTarget(w) \/ ClaimRetry(w) \/ Fail(w)
      PROVE  session' \in Sessions
  BY <1>6 DEF ClaimTarget, TargetClaim, Processing, Reclaimed, ShowAgain, ClaimRetry, RetryClaim,
      Fail
<1>7. ASSUME NEW w \in Workers,
             (\E v \in Versions : StartSettle(w, v)) \/ ReadVersion(w) \/ ScheduleSettle(w) \/ SendPicker(w)
             \/ Ingest(w) \/ Propose(w) \/ Deliver(w) \/ Break(w)
      PROVE  session' \in Sessions
  BY <1>7 DEF StartSettle, ReadVersion, ScheduleSettle, SendPicker, Ingest, CommitSource,
      RefuseMedia, Propose, Deliver, Break
<1>8. CASE ShowPicker
  BY <1>8 DEF ShowPicker, PickerClaimed
<1>9. CASE Expire
  BY <1>9, BlankType DEF Expire
<1>10. CASE UNCHANGED vars
  BY <1>10
<1> QED
  BY <1>1, <1>2, <1>3, <1>4, <1>5, <1>6, <1>7, <1>8, <1>9, <1>10
  DEF Next, Begin, Advance

\* So do the processes and the counts.
LEMMA TypeStep == ASSUME TypeOK, [Next]_vars PROVE TypeOK'
<1>0. session.version \in Versions /\ session.attachments \subseteq Photos
  BY DEF TypeOK, Sessions
<1>1. session' \in Sessions
  BY SessionStep
<1> USE <1>0, <1>1
    DEF TypeOK, Steps, Settling, Working, Delivering, Goto, Return, vars, effectVars, countVars
<1>2. ASSUME NEW w \in Workers, NEW p \in Photos, UploadPhoto(w, p) PROVE TypeOK'
  BY <1>2 DEF UploadPhoto
<1>3. ASSUME NEW w \in Workers, NEW v \in Versions, StartSettle(w, v) PROVE TypeOK'
  <2>1. due[v] - 1 \in Nat
    BY <1>3 DEF StartSettle
  <2> QED BY <1>3, <2>1 DEF StartSettle
<1>4. ASSUME NEW w \in Workers, ClaimSettle(w) \/ ReadVersion(w) PROVE TypeOK'
  BY <1>4 DEF ClaimSettle, ReadVersion
<1>5. ASSUME NEW w \in Workers, ScheduleSettle(w) PROVE TypeOK'
  BY <1>5 DEF ScheduleSettle
<1>6. ASSUME NEW w \in Workers,
             ClaimReceipt(w) \/ AwaitTarget(w) \/ ClaimSettled(w) \/ ClaimPicker(w)
      PROVE  TypeOK'
  BY <1>6 DEF ClaimReceipt, AwaitTarget, ClaimSettled, Current, ClaimPicker
<1>7. ASSUME NEW w \in Workers, SendPicker(w) PROVE TypeOK'
  BY <1>7 DEF SendPicker
<1>8. ASSUME NEW w \in Workers, ClaimTarget(w) \/ ClaimRetry(w) PROVE TypeOK'
  BY <1>8 DEF ClaimTarget, TargetClaim, Processing, Reclaimed, ShowAgain, ClaimRetry, RetryClaim
<1>9. ASSUME NEW w \in Workers, Ingest(w) PROVE TypeOK'
  BY <1>9 DEF Ingest, CommitSource, RefuseMedia
<1>10. ASSUME NEW w \in Workers, Propose(w) PROVE TypeOK'
  BY <1>10 DEF Propose
<1>11. ASSUME NEW w \in Workers,
             RecordSource(w) \/ Fail(w) \/ Record(w) \/ ClaimPreview(w) \/ Deliver(w) \/ CompletePreview(w)
      PROVE  TypeOK'
  BY <1>11 DEF RecordSource, Fail, Record, ClaimPreview, Deliver, CompletePreview
<1>12. ASSUME NEW w \in Workers, Break(w) PROVE TypeOK'
  BY <1>12 DEF Break
<1>13. CASE ShowPicker
  BY <1>13 DEF ShowPicker
<1>14. CASE Expire
  BY <1>14 DEF Expire
<1>15. CASE UNCHANGED vars
  BY <1>15
<1> QED
  BY <1>2, <1>3, <1>4, <1>5, <1>6, <1>7, <1>8, <1>9, <1>10, <1>11, <1>12, <1>13, <1>14, <1>15
  DEF Next, Begin, Advance

-----------------------------------------------------------------------------
(* What a step leaves alone. *)

\* Outside the claims of work, a step neither begins nor ends any.
LEMMA WorkUntouched ==
  ASSUME WorkInv, UNCHANGED <<ingests, proposals>>,
         \A w \in Workers : pc'[w] \in Working => pc'[w] = pc[w],
         \/ session'.state = session.state /\ session'.reason = session.reason
         \/ /\ session.state \in {"missing", "collecting", "settled", "awaiting_target"}
            /\ session'.state \in {"missing", "collecting", "settled", "awaiting_target"}
         \/ session'.state = "proposal_created" /\ session.state = "proposal_created"
  PROVE  WorkInv'
  BY DEF WorkInv, Retryable, Working

\* Nor does a step that is not the picker's or the batch's touch those.
LEMMA PickerUntouched ==
  ASSUME PickerInv, UNCHANGED pickers, session'.pickerSent = session.pickerSent,
         \A w \in Workers : pc'[w] = "send" => pc[w] = "send"
  PROVE  PickerInv'
  BY DEF PickerInv, OnePicker

LEMMA BatchUntouched ==
  ASSUME BatchInv, UNCHANGED claimed, session'.attachments = session.attachments,
         session'.state = "collecting" => session.state = "collecting",
         session'.scheduled => session.scheduled
  PROVE  BatchInv'
  BY DEF BatchInv

-----------------------------------------------------------------------------
(* The parts of the invariant. *)

\* A session is blank exactly when it is gone, and a preview needs a proposal.
LEMMA RecordStep == ASSUME TypeOK, RecordInv, WorkInv, [Next]_vars PROVE RecordInv'
<1> USE DEF TypeOK, Sessions, Fresh, Missing, RecordInv, WorkInv, Working, Delivering, Goto,
        Return, vars, effectVars, countVars
<1>1. ASSUME NEW w \in Workers, NEW p \in Photos, UploadPhoto(w, p) PROVE RecordInv'
  BY <1>1 DEF UploadPhoto, Upsert, Collected
<1>2. ASSUME NEW w \in Workers, ClaimSettle(w) \/ ClaimReceipt(w) PROVE RecordInv'
  BY <1>2 DEF ClaimSettle, ClaimReceipt
<1>3. ASSUME NEW w \in Workers, AwaitTarget(w) \/ ClaimSettled(w) PROVE RecordInv'
  BY <1>3 DEF AwaitTarget, ClaimSettled, Current
<1>4. ASSUME NEW w \in Workers, ClaimPicker(w) PROVE RecordInv'
  BY <1>4 DEF ClaimPicker, Pickable, PickerClaimed
<1>5. ASSUME NEW w \in Workers,
             (\E v \in Versions : StartSettle(w, v)) \/ ReadVersion(w) \/ ScheduleSettle(w) \/
             SendPicker(w) \/ Deliver(w) \/ Break(w)
      PROVE  RecordInv'
  BY <1>5 DEF StartSettle, ReadVersion, ScheduleSettle, SendPicker, Deliver, Break
<1>6. ASSUME NEW w \in Workers, ClaimTarget(w) PROVE RecordInv'
  BY <1>6 DEF ClaimTarget, TargetClaim, Processing, Reclaimed, ShowAgain, Retryable
<1>7. ASSUME NEW w \in Workers, ClaimRetry(w) PROVE RecordInv'
  BY <1>7 DEF ClaimRetry, RetryClaim, Reclaimed, ShowAgain, Retryable
<1>8. ASSUME NEW w \in Workers, Ingest(w) \/ RecordSource(w) \/ Propose(w) PROVE RecordInv'
  BY <1>8 DEF Ingest, CommitSource, RefuseMedia, RecordSource, Propose
<1>9. ASSUME NEW w \in Workers, Fail(w) \/ Record(w) PROVE RecordInv'
  BY <1>9 DEF Fail, Record
<1>10. ASSUME NEW w \in Workers, ClaimPreview(w) \/ CompletePreview(w) PROVE RecordInv'
  BY <1>10 DEF ClaimPreview, CompletePreview
<1>11. CASE ShowPicker
  BY <1>11 DEF ShowPicker, Pickable, PickerClaimed
<1>12. CASE Expire
  BY <1>12 DEF Expire
<1>13. CASE UNCHANGED vars
  BY <1>13
<1> QED
  BY <1>1, <1>2, <1>3, <1>4, <1>5, <1>6, <1>7, <1>8, <1>9, <1>10, <1>11, <1>12, <1>13 DEF Next,
      Begin, Advance

\* A new photo voids the schedule; a claim is made for the photos there are.
LEMMA BatchStep == ASSUME TypeOK, RecordInv, BatchInv, [Next]_vars PROVE BatchInv'
<1> USE DEF TypeOK, Sessions, Fresh, Missing, RecordInv, BatchInv, vars, effectVars, countVars
<1>1. ASSUME NEW w \in Workers, NEW p \in Photos, UploadPhoto(w, p) PROVE BatchInv'
  BY <1>1 DEF UploadPhoto, Upsert, Collected
<1>2. ASSUME NEW w \in Workers, ClaimSettle(w) PROVE BatchInv'
  BY <1>2 DEF ClaimSettle
<1>3. ASSUME NEW w \in Workers,
             ClaimReceipt(w) \/ AwaitTarget(w) \/ ClaimSettled(w)
      PROVE  BatchInv'
  BY <1>3, BatchUntouched DEF ClaimReceipt, AwaitTarget, ClaimSettled, Current
<1>4. ASSUME NEW w \in Workers, ClaimPicker(w) PROVE BatchInv'
  BY <1>4, BatchUntouched DEF ClaimPicker, Pickable, PickerClaimed
<1>5. ASSUME NEW w \in Workers,
             (\E v \in Versions : StartSettle(w, v)) \/ ReadVersion(w) \/ ScheduleSettle(w) \/
             SendPicker(w) \/ Deliver(w) \/ Break(w)
      PROVE  BatchInv'
  BY <1>5, BatchUntouched DEF StartSettle, ReadVersion, ScheduleSettle, SendPicker, Deliver, Break
<1>6. ASSUME NEW w \in Workers, ClaimTarget(w) \/ ClaimRetry(w) PROVE BatchInv'
  BY <1>6, BatchUntouched DEF ClaimTarget, TargetClaim, Processing, Reclaimed, ShowAgain,
      Retryable, ClaimRetry, RetryClaim
<1>7. ASSUME NEW w \in Workers, Ingest(w) \/ RecordSource(w) \/ Propose(w) PROVE BatchInv'
  BY <1>7, BatchUntouched DEF Ingest, CommitSource, RefuseMedia, RecordSource, Propose
<1>8. ASSUME NEW w \in Workers, Fail(w) PROVE BatchInv'
  BY <1>8, BatchUntouched DEF Fail
<1>9. ASSUME NEW w \in Workers, Record(w) PROVE BatchInv'
  BY <1>9, BatchUntouched DEF Record
<1>10. ASSUME NEW w \in Workers, ClaimPreview(w) \/ CompletePreview(w) PROVE BatchInv'
  BY <1>10, BatchUntouched DEF ClaimPreview, CompletePreview
<1>11. CASE ShowPicker
  BY <1>11, BatchUntouched DEF ShowPicker, Pickable, PickerClaimed
<1>12. CASE Expire
  BY <1>12 DEF Expire
<1>13. CASE UNCHANGED vars
  BY <1>13
<1> QED
  BY <1>1, <1>2, <1>3, <1>4, <1>5, <1>6, <1>7, <1>8, <1>9, <1>10, <1>11, <1>12, <1>13 DEF Next,
      Begin, Advance

\* The worker that sends the picker has set the flag, and sends it once.
LEMMA PickerStep == ASSUME TypeOK, RecordInv, PickerInv, [Next]_vars PROVE PickerInv'
<1> USE DEF TypeOK, Sessions, Fresh, Missing, RecordInv, PickerInv, OnePicker, Goto, Return,
        vars, effectVars, countVars
<1>1. ASSUME NEW w \in Workers, NEW p \in Photos, UploadPhoto(w, p) PROVE PickerInv'
  BY <1>1 DEF UploadPhoto, Upsert, Collected
<1>2. ASSUME NEW w \in Workers, ClaimSettle(w) \/ ClaimReceipt(w) PROVE PickerInv'
  BY <1>2, PickerUntouched DEF ClaimSettle, ClaimReceipt
<1>3. ASSUME NEW w \in Workers, AwaitTarget(w) PROVE PickerInv'
  BY <1>3 DEF AwaitTarget
<1>4. ASSUME NEW w \in Workers, ClaimSettled(w) PROVE PickerInv'
  BY <1>4, PickerUntouched DEF ClaimSettled, Current
<1>5. ASSUME NEW w \in Workers, ClaimPicker(w) PROVE PickerInv'
  <2>1. CASE Pickable
    <3>1. session'.pickerSent /\ pickers' = pickers /\ pc' = [pc EXCEPT ![w] = "send"]
      BY <1>5, <2>1 DEF ClaimPicker, PickerClaimed
    <3>2. ~session.pickerSent
      BY <2>1 DEF Pickable
    <3> QED BY <3>1, <3>2
  <2>2. CASE ~Pickable
    BY <1>5, <2>2, PickerUntouched DEF ClaimPicker
  <2> QED BY <2>1, <2>2
<1>6. ASSUME NEW w \in Workers, SendPicker(w) PROVE PickerInv'
  BY <1>6 DEF SendPicker
<1>7. ASSUME NEW w \in Workers,
             (\E v \in Versions : StartSettle(w, v)) \/ ReadVersion(w) \/ ScheduleSettle(w)
      PROVE  PickerInv'
  BY <1>7, PickerUntouched DEF StartSettle, ReadVersion, ScheduleSettle
<1>8. ASSUME NEW w \in Workers, Deliver(w) \/ Break(w) PROVE PickerInv'
  BY <1>8, PickerUntouched DEF Deliver, Break
<1>9. ASSUME NEW w \in Workers, ClaimTarget(w) \/ ClaimRetry(w) PROVE PickerInv'
  BY <1>9, PickerUntouched DEF ClaimTarget, TargetClaim, Processing, Reclaimed, ShowAgain,
      Retryable, ClaimRetry, RetryClaim
<1>10. ASSUME NEW w \in Workers, Ingest(w) \/ RecordSource(w) \/ Propose(w) PROVE PickerInv'
  BY <1>10, PickerUntouched DEF Ingest, CommitSource, RefuseMedia, RecordSource, Propose
<1>11. ASSUME NEW w \in Workers, Fail(w) \/ Record(w) PROVE PickerInv'
  BY <1>11, PickerUntouched DEF Fail, Record
<1>12. ASSUME NEW w \in Workers, ClaimPreview(w) \/ CompletePreview(w) PROVE PickerInv'
  BY <1>12, PickerUntouched DEF ClaimPreview, CompletePreview
<1>13. CASE ShowPicker
  BY <1>13 DEF ShowPicker, Pickable, PickerClaimed
<1>14. CASE Expire
  BY <1>14 DEF Expire
<1>15. CASE UNCHANGED vars
  BY <1>15
<1> QED
  BY <1>1, <1>2, <1>3, <1>4, <1>5, <1>6, <1>7, <1>8, <1>9, <1>10, <1>11, <1>12, <1>13, <1>14,
     <1>15 DEF Next, Begin, Advance

\* One worker is delivering, and the preview says so.
LEMMA DeliveryStep == ASSUME TypeOK, RecordInv, OneDelivery, [Next]_vars PROVE OneDelivery'
<1> USE DEF TypeOK, Sessions, Fresh, Missing, RecordInv, OneDelivery, Delivering, Goto, Return,
        vars, effectVars, countVars
<1>1. ASSUME NEW w \in Workers, NEW p \in Photos, UploadPhoto(w, p) PROVE OneDelivery'
  BY <1>1 DEF UploadPhoto, Upsert, Collected
<1>2. ASSUME NEW w \in Workers, ClaimSettle(w) \/ ClaimReceipt(w) PROVE OneDelivery'
  BY <1>2 DEF ClaimSettle, ClaimReceipt
<1>3. ASSUME NEW w \in Workers, AwaitTarget(w) \/ ClaimSettled(w) PROVE OneDelivery'
  BY <1>3 DEF AwaitTarget, ClaimSettled, Current
<1>4. ASSUME NEW w \in Workers, ClaimPicker(w) PROVE OneDelivery'
  BY <1>4 DEF ClaimPicker, Pickable, PickerClaimed
<1>5. ASSUME NEW w \in Workers,
             (\E v \in Versions : StartSettle(w, v)) \/ ReadVersion(w) \/ ScheduleSettle(w) \/
             SendPicker(w) \/ Deliver(w) \/ Break(w)
      PROVE  OneDelivery'
  BY <1>5 DEF StartSettle, ReadVersion, ScheduleSettle, SendPicker, Deliver, Break
<1>6. ASSUME NEW w \in Workers, ClaimTarget(w) PROVE OneDelivery'
  BY <1>6 DEF ClaimTarget, TargetClaim, Processing, Reclaimed, ShowAgain, Retryable
<1>7. ASSUME NEW w \in Workers, ClaimRetry(w) PROVE OneDelivery'
  BY <1>7 DEF ClaimRetry, RetryClaim, Reclaimed, ShowAgain, Retryable
<1>8. ASSUME NEW w \in Workers, Ingest(w) \/ RecordSource(w) \/ Propose(w) PROVE OneDelivery'
  BY <1>8 DEF Ingest, CommitSource, RefuseMedia, RecordSource, Propose
<1>9. ASSUME NEW w \in Workers, Fail(w) \/ Record(w) PROVE OneDelivery'
  BY <1>9 DEF Fail, Record
<1>10. ASSUME NEW w \in Workers, ClaimPreview(w) \/ CompletePreview(w) PROVE OneDelivery'
  BY <1>10 DEF ClaimPreview, CompletePreview
<1>11. CASE ShowPicker
  BY <1>11 DEF ShowPicker, Pickable, PickerClaimed
<1>12. CASE Expire
  BY <1>12 DEF Expire
<1>13. CASE UNCHANGED vars
  BY <1>13
<1> QED
  BY <1>1, <1>2, <1>3, <1>4, <1>5, <1>6, <1>7, <1>8, <1>9, <1>10, <1>11, <1>12, <1>13 DEF Next,
      Begin, Advance

\* A claim of work finds none under way; each step of the work is the next one.
LEMMA WorkStep == ASSUME TypeOK, RecordInv, WorkInv, [Next]_vars PROVE WorkInv'
<1> USE DEF TypeOK, Sessions, Fresh, Missing, RecordInv, Working, Goto, Return, vars, effectVars,
        countVars
<1>1. ASSUME NEW w \in Workers, NEW p \in Photos, UploadPhoto(w, p) PROVE WorkInv'
  BY <1>1, WorkUntouched DEF UploadPhoto, Upsert, Collected
<1>2. ASSUME NEW w \in Workers, ClaimSettle(w) \/ ClaimReceipt(w) PROVE WorkInv'
  BY <1>2, WorkUntouched DEF ClaimSettle, ClaimReceipt
<1>3. ASSUME NEW w \in Workers, AwaitTarget(w) \/ ClaimSettled(w) PROVE WorkInv'
  BY <1>3, WorkUntouched DEF AwaitTarget, ClaimSettled, Current
<1>4. ASSUME NEW w \in Workers, ClaimPicker(w) PROVE WorkInv'
  BY <1>4, WorkUntouched DEF ClaimPicker, Pickable, PickerClaimed
<1>5. ASSUME NEW w \in Workers, NEW v \in Versions, StartSettle(w, v) PROVE WorkInv'
  BY <1>5, WorkUntouched DEF StartSettle
<1>6. ASSUME NEW w \in Workers,
             ReadVersion(w) \/ ScheduleSettle(w) \/ SendPicker(w)
      PROVE  WorkInv'
  BY <1>6, WorkUntouched DEF ReadVersion, ScheduleSettle, SendPicker
<1>7. ASSUME NEW w \in Workers, ClaimTarget(w) PROVE WorkInv'
  <2>1. CASE /\ session.state # "processing" /\ session'.state = "processing"
             /\ pc' = [pc EXCEPT ![w] = "repropose"] /\ Retryable
    <3>1. \A x \in Workers : pc[x] \notin Working
      BY <2>1 DEF WorkInv
    <3> QED BY <1>7, <2>1, <3>1 DEF WorkInv, Retryable, ClaimTarget, TargetClaim, Processing,
        Reclaimed, ShowAgain
  <2>2. CASE session.state = "awaiting_target"
    <3>1. \A x \in Workers : pc[x] \notin Working
      BY <2>2 DEF WorkInv
    <3>2. /\ session'.state = "processing" /\ pc' = [pc EXCEPT ![w] = "ingest"]
          /\ UNCHANGED <<ingests, proposals>>
      BY <1>7, <2>2 DEF ClaimTarget, TargetClaim, Processing, Reclaimed, ShowAgain, Retryable
    <3> QED BY <2>2, <3>1, <3>2 DEF WorkInv, Retryable
  <2>3. CASE UNCHANGED session /\ pc' \in {[pc EXCEPT ![w] = "preview"], [pc EXCEPT ![w] = "idle"]}
    BY <1>7, <2>3, WorkUntouched DEF ClaimTarget, TargetClaim, Processing, Reclaimed, ShowAgain
  <2> QED BY <1>7, <2>1, <2>2, <2>3 DEF ClaimTarget, TargetClaim, Processing, Reclaimed,
      ShowAgain, Retryable
<1>8. ASSUME NEW w \in Workers, ClaimRetry(w) PROVE WorkInv'
  <2>1. CASE /\ session.state # "processing" /\ session'.state = "processing"
             /\ pc' = [pc EXCEPT ![w] = "repropose"] /\ Retryable
    <3>1. \A x \in Workers : pc[x] \notin Working
      BY <2>1 DEF WorkInv
    <3> QED BY <1>8, <2>1, <3>1 DEF WorkInv, Retryable, ClaimRetry, RetryClaim, Reclaimed, ShowAgain
  <2>2. CASE UNCHANGED session /\ pc' = [pc EXCEPT ![w] = "preview"]
    BY <1>8, <2>2, WorkUntouched DEF ClaimRetry, RetryClaim, Reclaimed, ShowAgain
  <2> QED BY <1>8, <2>1, <2>2 DEF ClaimRetry, RetryClaim, Reclaimed, ShowAgain, Retryable
<1>9. ASSUME NEW w \in Workers, Ingest(w) PROVE WorkInv'
  BY <1>9 DEF WorkInv, Retryable, Ingest, CommitSource, RefuseMedia
<1>10. ASSUME NEW w \in Workers, RecordSource(w) PROVE WorkInv'
  BY <1>10 DEF WorkInv, Retryable, RecordSource
<1>11. ASSUME NEW w \in Workers, Propose(w) PROVE WorkInv'
  BY <1>11 DEF WorkInv, Retryable, Propose
<1>12. ASSUME NEW w \in Workers, Fail(w) PROVE WorkInv'
  BY <1>12 DEF WorkInv, Retryable, Fail
<1>13. ASSUME NEW w \in Workers, Record(w) PROVE WorkInv'
  BY <1>13 DEF WorkInv, Retryable, Record
<1>14. ASSUME NEW w \in Workers, ClaimPreview(w) \/ Deliver(w) PROVE WorkInv'
  BY <1>14, WorkUntouched DEF ClaimPreview, Deliver
<1>15. ASSUME NEW w \in Workers, CompletePreview(w) PROVE WorkInv'
  <2>1. session.state = "proposal_created" /\ session'.state = "proposal_created"
    BY <1>15 DEF CompletePreview, Delivering
  <2> QED BY <1>15, <2>1, WorkUntouched DEF CompletePreview
<1>16. ASSUME NEW w \in Workers, Break(w) PROVE WorkInv'
  BY <1>16, WorkUntouched DEF Break
<1>17. CASE ShowPicker
  BY <1>17, WorkUntouched DEF ShowPicker, Pickable, PickerClaimed
<1>18. CASE Expire
  BY <1>18 DEF WorkInv, Retryable, Expire
<1>19. CASE UNCHANGED vars
  BY <1>19, WorkUntouched
<1> QED
  BY <1>1, <1>2, <1>3, <1>4, <1>5, <1>6, <1>7, <1>8, <1>9, <1>10, <1>11, <1>12, <1>13, <1>14,
     <1>15, <1>16, <1>17, <1>18, <1>19 DEF Next, Begin, Advance

\* The invariant holds in every reachable state.
THEOREM Invariant == Spec => []IInv
<1>1. IInv /\ [Next]_vars => IInv'
  BY TypeStep, RecordStep, BatchStep, PickerStep, WorkStep, DeliveryStep DEF IInv
<1> QED BY InitInv, <1>1, PTL DEF Spec

\* Every variable keeps its type.
THEOREM TypeCorrect == Spec => []TypeOK
  BY Invariant, PTL DEF IInv

\* The page picker of a session is sent by settle jobs at most once, whatever
\* jobs are queued, repeated or late (process_telegram_upload_settle_job).
THEOREM PickerSentOnce == Spec => []OnePicker
  BY Invariant, PTL DEF IInv, PickerInv

\* At most one worker is delivering the preview, and nobody else may claim it
\* (claim_preview, complete_preview).
THEOREM DeliveredByOne == Spec => []OneDelivery
  BY Invariant, PTL DEF IInv

\* A settle job closes the batch its version was claimed for (claim_settle,
\* claim_settled).
THEOREM BatchIsCurrent == Spec => SettledBatchIsCurrent
<1>1. IInv /\ [Next]_vars =>
        [session.state = "collecting" /\ session'.state = "settled"
           => session.attachments = claimed]_vars
  <2>1. SUFFICES ASSUME IInv, Next, session.state = "collecting", session'.state = "settled"
                 PROVE  session.scheduled
    BY <2>1 DEF IInv, BatchInv
  <2> USE DEF IInv, TypeOK, Sessions
  <2>2. ASSUME NEW w \in Workers, Begin(w) \/ Advance(w) \/ Break(w) PROVE session.scheduled
    <3>1. ASSUME NEW p \in Photos, UploadPhoto(w, p) PROVE session.scheduled
      BY <2>1, <3>1 DEF UploadPhoto, Upsert, Collected
    <3>2. ASSUME ClaimSettled(w) PROVE session.scheduled
      BY <2>1, <3>2 DEF ClaimSettled, Current
    <3>3. ASSUME ClaimSettle(w) \/ ClaimReceipt(w) \/ AwaitTarget(w) \/ RecordSource(w) \/ Fail(w)
                 \/ Record(w) \/ ClaimPreview(w) \/ CompletePreview(w)
          PROVE  session.scheduled
      BY <2>1, <3>3 DEF ClaimSettle, ClaimReceipt, AwaitTarget, RecordSource, Fail, Record,
         ClaimPreview, CompletePreview
    <3>4. ASSUME ClaimPicker(w) \/ ClaimTarget(w) \/ ClaimRetry(w) PROVE session.scheduled
      BY <2>1, <3>4 DEF ClaimPicker, PickerClaimed, ClaimTarget, TargetClaim, Processing,
          Reclaimed, ShowAgain, ClaimRetry, RetryClaim
    <3>5. ASSUME (\E v \in Versions : StartSettle(w, v)) \/ ReadVersion(w) \/ ScheduleSettle(w)
                 \/ SendPicker(w) \/ Ingest(w) \/ Propose(w) \/ Deliver(w) \/ Break(w)
          PROVE  session.scheduled
      BY <2>1, <3>5 DEF StartSettle, ReadVersion, ScheduleSettle, SendPicker, Ingest,
          CommitSource, RefuseMedia, Propose,
         Deliver, Break
    <3> QED BY <2>2, <3>1, <3>2, <3>3, <3>4, <3>5 DEF Begin, Advance
  <2>3. CASE ShowPicker
    BY <2>1, <2>3 DEF ShowPicker, PickerClaimed
  <2>4. CASE Expire
    BY <2>1, <2>4 DEF Expire, Missing
  <2> QED BY <2>1, <2>2, <2>3, <2>4 DEF Next
<1> QED BY Invariant, <1>1, PTL DEF Spec, SettledBatchIsCurrent

-----------------------------------------------------------------------------
(* The session implements the life cycle. *)

\* A step that changes neither state, nor media, nor what has been committed is
\* none of the life cycle's; nor is one within the closed phase.
LEMMA PhaseUntouched ==
  ASSUME UNCHANGED <<ingests, proposals>>, session'.attachments = session.attachments,
         \/ session'.state = session.state
         \/ /\ session.state \in {"settled", "awaiting_target"}
            /\ session'.state \in {"settled", "awaiting_target"}
  PROVE  UNCHANGED Lifecycle!vars
  BY DEF Lifecycle!vars, Phase

\* The phases by the state of the session.
LEMMA PhaseOf ==
  /\ session.state = "missing" => Phase = "none"
  /\ session.state = "collecting" => Phase = "open"
  /\ session.state \in {"settled", "awaiting_target"} => Phase = "closed"
  /\ session.state = "processing" => Phase = "working"
  /\ session.state = "failed" => Phase = "failed"
  /\ session.state = "proposal_created" => Phase = "done"
  BY DEF Phase

LEMMA PhaseOfNext ==
  /\ session'.state = "missing" => Phase' = "none"
  /\ session'.state = "collecting" => Phase' = "open"
  /\ session'.state \in {"settled", "awaiting_target"} => Phase' = "closed"
  /\ session'.state = "processing" => Phase' = "working"
  /\ session'.state = "failed" => Phase' = "failed"
  /\ session'.state = "proposal_created" => Phase' = "done"
  BY DEF Phase

\* Every step is one of the life cycle, or a stutter: two calls never work on one
\* session, and nothing is ingested or proposed twice (claim_target, claim_retry,
\* record_proposal).
THEOREM SessionImplementsLifecycle == Spec => ImplementsLifecycle
<1>1. Init => Lifecycle!Init
  BY DEF Init, Lifecycle!Init, Phase, Missing, Fresh
<1> DEFINE Abstract == Lifecycle!Next \/ UNCHANGED Lifecycle!vars
<1>2. ASSUME IInv, [Next]_vars PROVE Abstract
  <2> USE <1>2, PhaseOf, PhaseOfNext
      DEF IInv, TypeOK, Sessions, Goto, Return, vars, effectVars, countVars, Lifecycle!Next
  <2>1. ASSUME NEW w \in Workers, NEW p \in Photos, UploadPhoto(w, p) PROVE Abstract
    <3>1. CASE session.state \in {"missing", "collecting"}
      <4>1. session'.attachments = session.attachments \cup {p} /\ session'.state = "collecting"
        BY <2>1, <3>1 DEF UploadPhoto, Upsert, Collected, Fresh, Missing, RecordInv
      <4>2. Lifecycle!Collect(p)
        BY <2>1, <3>1, <4>1 DEF UploadPhoto, Lifecycle!Collect
      <4> QED BY <4>2
    <3>2. CASE session.state \notin {"missing", "collecting"}
      BY <2>1, <3>2, PhaseUntouched DEF UploadPhoto, Upsert, Collected
    <3> QED BY <3>1, <3>2
  <2>2. ASSUME NEW w \in Workers,
               (\E v \in Versions : StartSettle(w, v)) \/ ReadVersion(w) \/ ScheduleSettle(w)
               \/ SendPicker(w) \/ Deliver(w) \/ Break(w)
        PROVE  Abstract
    BY <2>2, PhaseUntouched DEF StartSettle, ReadVersion, ScheduleSettle, SendPicker, Deliver, Break
  <2>3. ASSUME NEW w \in Workers,
               ClaimSettle(w) \/ ClaimReceipt(w) \/ RecordSource(w) \/ ClaimPreview(w)
               \/ CompletePreview(w)
        PROVE  Abstract
    BY <2>3, PhaseUntouched DEF ClaimSettle, ClaimReceipt, RecordSource, ClaimPreview,
        CompletePreview
  <2>4. ASSUME UNCHANGED <<ingests, proposals>>, session'.attachments = session.attachments,
               session.state = "collecting", session'.state \in {"settled", "awaiting_target"}
        PROVE  Abstract
    BY <2>4 DEF Lifecycle!Close
  <2>5. ASSUME NEW w \in Workers, AwaitTarget(w) \/ ClaimSettled(w) PROVE Abstract
    BY <2>4, <2>5, PhaseUntouched DEF AwaitTarget, ClaimSettled, Current
  <2>6. ASSUME NEW w \in Workers, ClaimPicker(w) PROVE Abstract
    BY <2>4, <2>6, PhaseUntouched DEF ClaimPicker, Pickable, PickerClaimed
  <2>7. CASE ShowPicker
    BY <2>4, <2>7, PhaseUntouched DEF ShowPicker, Pickable, PickerClaimed
  <2>8. ASSUME UNCHANGED <<ingests, proposals>>, session'.attachments = session.attachments,
               session'.state = "processing", session.state = "awaiting_target" \/ Retryable
        PROVE  Abstract
    BY <2>8 DEF Lifecycle!Claim, WorkInv, Retryable
  <2>9. ASSUME NEW w \in Workers, ClaimTarget(w) PROVE Abstract
    BY <2>8, <2>9, PhaseUntouched DEF ClaimTarget, TargetClaim, Processing, Reclaimed, ShowAgain
  <2>10. ASSUME NEW w \in Workers, ClaimRetry(w) PROVE Abstract
    BY <2>8, <2>10, PhaseUntouched DEF ClaimRetry, RetryClaim, Reclaimed, ShowAgain
  <2>11. ASSUME NEW w \in Workers, Ingest(w) PROVE Abstract
    <3>1. session.state = "processing" /\ ingests = 0 /\ UNCHANGED <<session, proposals>>
      BY <2>11 DEF Ingest, CommitSource, RefuseMedia, WorkInv, Working
    <3>2. ingests' = 1 \/ UNCHANGED ingests
      BY <2>11, <3>1 DEF Ingest, CommitSource, RefuseMedia
    <3> QED BY <3>1, <3>2, PhaseUntouched DEF Lifecycle!Ingest
  <2>12. ASSUME NEW w \in Workers, Propose(w) PROVE Abstract
    <3>1. /\ session.state = "processing" /\ ingests = 1 /\ proposals = 0
          /\ UNCHANGED <<session, ingests>>
      BY <2>12 DEF Propose, WorkInv, Working
    <3>2. proposals' = 1 \/ UNCHANGED proposals
      BY <2>12, <3>1 DEF Propose
    <3> QED BY <3>1, <3>2, PhaseUntouched DEF Lifecycle!Propose
  <2>13. ASSUME NEW w \in Workers, Fail(w) PROVE Abstract
    <3>1. session.state = "processing"
      BY <2>13 DEF Fail, WorkInv, Working
    <3> QED BY <2>13, <3>1 DEF Fail, Lifecycle!Fail
  <2>14. ASSUME NEW w \in Workers, Record(w) PROVE Abstract
    <3>1. session.state = "processing" /\ proposals = 1
      BY <2>14 DEF Record, WorkInv, Working
    <3> QED BY <2>14, <3>1 DEF Record, Lifecycle!Finish
  <2>15. CASE Expire
    BY <2>15 DEF Expire, Missing, Fresh, Lifecycle!Expire
  <2>16. CASE UNCHANGED vars
    BY <2>16, PhaseUntouched
  <2> QED
    BY <2>1, <2>2, <2>3, <2>5, <2>6, <2>7, <2>9, <2>10, <2>11, <2>12, <2>13, <2>14, <2>15, <2>16
    DEF Next, Begin, Advance
<1> QED BY Invariant, <1>1, <1>2, PTL DEF Spec, ImplementsLifecycle, Lifecycle!Spec
=============================================================================
