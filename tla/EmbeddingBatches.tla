-------------------------- MODULE EmbeddingBatches --------------------------
(***************************************************************************)
(* How the texts of a page become the inputs of embedding requests, and    *)
(* which responses are accepted (services/embedding_batch_service.py).  A  *)
(* text is its size; an ordinal is its position on the page.               *)
(***************************************************************************)
EXTENDS Naturals, Sequences, FiniteSets

CONSTANTS
    MaxInputs,   \* texts of one request
    MaxBytes     \* bytes of one request, hence of one text

ASSUME LimitsAssumption == MaxInputs \in Nat \ {0} /\ MaxBytes \in Nat \ {0}

Plannable(sizes) == sizes # <<>> /\ \A i \in DOMAIN sizes : sizes[i] \in 1 .. MaxBytes

Bytes(sizes, batch) ==
    LET sum[k \in 0 .. Len(batch)] == IF k = 0 THEN 0 ELSE sum[k - 1] + sizes[batch[k]]
    IN sum[Len(batch)]

Fits(sizes, batch, i) ==
    Len(batch) < MaxInputs /\ Bytes(sizes, batch) + sizes[i] <= MaxBytes

\* A text joins the last batch or opens the next.
Joined(sizes, batches, i) ==
    LET last == Len(batches) IN
    IF last > 0 /\ Fits(sizes, batches[last], i)
    THEN [batches EXCEPT ![last] = Append(@, i)]
    ELSE Append(batches, <<i>>)

\* In the order of the page.
Plan(sizes) ==
    LET plan[i \in 0 .. Len(sizes)] ==
          IF i = 0 THEN <<>> ELSE Joined(sizes, plan[i - 1], i)
    IN plan[Len(sizes)]

\* A response gives, per position, the input its vector is for.  Only the order
\* of the request is accepted: a vector for each input, and none twice.
Responses(batch) == [DOMAIN batch -> DOMAIN batch]
Valid(response) == \A k \in DOMAIN response : response[k] = k

-----------------------------------------------------------------------------
\* What Plan promises of the texts of a page: the batches hold them all, once,
\* in order; each is within the limits; and none could have taken the first
\* text of the next.
SoundPlan(sizes) ==
    LET batches == Plan(sizes)
        places == {q \in (1 .. Len(sizes)) \X (1 .. Len(sizes)) :
                     q[1] <= Len(batches) /\ q[2] <= Len(batches[q[1]])}
    IN /\ Cardinality(places) = Len(sizes)
       /\ \A q, r \in places :
            q[1] < r[1] \/ (q[1] = r[1] /\ q[2] < r[2])
                => batches[q[1]][q[2]] < batches[r[1]][r[2]]
       /\ \A j \in 1 .. Len(batches) :
            /\ Len(batches[j]) \in 1 .. MaxInputs
            /\ Bytes(sizes, batches[j]) <= MaxBytes
            /\ j > 1 => ~ Fits(sizes, batches[j - 1], batches[j][1])
=============================================================================
