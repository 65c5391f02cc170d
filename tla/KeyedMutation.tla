--------------------------- MODULE KeyedMutation ---------------------------
(***************************************************************************)
(* What an Idempotency-Key promises to the requests that carry it: one of  *)
(* them holds the key, its payload is stored at most once, the key gets    *)
(* one answer that never changes, and whoever is given an answer is given  *)
(* that one.  A request may also be sent away without an answer.           *)
(***************************************************************************)
CONSTANTS
    Calls,      \* requests with the key
    Payloads,   \* what they carry
    Answers,    \* answers the key may get; "ok" is one
    Excuses,    \* replies that are not the answer of the key
    None

VARIABLES
    phase,    \* "free", "held" or "settled"
    holder,   \* the payload the key is held for
    stored,   \* the payloads stored in the name of the key
    answer,   \* the answer of the key
    reply     \* the reply of each request

vars == <<phase, holder, stored, answer, reply>>

Init ==
    /\ phase = "free"
    /\ holder = None
    /\ stored = {}
    /\ answer = None
    /\ reply = [c \in Calls |-> None]

Hold(p) ==
    /\ phase = "free"
    /\ phase' = "held"
    /\ holder' = p
    /\ UNCHANGED <<stored, answer, reply>>

Store ==
    /\ phase = "held"
    /\ stored = {}
    /\ stored' = {holder}
    /\ UNCHANGED <<phase, holder, answer, reply>>

Settle(a) ==
    /\ phase = "held"
    /\ a = "ok" => stored = {holder}
    /\ phase' = "settled"
    /\ answer' = a
    /\ UNCHANGED <<holder, stored, reply>>

Reply(c, r) ==
    /\ reply[c] = None
    /\ r \in Excuses \/ (phase = "settled" /\ r = answer)
    /\ reply' = [reply EXCEPT ![c] = r]
    /\ UNCHANGED <<phase, holder, stored, answer>>

Next ==
    \/ \E p \in Payloads : Hold(p)
    \/ Store
    \/ \E a \in Answers : Settle(a)
    \/ \E c \in Calls, r \in Answers \cup Excuses : Reply(c, r)

Spec == Init /\ [][Next]_vars
=============================================================================
