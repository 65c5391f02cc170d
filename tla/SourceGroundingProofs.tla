----------------------- MODULE SourceGroundingProofs -----------------------
(***************************************************************************)
(* Proofs about the judge of screenshot proposals, for any vocabulary, any *)
(* source and any text.                                                    *)
(***************************************************************************)
EXTENDS SourceGrounding, TLAPS, FiniteSetTheorems

\* Why a title or a claim is refused.
Refusals ==
    {"generic", "number", "product", "identifier", "no anchor", "insufficient",
     "normalization", "no claim", "advice", "comparison", "result",
     "anchors", "paraphrase"}

\* The model value for "no reason" is none of them.
NoneIsNoReason == None \notin Refusals

-----------------------------------------------------------------------------
(* Titles. *)

\* The last reason in the list is never the reason: a title that has its anchors
\* and nothing foreign is accepted (_analyze_screenshot_title).
THEOREM EveryRefusalExplained ==
  ASSUME NoneIsNoReason, NEW v, NEW s
  PROVE  TitleAnalysis(v, s).reason # "normalization"
<1> DEFINE m == v \cap Keys \cap s
           u == (v \cap Keys) \ s
           new == NewSemantics(v, s)
<1>1. CASE v \in GenericTitles
  BY <1>1 DEF TitleAnalysis
<1>2. CASE v \notin GenericTitles
  <2>1. TitleAnalysis(v, s).reason = TitleReason(m, u, new)
    BY <1>2 DEF TitleAnalysis
  <2>2. TitleReason(m, u, new) # "normalization"
    <3> HIDE DEF m, u, new
    <3> QED BY DEF NoneIsNoReason, TitleReason, Refusals, HighSpecificity
  <2> QED BY <2>1, <2>2
<1> QED BY <1>1, <1>2

\* The workflow and the validator with a fallback of its own decide alike which
\* titles may be replaced, though they ask different questions of the analysis.
THEOREM EligibilityAgrees ==
  ASSUME NoneIsNoReason, NEW v, NEW s
  PROVE  EligibleByAnalysis(TitleAnalysis(v, s)) <=> EligibleByDiagnostics(TitleAnalysis(v, s))
<1> DEFINE a == TitleAnalysis(v, s)
<1>1. CASE a.reason \notin Replaceable
  BY <1>1 DEF EligibleByAnalysis, EligibleByDiagnostics
<1>2. CASE a.reason = "product"
  BY <1>2 DEF EligibleByAnalysis, EligibleByDiagnostics
<1>3. CASE a.reason \in Replaceable \ {"product"}
  <2> DEFINE m == v \cap Keys \cap s
             u == (v \cap Keys) \ s
             new == NewSemantics(v, s)
  <2>1. a.unmatched = u /\ a.reason = TitleReason(m, u, new)
    BY <1>3 DEF TitleAnalysis, Replaceable
  <2>2. u \cap HighSpecificity = {}
    <3> HIDE DEF m, u, new
    <3> QED BY <1>3, <2>1
        DEF NoneIsNoReason, TitleReason, Replaceable, Refusals, HighSpecificity
  <2> QED BY <1>3, <2>1, <2>2 DEF EligibleByAnalysis, EligibleByDiagnostics
<1> QED BY <1>1, <1>2, <1>3 DEF Replaceable

\* A title that is supported stays so when more of the screenshot is read.
THEOREM MoreSourceSupportsTitles ==
  ASSUME NoneIsNoReason, NEW v, NEW s, NEW t, s \subseteq t, Supported(v, s)
  PROVE  Supported(v, t)
<1> DEFINE m == v \cap Keys \cap s
           u == (v \cap Keys) \ s
           n == v \cap Keys \cap t
           w == (v \cap Keys) \ t
           strict == Numbers \cup HighSpecificity \cup GeneralWords
<1>1. v \notin GenericTitles
  BY DEF NoneIsNoReason, Supported, TitleAnalysis, Refusals
<1>2. TitleReason(m, u, NewSemantics(v, s)) = None
  BY <1>1 DEF Supported, TitleAnalysis
<1>3. /\ m \cap HighSpecificity # {} \/ AtLeastTwo(m \cap General)
      /\ u \cap strict = {} /\ ~NewSemantics(v, s)
  <2>1. \A x, y, new : TitleReason(x, y, new) = None =>
          /\ x \cap HighSpecificity # {} \/ AtLeastTwo(x \cap General)
          /\ y \cap strict = {} /\ ~new
    BY DEF NoneIsNoReason, TitleReason, Refusals, HighSpecificity
  <2> QED BY <1>2, <2>1
<1>4. n \cap HighSpecificity # {} \/ AtLeastTwo(n \cap General)
  BY <1>3 DEF AtLeastTwo
<1>5. w \cap strict = {}
  BY <1>3
<1>6. ~NewSemantics(v, t)
  BY <1>3 DEF NewSemantics, Introduces
<1>7. TitleReason(n, w, NewSemantics(v, t)) = None
  BY <1>4, <1>5, <1>6 DEF TitleReason
<1> QED BY <1>1, <1>7 DEF Supported, TitleAnalysis

\* A title made of the words a repair allows has nothing foreign in it: with one
\* anchor of high specificity it passes, and claims nothing new, unless it could
\* be the title of anything (build_screenshot_title_anchor_allowlist).
THEOREM AllowlistGroundsTitles ==
  ASSUME NoneIsNoReason, NEW s, NEW list \in Allowlists(s), NEW v \in SUBSET list
  PROVE  /\ TitleAnalysis(v, s).unmatched = {}
         /\ v \cap HighSpecificity # {} /\ v \notin GenericTitles => TitleOf(v, s) = "ok"
<1>1. v \subseteq s
  BY DEF Allowlists, Tokens
<1>2. TitleAnalysis(v, s).unmatched = {}
  BY <1>1 DEF TitleAnalysis
<1>3. \A signs : ~Introduces(v, s, signs)
  BY <1>1 DEF Introduces
<1>4. ASSUME v \cap HighSpecificity # {}, v \notin GenericTitles PROVE Supported(v, s)
  <2> DEFINE m == v \cap Keys \cap s
             u == (v \cap Keys) \ s
  <2>1. m \cap HighSpecificity # {} /\ u = {}
    BY <1>1, <1>4 DEF Keys
  <2>2. ~NewSemantics(v, s)
    BY <1>3 DEF NewSemantics
  <2>3. TitleReason(m, u, NewSemantics(v, s)) = None
    <3> HIDE DEF m, u
    <3> QED BY <2>1, <2>2 DEF TitleReason
  <2> QED BY <1>4, <2>3 DEF Supported, TitleAnalysis
<1> QED BY <1>2, <1>3, <1>4 DEF TitleOf

-----------------------------------------------------------------------------
(* Claims. *)

\* What the order of the reasons comes to.
LEMMA MatchedMeans ==
  ASSUME NoneIsNoReason, NEW c, NEW s, NEW concepts
  PROVE  Matched(c, s, concepts) <=>
           /\ ~NewNumber(Whole(c), s) /\ ~Introduces(Whole(c), s, Advice)
           /\ ~Introduces(Whole(c), s, Comparison) /\ ~Introduces(Whole(c), s, Conclusion)
           /\ ~NewSignal(Whole(c), s)
           /\ \/ BoundedContext(c, s, concepts)
              \/ /\ Whole(c) \cap Identifiers \subseteq s /\ ~NewIdentifier(Whole(c), s)
                 /\ Evidence(Whole(c), s)
BY DEF NoneIsNoReason, Matched, ClaimReason, Refusals

\* Whichever rule lets a claim pass, its numbers, its Chinese terms, its advice,
\* comparisons and conclusions are the source's, and so are the identifiers of
\* its text (_analyze_claim_grounding).
THEOREM NothingNewPasses ==
  ASSUME NoneIsNoReason, NEW c, NEW s, NEW concepts, Matched(c, s, concepts)
  PROVE  /\ Whole(c) \cap (Numbers \cup Signals) \subseteq s
         /\ c.text \cap Identifiers \subseteq s
         /\ \A signs \in {Advice, Comparison, Conclusion} : ~Introduces(Whole(c), s, signs)
<1>1. ~NewNumber(Whole(c), s) /\ ~NewSignal(Whole(c), s)
  BY MatchedMeans
<1>2. c.text \cap Identifiers \subseteq s
  <2>1. CASE BoundedContext(c, s, concepts)
    BY <2>1 DEF BoundedContext
  <2>2. CASE Whole(c) \cap Identifiers \subseteq s
    BY <2>2 DEF Whole
  <2> QED BY <2>1, <2>2, MatchedMeans
<1>3. \A signs \in {Advice, Comparison, Conclusion} : ~Introduces(Whole(c), s, signs)
  BY MatchedMeans
<1> QED BY <1>1, <1>2, <1>3 DEF NewNumber, NewSignal

\* A claim that is grounded stays so when more of the screenshot is read, unless
\* what is read is its first Chinese.
THEOREM MoreSourceGroundsClaims ==
  ASSUME NoneIsNoReason, NEW c, NEW s, NEW t, NEW concepts,
         s \subseteq t, HasChinese(s) \/ ~HasChinese(t), Matched(c, s, concepts)
  PROVE  Matched(c, t, concepts)
<1> DEFINE v == Whole(c)
<1>1. ~NewNumber(v, t) /\ ~NewSignal(v, t)
  BY MatchedMeans DEF NewNumber, NewSignal
<1>2. \A signs : ~Introduces(v, s, signs) => ~Introduces(v, t, signs)
  BY DEF Introduces
<1>3. BoundedContext(c, s, concepts) => BoundedContext(c, t, concepts)
  BY DEF BoundedContext
<1>4. ~NewIdentifier(v, s) => ~NewIdentifier(v, t)
  BY DEF NewIdentifier
<1>5. Evidence(v, s) => Evidence(v, t)
  <2>1. HasChinese(s) <=> HasChinese(t)
    BY DEF HasChinese
  <2>2. Anchored(v, s) => Anchored(v, t)
    BY DEF Anchored
  <2>3. Anchors(v, s) \subseteq Anchors(v, t)
    BY DEF Anchors
  <2>4. AtLeastTwo(Anchors(v, s)) => AtLeastTwo(Anchors(v, t))
    BY <2>3 DEF AtLeastTwo
  <2> QED BY <2>1, <2>2, <2>3, <2>4 DEF Evidence
<1>6. v \cap Identifiers \subseteq s => v \cap Identifiers \subseteq t
  OBVIOUS
<1> QED BY <1>1, <1>2, <1>3, <1>4, <1>5, <1>6, MatchedMeans

\* What the screenshot says itself, with Chinese in it or a word that is not of
\* the frame, is grounded, in whatever part it is repeated (_analyze_claim_grounding).
THEOREM VerbatimPasses ==
  ASSUME NoneIsNoReason, NEW c, NEW s, NEW concepts,
         Whole(c) \subseteq s, HasChinese(Whole(c)) \/ Tokens(Whole(c)) \ Frame # {}
  PROVE  Matched(c, s, concepts)
<1> DEFINE v == Whole(c)
<1>1. ~NewNumber(v, s) /\ ~NewSignal(v, s) /\ ~NewIdentifier(v, s)
  BY DEF NewNumber, NewSignal, NewIdentifier
<1>2. \A signs : ~Introduces(v, s, signs)
  BY DEF Introduces
<1>3. HasChinese(v) => Anchored(v, s)
  BY DEF HasChinese, Anchored
<1>4. ~HasChinese(v) => Anchors(v, s) # {}
  BY DEF Anchors, Tokens
<1>5. Evidence(v, s)
  BY <1>3, <1>4 DEF Evidence, Tokens
<1> QED BY <1>1, <1>2, <1>5, MatchedMeans

-----------------------------------------------------------------------------
(* Proposals. *)

\* What the judge accepts says nothing new in any of its parts, and its notes
\* name every concept (validate_screenshot_proposal_quality).
THEOREM AcceptedIsGrounded ==
  ASSUME NoneIsNoReason, NEW p, NEW s, Judge(p, s) = "ok"
  PROVE  /\ Supported(p.title, s)
         /\ p.summary # {} /\ \A c \in p.summary \cup p.concepts : Matched(c, s, {})
         /\ \A i \in DOMAIN p.notes : Matched(p.notes[i], s, {Whole(k) : k \in p.concepts})
         /\ \A k \in p.concepts : \E i \in DOMAIN p.notes : Covers(p.notes[i], Whole(k))
<1> DEFINE concepts == {Whole(k) : k \in p.concepts}
           Failed(region, reasons) == {[region |-> region, reason |-> r] : r \in reasons \ {None}}
<1>1. Supported(p.title, s)
  BY DEF Judge
<1>2. Failures(p, s) = {}
  BY DEF Judge, RepairScope
<1>3. /\ Failed("summary", IF p.summary = {} THEN {"no claim"}
                           ELSE {ClaimReason(c, s, {}) : c \in p.summary}) = {}
      /\ Failed("concepts", {ClaimReason(k, s, {}) : k \in p.concepts}) = {}
      /\ Failed("notes", {ClaimReason(p.notes[i], s, concepts) : i \in DOMAIN p.notes}) = {}
      /\ NoteFailures(p) = {}
  BY <1>2 DEF Failures
<1>4. \A region, reasons : Failed(region, reasons) = {} => reasons \subseteq {None}
  OBVIOUS
<1> HIDE DEF Failed
<1>5. p.summary # {}
  <2>1. SUFFICES ASSUME p.summary = {} PROVE FALSE
    OBVIOUS
  <2>2. {"no claim"} \subseteq {None}
    BY <1>3, <1>4, <2>1
  <2> QED BY <2>2 DEF NoneIsNoReason, Refusals
<1>6. \A c \in p.summary \cup p.concepts : Matched(c, s, {})
  <2>1. {ClaimReason(c, s, {}) : c \in p.summary} \subseteq {None}
    BY <1>3, <1>4, <1>5
  <2>2. {ClaimReason(k, s, {}) : k \in p.concepts} \subseteq {None}
    BY <1>3, <1>4
  <2> QED BY <2>1, <2>2 DEF Matched
<1>7. \A i \in DOMAIN p.notes : Matched(p.notes[i], s, concepts)
  <2>1. {ClaimReason(p.notes[i], s, concepts) : i \in DOMAIN p.notes} \subseteq {None}
    BY <1>3, <1>4
  <2> QED BY <2>1 DEF Matched
<1>8. \A k \in p.concepts : \E i \in DOMAIN p.notes : Covers(p.notes[i], Whole(k))
  BY <1>3 DEF NoteFailures
<1> QED BY <1>1, <1>5, <1>6, <1>7, <1>8

\* In an accepted proposal no note has the words of another, or nine of ten of
\* them, in whichever order they are compared (_duplicate_note_indices).
THEOREM NotesDiffer ==
  ASSUME NEW p, NEW s, Judge(p, s) = "ok",
         NEW n \in Nat, DOMAIN p.notes = 1 .. n,
         \A i \in 1 .. n : IsFiniteSet(p.notes[i].text),
         NEW i \in 1 .. n, NEW j \in 1 .. n, i # j
  PROVE  /\ ~Duplicate(p.notes[i], p.notes[j])
         /\ Tokens(p.notes[i].text) = Tokens(p.notes[j].text) => Tokens(p.notes[i].text) = {}
<1> DEFINE T(k) == Tokens(p.notes[k].text)
<1>1. \A k \in 1 .. n : IsFiniteSet(T(k))
  BY FS_Subset DEF Tokens
<1>2. NoteFailures(p) = {}
  BY DEF Judge, RepairScope, Failures
<1>3. \A k, l \in 1 .. n : l < k => ~Duplicate(p.notes[k], p.notes[l])
  <2> SUFFICES ASSUME NEW k \in 1 .. n, NEW l \in 1 .. n, l < k, Duplicate(p.notes[k], p.notes[l])
               PROVE  FALSE
    OBVIOUS
  <2>1. l \in 1 .. k - 1
    OBVIOUS
  <2>2. [region |-> "notes", reason |-> "duplicate"] \in NoteFailures(p)
    BY <2>1 DEF NoteFailures
  <2> QED BY <1>2, <2>2
<1>4. ASSUME NEW k \in 1 .. n, NEW l \in 1 .. n, Duplicate(p.notes[k], p.notes[l])
      PROVE  Duplicate(p.notes[l], p.notes[k])
  <2>1. T(k) \cap T(l) = T(l) \cap T(k) /\ T(k) \cup T(l) = T(l) \cup T(k)
    OBVIOUS
  <2>2. T(l) # {}
    <3> SUFFICES ASSUME T(l) = {} PROVE FALSE
      OBVIOUS
    <3>1. T(k) \cap T(l) = {} /\ T(k) \cup T(l) = T(k) /\ T(k) # {}
      BY <1>4 DEF Duplicate
    <3>2. Cardinality(T(k)) \in Nat /\ Cardinality(T(k)) # 0
      BY <1>1, <3>1, FS_CardinalityType, FS_EmptySet
    <3>3. Cardinality(T(k) \cap T(l)) = 0
      BY <3>1, FS_EmptySet
    <3>4. 10 * Cardinality(T(k) \cap T(l)) >= 9 * Cardinality(T(k) \cup T(l))
      BY <1>4 DEF Duplicate
    <3>5. 10 * 0 >= 9 * Cardinality(T(k))
      BY <3>1, <3>3, <3>4
    <3> HIDE DEF T
    <3> QED BY <3>2, <3>5
  <2> QED BY <1>4, <2>1, <2>2 DEF Duplicate
<1>5. ~Duplicate(p.notes[i], p.notes[j])
  <2>1. i < j \/ j < i
    OBVIOUS
  <2> QED BY <1>3, <1>4, <2>1
<1>6. ASSUME T(i) = T(j), T(i) # {} PROVE Duplicate(p.notes[i], p.notes[j])
  <2>1. T(i) \cap T(j) = T(i) /\ T(i) \cup T(j) = T(i)
    BY <1>6
  <2>2. Cardinality(T(i)) \in Nat
    BY <1>1, FS_CardinalityType
  <2> DEFINE x == Cardinality(T(i))
  <2>3. 10 * x >= 9 * x
    <3> HIDE DEF x
    <3>1. x \in Nat
      BY <2>2 DEF x
    <3> QED BY <3>1
  <2> QED BY <1>6, <2>1, <2>3 DEF Duplicate
<1> QED BY <1>5, <1>6
\* A title that takes the place of the model's, or a proposal that keeps its own,
\* is judged as a whole, on what the browser does not show of itself
\* (validate_screenshot_proposal_with_title_fallback).
THEOREM FallbackIsJudged ==
  ASSUME NEW p, NEW fallback, NEW raw, JudgeWithFallback(p, fallback, raw) # None
  PROVE  Judge(JudgeWithFallback(p, fallback, raw), raw \ Chrome) = "ok"
BY DEF JudgeWithFallback, Snapshot
=============================================================================
