--------------------------- MODULE SourceGrounding ---------------------------
(***************************************************************************)
(* The judge of screenshot proposals (services/screenshot_quality.py): a   *)
(* lexical contract between what a proposal says and the OCR text it is    *)
(* about.  No model is asked; every answer is a comparison of words.       *)
(*                                                                         *)
(* A text is the set of the features the judge finds in it: numbers,       *)
(* identifiers, words and runs of Chinese, after normalisation.  A claim   *)
(* is a sentence, or a list item, and may begin with a label ("Index: ").  *)
(***************************************************************************)
EXTENDS Naturals, FiniteSets

CONSTANTS
    None,            \* no reason
    Numbers,         \* numbers and versions
    Identifiers,     \* commands, paths, URLs, code
    Words,           \* other ASCII words, by their canonical form
    Chinese,         \* runs of Chinese
    Products,        \* words that name a product
    Terms,           \* words of a technical vocabulary, or with a digit or symbol
    Generic,         \* words that say nothing in a title
    Frame, Safe,     \* words of reporting, and of harmless paraphrase
    Spelled,         \* words written with a capital, a digit or a symbol
    Signals,         \* Chinese technical terms
    Kana, Hangul,    \* Japanese, enough of it to tell, and Korean
    Simplified,      \* Chinese that is not written the traditional way
    Markers,         \* what announces practical context
    Absolutes,       \* what is too strong or destructive for it
    ContextWords, ContextRuns, \* what practical context may be written with
    Advice, Comparison, Conclusion, \* what marks a claim as one of these
    Semantics,       \* the same for titles: groups of features
    GenericTitles,   \* titles that could be of anything
    Chrome,          \* addresses, tabs and buttons of a browser
    MaxAnchors       \* bound on what a title may be rewritten with

Tokens(t) == t \cap (Words \cup Identifiers)
HasChinese(t) == t \cap Chinese # {}
AtLeastTwo(S) == \E a, b \in S : a # b

\* What the prompt shows and the judge reads of a screenshot.
Snapshot(raw) == raw \ Chrome

Language(s) ==
    IF HasChinese(s) /\ s \cap Kana # {} THEN "ja"
    ELSE IF s \cap Hangul # {} THEN "ko"
    ELSE IF HasChinese(s) THEN "zh-Hant" ELSE "other"

\* v has a sign of something that the source has no sign of.
Introduces(v, s, signs) == v \cap signs # {} /\ s \cap signs = {}

-----------------------------------------------------------------------------
(* Titles. *)

Technical == Identifiers \cup Terms \cup Signals
HighSpecificity == Products \cup Technical
GeneralWords == Words \ (HighSpecificity \cup Generic)
General == GeneralWords \cup (Chinese \ Signals)
Keys == Numbers \cup HighSpecificity \cup General

NewSemantics(v, s) == \E g \in Semantics : Introduces(v, s, g)

\* Anchors enough, and nothing foreign but Chinese paraphrase.
TitleReason(m, u, new) ==
    LET sufficient == m \cap HighSpecificity # {} \/ AtLeastTwo(m \cap General)
        strict == Numbers \cup HighSpecificity \cup GeneralWords
    IN IF sufficient /\ u \cap strict = {} /\ ~new THEN None
       ELSE IF u \cap Numbers # {} THEN "number"
       ELSE IF u \cap Products # {} THEN "product"
       ELSE IF u \cap Technical # {} THEN "identifier"
       ELSE IF m \cap (HighSpecificity \cup General) = {} THEN "no anchor"
       ELSE IF ~sufficient \/ u \cap GeneralWords # {} \/ new THEN "insufficient"
       ELSE "normalization"

\* The keys of a title the source has, those it has not, and what follows.
TitleAnalysis(v, s) ==
    IF v \in GenericTitles THEN [matched |-> {}, unmatched |-> {}, reason |-> "generic"]
    ELSE LET m == v \cap Keys \cap s
             u == (v \cap Keys) \ s
         IN [matched |-> m, unmatched |-> u,
             reason |-> TitleReason(m, u, NewSemantics(v, s))]

Supported(v, s) == TitleAnalysis(v, s).reason = None

Replaceable == {"insufficient", "normalization", "product"}

\* May a title built from the source replace it?  Decided from the analysis,
\* as the validator with a fallback of its own does.
EligibleByAnalysis(a) ==
    /\ a.reason \in Replaceable
    /\ a.matched # {}
    /\ a.unmatched \cap (Technical \cup Numbers \cup GeneralWords) = {}
    /\ IF a.reason = "product" THEN a.matched \cap HighSpecificity # {}
       ELSE a.unmatched \cap HighSpecificity = {}

\* The same decision from the diagnostics of an error, as the workflow does.
EligibleByDiagnostics(a) ==
    /\ a.reason \in Replaceable
    /\ a.matched # {}
    /\ a.unmatched \cap (Technical \cup Numbers \cup GeneralWords) = {}
    /\ \/ a.matched \cap HighSpecificity # {}
       \/ a.reason # "product" /\ a.unmatched \cap HighSpecificity = {}

\* The vocabulary a title repair may use: words, then identifiers, then Chinese.
Allowlists(s) ==
    LET words == Tokens(s) \ (Frame \cup Safe \cup Chrome)
        pool == words \cup (s \cap Identifiers) \cup (s \cap Chinese)
    IN {a \in SUBSET pool :
            /\ Cardinality(a) <= MaxAnchors
            /\ a # pool => Cardinality(a) = MaxAnchors
            /\ a \cap Chinese # {} => pool \ Chinese \subseteq a}

-----------------------------------------------------------------------------
(* Claims. *)

Whole(c) == c.label \cup c.text

Anchored(v, s) == v \cap s \cap Chinese # {}
Anchors(v, s) == (Tokens(v) \ Frame) \cap s

NewNumber(v, s) == ~ (v \cap Numbers \subseteq s)
NewIdentifier(v, s) == (v \cap Spelled) \ (s \cup Frame \cup Safe) # {}
NewSignal(v, s) == ~ (v \cap Signals \subseteq s)

\* A note may put what the source says into practice, in the words of the
\* source, of the concepts and of a small vocabulary.  Its label is not read as
\* text: only its Chinese is.
BoundedContext(c, s, concepts) ==
    LET known == s \cup UNION concepts
    IN /\ Whole(c) \cap Markers # {} /\ Whole(c) \cap Absolutes = {}
       /\ \E k \in concepts : Anchored(Whole(c), k) \/ Tokens(Whole(c)) \cap k # {}
       /\ c.text \cap Identifiers \subseteq s
       /\ Tokens(c.text) \subseteq known \cup Frame \cup Safe \cup ContextWords
       /\ Whole(c) \cap Chinese \subseteq known \cup ContextRuns

\* Every number, identifier and word is the source's or harmless, and enough of
\* them are the source's.
Evidence(v, s) ==
    /\ v \cap (Numbers \cup Identifiers) \subseteq s
    /\ Tokens(v) \ Frame \subseteq s \cup Safe
    /\ IF HasChinese(v) /\ HasChinese(s)
       THEN Anchored(v, s) \/ AtLeastTwo(Anchors(v, s))
       ELSE Anchored(v, s) \/ Anchors(v, s) # {}

\* Why the claim is not grounded in s, the first reason that applies.
ClaimReason(c, s, concepts) ==
    LET v == Whole(c)
    IN IF NewNumber(v, s) THEN "number"
       ELSE IF Introduces(v, s, Advice) THEN "advice"
       ELSE IF Introduces(v, s, Comparison) THEN "comparison"
       ELSE IF Introduces(v, s, Conclusion) THEN "result"
       ELSE IF BoundedContext(c, s, concepts) /\ ~NewSignal(v, s) THEN None
       ELSE IF ~ (v \cap Identifiers \subseteq s) THEN "identifier"
       ELSE IF NewIdentifier(v, s) \/ NewSignal(v, s) THEN "identifier"
       ELSE IF Evidence(v, s) \/ BoundedContext(c, s, concepts) THEN None
       ELSE IF Anchors(v, s) = {} /\ ~Anchored(v, s) THEN "anchors"
       ELSE "paraphrase"

Matched(c, s, concepts) == ClaimReason(c, s, concepts) = None

-----------------------------------------------------------------------------
(* Proposals: a title, the sentences of a summary, concepts and notes. *)

\* The note names the concept, and not only in its label.
Covers(note, concept) == Tokens(concept) \cap note.text # {} \/ Anchored(concept, note.text)

\* Two notes with the same words, or nine of ten of them.
Duplicate(a, b) ==
    LET x == Tokens(a.text)
        y == Tokens(b.text)
    IN x # {} /\ 10 * Cardinality(x \cap y) >= 9 * Cardinality(x \cup y)

\* The notes must name every concept, and none may repeat an earlier one.
NoteFailures(p) ==
    {[region |-> "notes", reason |-> "coverage"] : k \in {k \in p.concepts :
            \A i \in DOMAIN p.notes : ~Covers(p.notes[i], Whole(k))}}
    \cup {[region |-> "notes", reason |-> "duplicate"] : i \in {i \in DOMAIN p.notes :
            \E j \in 1 .. i - 1 : Duplicate(p.notes[i], p.notes[j])}}

Failures(p, s) ==
    LET concepts == {Whole(k) : k \in p.concepts}
        Failed(region, reasons) == {[region |-> region, reason |-> r] : r \in reasons \ {None}}
    IN Failed("summary", IF p.summary = {} THEN {"no claim"}
                         ELSE {ClaimReason(c, s, {}) : c \in p.summary})
       \cup Failed("concepts", {ClaimReason(k, s, {}) : k \in p.concepts})
       \cup Failed("notes", {ClaimReason(p.notes[i], s, concepts) : i \in DOMAIN p.notes})
       \cup NoteFailures(p)

\* A proposal about Chinese text is written in Chinese, all but its concepts,
\* and in traditional Chinese.
WrongLanguage(p, s) ==
    LET summary == UNION {Whole(c) : c \in p.summary}
        concepts == UNION {Whole(k) : k \in p.concepts}
        notes == {Whole(p.notes[i]) : i \in DOMAIN p.notes}
    IN /\ Language(s) = "zh-Hant"
       /\ \/ \E t \in {p.title, summary} \cup notes : ~HasChinese(t)
          \/ (p.title \cup summary \cup concepts \cup UNION notes) \cap Simplified # {}

\* What may be written anew: nothing, unless every reason is safe.
RepairScope(failures) ==
    IF \E f \in failures : f.reason \notin {"anchors", "paraphrase", "coverage", "duplicate"}
    THEN "refused"
    ELSE IF {f.region : f \in failures} = {"summary"} THEN "summary" ELSE "body"

\* The judgement of a proposal within the bounds; the first check decides.
Judge(p, s) ==
    IF WrongLanguage(p, s) THEN "refused"
    ELSE IF ~Supported(p.title, s) THEN "title"
    ELSE IF Introduces(p.title, s, Advice) \/ Introduces(p.title, s, Conclusion) THEN "refused"
    ELSE IF Failures(p, s) = {} THEN "ok" ELSE RepairScope(Failures(p, s))

\* The validator with a fallback of its own: what it accepts p as.
JudgeWithFallback(p, fallback, raw) ==
    LET s == Snapshot(raw)
        q == [p EXCEPT !.title = fallback]
    IN IF Judge(p, s) = "ok" THEN p
       ELSE IF /\ Judge(p, s) = "title" /\ EligibleByAnalysis(TitleAnalysis(p.title, s))
               /\ Judge(q, s) = "ok"
            THEN q ELSE None

-----------------------------------------------------------------------------
(* What SupplementProposal keeps of a proposal. *)

TitleOf(v, s) ==
    IF ~Supported(v, s)
    THEN IF EligibleByDiagnostics(TitleAnalysis(v, s)) THEN "partial" ELSE "unrelated"
    ELSE IF Introduces(v, s, Advice) \/ Introduces(v, s, Conclusion) THEN "advice" ELSE "ok"

QualityOf(failures) ==
    IF failures = {} THEN "ok"
    ELSE IF RepairScope(failures) = "refused" THEN "false" ELSE "weak"

\* Of one within the bounds, that is.
Judged(p, s) ==
    LET failures == Failures(p, s)
        summary == {f \in failures : f.region = "summary"}
    IN [title |-> TitleOf(p.title, s),
        summary |-> QualityOf(summary), body |-> QualityOf(failures \ summary),
        form |-> IF WrongLanguage(p, s) THEN "foreign" ELSE "fits"]
=============================================================================
