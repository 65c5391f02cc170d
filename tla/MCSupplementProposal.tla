------------------------ MODULE MCSupplementProposal ------------------------
(***************************************************************************)
(* SupplementProposal for TLC, and the judge its verdicts stand for, over  *)
(* all texts of a small vocabulary.                                        *)
(***************************************************************************)
EXTENDS SupplementProposal, Sequences

G == INSTANCE SourceGrounding WITH
        Numbers <- {"7"}, Identifiers <- {"a.py"},
        Words <- {"redis", "cache", "Acme", "note", "fast", "practical", "always", "result", "tab"},
        Chinese <- {"chaxun", "shijian", "suoyin", "jianyi"},
        Products <- {"redis"}, Terms <- {}, Generic <- {"note"},
        Frame <- {"note"}, Safe <- {"fast"}, Spelled <- {"a.py", "redis", "Acme"},
        Signals <- {"suoyin"}, Kana <- {}, Hangul <- {}, Simplified <- {},
        Markers <- {"practical"}, Absolutes <- {"always"},
        ContextWords <- {"practical"}, ContextRuns <- {"shijian"},
        Advice <- {"jianyi"}, Comparison <- {}, Conclusion <- {"result"},
        Semantics <- {{"jianyi"}, {"result"}},
        GenericTitles <- {{"note"}}, Chrome <- {"tab"}, MaxAnchors <- 3

Text(label, text) == [label |-> label, text |-> text]

-----------------------------------------------------------------------------
(* Titles. *)

TitleWords == {"7", "a.py", "redis", "cache", "Acme", "chaxun", "suoyin", "jianyi"}
SourceWords == TitleWords \ {"Acme"}

\* A title the reasons do not explain would be called a misread one: there is
\* none.  And the two ways to decide on a fallback always agree.
ASSUME EveryRefusalExplained ==
    \A v \in SUBSET TitleWords, s \in SUBSET SourceWords :
        LET a == G!TitleAnalysis(v, s)
        IN /\ a.reason # "normalization"
           /\ G!EligibleByAnalysis(a) <=> G!EligibleByDiagnostics(a)

\* A title that is supported stays so when more of the screenshot is read.
ASSUME MoreSourceSupportsTitles ==
    \A v \in SUBSET TitleWords, s \in SUBSET SourceWords : \A f \in SourceWords :
        G!Supported(v, s) => G!Supported(v, s \cup {f})

\* A title made from the allowlist of its repair has nothing foreign in it: with
\* one high-specificity anchor it is supported, and it claims nothing new.
ASSUME AllowlistGroundsTitles ==
    \A s \in SUBSET SourceWords : \A list \in G!Allowlists(s) : \A v \in SUBSET list :
        /\ G!TitleAnalysis(v, s).unmatched = {}
        /\ v \cap {"a.py", "redis", "suoyin"} # {} => G!TitleOf(v, s) = "ok"

-----------------------------------------------------------------------------
(* Claims. *)

Sources == SUBSET {"7", "a.py", "cache", "chaxun", "jianyi"}
Claims == {Text(l, t) : l \in {{}, {"a.py"}},
                        t \in SUBSET {"7", "a.py", "cache", "Acme", "fast", "practical",
                                      "chaxun", "shijian", "suoyin", "jianyi"}}
ConceptLists == {{}, {{"cache"}, {"chaxun"}, {"suoyin"}, {"a.py"}}}

\* What the screenshot says itself, with a word or a run of Chinese in it, is
\* never refused.
ASSUME VerbatimPasses ==
    \A s \in Sources : \A v \in SUBSET s :
        v \cap {"a.py", "cache", "chaxun", "jianyi"} # {} => G!Matched(Text({}, v), s, {})

\* Whichever rule lets a claim pass: its numbers, its advice and its Chinese terms
\* are the source's, and so are its identifiers and names, but for those in the
\* label of a note, and for names only in its concepts.
ASSUME NothingNewPasses ==
    \A s \in Sources, c \in Claims, concepts \in ConceptLists :
        G!Matched(c, s, concepts) =>
            /\ G!Whole(c) \cap {"7", "suoyin", "jianyi"} \subseteq s
            /\ c.text \cap {"a.py"} \subseteq s
            /\ c.text \cap {"Acme"} \subseteq s \cup UNION concepts
            /\ concepts = {} => c.label \cap {"a.py"} \subseteq s

\* A claim that is grounded stays so when more of the screenshot is read, unless
\* what is read is its first Chinese.
ASSUME MoreSourceGroundsClaims ==
    \A s \in Sources, c \in Claims : \A f \in {"7", "a.py", "cache", "chaxun", "jianyi"} :
        /\ G!HasChinese(s) \/ ~G!HasChinese({f})
        /\ G!Matched(c, s, {})
        => G!Matched(c, s \cup {f}, {})

\* In that case one anchor is no longer enough for a claim with Chinese in it.
ASSUME FirstChineseMayUnground ==
    \E s \in Sources, c \in Claims :
        G!Matched(c, s, {}) /\ ~G!Matched(c, s \cup {"chaxun"}, {})

-----------------------------------------------------------------------------
(* Proposals. *)

SummaryClaims == {Text({}, t) : t \in {{"cache"}, {"fast"}, {"7", "cache"}, {"chaxun", "cache"}}}
NoteClaims == {Text({}, {"cache", "chaxun"}), Text({"cache"}, {"chaxun"}), Text({}, {"chaxun"}),
               Text({}, {"cache", "Acme"}), Text({}, {"cache", "practical"})}
SomeProposals ==
    [title : {{"chaxun", "cache"}, {"redis", "a.py", "chaxun"}, {"fast", "chaxun"},
              {"7", "chaxun"}},
     summary : {S \in SUBSET SummaryClaims : Cardinality(S) <= 2},
     concepts : SUBSET {Text({}, {"cache"}), Text({}, {"chaxun"})} \ {{}},
     notes : UNION {[1 .. n -> NoteClaims] : n \in 1 .. 2}]
SomeSources == {{"cache"}, {"cache", "a.py", "chaxun"}, {"7", "cache", "chaxun"}}

\* That is enough: the verdict on it is the judgement of the whole proposal, and
\* what is repairable by itself is repairable together.
ASSUME VerdictIsJudgement ==
    \A p \in SomeProposals, s \in SomeSources : Verdict(G!Judged(p, s)) = G!Judge(p, s)

\* The validator with a fallback of its own replaces the titles that the workflow
\* would, and what a browser shows around a page grounds nothing.
ASSUME FallbacksAgree ==
    \A p \in SomeProposals, s \in SomeSources :
        LET kept == G!JudgeWithFallback(p, s, s \cup {"tab"})
        IN /\ kept # None <=>
                \/ G!Judge(p, s) = "ok"
                \/ G!TitleOf(p.title, s) = "partial" /\ G!Judge([p EXCEPT !.title = s], s) = "ok"
           /\ G!JudgeWithFallback([p EXCEPT !.title = {"tab", "cache"}], s, s \cup {"tab"}) = None

\* No accepted proposal repeats a note, word by word, if it has words; one that
\* is all Chinese may be repeated.
ASSUME RepeatedNotesFound ==
    \A p \in SomeProposals, s \in SomeSources :
        G!Judge(p, s) = "ok" =>
            \A i, j \in DOMAIN p.notes :
                p.notes[i] = p.notes[j] /\ i # j => G!Tokens(p.notes[i].text) = {}

ASSUME ChineseNotesMayRepeat ==
    \E p \in SomeProposals, s \in SomeSources :
        /\ Len(p.notes) = 2 /\ p.notes[1] = p.notes[2]
        /\ G!Judge(p, s) = "ok"
=============================================================================
