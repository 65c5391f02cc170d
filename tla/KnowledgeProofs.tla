-------------------------- MODULE KnowledgeProofs --------------------------
(***************************************************************************)
(* Proofs about EmbeddingBatches, PageIndex and Knowledge: what a plan of  *)
(* batches promises of the texts of any page; what the stamp of an indexed *)
(* page says of its content, that its index is whole, and what an answer   *)
(* says of how it came about, for any pages, outlines, blocks, indexers,   *)
(* askers and edits; about PageTree: what is shown of the pages of an      *)
(* index, whatever it says of their parents; and about Retrieval: what     *)
(* the chunks of any page hold, and which text is reported as repeated.    *)
(***************************************************************************)
EXTENDS Knowledge, TLAPS, WellFoundedInduction, FiniteSetTheorems, SequenceTheorems

-----------------------------------------------------------------------------
(* Induction and recursion on numbers. *)

LEMMA LeastNumber ==
  ASSUME NEW S \in SUBSET Nat, S # {}
  PROVE  \E n \in S : \A m \in S : n <= m
<1> DEFINE R == OpToRel(<, Nat)
<1>1. IsWellFoundedOn(R, Nat)
  BY NatLessThanWellFounded
<1>2. \A m, n \in Nat : m < n => <<m, n>> \in R
  BY DEF OpToRel
<1> HIDE DEF R
<1>3. PICK n \in S : \A m \in S : ~ (<<m, n>> \in R)
  BY <1>1, WFMin
<1>4. ASSUME NEW m \in S PROVE n <= m
  <2>1. m \in Nat /\ n \in Nat
    OBVIOUS
  <2>2. ~ (m < n)
    BY <1>2, <1>3, <2>1
  <2> QED BY <2>1, <2>2
<1> QED BY <1>4

LEMMA SetInduction ==
  ASSUME NEW S \in SUBSET Nat, 0 \in S, \A n \in S : n + 1 \in S
  PROVE  S = Nat
<1> SUFFICES ASSUME Nat \ S # {} PROVE FALSE
  OBVIOUS
<1>1. PICK n \in Nat \ S : \A m \in Nat \ S : n <= m
  BY LeastNumber
<1>2. n - 1 \in Nat /\ n - 1 \notin Nat \ S
  BY <1>1
<1> QED BY <1>1, <1>2

\* A function that is defined by recursion on 0 .. n exists.
Functionals(A, n) == [1 .. n -> [A -> A]]
Recursive(g, base, F, n) == g[0] = base /\ \A i \in 1 .. n : g[i] = F[i][g[i - 1]]

LEMMA RecursionExists ==
  ASSUME NEW A, NEW base, base \in A, NEW n \in Nat, NEW F, F \in Functionals(A, n)
  PROVE  \E g : g \in [0 .. n -> A] /\ Recursive(g, base, F, n)
<1> USE DEF Functionals, Recursive
<1> DEFINE Good(g, m) == g[0] = base /\ \A i \in 1 .. m : g[i] = F[i][g[i - 1]]
           S == {m \in Nat : m <= n => \E g \in [0 .. m -> A] : Good(g, m)}
<1>1. 0 \in S
  <2>1. Good([i \in 0 .. 0 |-> base], 0)
    OBVIOUS
  <2> QED BY <2>1
<1>2. ASSUME NEW m \in S, m + 1 <= n PROVE \E g \in [0 .. m + 1 -> A] : Good(g, m + 1)
  <2>1. PICK h \in [0 .. m -> A] : Good(h, m)
    BY <1>2
  <2> DEFINE g == [i \in 0 .. m + 1 |-> IF i = m + 1 THEN F[m + 1][h[m]] ELSE h[i]]
  <2>2. m + 1 \in 1 .. n /\ h[m] \in A /\ F[m + 1] \in [A -> A]
    BY <1>2
  <2>3. g \in [0 .. m + 1 -> A]
    BY <2>2
  <2>4. ASSUME NEW i \in 1 .. m + 1
        PROVE  g[i] = F[i][g[i - 1]]
    <3>1. CASE i = m + 1
      BY <3>1
    <3>2. CASE i \in 1 .. m
      <4>1. h[i] = F[i][h[i - 1]]
        BY <2>1, <3>2
      <4>2. g[i] = h[i] /\ g[i - 1] = h[i - 1]
        BY <3>2
      <4> QED BY <4>1, <4>2
    <3> QED BY <3>1, <3>2
  <2>5. g[0] = base
    BY <2>1
  <2> HIDE DEF g
  <2> QED BY <2>3, <2>4, <2>5
<1>3. \A m \in S : m + 1 \in S
  <2> HIDE DEF Good
  <2> QED BY <1>2
<1>4. S = Nat
  <2> HIDE DEF S
  <2>1. S \in SUBSET Nat
    BY DEF S
  <2> QED BY <1>1, <1>3, <2>1, SetInduction
<1>5. n \in S
  <2> HIDE DEF S
  <2> QED BY <1>4
<1> QED BY <1>5

-----------------------------------------------------------------------------
LEMMA SumExists ==
  ASSUME NEW n \in Nat, NEW w \in [1 .. n -> Nat]
  PROVE  \E g \in [0 .. n -> Nat] : g[0] = 0 /\ \A k \in 1 .. n : g[k] = g[k - 1] + w[k]
<1> DEFINE F == [k \in 1 .. n |-> [a \in Nat |-> a + w[k]]]
<1>1. 0 \in Nat /\ F \in Functionals(Nat, n)
  BY DEF Functionals
<1>2. \A k \in 1 .. n : \A a \in Nat : F[k][a] = a + w[k]
  OBVIOUS
<1> HIDE DEF F
<1>3. PICK g : g \in [0 .. n -> Nat] /\ Recursive(g, 0, F, n)
  BY <1>1, RecursionExists
<1>4. \A k \in 1 .. n : k - 1 \in 0 .. n /\ g[k - 1] \in Nat
  BY <1>3
<1>5. g[0] = 0 /\ \A k \in 1 .. n : g[k] = g[k - 1] + w[k]
  BY <1>2, <1>3, <1>4 DEF Recursive
<1> QED BY <1>3, <1>5

\* The sizes of the texts of a batch.
Weights(sizes, batch) == [k \in 1 .. Len(batch) |-> sizes[batch[k]]]
Sums(s, sizes, batch) == s[0] = 0 /\ \A k \in 1 .. Len(batch) : s[k] = s[k - 1] + sizes[batch[k]]

\* Bytes adds them up.
LEMMA BytesIs ==
  ASSUME NEW sizes, NEW batch \in Seq(Nat), NEW s \in [0 .. Len(batch) -> Nat],
         Sums(s, sizes, batch)
  PROVE  Bytes(sizes, batch) = s[Len(batch)]
<1> DEFINE n == Len(batch)
           Good(t) == t = [k \in 0 .. n |-> IF k = 0 THEN 0 ELSE t[k - 1] + sizes[batch[k]]]
           f == CHOOSE t : Good(t)
<1>1. n \in Nat
  OBVIOUS
<1>2. Bytes(sizes, batch) = f[n]
  BY DEF Bytes
<1>3. Good(s)
  BY DEF Sums
<1>4. Good(f)
  <2> HIDE DEF Good
  <2> QED BY <1>3
<1> HIDE DEF n, f
<1>5. f[0] = 0 /\ \A k \in 1 .. n : f[k] = f[k - 1] + sizes[batch[k]]
  BY <1>1, <1>4
<1>6. s[0] = 0 /\ \A k \in 1 .. n : s[k] = s[k - 1] + sizes[batch[k]]
  BY DEF n, Sums
<1> HIDE DEF Good
<1> DEFINE S == {m \in Nat : m <= n => f[m] = s[m]}
<1>7. 0 \in S
  BY <1>5, <1>6
<1>8. \A m \in S : m + 1 \in S
  <2> SUFFICES ASSUME NEW m \in S, m + 1 <= n PROVE f[m + 1] = s[m + 1]
    OBVIOUS
  <2>1. m + 1 \in 1 .. n /\ (m + 1) - 1 = m /\ f[m] = s[m]
    BY <1>1
  <2> QED BY <1>5, <1>6, <2>1
<1>9. n \in S
  <2>1. S \in SUBSET Nat
    OBVIOUS
  <2> HIDE DEF S
  <2> QED BY <1>1, <1>7, <1>8, <2>1, SetInduction
<1> QED BY <1>1, <1>2, <1>9 DEF n

Sized(sizes, batch) == batch \in Seq(Nat) /\ \A k \in 1 .. Len(batch) : sizes[batch[k]] \in Nat

LEMMA BytesOfNone ==
  ASSUME NEW sizes PROVE Bytes(sizes, <<>>) = 0
<1>1. [k \in 0 .. 0 |-> 0] \in [0 .. Len(<<>>) -> Nat] /\ Sums([k \in 0 .. 0 |-> 0], sizes, <<>>)
  BY DEF Sums
<1> HIDE DEF Sums
<1>2. Bytes(sizes, <<>>) = [k \in 0 .. 0 |-> 0][Len(<<>>)]
  BY <1>1, BytesIs
<1> QED BY <1>2

LEMMA BytesOfMore ==
  ASSUME NEW sizes, NEW batch, Sized(sizes, batch), NEW i \in Nat, sizes[i] \in Nat
  PROVE  /\ Bytes(sizes, batch) \in Nat
         /\ Sized(sizes, Append(batch, i))
         /\ Bytes(sizes, Append(batch, i)) = Bytes(sizes, batch) + sizes[i]
<1> DEFINE n == Len(batch)
           more == Append(batch, i)
<1>1. batch \in Seq(Nat) /\ n \in Nat /\ \A k \in 1 .. n : sizes[batch[k]] \in Nat
  BY DEF Sized
<1>2. PICK s \in [0 .. n -> Nat] : s[0] = 0 /\ \A k \in 1 .. n : s[k] = s[k - 1] + sizes[batch[k]]
  <2>1. Weights(sizes, batch) \in [1 .. n -> Nat]
    BY <1>1 DEF Weights
  <2>2. PICK s \in [0 .. n -> Nat] :
           s[0] = 0 /\ \A k \in 1 .. n : s[k] = s[k - 1] + Weights(sizes, batch)[k]
    <3> HIDE DEF n
    <3> QED BY <1>1, <2>1, SumExists
  <2>3. \A k \in 1 .. n : Weights(sizes, batch)[k] = sizes[batch[k]]
    BY DEF Weights
  <2> QED BY <2>2, <2>3
<1>3. Bytes(sizes, batch) = s[n]
  BY <1>1, <1>2, BytesIs DEF Sums
<1>4. /\ more \in Seq(Nat) /\ Len(more) = n + 1 /\ more[n + 1] = i
      /\ \A k \in 1 .. n : more[k] = batch[k]
  BY <1>1
<1> DEFINE t == [k \in 0 .. n + 1 |-> IF k = n + 1 THEN s[n] + sizes[i] ELSE s[k]]
<1>5. t \in [0 .. n + 1 -> Nat]
  BY <1>1, <1>2
<1>6. t[0] = 0 /\ \A k \in 1 .. n + 1 : t[k] = t[k - 1] + sizes[more[k]]
  BY <1>1, <1>2, <1>4
<1> HIDE DEF t, more
<1>7. Bytes(sizes, more) = t[n + 1]
  <2>1. t \in [0 .. Len(more) -> Nat] /\ Sums(t, sizes, more)
    BY <1>4, <1>5, <1>6 DEF Sums
  <2>2. Bytes(sizes, more) = t[Len(more)]
    BY <1>4, <2>1, BytesIs
  <2> QED BY <1>4, <2>2
<1>8. t[n + 1] = s[n] + sizes[i]
  BY <1>1 DEF t
<1>9. Sized(sizes, more)
  <2>1. ASSUME NEW k \in 1 .. n + 1 PROVE sizes[more[k]] \in Nat
    <3>1. k = n + 1 \/ k \in 1 .. n
      BY <1>1
    <3> QED BY <1>1, <1>4, <3>1
  <2> QED BY <1>4, <2>1 DEF Sized
<1> QED BY <1>1, <1>2, <1>3, <1>7, <1>8, <1>9 DEF more

LEMMA BytesOfOne ==
  ASSUME NEW sizes, NEW i \in Nat, sizes[i] \in Nat
  PROVE  Sized(sizes, <<i>>) /\ Bytes(sizes, <<i>>) = sizes[i]
<1>1. Sized(sizes, <<>>)
  BY DEF Sized
<1>2. Append(<<>>, i) = <<i>>
  OBVIOUS
<1>3. Sized(sizes, Append(<<>>, i)) /\ Bytes(sizes, Append(<<>>, i)) = Bytes(sizes, <<>>) + sizes[i]
  BY <1>1, BytesOfMore
<1> QED BY <1>2, <1>3, BytesOfNone

-----------------------------------------------------------------------------
\* The first i texts are in the batches.
Holds(b, i) ==
    /\ b \in Seq(Seq(Nat)) /\ Len(b) <= i
    /\ \A j \in 1 .. Len(b) :
         /\ Len(b[j]) \in 1 .. i
         /\ \A k \in 1 .. Len(b[j]) : b[j][k] \in 1 .. i
    /\ \A x \in 1 .. i : \E j \in 1 .. Len(b) : \E k \in 1 .. Len(b[j]) : b[j][k] = x

InOrder(b) ==
    \A j, m \in 1 .. Len(b) : \A k \in 1 .. Len(b[j]), l \in 1 .. Len(b[m]) :
        j < m \/ (j = m /\ k < l) => b[j][k] < b[m][l]

Limited(sizes, b) ==
    \A j \in 1 .. Len(b) :
        /\ Sized(sizes, b[j])
        /\ Len(b[j]) <= MaxInputs /\ Bytes(sizes, b[j]) <= MaxBytes
        /\ j > 1 => ~ Fits(sizes, b[j - 1], b[j][1])

\* The last batch takes the text, or a batch of its own does.
JoinsLast(b, c, i) ==
    /\ Len(b) > 0 /\ c \in Seq(Seq(Nat)) /\ Len(c) = Len(b)
    /\ \A j \in 1 .. Len(b) : j < Len(b) => c[j] = b[j]
    /\ c[Len(b)] = Append(b[Len(b)], i)

OpensNext(b, c, i) ==
    /\ c \in Seq(Seq(Nat)) /\ Len(c) = Len(b) + 1
    /\ \A j \in 1 .. Len(b) : c[j] = b[j]
    /\ c[Len(b) + 1] = <<i>>

LEMMA JoinedCases ==
  ASSUME NEW sizes, NEW b \in Seq(Seq(Nat)), NEW i \in Nat
  PROVE  \/ JoinsLast(b, Joined(sizes, b, i), i) /\ Fits(sizes, b[Len(b)], i)
         \/ /\ OpensNext(b, Joined(sizes, b, i), i)
            /\ Len(b) > 0 => ~ Fits(sizes, b[Len(b)], i)
<1> DEFINE c == Joined(sizes, b, i)
<1>1. CASE Len(b) > 0 /\ Fits(sizes, b[Len(b)], i)
  <2>1. c = [b EXCEPT ![Len(b)] = Append(b[Len(b)], i)]
    BY <1>1 DEF Joined
  <2>2. Len(b) \in DOMAIN b /\ Append(b[Len(b)], i) \in Seq(Nat)
    BY <1>1
  <2>3. JoinsLast(b, c, i)
    BY <1>1, <2>1, <2>2 DEF JoinsLast
  <2> QED BY <1>1, <2>3
<1>2. CASE ~ (Len(b) > 0 /\ Fits(sizes, b[Len(b)], i))
  <2>1. c = Append(b, <<i>>)
    BY <1>2 DEF Joined
  <2>2. <<i>> \in Seq(Nat)
    OBVIOUS
  <2>3. OpensNext(b, c, i)
    BY <2>1, <2>2 DEF OpensNext
  <2> QED BY <1>2, <2>3
<1> QED BY <1>1, <1>2

LEMMA JoinedHolds ==
  ASSUME NEW sizes, NEW i \in Nat, NEW b, Holds(b, i)
  PROVE  Holds(Joined(sizes, b, i + 1), i + 1)
<1> DEFINE c == Joined(sizes, b, i + 1)
           n == Len(b)
<1>1. b \in Seq(Seq(Nat)) /\ n \in Nat /\ n <= i
  BY DEF Holds
<1>2. JoinsLast(b, c, i + 1) \/ OpensNext(b, c, i + 1)
  BY <1>1, JoinedCases
<1>3. ASSUME NEW j \in 1 .. n PROVE
        /\ b[j] \in Seq(Nat) /\ Len(b[j]) \in 1 .. i
        /\ \A k \in 1 .. Len(b[j]) : b[j][k] \in 1 .. i
  BY DEF Holds
<1>4. \A x \in 1 .. i : \E j \in 1 .. n : \E k \in 1 .. Len(b[j]) : b[j][k] = x
  BY DEF Holds
<1>0. \A x \in 1 .. i : x \in 1 .. i + 1
  OBVIOUS
<1> HIDE DEF c, n
<1>5. CASE JoinsLast(b, c, i + 1)
  <2>1. /\ c \in Seq(Seq(Nat)) /\ Len(c) = n /\ n > 0
        /\ \A j \in 1 .. n : j < n => c[j] = b[j]
        /\ c[n] = Append(b[n], i + 1)
    BY <1>5 DEF JoinsLast, n
  <2>2. /\ n \in 1 .. n /\ Len(c[n]) = Len(b[n]) + 1 /\ c[n][Len(b[n]) + 1] = i + 1
        /\ \A k \in 1 .. Len(b[n]) : c[n][k] = b[n][k]
    BY <1>1, <1>3, <2>1
  <2>3. ASSUME NEW j \in 1 .. n
        PROVE  Len(c[j]) \in 1 .. i + 1 /\ \A k \in 1 .. Len(c[j]) : c[j][k] \in 1 .. i + 1
    <3>1. CASE j = n
      <4>1. Len(b[n]) \in 1 .. i /\ Len(c[j]) = Len(b[n]) + 1
        BY <1>3, <2>2, <3>1
      <4>2. ASSUME NEW k \in 1 .. Len(c[j]) PROVE c[j][k] \in 1 .. i + 1
        <5>1. k = Len(b[n]) + 1 \/ k \in 1 .. Len(b[n])
          BY <4>1
        <5>2. k \in 1 .. Len(b[n]) => c[j][k] \in 1 .. i
          BY <1>3, <2>2, <3>1
        <5>3. k = Len(b[n]) + 1 => c[j][k] = i + 1
          BY <2>2, <3>1
        <5> QED BY <1>0, <5>1, <5>2, <5>3
      <4> QED BY <4>1, <4>2
    <3>2. CASE j < n
      <4>1. c[j] = b[j]
        BY <2>1, <3>2
      <4>2. Len(c[j]) \in 1 .. i /\ \A k \in 1 .. Len(c[j]) : c[j][k] \in 1 .. i
        BY <1>3, <3>2, <4>1
      <4> QED BY <1>0, <4>2
    <3> QED BY <1>1, <3>1, <3>2
  <2>4. ASSUME NEW x \in 1 .. i + 1
        PROVE  \E j \in 1 .. n : \E k \in 1 .. Len(c[j]) : c[j][k] = x
    <3>1. CASE x = i + 1
      <4>1. Len(b[n]) + 1 \in 1 .. Len(c[n])
        BY <1>3, <2>2
      <4> QED BY <2>2, <3>1, <4>1
    <3>2. CASE x \in 1 .. i
      <4>0. PICK j \in 1 .. n : \E k \in 1 .. Len(b[j]) : b[j][k] = x
        BY <1>4, <3>2
      <4>1. PICK k \in 1 .. Len(b[j]) : b[j][k] = x
        BY <4>0
      <4>2. k \in 1 .. Len(c[j]) /\ c[j][k] = x
        <5>1. CASE j = n
          BY <1>3, <2>2, <4>1, <5>1
        <5>2. CASE j < n
          BY <2>1, <4>1, <5>2
        <5> QED BY <1>1, <5>1, <5>2
      <4> QED BY <4>2
    <3> QED BY <3>1, <3>2
  <2>5. Holds(c, i + 1)
    BY <1>1, <2>1, <2>3, <2>4 DEF Holds
  <2> QED BY <2>5 DEF c
<1>6. CASE OpensNext(b, c, i + 1)
  <2>1. /\ c \in Seq(Seq(Nat)) /\ Len(c) = n + 1
        /\ \A j \in 1 .. n : c[j] = b[j]
        /\ c[n + 1] = <<i + 1>>
    BY <1>6 DEF OpensNext, n
  <2>2. n + 1 \in 1 .. n + 1 /\ Len(c[n + 1]) = 1 /\ c[n + 1][1] = i + 1
    BY <1>1, <2>1
  <2>3. ASSUME NEW j \in 1 .. n + 1
        PROVE  Len(c[j]) \in 1 .. i + 1 /\ \A k \in 1 .. Len(c[j]) : c[j][k] \in 1 .. i + 1
    <3>1. CASE j = n + 1
      <4>1. Len(c[j]) = 1 /\ c[j][1] = i + 1
        BY <2>2, <3>1
      <4> QED BY <4>1
    <3>2. CASE j \in 1 .. n
      <4>1. c[j] = b[j]
        BY <2>1, <3>2
      <4>2. Len(c[j]) \in 1 .. i /\ \A k \in 1 .. Len(c[j]) : c[j][k] \in 1 .. i
        BY <1>3, <3>2, <4>1
      <4> QED BY <1>0, <4>2
    <3> QED BY <1>1, <3>1, <3>2
  <2>4. ASSUME NEW x \in 1 .. i + 1
        PROVE  \E j \in 1 .. n + 1 : \E k \in 1 .. Len(c[j]) : c[j][k] = x
    <3>1. CASE x = i + 1
      <4>1. 1 \in 1 .. Len(c[n + 1])
        BY <2>2
      <4> QED BY <2>2, <3>1, <4>1
    <3>2. CASE x \in 1 .. i
      <4>0. PICK j \in 1 .. n : \E k \in 1 .. Len(b[j]) : b[j][k] = x
        BY <1>4, <3>2
      <4>1. PICK k \in 1 .. Len(b[j]) : b[j][k] = x
        BY <4>0
      <4>2. j \in 1 .. n + 1 /\ c[j] = b[j]
        BY <1>1, <2>1
      <4> QED BY <4>1, <4>2
    <3> QED BY <3>1, <3>2
  <2>5. Holds(c, i + 1)
    BY <1>1, <2>1, <2>3, <2>4 DEF Holds
  <2> QED BY <2>5 DEF c
<1> QED BY <1>2, <1>5, <1>6 DEF c

LEMMA JoinedInOrder ==
  ASSUME NEW sizes, NEW i \in Nat, NEW b, Holds(b, i), InOrder(b)
  PROVE  InOrder(Joined(sizes, b, i + 1))
<1> DEFINE c == Joined(sizes, b, i + 1)
           n == Len(b)
<1>1. b \in Seq(Seq(Nat)) /\ n \in Nat
  BY DEF Holds
<1>2. JoinsLast(b, c, i + 1) \/ OpensNext(b, c, i + 1)
  BY <1>1, JoinedCases
<1>3. ASSUME NEW j \in 1 .. n
      PROVE  Len(b[j]) \in Nat /\ b[j] \in Seq(Nat) /\ \A k \in 1 .. Len(b[j]) : b[j][k] \in 1 .. i
  <2>1. b[j] \in Seq(Nat)
    BY <1>1
  <2>2. \A k \in 1 .. Len(b[j]) : b[j][k] \in 1 .. i
    BY DEF Holds
  <2> QED BY <2>1, <2>2
\* A place of the new plan is a place of the old one, or the last, of the new text.
<1> DEFINE Old(j, k) == j \in 1 .. n /\ k \in 1 .. Len(b[j]) /\ c[j][k] = b[j][k]
           New(j, k) == c[j][k] = i + 1 /\ j = Len(c) /\ k = Len(c[j])
<1>4. /\ Len(c) \in Nat /\ \A j \in 1 .. Len(c) : Len(c[j]) \in Nat
      /\ \A j \in 1 .. Len(c) : \A k \in 1 .. Len(c[j]) : Old(j, k) \/ New(j, k)
  <2> HIDE DEF c, n
  <2>1. CASE JoinsLast(b, c, i + 1)
    <3>1. /\ c \in Seq(Seq(Nat)) /\ Len(c) = n /\ n > 0
          /\ \A j \in 1 .. n : j < n => c[j] = b[j]
          /\ c[n] = Append(b[n], i + 1)
      BY <2>1 DEF JoinsLast, n
    <3>2. /\ Len(c[n]) = Len(b[n]) + 1 /\ c[n][Len(b[n]) + 1] = i + 1
          /\ \A k \in 1 .. Len(b[n]) : c[n][k] = b[n][k]
      BY <1>1, <1>3, <3>1
    <3>3. ASSUME NEW j \in 1 .. n, NEW k \in 1 .. Len(c[j]) PROVE Old(j, k) \/ New(j, k)
      <4>1. CASE j < n
        BY <3>1, <4>1
      <4>2. CASE j = n /\ k \in 1 .. Len(b[n])
        BY <3>1, <3>2, <4>2
      <4>3. CASE j = n /\ k = Len(b[n]) + 1
        BY <3>1, <3>2, <4>3
      <4>4. j < n \/ (j = n /\ k \in 1 .. Len(b[n])) \/ (j = n /\ k = Len(b[n]) + 1)
        BY <1>1, <1>3, <3>1, <3>2
      <4> QED BY <4>1, <4>2, <4>3, <4>4
    <3> HIDE DEF Old, New
    <3> QED BY <1>1, <3>1, <3>3
  <2>2. CASE OpensNext(b, c, i + 1)
    <3>1. /\ c \in Seq(Seq(Nat)) /\ Len(c) = n + 1
          /\ \A j \in 1 .. n : c[j] = b[j]
          /\ c[n + 1] = <<i + 1>>
      BY <2>2 DEF OpensNext, n
    <3>2. Len(c[n + 1]) = 1 /\ c[n + 1][1] = i + 1
      BY <3>1
    <3>3. ASSUME NEW j \in 1 .. n + 1, NEW k \in 1 .. Len(c[j]) PROVE Old(j, k) \/ New(j, k)
      <4>1. CASE j \in 1 .. n
        BY <3>1, <4>1
      <4>2. CASE j = n + 1
        <5>1. k = 1 /\ Len(c[j]) = 1 /\ c[j][k] = i + 1
          BY <3>2, <4>2
        <5> QED BY <3>1, <4>2, <5>1
      <4> QED BY <1>1, <4>1, <4>2
    <3> HIDE DEF Old, New
    <3> QED BY <1>1, <3>1, <3>3
  <2> QED BY <1>2, <2>1, <2>2 DEF c
<1>5. \A j, k : Old(j, k) => c[j][k] \in 1 .. i
  BY <1>3
<1>6. ASSUME NEW j \in 1 .. Len(c), NEW m \in 1 .. Len(c),
             NEW k \in 1 .. Len(c[j]), NEW l \in 1 .. Len(c[m]),
             j < m \/ (j = m /\ k < l)
      PROVE  c[j][k] < c[m][l]
  <2>1. Old(j, k)
    <3>1. ~ New(j, k)
      <4> HIDE DEF c
      <4> QED BY <1>4, <1>6
    <3> HIDE DEF Old, New, c
    <3> QED BY <1>4, <3>1
  <2>2. CASE Old(m, l)
    <3>1. b[j][k] < b[m][l]
      BY <1>6, <2>1, <2>2 DEF InOrder
    <3> QED BY <2>1, <2>2, <3>1
  <2>3. CASE New(m, l)
    <3>1. c[j][k] \in 1 .. i /\ c[m][l] = i + 1
      BY <1>5, <2>1, <2>3
    <3> QED BY <3>1
  <2> HIDE DEF Old, New, c
  <2> QED BY <1>4, <2>2, <2>3
<1> HIDE DEF c
<1> QED BY <1>6 DEF InOrder, c

LEMMA JoinedLimited ==
  ASSUME NEW sizes, NEW i \in Nat, NEW b, Holds(b, i), Limited(sizes, b),
         sizes[i + 1] \in 1 .. MaxBytes
  PROVE  Limited(sizes, Joined(sizes, b, i + 1))
<1> DEFINE c == Joined(sizes, b, i + 1)
           n == Len(b)
<1>1. b \in Seq(Seq(Nat)) /\ n \in Nat
  BY DEF Holds
<1>2. MaxInputs \in Nat \ {0} /\ MaxBytes \in Nat \ {0} /\ sizes[i + 1] \in Nat
      /\ sizes[i + 1] <= MaxBytes
  BY LimitsAssumption DEF LimitsAssumption
<1>3. \/ JoinsLast(b, c, i + 1) /\ Fits(sizes, b[n], i + 1)
      \/ OpensNext(b, c, i + 1) /\ (n > 0 => ~ Fits(sizes, b[n], i + 1))
  BY <1>1, JoinedCases
<1>4. ASSUME NEW j \in 1 .. n
      PROVE  /\ b[j] \in Seq(Nat) /\ Len(b[j]) \in Nat /\ Len(b[j]) > 0
             /\ Sized(sizes, b[j]) /\ Len(b[j]) <= MaxInputs /\ Bytes(sizes, b[j]) <= MaxBytes
             /\ j > 1 => ~ Fits(sizes, b[j - 1], b[j][1])
  <2>1. b[j] \in Seq(Nat) /\ Len(b[j]) \in Nat
    BY <1>1
  <2>2. Len(b[j]) > 0
    <3>1. Len(b[j]) \in 1 .. i
      BY DEF Holds
    <3> QED BY <3>1
  <2> QED BY <2>1, <2>2 DEF Limited
<1> DEFINE Good(j) == /\ Sized(sizes, c[j]) /\ Len(c[j]) <= MaxInputs
                      /\ Bytes(sizes, c[j]) <= MaxBytes
                      /\ j > 1 => ~ Fits(sizes, c[j - 1], c[j][1])
<1> HIDE DEF c, n
<1>5. CASE JoinsLast(b, c, i + 1) /\ Fits(sizes, b[n], i + 1)
  <2>1. /\ Len(c) = n /\ n > 0
        /\ \A j \in 1 .. n : j < n => c[j] = b[j]
        /\ c[n] = Append(b[n], i + 1)
    BY <1>5 DEF JoinsLast, n
  <2>2. n \in 1 .. n
    BY <1>1, <2>1
  <2>3. /\ Bytes(sizes, b[n]) \in Nat /\ Sized(sizes, c[n])
        /\ Bytes(sizes, c[n]) = Bytes(sizes, b[n]) + sizes[i + 1]
    <3>1. Sized(sizes, b[n]) /\ i + 1 \in Nat
      BY <1>4, <2>2
    <3> QED BY <1>2, <2>1, <3>1, BytesOfMore
  <2>4. Len(c[n]) = Len(b[n]) + 1 /\ c[n][1] = b[n][1]
    BY <1>4, <2>1, <2>2
  <2>5. Len(b[n]) < MaxInputs /\ Bytes(sizes, b[n]) + sizes[i + 1] <= MaxBytes
    BY <1>5 DEF Fits
  <2>6. ASSUME NEW j \in 1 .. n, j > 1 PROVE c[j - 1] = b[j - 1] /\ c[j][1] = b[j][1]
    <3>1. j - 1 \in 1 .. n /\ j - 1 < n
      BY <1>1, <2>6
    <3>2. j = n \/ j < n
      BY <1>1
    <3> QED BY <2>1, <2>4, <3>1, <3>2
  <2>7. ASSUME NEW j \in 1 .. n PROVE Good(j)
    <3>1. j > 1 => ~ Fits(sizes, c[j - 1], c[j][1])
      BY <1>4, <2>6
    <3>2. CASE j = n
      <4>1. Len(c[n]) <= MaxInputs
        BY <1>2, <1>4, <2>2, <2>4, <2>5
      <4>2. Bytes(sizes, c[n]) <= MaxBytes
        BY <2>3, <2>5
      <4> QED BY <2>3, <3>1, <3>2, <4>1, <4>2
    <3>3. CASE j < n
      <4>1. c[j] = b[j]
        BY <2>1, <3>3
      <4> QED BY <1>4, <3>1, <4>1
    <3> QED BY <1>1, <3>2, <3>3
  <2>8. Limited(sizes, c)
    BY <2>1, <2>7 DEF Limited
  <2> QED BY <2>8 DEF c
<1>6. CASE OpensNext(b, c, i + 1) /\ (n > 0 => ~ Fits(sizes, b[n], i + 1))
  <2>1. /\ Len(c) = n + 1
        /\ \A j \in 1 .. n : c[j] = b[j]
        /\ c[n + 1] = <<i + 1>>
    BY <1>6 DEF OpensNext, n
  <2>2. Sized(sizes, c[n + 1]) /\ Bytes(sizes, c[n + 1]) = sizes[i + 1]
    <3>1. i + 1 \in Nat
      OBVIOUS
    <3> QED BY <1>2, <2>1, <3>1, BytesOfOne
  <2>3. Len(c[n + 1]) = 1 /\ c[n + 1][1] = i + 1
    BY <2>1
  <2>4. ASSUME NEW j \in 1 .. n + 1 PROVE Good(j)
    <3>1. CASE j = n + 1
      <4>1. j > 1 => ~ Fits(sizes, c[j - 1], c[j][1])
        <5>1. j > 1 => n > 0 /\ j - 1 = n /\ n \in 1 .. n
          BY <1>1, <3>1
        <5>2. j > 1 => c[j - 1] = b[n] /\ c[j][1] = i + 1
          BY <2>1, <2>3, <3>1, <5>1
        <5> QED BY <1>6, <5>1, <5>2
      <4>2. Len(c[j]) <= MaxInputs
        <5>1. Len(c[j]) = 1
          BY <2>3, <3>1
        <5> QED BY <1>2, <5>1
      <4>3. Bytes(sizes, c[j]) <= MaxBytes
        BY <1>2, <2>2, <3>1
      <4> QED BY <2>2, <3>1, <4>1, <4>2, <4>3
    <3>2. CASE j \in 1 .. n
      <4>1. c[j] = b[j]
        BY <2>1, <3>2
      <4>2. j > 1 => j - 1 \in 1 .. n
        BY <1>1, <3>2
      <4>3. j > 1 => c[j - 1] = b[j - 1]
        BY <2>1, <4>2
      <4> QED BY <1>4, <3>2, <4>1, <4>3
    <3> QED BY <1>1, <3>1, <3>2
  <2>5. Limited(sizes, c)
    BY <2>1, <2>4 DEF Limited
  <2> QED BY <2>5 DEF c
<1> QED BY <1>3, <1>5, <1>6

-----------------------------------------------------------------------------
Planned(sizes, b, i) == Holds(b, i) /\ InOrder(b) /\ Limited(sizes, b)

\* The plan of the first i texts, for each i.
LEMMA PlanIs ==
  ASSUME NEW sizes, NEW n \in Nat, Len(sizes) = n, \A i \in 1 .. n : sizes[i] \in 1 .. MaxBytes
  PROVE  Planned(sizes, Plan(sizes), n)
<1> DEFINE Good(g) == g = [i \in 0 .. n |-> IF i = 0 THEN <<>> ELSE Joined(sizes, g[i - 1], i)]
           plan == CHOOSE g : Good(g)
           A == Seq(Seq(Nat))
           F == [i \in 1 .. n |-> [b \in A |-> Joined(sizes, b, i)]]
<1>1. <<>> \in A /\ F \in Functionals(A, n)
  <2>1. ASSUME NEW i \in 1 .. n, NEW b \in A PROVE Joined(sizes, b, i) \in A
    <3>1. i \in Nat
      OBVIOUS
    <3>2. JoinsLast(b, Joined(sizes, b, i), i) \/ OpensNext(b, Joined(sizes, b, i), i)
      BY <3>1, JoinedCases
    <3> QED BY <3>2 DEF JoinsLast, OpensNext
  <2>2. \A i \in 1 .. n : F[i] \in [A -> A]
    BY <2>1
  <2> QED BY <2>2 DEF Functionals
<1>2. \A i \in 1 .. n : \A b \in A : F[i][b] = Joined(sizes, b, i)
  OBVIOUS
<1> HIDE DEF F
<1>3. PICK h : h \in [0 .. n -> A] /\ Recursive(h, <<>>, F, n)
  <2> HIDE DEF A
  <2> QED BY <1>1, RecursionExists
<1>4. h[0] = <<>> /\ \A i \in 1 .. n : h[i] = Joined(sizes, h[i - 1], i)
  <2>1. \A i \in 1 .. n : i - 1 \in 0 .. n /\ h[i - 1] \in A
    BY <1>3
  <2> HIDE DEF A
  <2> QED BY <1>2, <1>3, <2>1 DEF Recursive
<1>5. Good(h)
  <2>1. \A i \in 0 .. n : h[i] = IF i = 0 THEN <<>> ELSE Joined(sizes, h[i - 1], i)
    BY <1>4
  <2> QED BY <1>3, <2>1
<1>6. Good(plan)
  <2> HIDE DEF Good
  <2> QED BY <1>5
<1>7. Plan(sizes) = plan[n]
  BY DEF Plan
<1> HIDE DEF plan
<1>8. plan[0] = <<>> /\ \A i \in 1 .. n : plan[i] = Joined(sizes, plan[i - 1], i)
  BY <1>6
<1> DEFINE S == {m \in Nat : m <= n => Planned(sizes, plan[m], m)}
<1>9. 0 \in S
  <2>1. plan[0] = <<>>
    BY <1>8
  <2>2. Holds(<<>>, 0) /\ InOrder(<<>>) /\ Limited(sizes, <<>>)
    BY DEF Holds, InOrder, Limited
  <2> QED BY <2>1, <2>2 DEF Planned
<1>10. \A m \in S : m + 1 \in S
  <2> SUFFICES ASSUME NEW m \in S, m + 1 <= n PROVE Planned(sizes, plan[m + 1], m + 1)
    OBVIOUS
  <2>1. m \in Nat /\ m + 1 \in 1 .. n /\ (m + 1) - 1 = m /\ Planned(sizes, plan[m], m)
    OBVIOUS
  <2>2. plan[m + 1] = Joined(sizes, plan[m], m + 1)
    BY <1>8, <2>1
  <2>3. sizes[m + 1] \in 1 .. MaxBytes
    BY <2>1
  <2> HIDE DEF S
  <2>4. Holds(Joined(sizes, plan[m], m + 1), m + 1)
    BY <2>1, JoinedHolds DEF Planned
  <2>5. InOrder(Joined(sizes, plan[m], m + 1))
    BY <2>1, JoinedInOrder DEF Planned
  <2>6. Limited(sizes, Joined(sizes, plan[m], m + 1))
    BY <2>1, <2>3, JoinedLimited DEF Planned
  <2> QED BY <2>2, <2>4, <2>5, <2>6 DEF Planned
<1>11. n \in S
  <2>1. S \in SUBSET Nat
    OBVIOUS
  <2> HIDE DEF S
  <2> QED BY <1>9, <1>10, <2>1, SetInduction
<1> QED BY <1>7, <1>11

\* Whatever the sizes of its texts are, when none is over the limit, the plan of
\* plan_embedding_batches sends every text of a page once, in its order, in batches
\* within the limits, none of which had room for the text after it.
THEOREM PlansAreSound ==
  ASSUME NEW sizes \in Seq(Nat), Plannable(sizes) PROVE SoundPlan(sizes)
<1> DEFINE n == Len(sizes)
           b == Plan(sizes)
           places == {q \in (1 .. n) \X (1 .. n) : q[1] <= Len(b) /\ q[2] <= Len(b[q[1]])}
<1>1. n \in Nat /\ \A i \in 1 .. n : sizes[i] \in 1 .. MaxBytes
  BY DEF Plannable
<1>2. Planned(sizes, b, n)
  BY <1>1, PlanIs
<1> HIDE DEF b, n
<1>3. /\ b \in Seq(Seq(Nat)) /\ Len(b) \in Nat /\ Len(b) <= n
      /\ \A j \in 1 .. Len(b) : Len(b[j]) \in 1 .. n
      /\ \A j \in 1 .. Len(b) : \A k \in 1 .. Len(b[j]) : b[j][k] \in 1 .. n
      /\ \A x \in 1 .. n : \E j \in 1 .. Len(b) : \E k \in 1 .. Len(b[j]) : b[j][k] = x
  <2>1. Holds(b, n)
    BY <1>2 DEF Planned
  <2>2. b \in Seq(Seq(Nat)) /\ Len(b) \in Nat
    BY <2>1 DEF Holds
  <2> QED BY <2>1, <2>2 DEF Holds
<1>4. ASSUME NEW q \in places
      PROVE  q[1] \in 1 .. Len(b) /\ q[2] \in 1 .. Len(b[q[1]]) /\ q = <<q[1], q[2]>>
  <2>1. q[1] \in 1 .. n /\ q[2] \in 1 .. n /\ q[1] <= Len(b) /\ q[2] <= Len(b[q[1]])
        /\ q = <<q[1], q[2]>>
    OBVIOUS
  <2>2. q[1] \in 1 .. Len(b)
    BY <1>1, <1>3, <2>1
  <2>3. Len(b[q[1]]) \in Nat
    BY <1>1, <1>3, <2>2
  <2> QED BY <1>1, <2>1, <2>2, <2>3
<1>5. ASSUME NEW j \in 1 .. Len(b), NEW k \in 1 .. Len(b[j]) PROVE <<j, k>> \in places
  <2>1. Len(b[j]) \in 1 .. n
    BY <1>3
  <2>2. j \in 1 .. n /\ k \in 1 .. n /\ j <= Len(b) /\ k <= Len(b[j])
    BY <1>1, <1>3, <2>1
  <2> QED BY <2>2
<1>6. ASSUME NEW q \in places, NEW r \in places,
             q[1] < r[1] \/ (q[1] = r[1] /\ q[2] < r[2])
      PROVE  b[q[1]][q[2]] < b[r[1]][r[2]]
  <2> HIDE DEF places
  <2> QED BY <1>2, <1>4, <1>6 DEF Planned, InOrder
<1> DEFINE f == [q \in places |-> b[q[1]][q[2]]]
<1>7. f \in [places -> 1 .. n]
  <2> HIDE DEF places
  <2> QED BY <1>3, <1>4
<1>8. ASSUME NEW q \in places, NEW r \in places, f[q] = f[r] PROVE q = r
  <2> HIDE DEF places
  <2>1. q[1] \in Nat /\ q[2] \in Nat /\ r[1] \in Nat /\ r[2] \in Nat
    <3>1. q[1] \in 1 .. Len(b) /\ r[1] \in 1 .. Len(b)
      BY <1>4
    <3>2. q[2] \in 1 .. Len(b[q[1]]) /\ r[2] \in 1 .. Len(b[r[1]])
      BY <1>4
    <3> QED BY <3>1, <3>2
  <2>2. f[q] = b[q[1]][q[2]] /\ f[r] = b[r[1]][r[2]] /\ f[q] \in Nat /\ f[r] \in Nat
    BY <1>1, <1>7
  <2>3. ~ (q[1] < r[1] \/ (q[1] = r[1] /\ q[2] < r[2]))
    BY <1>6, <1>8, <2>2
  <2>4. ~ (r[1] < q[1] \/ (r[1] = q[1] /\ r[2] < q[2]))
    BY <1>6, <1>8, <2>2
  <2>5. q[1] = r[1] /\ q[2] = r[2]
    BY <2>1, <2>3, <2>4
  <2> QED BY <1>4, <2>5
<1>9. ASSUME NEW x \in 1 .. n PROVE \E q \in places : f[q] = x
  <2>1. PICK j \in 1 .. Len(b) : \E k \in 1 .. Len(b[j]) : b[j][k] = x
    BY <1>3
  <2>2. PICK k \in 1 .. Len(b[j]) : b[j][k] = x
    BY <2>1
  <2>3. <<j, k>> \in places
    BY <1>5
  <2> HIDE DEF places
  <2>4. f[<<j, k>>] = x
    BY <2>2, <2>3
  <2> QED BY <2>3, <2>4
<1>10. Cardinality(places) = n
  <2> HIDE DEF f, places
  <2>1. f \in Injection(places, 1 .. n)
    BY <1>7, <1>8 DEF Injection, IsInjective
  <2>2. f \in Surjection(places, 1 .. n)
    BY <1>7, <1>9 DEF Surjection
  <2>3. IsFiniteSet(1 .. n) /\ Cardinality(1 .. n) = n
    BY <1>1, FS_Interval
  <2>4. Cardinality(places) = Cardinality(1 .. n)
    BY <2>1, <2>2, <2>3, FS_Injection
  <2> QED BY <2>3, <2>4
<1>11. ASSUME NEW j \in 1 .. Len(b)
       PROVE  /\ Len(b[j]) \in 1 .. MaxInputs
              /\ Bytes(sizes, b[j]) <= MaxBytes
              /\ j > 1 => ~ Fits(sizes, b[j - 1], b[j][1])
  <2>1. /\ Len(b[j]) <= MaxInputs /\ Bytes(sizes, b[j]) <= MaxBytes
        /\ j > 1 => ~ Fits(sizes, b[j - 1], b[j][1])
    BY <1>2 DEF Planned, Limited
  <2>2. Len(b[j]) \in 1 .. n
    BY <1>3
  <2> QED BY <1>1, <2>1, <2>2, LimitsAssumption DEF LimitsAssumption
<1> HIDE DEF places
<1> QED BY <1>6, <1>10, <1>11 DEF SoundPlan, places, b, n

-----------------------------------------------------------------------------
(* Stamps. *)

\* No block is older than a stamp of its page remembers it.
NotionInv ==
    /\ place \in [Blocks -> Sections]
    /\ version \in [Blocks -> Nat]
    /\ began \in [Pages -> Seq([Blocks -> Nat])]
    /\ \A p \in Pages : Len(began[p]) > 0
    /\ \A p \in Pages : \A k \in 1 .. Len(began[p]) : \A b \in Blocks :
         began[p][k][b] <= version[b]

\* The blocks are not older than the stamp of the page, and those below these
\* sections that were not changed since are among them.
Covers(p, stamp, blocks, sections) ==
    /\ stamp \in 1 .. Len(began[p])
    /\ blocks \subseteq Reads
    /\ \A r \in blocks : r.version >= began[p][stamp][r.block]
    /\ \A b \in Blocks : version[b] = began[p][stamp][b] /\ place[b] \in sections =>
         [section |-> place[b], block |-> b, version |-> version[b]] \in blocks

ReadSoFar(w) == {Outline[job[w].page][k] : k \in 1 .. job[w].next - 1}

Fields == {"page", "stamp", "blocks", "next", "batches", "vectors", "attempts"}

JobAt(w) ==
    /\ DOMAIN job[w] = Fields
    /\ pc[w] # "idle" => job[w].page \in Pages
    /\ pc[w] = "metadata" => job[w].blocks = {}
    /\ pc[w] \in {"sections", "prepare", "embed", "persist"} =>
         Covers(job[w].page, job[w].stamp, job[w].blocks, ReadSoFar(w))
    /\ pc[w] = "sections" => job[w].next \in 1 .. Len(Outline[job[w].page])
    /\ pc[w] \in {"prepare", "embed", "persist"} =>
         job[w].next = Len(Outline[job[w].page]) + 1

JobInv ==
    /\ pc \in [Indexers -> Steps] /\ DOMAIN job = Indexers
    /\ \A w \in Indexers : JobAt(w)

IndexInv ==
    /\ DOMAIN index = Pages
    /\ \A p \in Pages : index[p].stamp > 0 =>
         Covers(p, index[p].stamp, index[p].blocks, SectionsOf(p))

IInv == NotionInv /\ JobInv /\ IndexInv

-----------------------------------------------------------------------------
LEMMA OutlineType ==
  \A p \in Pages : Len(Outline[p]) \in Nat \ {0} /\ DOMAIN Outline[p] = 1 .. Len(Outline[p])
BY PagesAssumption DEF PagesAssumption

LEMMA InitInv == Init => IInv
<1> SUFFICES ASSUME Init PROVE IInv
  OBVIOUS
<1> USE DEF Init, IndexInit
<1>1. NotionInv
  <2>1. version \in [Blocks -> Nat] /\ \A b \in Blocks : version[b] = 0
    OBVIOUS
  <2>2. \A p \in Pages : began[p] = <<version>>
    OBVIOUS
  <2>3. began \in [Pages -> Seq([Blocks -> Nat])]
    BY <2>1, <2>2
  <2> QED BY <2>1, <2>2, <2>3 DEF NotionInv
<1>2. JobInv
  BY DEF JobInv, JobAt, NoJob, Fields, Steps
<1>3. IndexInv
  BY DEF IndexInv, NoRow
<1> QED BY <1>1, <1>2, <1>3 DEF IInv

\* A stamp remembers the same versions ever after, and a block that still has the
\* version remembered has not been moved by this step.
Remembered ==
    \A p \in Pages : \A k \in 1 .. Len(began[p]) :
        /\ k \in 1 .. Len(began'[p]) /\ began'[p][k] = began[p][k]
        /\ \A b \in Blocks : version'[b] = began[p][k][b] =>
             version'[b] = version[b] /\ place'[b] = place[b]

LEMMA ChangeRemembers ==
  ASSUME NotionInv, NEW b \in Blocks, NEW s \in Sections, Change(b, s)
  PROVE  NotionInv' /\ Remembered
<1> DEFINE New == {p \in Pages : {place[b], s} \cap SectionsOf(p) # {}}
<1>1. version' = [version EXCEPT ![b] = version[b] + 1] /\ place' = [place EXCEPT ![b] = s]
  BY DEF Change
<1>2. PICK new \in SUBSET New :
        began' = [p \in Pages |-> IF p \in new THEN Append(began[p], version') ELSE began[p]]
  BY DEF Change
<1>3. version' \in [Blocks -> Nat] /\ place' \in [Blocks -> Sections]
  BY <1>1 DEF NotionInv
<1>4. \A c \in Blocks : /\ version[c] <= version'[c]
                        /\ c # b => version'[c] = version[c] /\ place'[c] = place[c]
                        /\ version'[b] = version[b] + 1
  BY <1>1 DEF NotionInv
<1>5. \A p \in Pages : began[p] \in Seq([Blocks -> Nat])
  BY DEF NotionInv
<1>6. ASSUME NEW p \in Pages
      PROVE  /\ began'[p] \in Seq([Blocks -> Nat])
             /\ Len(began'[p]) > 0
             /\ \A k \in 1 .. Len(began[p]) :
                  k \in 1 .. Len(began'[p]) /\ began'[p][k] = began[p][k]
             /\ \A k \in 1 .. Len(began'[p]) : k \in 1 .. Len(began[p]) \/ began'[p][k] = version'
  <2>1. CASE began'[p] = began[p]
    BY <1>5, <2>1 DEF NotionInv
  <2>2. CASE began'[p] = Append(began[p], version')
    BY <1>3, <1>5, <2>2 DEF NotionInv
  <2> QED BY <1>2, <2>1, <2>2
<1>7. Remembered
  <2>1. ASSUME NEW p \in Pages, NEW k \in 1 .. Len(began[p]), NEW c \in Blocks,
               version'[c] = began[p][k][c]
        PROVE  version'[c] = version[c] /\ place'[c] = place[c]
    <3>1. began[p][k][c] <= version[c] /\ version[c] \in Nat
      BY DEF NotionInv
    <3> QED BY <1>4, <2>1, <3>1
  <2> QED BY <1>6, <2>1 DEF Remembered
<1>8. ASSUME NEW p \in Pages, NEW k \in 1 .. Len(began'[p]), NEW c \in Blocks
      PROVE  began'[p][k][c] <= version'[c]
  <2>1. CASE k \in 1 .. Len(began[p])
    <3>1. began'[p][k] = began[p][k] /\ began[p][k][c] <= version[c]
      BY <1>6, <2>1 DEF NotionInv
    <3>2. began[p][k][c] \in Nat
      BY <1>5, <2>1
    <3> QED BY <1>3, <1>4, <3>1, <3>2 DEF NotionInv
  <2>2. CASE began'[p][k] = version'
    BY <1>3, <2>2
  <2> QED BY <1>6, <2>1, <2>2
<1>9. NotionInv'
  <2>1. DOMAIN began' = Pages /\ began' = [p \in Pages |-> began'[p]]
    BY <1>2
  <2>2. began' \in [Pages -> Seq([Blocks -> Nat])]
    BY <1>6, <2>1
  <2> QED BY <1>3, <1>6, <1>8, <2>2 DEF NotionInv
<1> QED BY <1>7, <1>9

LEMMA NothingChanged ==
  ASSUME NotionInv, UNCHANGED notion
  PROVE  NotionInv' /\ Remembered
BY DEF NotionInv, Remembered, notion

\* What was read stays covered.
LEMMA CoversStays ==
  ASSUME Remembered, NEW p \in Pages, NEW stamp, NEW blocks, NEW sections,
         Covers(p, stamp, blocks, sections)
  PROVE  /\ stamp \in 1 .. Len(began'[p])
         /\ \A r \in blocks : r.version >= began'[p][stamp][r.block]
         /\ \A b \in Blocks : version'[b] = began'[p][stamp][b] /\ place'[b] \in sections =>
              [section |-> place'[b], block |-> b, version |-> version'[b]] \in blocks
BY DEF Remembered, Covers

LEMMA JobStays ==
  ASSUME Remembered, NEW w \in Indexers, JobAt(w),
         DOMAIN job'[w] = Fields, job'[w].page = job[w].page, job'[w].stamp = job[w].stamp,
         job'[w].blocks = job[w].blocks, job'[w].next = job[w].next,
         \/ pc'[w] = pc[w]
         \/ {pc[w], pc'[w]} \subseteq {"prepare", "embed", "persist"}
  PROVE  JobAt(w)'
<1>1. CASE pc[w] \in {"sections", "prepare", "embed", "persist"}
  <2>1. job[w].page \in Pages /\ Covers(job[w].page, job[w].stamp, job[w].blocks, ReadSoFar(w))
    BY <1>1 DEF JobAt
  <2>2. Covers(job[w].page, job[w].stamp, job[w].blocks, ReadSoFar(w))'
    <3> DEFINE sections == ReadSoFar(w)
    <3>1. ReadSoFar(w)' = sections
      BY DEF ReadSoFar
    <3> HIDE DEF sections
    <3>2. Covers(job[w].page, job[w].stamp, job[w].blocks, sections)
      BY <2>1 DEF sections
    <3> DEFINE p == job[w].page
               t == job[w].stamp
               blocks == job[w].blocks
    <3>3. /\ t \in 1 .. Len(began'[p])
          /\ \A r \in blocks : r.version >= began'[p][t][r.block]
          /\ \A b \in Blocks : version'[b] = began'[p][t][b] /\ place'[b] \in sections =>
               [section |-> place'[b], block |-> b, version |-> version'[b]] \in blocks
      <4> HIDE DEF p, t, blocks
      <4>1. p \in Pages /\ Covers(p, t, blocks, sections)
        BY <2>1, <3>2 DEF p, t, blocks
      <4> QED BY <4>1, CoversStays
    <3>4. blocks \subseteq Reads
      BY <2>1 DEF Covers
    <3> QED BY <3>1, <3>3, <3>4 DEF Covers
  <2> QED BY <1>1, <2>1, <2>2 DEF JobAt
<1>2. CASE pc[w] \notin {"sections", "prepare", "embed", "persist"}
  BY <1>2 DEF JobAt
<1> QED BY <1>1, <1>2

LEMMA IndexStays ==
  ASSUME Remembered, IndexInv, UNCHANGED index
  PROVE  IndexInv'
<1> SUFFICES ASSUME NEW p \in Pages, index[p].stamp > 0
             PROVE  Covers(p, index[p].stamp, index[p].blocks, SectionsOf(p))'
  BY DEF IndexInv
<1>1. Covers(p, index[p].stamp, index[p].blocks, SectionsOf(p))
  BY DEF IndexInv
<1> QED BY <1>1, CoversStays DEF Covers, SectionsOf

-----------------------------------------------------------------------------
LEMMA IndexStep ==
  ASSUME IInv, NEW w \in Indexers, Index(w)
  PROVE  IInv'
<1> USE DEF IInv
<1>1. UNCHANGED notion
  BY DEF Index, StartIndex, ReadMetadata, ReadSection, ReaderFails, Prepare, Embed, EmbedFails,
         Persist, notion
<1>2. NotionInv' /\ Remembered
  BY <1>1, NothingChanged
<1>3. /\ pc' \in [Indexers -> Steps] /\ DOMAIN job' = Indexers
      /\ \A x \in Indexers : x # w => pc'[x] = pc[x] /\ job'[x] = job[x]
  BY DEF JobInv, Index, StartIndex, ReadMetadata, ReadSection, ReaderFails, Prepare, Embed,
         EmbedFails, Persist, Return, Goto, Steps
<1>4. \A x \in Indexers : x # w => JobAt(x)'
  BY <1>2, <1>3, JobStays DEF JobInv, JobAt
<1>5. ASSUME Return(w) PROVE JobAt(w)'
  <2>1. pc'[w] = "idle" /\ job'[w] = NoJob
    BY <1>5 DEF JobInv, Return, Goto
  <2> QED BY <2>1 DEF JobAt, NoJob, Fields
<1>6. JobAt(w) /\ DOMAIN job[w] = Fields /\ (pc[w] # "idle" => job[w].page \in Pages)
  BY DEF JobInv, JobAt
<1>7. ASSUME NEW p \in Pages, StartIndex(w, p) PROVE JobAt(w)' /\ UNCHANGED index
  <2>1. pc'[w] = "metadata" /\ job'[w] = [NoJob EXCEPT !.page = p]
    BY <1>7 DEF JobInv, StartIndex, Goto
  <2> QED BY <1>7, <2>1 DEF StartIndex, JobAt, NoJob, Fields
<1>8. ASSUME ReadMetadata(w) PROVE JobAt(w)' /\ UNCHANGED index
  <2> DEFINE p == job[w].page
  <2>1. /\ pc[w] = "metadata" /\ pc'[w] = "sections" /\ p \in Pages /\ job[w].blocks = {}
        /\ DOMAIN job'[w] = Fields /\ job'[w].page = p /\ job'[w].blocks = {}
        /\ job'[w].stamp = Len(began[p]) /\ job'[w].next = 1
    BY <1>6, <1>8 DEF JobInv, JobAt, ReadMetadata, Stamp, Goto, Fields
  <2>2. Len(began[p]) \in 1 .. Len(began[p])
    BY <2>1 DEF NotionInv
  <2>3. ReadSoFar(w)' = {}
    BY <2>1 DEF ReadSoFar
  <2>4. Covers(job[w].page, job[w].stamp, job[w].blocks, ReadSoFar(w))'
    BY <1>1, <2>1, <2>2, <2>3 DEF Covers, notion
  <2>5. job'[w].next \in 1 .. Len(Outline[job'[w].page])
    BY <2>1, OutlineType
  <2> QED BY <1>8, <2>1, <2>4, <2>5 DEF JobAt, ReadMetadata
<1>9. ASSUME ReadSection(w) PROVE JobAt(w)' /\ UNCHANGED index
  <2> DEFINE p == job[w].page
             i == job[w].next
             kids == Children(Outline[p][i])
  <2>1. /\ pc[w] = "sections" /\ p \in Pages
        /\ pc'[w] = IF i = Len(Outline[p]) THEN "prepare" ELSE "sections"
        /\ DOMAIN job'[w] = Fields /\ job'[w].page = p /\ job'[w].blocks = job[w].blocks \cup kids
        /\ job'[w].stamp = job[w].stamp /\ job'[w].next = i + 1
    BY <1>6, <1>9 DEF JobInv, ReadSection, Goto, Fields
  <2>2. Covers(p, job[w].stamp, job[w].blocks, ReadSoFar(w)) /\ i \in 1 .. Len(Outline[p])
    BY <1>6, <2>1 DEF JobAt
  <2>3. Len(Outline[p]) \in Nat
    BY <2>1, OutlineType
  <2>4. ReadSoFar(w)' = ReadSoFar(w) \cup {Outline[p][i]}
    BY <2>1, <2>2, <2>3 DEF ReadSoFar
  <2>5. kids \subseteq Reads /\ \A r \in kids : r.version >= began[p][job[w].stamp][r.block]
    <3>1. Outline[p][i] \in Sections
      BY <2>1, <2>2, PagesAssumption DEF PagesAssumption
    <3>2. \A b \in Blocks : version[b] \in Nat /\ version[b] >= began[p][job[w].stamp][b]
      BY <2>1, <2>2 DEF NotionInv, Covers
    <3> QED BY <3>1, <3>2 DEF Children, Reads
  <2>6. Covers(job[w].page, job[w].stamp, job[w].blocks, ReadSoFar(w))'
    <3> HIDE DEF kids
    <3>1. \A b \in Blocks : place[b] = Outline[p][i] =>
             [section |-> place[b], block |-> b, version |-> version[b]] \in kids
      BY DEF kids, Children
    <3> QED BY <1>1, <2>1, <2>2, <2>4, <2>5, <3>1 DEF Covers, notion
  <2>7. i = Len(Outline[p]) \/ i + 1 \in 1 .. Len(Outline[p])
    BY <2>2, <2>3
  <2>8. JobAt(w)'
    <3> HIDE DEF p, i, kids
    <3>1. job'[w].page \in Pages
      BY <2>1
    <3>2. CASE i = Len(Outline[p])
      BY <2>1, <2>6, <3>1, <3>2 DEF JobAt
    <3>3. CASE i # Len(Outline[p])
      BY <2>1, <2>6, <2>7, <3>1, <3>3 DEF JobAt
    <3> QED BY <3>2, <3>3
  <2> QED BY <1>9, <2>8 DEF ReadSection
<1>10. ASSUME ReaderFails(w) PROVE JobAt(w)' /\ UNCHANGED index
  BY <1>5, <1>10 DEF ReaderFails
<1>11. ASSUME Prepare(w) \/ Embed(w) \/ EmbedFails(w) PROVE JobAt(w)' /\ UNCHANGED index
  <2>1. UNCHANGED index
    BY <1>11 DEF Prepare, Embed, EmbedFails
  <2>2. CASE Return(w)
    BY <1>5, <2>1, <2>2
  <2>3. CASE ~Return(w)
    <3>1. /\ DOMAIN job'[w] = Fields
          /\ job'[w].page = job[w].page /\ job'[w].stamp = job[w].stamp
          /\ job'[w].blocks = job[w].blocks /\ job'[w].next = job[w].next
      <4>1. CASE Prepare(w)
        BY <1>6, <2>3, <4>1 DEF JobInv, Prepare, Fields
      <4>2. CASE Embed(w)
        BY <1>6, <2>3, <4>2 DEF JobInv, Embed, Fields
      <4>3. CASE EmbedFails(w)
        BY <1>6, <2>3, <4>3 DEF JobInv, EmbedFails, Fields
      <4> QED BY <1>11, <4>1, <4>2, <4>3
    <3>2. {pc[w], pc'[w]} \subseteq {"prepare", "embed", "persist"}
      BY <1>11, <2>3 DEF JobInv, Prepare, Embed, EmbedFails, Goto
    <3> QED BY <1>2, <1>6, <2>1, <3>1, <3>2, JobStays
  <2> QED BY <2>2, <2>3
<1>12. ASSUME Persist(w) PROVE JobAt(w)' /\ IndexInv'
  <2> DEFINE p == job[w].page
  <2>1. JobAt(w)'
    BY <1>5, <1>12 DEF Persist
  <2>2. p \in Pages /\ Covers(p, job[w].stamp, job[w].blocks, SectionsOf(p))
    <3>1. /\ pc[w] = "persist" /\ p \in Pages /\ job[w].next = Len(Outline[p]) + 1
          /\ Covers(p, job[w].stamp, job[w].blocks, ReadSoFar(w))
      BY <1>6, <1>12 DEF Persist, JobAt
    <3>2. ReadSoFar(w) = SectionsOf(p)
      BY <3>1, OutlineType DEF ReadSoFar, SectionsOf
    <3> QED BY <3>1, <3>2
  <2>3. CASE index' = index
    BY <1>2, <2>1, <2>3, IndexStays
  <2>4. CASE index' = [index EXCEPT ![p] = Row(w)]
    <3>1. Row(w).stamp = job[w].stamp /\ Row(w).blocks = job[w].blocks
      BY DEF Row
    <3>2. ASSUME NEW q \in Pages, index'[q].stamp > 0
          PROVE  Covers(q, index[q].stamp, index[q].blocks, SectionsOf(q))'
      <4>1. CASE q = p
        BY <1>1, <2>2, <2>4, <3>1, <4>1 DEF IndexInv, Covers, notion, SectionsOf
      <4>2. CASE q # p
        BY <1>1, <2>4, <3>2, <4>2 DEF IndexInv, Covers, notion, SectionsOf
      <4> QED BY <4>1, <4>2
    <3>3. DOMAIN index' = Pages
      BY <2>4 DEF IndexInv
    <3> QED BY <2>1, <3>2, <3>3 DEF IndexInv
  <2> QED BY <1>12, <2>3, <2>4 DEF Persist
<1>13. JobAt(w)' /\ IndexInv'
  BY <1>2, <1>7, <1>8, <1>9, <1>10, <1>11, <1>12, IndexStays DEF Index
<1>14. JobInv'
  BY <1>3, <1>4, <1>13 DEF JobInv
<1> QED BY <1>2, <1>13, <1>14

LEMMA NextInv == IInv /\ [Next]_vars => IInv'
<1> SUFFICES ASSUME IInv, [Next]_vars PROVE IInv'
  OBVIOUS
<1>1. ASSUME Remembered, NotionInv', UNCHANGED <<index, pc, job>> PROVE IInv'
  BY <1>1, JobStays, IndexStays DEF IInv, JobInv, JobAt
<1>2. ASSUME NEW b \in Blocks, NEW s \in Sections, Change(b, s) PROVE IInv'
  BY <1>1, <1>2, ChangeRemembers DEF IInv, Change
<1>3. ASSUME NEW a \in Askers, Question(a) PROVE IInv'
  <2>1. UNCHANGED indexVars
    BY <1>3 DEF Question, Ask, EmbedQuestion, Compare, CompareFails, Match, Answer, Succeed, Fail
  <2> QED BY <1>1, <2>1, NothingChanged DEF IInv, indexVars
<1>4. CASE UNCHANGED vars
  BY <1>1, <1>4, NothingChanged DEF IInv, vars, indexVars
<1> QED BY <1>2, <1>3, <1>4, IndexStep DEF Next, IndexNext

\* Whatever is edited or moved while a page is read, and however coarse the
\* stamps are, the index of a page is not older than its stamp, in no part.
THEOREM StampsCoverContent == Spec => []StampCoversContent
<1>1. IInv => StampCoversContent
  BY DEF IInv, IndexInv, Covers, StampCoversContent
<1> QED BY <1>1, InitInv, NextInv, PTL DEF Spec

-----------------------------------------------------------------------------
(* The work of an indexer, and the rows it writes. *)

TextOf(j, i) == {r \in j.blocks : r.section = Outline[j.page][i]}

\* A vector is of the text it is said to be of, and a text without one is in a
\* batch that is left.
Embedding(j) ==
    /\ \A v \in j.vectors : v[1] \in DOMAIN Outline[j.page] /\ v[2] = TextOf(j, v[1])
    /\ \A m \in 1 .. Len(j.batches) : \A k \in 1 .. Len(j.batches[m]) :
         j.batches[m][k] \in DOMAIN Outline[j.page]
    /\ \A i \in DOMAIN Outline[j.page] :
         \/ <<i, TextOf(j, i)>> \in j.vectors
         \/ \E m \in 1 .. Len(j.batches) : \E k \in 1 .. Len(j.batches[m]) :
              j.batches[m][k] = i

Working(at, j) ==
    /\ at \notin {"embed", "persist"} => j.vectors = {}
    /\ at \in {"embed", "persist"} => Embedding(j)
    /\ at = "embed" => Len(j.batches) > 0
    /\ at = "persist" => j.batches = <<>>

\* A chunk is found by one vector, its own.
ChunksOwnVectors ==
    \A p \in Pages : /\ IsFiniteSet(index[p].chunks)
                     /\ \A c \in index[p].chunks : c.vector = {c.text}

WorkInv ==
    /\ IndexTypeOK
    /\ \A w \in Indexers : Working(pc[w], job[w])
    /\ ChunksOwnVectors
    /\ IndexIsWhole

LEMMA NoJobIs ==
  NoJob \in Jobs /\ NoJob.vectors = {}
<1>1. (CHOOSE p \in Pages : TRUE) \in Pages
  BY PagesAssumption DEF PagesAssumption
<1>2. <<>> \in Seq(Seq(Nat))
  OBVIOUS
<1> QED BY <1>1, <1>2 DEF NoJob, Jobs

LEMMA InitWork == Init => WorkInv
<1> SUFFICES ASSUME Init PROVE WorkInv
  OBVIOUS
<1> USE DEF Init, IndexInit
<1>1. version \in [Blocks -> Nat]
  OBVIOUS
<1>2. began \in [Pages -> Seq([Blocks -> Nat])]
  <2>1. <<version>> \in Seq([Blocks -> Nat])
    BY <1>1
  <2> QED BY <2>1
<1>3. index \in [Pages -> Rows] /\ pc \in [Indexers -> Steps] /\ job \in [Indexers -> Jobs]
  BY NoJobIs DEF NoRow, Rows, Steps
<1>4. IndexTypeOK
  BY <1>1, <1>2, <1>3 DEF IndexTypeOK
<1>5. \A w \in Indexers : Working(pc[w], job[w])
  BY NoJobIs DEF Working
<1>6. ChunksOwnVectors
  <2>1. IsFiniteSet({})
    BY FS_EmptySet
  <2> QED BY <2>1 DEF ChunksOwnVectors, NoRow
<1>7. IndexIsWhole
  BY DEF IndexIsWhole, NoRow
<1> QED BY <1>4, <1>5, <1>6, <1>7 DEF WorkInv

\* Each of these texts is in a batch, and nothing else is.
AllOf(b, n) ==
    /\ b \in Seq(Seq(Nat)) /\ Len(b) > 0
    /\ \A m \in 1 .. Len(b) : \A k \in 1 .. Len(b[m]) : b[m][k] \in 1 .. n
    /\ \A i \in 1 .. n : \E m \in 1 .. Len(b) : \E k \in 1 .. Len(b[m]) : b[m][k] = i

LEMMA PlanHasAll ==
  ASSUME NEW n \in Nat \ {0}, NEW sizes, DOMAIN sizes = 1 .. n, Len(sizes) = n, Plannable(sizes)
  PROVE  AllOf(Plan(sizes), n)
<1> DEFINE b == Plan(sizes)
<1>1. Holds(b, n)
  <2>1. \A i \in 1 .. n : sizes[i] \in 1 .. MaxBytes
    BY DEF Plannable
  <2> QED BY <2>1, PlanIs DEF Planned
<1> HIDE DEF b
<1>2. /\ b \in Seq(Seq(Nat))
      /\ \A m \in 1 .. Len(b) : \A k \in 1 .. Len(b[m]) : b[m][k] \in 1 .. n
      /\ \A i \in 1 .. n : \E m \in 1 .. Len(b) : \E k \in 1 .. Len(b[m]) : b[m][k] = i
  BY <1>1 DEF Holds
<1>3. Len(b) > 0
  <2>1. 1 \in 1 .. n /\ Len(b) \in Nat
    BY <1>2
  <2>2. PICK m \in 1 .. Len(b) : TRUE
    BY <1>2, <2>1
  <2> QED BY <2>1, <2>2
<1>4. AllOf(b, n)
  BY <1>2, <1>3 DEF AllOf
<1> QED BY <1>4 DEF b

\* A valid response gives each text of the batch its vector.
LEMMA EmbeddedMore ==
  ASSUME NEW j \in Jobs, Embedding(j), Len(j.batches) > 0, NEW next \in Jobs,
         next.page = j.page, next.blocks = j.blocks, next.batches = Tail(j.batches),
         next.vectors = j.vectors \cup
            {<<Head(j.batches)[k], TextOf(j, Head(j.batches)[k])>> : k \in DOMAIN Head(j.batches)}
  PROVE  Embedding(next)
<1> DEFINE b == j.batches
           t == Tail(b)
           page == Outline[j.page]
<1>1. b \in Seq(Seq(Nat)) /\ Len(b) \in Nat /\ Len(b) > 0
  BY DEF Jobs
<1>2. /\ Head(b) = b[1] /\ Len(t) = Len(b) - 1 /\ DOMAIN b[1] = 1 .. Len(b[1])
      /\ \A m \in 1 .. Len(t) : m + 1 \in 1 .. Len(b) /\ t[m] = b[m + 1]
  BY <1>1
<1>3. /\ \A v \in j.vectors : v[1] \in DOMAIN page /\ v[2] = TextOf(j, v[1])
      /\ \A m \in 1 .. Len(b) : \A k \in 1 .. Len(b[m]) : b[m][k] \in DOMAIN page
      /\ \A i \in DOMAIN page :
           \/ <<i, TextOf(j, i)>> \in j.vectors
           \/ \E m \in 1 .. Len(b) : \E k \in 1 .. Len(b[m]) : b[m][k] = i
  BY DEF Embedding
<1>4. \A i : TextOf(next, i) = TextOf(j, i)
  BY DEF TextOf
<1>5. 1 \in 1 .. Len(b)
  BY <1>1
<1>6. next.vectors = j.vectors \cup {<<b[1][k], TextOf(j, b[1][k])>> : k \in 1 .. Len(b[1])}
  BY <1>2
<1>7. next.batches = t /\ Outline[next.page] = page
  OBVIOUS
<1> HIDE DEF b, t, page
<1>8. ASSUME NEW v \in next.vectors
      PROVE  v[1] \in DOMAIN page /\ v[2] = TextOf(next, v[1])
  <2>1. CASE v \in j.vectors
    BY <1>3, <1>4, <2>1
  <2>2. CASE v \in {<<b[1][k], TextOf(j, b[1][k])>> : k \in 1 .. Len(b[1])}
    BY <1>3, <1>4, <1>5, <2>2
  <2> QED BY <1>6, <2>1, <2>2
<1>9. \A m \in 1 .. Len(t) : \A k \in 1 .. Len(t[m]) : t[m][k] \in DOMAIN page
  BY <1>2, <1>3
<1>10. ASSUME NEW i \in DOMAIN page
       PROVE  \/ <<i, TextOf(next, i)>> \in next.vectors
              \/ \E m \in 1 .. Len(t) : \E k \in 1 .. Len(t[m]) : t[m][k] = i
  <2>1. CASE <<i, TextOf(j, i)>> \in j.vectors
    BY <1>4, <1>6, <2>1
  <2>2. CASE \E m \in 1 .. Len(b) : \E k \in 1 .. Len(b[m]) : b[m][k] = i
    <3>1. PICK m \in 1 .. Len(b) : \E k \in 1 .. Len(b[m]) : b[m][k] = i
      BY <2>2
    <3>2. CASE m = 1
      BY <1>4, <1>6, <3>1, <3>2
    <3>3. CASE m # 1
      <4>1. m - 1 \in 1 .. Len(t) /\ t[m - 1] = b[m]
        <5>1. m - 1 \in 1 .. Len(t) /\ (m - 1) + 1 = m
          BY <1>1, <1>2, <3>3
        <5> QED BY <1>2, <5>1
      <4> QED BY <3>1, <4>1
    <3> QED BY <3>2, <3>3
  <2> QED BY <1>3, <2>1, <2>2
<1>11. \A m \in 1 .. Len(next.batches) : \A k \in 1 .. Len(next.batches[m]) :
          next.batches[m][k] \in DOMAIN Outline[next.page]
  BY <1>7, <1>9
<1>12. ASSUME NEW i \in DOMAIN Outline[next.page]
       PROVE  \/ <<i, TextOf(next, i)>> \in next.vectors
              \/ \E m \in 1 .. Len(next.batches) : \E k \in 1 .. Len(next.batches[m]) :
                   next.batches[m][k] = i
  <2>1. i \in DOMAIN page
    BY <1>7
  <2>2. CASE \E m \in 1 .. Len(t) : \E k \in 1 .. Len(t[m]) : t[m][k] = i
    <3>1. PICK m \in 1 .. Len(t) : \E k \in 1 .. Len(t[m]) : t[m][k] = i
      BY <2>2
    <3> QED BY <1>7, <3>1
  <2> QED BY <1>10, <2>1, <2>2
<1> QED BY <1>7, <1>8, <1>11, <1>12 DEF Embedding

\* What is persisted is of one reading, with a vector for each text.
LEMMA RowIsWhole ==
  ASSUME NEW w, job[w] \in Jobs, Embedding(job[w]), job[w].batches = <<>>
  PROVE  /\ Row(w) \in Rows /\ Row(w).stamp = job[w].stamp /\ Row(w).blocks = job[w].blocks
         /\ IsFiniteSet(Row(w).chunks)
         /\ {c.section : c \in Row(w).chunks} = SectionsOf(job[w].page)
         /\ \A c \in Row(w).chunks :
              /\ c.text = {r \in Row(w).blocks : r.section = c.section}
              /\ c.vector = {c.text}
<1> DEFINE j == job[w]
           n == Len(Outline[j.page])
           Chunk(i) == [section |-> Outline[j.page][i], text |-> Text(w, i),
                        vector |-> {v[2] : v \in {u \in j.vectors : u[1] = i}}]
           chunks == {Chunk(i) : i \in 1 .. n}
<1>1. j.page \in Pages /\ n \in Nat /\ DOMAIN Outline[j.page] = 1 .. n
      /\ j.blocks \subseteq Reads /\ j.stamp \in Nat
  BY OutlineType DEF Jobs
<1>2. Row(w).stamp = j.stamp /\ Row(w).blocks = j.blocks /\ Row(w).chunks = chunks
  BY <1>1 DEF Row
<1>3. ASSUME NEW i \in 1 .. n
      PROVE  /\ Text(w, i) = {r \in j.blocks : r.section = Outline[j.page][i]}
             /\ {v[2] : v \in {u \in j.vectors : u[1] = i}} = {Text(w, i)}
             /\ Outline[j.page][i] \in Sections
  <2>1. Text(w, i) = TextOf(j, i)
    BY DEF Text, TextOf
  <2>2. <<i, TextOf(j, i)>> \in j.vectors
    <3>1. Len(j.batches) = 0
      OBVIOUS
    <3> QED BY <1>1, <3>1 DEF Embedding
  <2>3. \A v \in j.vectors : v[1] = i => v[2] = TextOf(j, i)
    BY DEF Embedding
  <2>4. {v[2] : v \in {u \in j.vectors : u[1] = i}} = {TextOf(j, i)}
    <3> HIDE DEF j
    <3> QED BY <2>2, <2>3
  <2>5. Outline[j.page][i] \in Sections
    BY <1>1, PagesAssumption DEF PagesAssumption
  <2> QED BY <2>1, <2>4, <2>5 DEF Text
<1>4. ASSUME NEW i \in 1 .. n
      PROVE  /\ Chunk(i) \in Chunks
             /\ Chunk(i).section = Outline[j.page][i]
             /\ Chunk(i).text = {r \in j.blocks : r.section = Chunk(i).section}
             /\ Chunk(i).vector = {Chunk(i).text}
  <2>1. Text(w, i) \in SUBSET Reads
    BY <1>1, <1>3
  <2>2. {v[2] : v \in {u \in j.vectors : u[1] = i}} \in SUBSET SUBSET Reads
    BY <1>3, <2>1
  <2> QED BY <1>3, <2>1, <2>2 DEF Chunks
<1> HIDE DEF Chunk
<1>5. IsFiniteSet(chunks)
  <2> DEFINE f == [i \in 1 .. n |-> Chunk(i)]
  <2>1. f \in Surjection(1 .. n, chunks)
    BY DEF Surjection
  <2> HIDE DEF f, chunks, n
  <2>2. IsFiniteSet(1 .. n)
    <3>1. 1 \in Int /\ n \in Int
      BY <1>1
    <3> QED BY <3>1, FS_Interval
  <2> QED BY <2>1, <2>2, FS_Surjection
<1>6. {c.section : c \in chunks} = SectionsOf(j.page)
  BY <1>1, <1>4 DEF SectionsOf
<1>7. \A c \in chunks : c.text = {r \in j.blocks : r.section = c.section} /\ c.vector = {c.text}
  BY <1>4
<1>8. Row(w) \in Rows
  <2>1. chunks \in SUBSET Chunks
    BY <1>4
  <2>2. Row(w) = [stamp |-> j.stamp, blocks |-> j.blocks, chunks |-> chunks]
    BY <1>2 DEF Row
  <2> HIDE DEF chunks, j
  <2> QED BY <1>1, <2>1, <2>2 DEF Rows
<1> QED BY <1>2, <1>5, <1>6, <1>7, <1>8

-----------------------------------------------------------------------------
LEMMA IndexWorks ==
  ASSUME WorkInv, NEW w \in Indexers, Index(w)
  PROVE  WorkInv'
<1> DEFINE j == job[w]
<1>1. UNCHANGED <<configured, notion>>
  BY DEF Index, StartIndex, ReadMetadata, ReadSection, ReaderFails, Prepare, Embed, EmbedFails,
         Persist
<1>2. /\ pc \in [Indexers -> Steps] /\ job \in [Indexers -> Jobs]
      /\ version \in [Blocks -> Nat] /\ place \in [Blocks -> Sections]
      /\ began \in [Pages -> Seq([Blocks -> Nat])] /\ index \in [Pages -> Rows]
  BY DEF WorkInv, IndexTypeOK
<1>3. j \in Jobs /\ pc[w] \in Steps /\ Working(pc[w], j)
  BY <1>2 DEF WorkInv
<1>0. j \in Jobs
  BY <1>3
<1>4. /\ j.page \in Pages /\ j.stamp \in Nat /\ j.blocks \in SUBSET Reads /\ j.next \in Nat
      /\ j.batches \in Seq(Seq(Nat)) /\ j.vectors \in SUBSET (Nat \X SUBSET Reads)
      /\ j.attempts \in Nat
      /\ DOMAIN j = Fields
  BY <1>3 DEF Jobs, Fields
<1> DEFINE Works == /\ pc' = [pc EXCEPT ![w] = pc'[w]] /\ job' = [job EXCEPT ![w] = job'[w]]
                    /\ pc'[w] \in Steps /\ job'[w] \in Jobs /\ Working(pc'[w], job'[w])
<1>5. ASSUME Return(w) PROVE Works
  <2>1. /\ pc' = [pc EXCEPT ![w] = "idle"] /\ pc'[w] = "idle"
        /\ job' = [job EXCEPT ![w] = NoJob] /\ job'[w] = NoJob
    BY <1>2, <1>5 DEF Return, Goto
  <2> QED BY <2>1, NoJobIs DEF Working, Steps
<1>6. ASSUME NEW p \in Pages, StartIndex(w, p) PROVE Works
  <2>1. /\ pc' = [pc EXCEPT ![w] = "metadata"] /\ pc'[w] = "metadata"
        /\ job' = [job EXCEPT ![w] = job'[w]] /\ job'[w] = [NoJob EXCEPT !.page = p]
    BY <1>2, <1>6 DEF StartIndex, Goto
  <2>2. job'[w] \in Jobs /\ job'[w].vectors = {}
    BY <2>1, NoJobIs DEF Jobs
  <2> QED BY <2>1, <2>2 DEF Working, Steps
<1>7. ASSUME ReadMetadata(w) PROVE Works
  <2>1. /\ pc[w] = "metadata" /\ pc' = [pc EXCEPT ![w] = "sections"] /\ pc'[w] = "sections"
        /\ job' = [job EXCEPT ![w] = job'[w]]
        /\ job'[w] = [j EXCEPT !.stamp = Len(began[j.page]), !.next = 1]
    BY <1>2, <1>7 DEF ReadMetadata, Goto, Stamp
  <2>2. Len(began[j.page]) \in Nat
    BY <1>2, <1>4
  <2>3. job'[w] \in Jobs /\ job'[w].vectors = j.vectors
    <3> HIDE DEF j
    <3> DEFINE stamp == Len(began[j.page])
    <3> HIDE DEF stamp
    <3>1. job'[w] \in Jobs
      <4>1. stamp \in Nat /\ 1 \in Nat /\ job'[w] = [j EXCEPT !.stamp = stamp, !.next = 1]
        BY <2>1, <2>2 DEF stamp
      <4> QED BY <1>0, <4>1 DEF Jobs
    <3> QED BY <1>4, <2>1, <3>1 DEF Fields
  <2>4. j.vectors = {}
    BY <1>3, <2>1 DEF Working
  <2> QED BY <2>1, <2>3, <2>4 DEF Working, Steps
<1>8. ASSUME ReadSection(w) PROVE Works
  <2> DEFINE kids == Children(Outline[j.page][j.next])
  <2>1. /\ pc[w] = "sections" /\ pc' = [pc EXCEPT ![w] = pc'[w]]
        /\ pc'[w] \in {"prepare", "sections"}
        /\ job' = [job EXCEPT ![w] = job'[w]]
        /\ job'[w] = [j EXCEPT !.blocks = j.blocks \cup kids, !.next = j.next + 1]
    BY <1>2, <1>8 DEF ReadSection, Goto
  <2>2. kids \subseteq Reads
    BY <1>2 DEF Children, Reads
  <2> HIDE DEF kids
  <2>3. job'[w] \in Jobs /\ job'[w].vectors = j.vectors
    <3> HIDE DEF j
    <3>1. j.next + 1 \in Nat /\ j.blocks \cup kids \in SUBSET Reads
      BY <1>4, <2>2
    <3>2. job'[w] \in Jobs
      BY <1>0, <2>1, <3>1 DEF Jobs
    <3> QED BY <1>4, <2>1, <3>2 DEF Fields
  <2>4. j.vectors = {}
    BY <1>3, <2>1 DEF Working
  <2> QED BY <2>1, <2>3, <2>4 DEF Working, Steps
<1>9. ASSUME Prepare(w) PROVE Works
  <2>1. pc[w] = "prepare" /\ j.vectors = {}
    BY <1>3, <1>9 DEF Prepare, Working
  <2>2. CASE Return(w)
    BY <1>5, <2>2
  <2>3. CASE /\ Plannable(Sizes(w)) /\ Goto(w, "embed")
             /\ job' = [job EXCEPT ![w].batches = Plan(Sizes(w))]
    <3> DEFINE n == Len(Outline[j.page])
    <3>1. n \in Nat \ {0} /\ DOMAIN Outline[j.page] = 1 .. n
      BY <1>4, OutlineType
    <3>2. DOMAIN Sizes(w) = 1 .. n /\ Len(Sizes(w)) = n
      <4>1. Sizes(w) = [i \in 1 .. n |-> 1 + Cardinality(Text(w, i))]
        BY <3>1 DEF Sizes
      <4> HIDE DEF n
      <4> QED BY <3>1, <4>1
    <3> DEFINE b == Plan(Sizes(w))
    <3>3. /\ b \in Seq(Seq(Nat)) /\ Len(b) > 0
          /\ \A m \in 1 .. Len(b) : \A k \in 1 .. Len(b[m]) : b[m][k] \in 1 .. n
          /\ \A i \in 1 .. n : \E m \in 1 .. Len(b) : \E k \in 1 .. Len(b[m]) : b[m][k] = i
      <4>1. Plannable(Sizes(w))
        BY <2>3
      <4> HIDE DEF n
      <4>2. AllOf(b, n)
        BY <3>1, <3>2, <4>1, PlanHasAll
      <4> HIDE DEF b
      <4> QED BY <4>2 DEF AllOf
    <3> HIDE DEF b
    <3>4. /\ pc' = [pc EXCEPT ![w] = "embed"] /\ pc'[w] = "embed"
          /\ job' = [job EXCEPT ![w] = job'[w]] /\ job'[w] = [j EXCEPT !.batches = b]
      BY <1>2, <2>3 DEF Goto, b
    <3>5. job'[w] \in Jobs /\ job'[w].vectors = {} /\ job'[w].batches = b
          /\ job'[w].page = j.page
      <4> HIDE DEF j
      <4>1. job'[w] \in Jobs
        BY <1>0, <3>3, <3>4 DEF Jobs
      <4> QED BY <1>4, <2>1, <3>4, <4>1 DEF Fields
    <3>6. Embedding(job'[w])
      <4>1. DOMAIN Outline[job'[w].page] = 1 .. n
        BY <3>1, <3>5
      <4> HIDE DEF n, j
      <4>2. ASSUME NEW i \in 1 .. n
            PROVE  \E m \in 1 .. Len(job'[w].batches) :
                     \E k \in 1 .. Len(job'[w].batches[m]) : job'[w].batches[m][k] = i
        <5>1. PICK m \in 1 .. Len(b) : \E k \in 1 .. Len(b[m]) : b[m][k] = i
          BY <3>3
        <5> QED BY <3>5, <5>1
      <4>3. \A m \in 1 .. Len(job'[w].batches) : \A k \in 1 .. Len(job'[w].batches[m]) :
              job'[w].batches[m][k] \in 1 .. n
        BY <3>3, <3>5
      <4> QED BY <3>5, <4>1, <4>2, <4>3 DEF Embedding
    <3> QED BY <3>3, <3>4, <3>5, <3>6 DEF Working, Steps
  <2> QED BY <1>9, <2>2, <2>3 DEF Prepare
<1>10. ASSUME Embed(w) PROVE Works
  <2>1. pc[w] = "embed" /\ Embedding(j) /\ Len(j.batches) > 0
    BY <1>3, <1>10 DEF Embed, Working
  <2>2. CASE Return(w)
    BY <1>5, <2>2
  <2>3. ASSUME NEW response \in Responses(Head(j.batches)), Valid(response),
               job' = [job EXCEPT
                 ![w].vectors = @ \cup Vectors(w, Head(j.batches), response),
                 ![w].batches = Tail(@), ![w].attempts = 0],
               Goto(w, IF Len(j.batches) = 1 THEN "persist" ELSE "embed")
        PROVE  Works
    <3> DEFINE b == Head(j.batches)
               new == {<<b[k], TextOf(j, b[k])>> : k \in DOMAIN b}
    <3>1. Vectors(w, b, response) = new
      <4>1. \A k \in DOMAIN b : response[k] = k
        BY <2>3 DEF Responses, Valid
      <4>2. \A i : Text(w, i) = TextOf(j, i)
        BY DEF Text, TextOf
      <4> HIDE DEF b, j
      <4> QED BY <4>1, <4>2 DEF Vectors
    <3>2. /\ pc' = [pc EXCEPT ![w] = pc'[w]]
          /\ pc'[w] = IF Len(j.batches) = 1 THEN "persist" ELSE "embed"
          /\ job' = [job EXCEPT ![w] = job'[w]]
          /\ job'[w] = [j EXCEPT !.vectors = j.vectors \cup new, !.batches = Tail(j.batches),
                                 !.attempts = 0]
      <4> HIDE DEF new
      <4> QED BY <1>2, <2>3, <3>1 DEF Goto
    <3>3. /\ b \in Seq(Nat) /\ Tail(j.batches) \in Seq(Seq(Nat))
          /\ Len(Tail(j.batches)) = Len(j.batches) - 1 /\ Len(j.batches) \in Nat
      BY <1>4, <2>1
    <3>4. new \subseteq Nat \X SUBSET Reads
      <4>1. \A k \in DOMAIN b : b[k] \in Nat
        BY <3>3
      <4>2. \A i : TextOf(j, i) \in SUBSET Reads
        BY <1>4 DEF TextOf
      <4> HIDE DEF b, j
      <4> QED BY <4>1, <4>2
    <3> HIDE DEF new
    <3>5. /\ job'[w] \in Jobs /\ job'[w].page = j.page /\ job'[w].blocks = j.blocks
          /\ job'[w].batches = Tail(j.batches) /\ job'[w].vectors = j.vectors \cup new
      <4> HIDE DEF j
      <4>1. j.vectors \cup new \in SUBSET (Nat \X SUBSET Reads)
        BY <1>4, <3>4
      <4> DEFINE vectors == j.vectors \cup new
                 left == Tail(j.batches)
      <4>2. job'[w] = [j EXCEPT !.vectors = vectors, !.batches = left, !.attempts = 0]
        BY <3>2
      <4>3. left \in Seq(Seq(Nat)) /\ vectors \in SUBSET (Nat \X SUBSET Reads) /\ 0 \in Nat
        BY <3>3, <4>1
      <4> HIDE DEF vectors, left
      <4>4. job'[w] \in Jobs
        BY <1>0, <4>2, <4>3 DEF Jobs
      <4> QED BY <1>4, <4>2, <4>4 DEF Fields, vectors, left
    <3>6. Embedding(job'[w])
      BY <1>3, <2>1, <3>5, EmbeddedMore DEF new
    <3> HIDE DEF j
    <3>7. ASSUME Len(j.batches) = 1 PROVE Tail(j.batches) = <<>>
      <4>1. Len(Tail(j.batches)) = 0
        BY <3>3, <3>7
      <4> QED BY <3>3, <4>1, EmptySeq
    <3>8. ASSUME Len(j.batches) # 1 PROVE Len(Tail(j.batches)) > 0
      <4>1. Len(j.batches) > 0
        BY <2>1
      <4>2. Len(j.batches) \in Nat /\ Len(Tail(j.batches)) = Len(j.batches) - 1
        BY <3>3
      <4> DEFINE m == Len(j.batches)
                 l == Len(Tail(j.batches))
      <4>3. m > 0 /\ m \in Nat /\ l = m - 1 /\ m # 1
        BY <3>8, <4>1, <4>2
      <4>4. l > 0
        <5> HIDE DEF m, l
        <5> QED BY <4>3
      <4> QED BY <4>4
    <3> QED BY <3>2, <3>5, <3>6, <3>7, <3>8 DEF Working, Steps
  <2> QED BY <1>10, <2>2, <2>3 DEF Embed
<1>11. ASSUME EmbedFails(w) PROVE Works
  <2>1. CASE Return(w)
    BY <1>5, <2>1
  <2>2. CASE job' = [job EXCEPT ![w].attempts = @ + 1] /\ UNCHANGED pc
    <3>1. /\ pc[w] = "embed" /\ pc' = [pc EXCEPT ![w] = pc'[w]] /\ pc'[w] = "embed"
          /\ job' = [job EXCEPT ![w] = job'[w]]
          /\ job'[w] = [j EXCEPT !.attempts = j.attempts + 1]
      BY <1>2, <1>11, <2>2 DEF EmbedFails
    <3>2. /\ job'[w] \in Jobs /\ job'[w].page = j.page /\ job'[w].blocks = j.blocks
          /\ job'[w].batches = j.batches /\ job'[w].vectors = j.vectors
      <4> HIDE DEF j
      <4>1. j.attempts + 1 \in Nat
        BY <1>4
      <4>2. job'[w] \in Jobs
        BY <1>0, <3>1, <4>1 DEF Jobs
      <4> QED BY <1>4, <3>1, <4>2 DEF Fields
    <3>3. Embedding(j) /\ Len(j.batches) > 0
      BY <1>3, <3>1 DEF Working
    <3>4. Embedding(job'[w])
      BY <3>2, <3>3 DEF Embedding, TextOf
    <3> HIDE DEF j
    <3> QED BY <3>1, <3>2, <3>3, <3>4 DEF Working, Steps
  <2> QED BY <1>11, <2>1, <2>2 DEF EmbedFails
<1>12. ASSUME Persist(w) PROVE Works
  BY <1>5, <1>12 DEF Persist
<1>13. ASSUME ReaderFails(w) PROVE Works
  BY <1>5, <1>13 DEF ReaderFails
<1>14. Works
  <2> HIDE DEF Works
  <2> QED BY <1>6, <1>7, <1>8, <1>9, <1>10, <1>11, <1>12, <1>13 DEF Index
<1>15. pc' \in [Indexers -> Steps] /\ job' \in [Indexers -> Jobs]
       /\ \A x \in Indexers : Working(pc'[x], job'[x])
  <2>1. \A x \in Indexers : x # w => pc'[x] = pc[x] /\ job'[x] = job[x]
    BY <1>2, <1>14
  <2>2. \A x \in Indexers : Working(pc[x], job[x])
    BY DEF WorkInv
  <2> QED BY <1>2, <1>14, <2>1, <2>2
<1>16. index' = index \/ (Persist(w) /\ Persistable(w) /\ index' = [index EXCEPT ![j.page] = Row(w)])
  BY DEF Index, StartIndex, ReadMetadata, ReadSection, ReaderFails, Prepare, Embed, EmbedFails,
         Persist
<1>17. index' \in [Pages -> Rows] /\ ChunksOwnVectors' /\ IndexIsWhole'
  <2>1. CASE index' = index
    BY <1>2, <2>1 DEF WorkInv, ChunksOwnVectors, IndexIsWhole, SectionsOf
  <2>2. CASE Persist(w) /\ Persistable(w) /\ index' = [index EXCEPT ![j.page] = Row(w)]
    <3>1. Embedding(j) /\ j.batches = <<>>
      BY <1>3, <2>2 DEF Persist, Working
    <3>2. /\ Row(w) \in Rows /\ Row(w).blocks = j.blocks
          /\ IsFiniteSet(Row(w).chunks)
          /\ {c.section : c \in Row(w).chunks} = SectionsOf(j.page)
          /\ \A c \in Row(w).chunks :
               /\ c.text = {r \in Row(w).blocks : r.section = c.section}
               /\ c.vector = {c.text}
      BY <1>3, <3>1, RowIsWhole
    <3> DEFINE row == Row(w)
               page == j.page
    <3>3. /\ \A q, r \in row.blocks : q.block = r.block => q = r
          /\ \A p \in Pages \ {page} : \A q \in row.blocks, r \in index[p].blocks :
               q.block # r.block
      BY <2>2, <3>2 DEF Persistable, BlocksAreUnique
    <3>4. /\ page \in Pages /\ index' \in [Pages -> Rows] /\ index'[page] = row
          /\ \A p \in Pages : p # page => index'[p] = index[p]
      BY <1>2, <1>4, <2>2, <3>2
    <3> HIDE DEF row, page
    <3>5. ChunksOwnVectors'
      BY <3>2, <3>4 DEF WorkInv, ChunksOwnVectors, row
    <3>6. ASSUME NEW p \in Pages, index'[p].stamp > 0
          PROVE  /\ {c.section : c \in index'[p].chunks} = SectionsOf(p)
                 /\ \A c \in index'[p].chunks :
                      /\ c.text = {r \in index'[p].blocks : r.section = c.section}
                      /\ c.vector = {c.text}
      <4>1. CASE p = page
        BY <3>2, <3>4, <4>1 DEF row, page
      <4>2. CASE p # page
        BY <3>4, <3>6, <4>2 DEF WorkInv, IndexIsWhole
      <4> QED BY <4>1, <4>2
    <3>7. ASSUME NEW p \in Pages, NEW q \in Pages,
                 NEW r \in index'[p].blocks, NEW s \in index'[q].blocks, r.block = s.block
          PROVE  r = s
      <4>1. CASE p = page /\ q = page
        BY <3>3, <3>4, <3>7, <4>1
      <4>2. CASE p = page /\ q # page
        BY <3>3, <3>4, <3>7, <4>2
      <4>3. CASE p # page /\ q = page
        BY <3>3, <3>4, <3>7, <4>3
      <4>4. CASE p # page /\ q # page
        BY <3>4, <3>7, <4>4 DEF WorkInv, IndexIsWhole
      <4> QED BY <4>1, <4>2, <4>3, <4>4
    <3>8. IndexIsWhole'
      BY <3>6, <3>7 DEF IndexIsWhole, SectionsOf
    <3> QED BY <3>4, <3>5, <3>8
  <2> QED BY <1>16, <2>1, <2>2
<1>18. IndexTypeOK'
  BY <1>1, <1>2, <1>15, <1>17 DEF IndexTypeOK, WorkInv, notion
<1> QED BY <1>15, <1>17, <1>18 DEF WorkInv

-----------------------------------------------------------------------------
(* Questions. *)

AskTypeOK ==
    /\ postgres \in BOOLEAN
    /\ ask \in [Askers -> Asks] /\ step \in [Askers -> AskSteps]
    /\ run \in [Askers -> {"none", "running", "succeeded", "failed"}]
    /\ reply \in [Askers -> Replies]
    /\ lost \in Nat

\* What a call knows, by what it does next.
Knows(at, k) ==
    /\ \A m \in k.found : m[1] \in k.scope
    /\ k.mode = "vector" => k.reason = "none" /\ k.vector
    /\ k.reason = "no vectors" => k.indexed = {}
    /\ at \in {"idle", "embed"} => k.reason = "none" /\ ~ k.vector
    /\ at = "compare" /\ k.vector => k.reason = "none"
    /\ at \in {"idle", "embed", "compare", "match"} =>
         k.found = {} /\ k.mode = "lexical" /\ k.indexed = {}

\* What it has said of itself.
Said(at, found, answer, status) ==
    /\ at \notin {"succeed", "fail", "done"} => answer = "none"
    /\ at = "succeed" => answer \in {"answer", "no information"}
    /\ at = "fail" => answer \in {"retrieval error", "model error"}
    /\ at # "done" => status # "succeeded"
    /\ answer = "answer" => found # {}
    /\ answer = "no information" => found = {}
    /\ at = "done" /\ answer \in {"answer", "no information"} => status = "succeeded"
    /\ answer \in {"retrieval error", "model error"} => status # "succeeded"

AskInv ==
    /\ AskTypeOK
    /\ \A a \in Askers : Knows(step[a], ask[a]) /\ Said(step[a], ask[a].found, reply[a], run[a])

LEMMA InitAsks == Init => AskInv
<1> SUFFICES ASSUME Init PROVE AskInv
  OBVIOUS
<1>1. NoAsk \in Asks
  BY DEF NoAsk, Asks, Reasons
<1>2. AskTypeOK
  BY <1>1 DEF Init, AskTypeOK, AskSteps, Replies
<1> QED BY <1>2 DEF Init, AskInv, Knows, Said, NoAsk

\* Every chunk has a vector, so a comparison that finds none had nothing to compare.
LEMMA NothingToCompare ==
  ASSUME WorkInv, NEW a, {} \in Nearest(a)
  PROVE  Candidates(a) = {}
<1> DEFINE chunks == UNION {index[p].chunks : p \in Pages}
           all == Embedded(a)
<1>1. IsFiniteSet(chunks)
  <2> DEFINE rows == {index[p].chunks : p \in Pages}
             f == [p \in Pages |-> index[p].chunks]
  <2>1. f \in Surjection(Pages, rows)
    BY DEF Surjection
  <2>2. \A r \in rows : IsFiniteSet(r)
    BY DEF WorkInv, ChunksOwnVectors
  <2> HIDE DEF f, rows
  <2>3. IsFiniteSet(rows)
    BY <2>1, PagesAssumption, FS_Surjection DEF PagesAssumption
  <2>4. IsFiniteSet(UNION rows)
    BY <2>2, <2>3, FS_UNION
  <2> QED BY <2>4 DEF rows
<1>2. Candidates(a) \in SUBSET (Pages \X chunks)
  BY DEF Candidates
<1>3. all = Candidates(a)
  <2>1. ASSUME NEW m \in Candidates(a) PROVE m[2].vector # {}
    <3>1. m[1] \in Pages /\ m[2] \in index[m[1]].chunks
      BY DEF Candidates
    <3>2. m[2].vector = {m[2].text}
      BY <3>1 DEF WorkInv, ChunksOwnVectors
    <3> QED BY <3>2
  <2> QED BY <2>1 DEF Embedded
<1> HIDE DEF chunks
<1>4. IsFiniteSet(all)
  <2>1. IsFiniteSet(Pages \X chunks)
    BY <1>1, PagesAssumption, FS_Product DEF PagesAssumption
  <2> QED BY <1>2, <1>3, <2>1, FS_Subset
<1>5. Cardinality({}) = (IF Cardinality(all) < TopK THEN Cardinality(all) ELSE TopK)
  BY DEF Nearest
<1>6. Cardinality({}) = 0 /\ (Cardinality(all) = 0 <=> all = {})
  BY <1>4, FS_EmptySet
<1>7. TopK \in Nat /\ TopK # 0
  BY AskersAssumption DEF AskersAssumption
<1>8. Cardinality(all) = 0
  <2> HIDE DEF all
  <2> QED BY <1>5, <1>6, <1>7
<1> QED BY <1>3, <1>6, <1>8

\* A call changes what it is about only.
AsksAt(a) ==
    /\ ask' = [ask EXCEPT ![a] = ask'[a]] /\ ask'[a] \in Asks
    /\ step' = [step EXCEPT ![a] = step'[a]] /\ step'[a] \in AskSteps
    /\ run' = [run EXCEPT ![a] = run'[a]]
    /\ run'[a] \in {"none", "running", "succeeded", "failed"}
    /\ reply' = [reply EXCEPT ![a] = reply'[a]] /\ reply'[a] \in Replies
    /\ lost' \in Nat /\ UNCHANGED postgres
    /\ Knows(step'[a], ask'[a]) /\ Said(step'[a], ask'[a].found, reply'[a], run'[a])

LEMMA AsksStay ==
  ASSUME AskInv, NEW a \in Askers, AsksAt(a) PROVE AskInv'
<1>1. AskTypeOK'
  BY DEF AskInv, AskTypeOK, AsksAt
<1>2. \A b \in Askers : b # a => /\ ask'[b] = ask[b] /\ step'[b] = step[b]
                                 /\ run'[b] = run[b] /\ reply'[b] = reply[b]
  BY DEF AskInv, AskTypeOK, AsksAt
<1>3. \A b \in Askers : Knows(step'[b], ask'[b]) /\ Said(step'[b], ask'[b].found, reply'[b], run'[b])
  BY <1>2 DEF AskInv, AsksAt
<1> QED BY <1>1, <1>3 DEF AskInv

LEMMA QuestionStep ==
  ASSUME WorkInv, AskInv, NEW a \in Askers, Question(a) PROVE AskInv'
<1> DEFINE k == ask[a]
<1>1. /\ ask \in [Askers -> Asks] /\ step \in [Askers -> AskSteps]
      /\ run \in [Askers -> {"none", "running", "succeeded", "failed"}]
      /\ reply \in [Askers -> Replies] /\ lost \in Nat /\ postgres \in BOOLEAN
      /\ Knows(step[a], k) /\ Said(step[a], k.found, reply[a], run[a])
  BY DEF AskInv, AskTypeOK
<1>2. /\ k \in Asks
      /\ k.scope \in SUBSET Pages /\ k.vector \in BOOLEAN /\ k.reason \in Reasons
      /\ k.indexed \in SUBSET Pages /\ k.found \in SUBSET (Pages \X Chunks)
      /\ k.mode \in {"lexical", "vector"} /\ k.aborted \in BOOLEAN
  BY <1>1 DEF Asks
<1>3. /\ Candidates(a) \in SUBSET (Pages \X Chunks)
      /\ \A m \in Candidates(a) : m[1] \in k.scope
  <2>1. \A p \in Pages : index[p].chunks \in SUBSET Chunks
    BY DEF WorkInv, IndexTypeOK, Rows
  <2>2. UNION {index[p].chunks : p \in Pages} \in SUBSET Chunks
    BY <2>1
  <2>3. Candidates(a) \in SUBSET (Pages \X Chunks)
    <3> DEFINE chunks == UNION {index[p].chunks : p \in Pages}
    <3>1. Candidates(a) \in SUBSET (Pages \X chunks)
      BY DEF Candidates
    <3>2. chunks \in SUBSET Chunks
      BY <2>2
    <3> HIDE DEF chunks
    <3> QED BY <3>1, <3>2
  <2>4. \A m \in Candidates(a) : m[1] \in k.scope
    BY DEF Candidates, InScope
  <2> QED BY <2>3, <2>4
<1>4. CASE Ask(a)
  <2>1. PICK scope \in Scopes : ask' = [ask EXCEPT ![a].scope = scope]
    BY <1>4 DEF Ask
  <2>2. /\ step[a] = "idle" /\ step' = [step EXCEPT ![a] = "embed"]
        /\ run' = [run EXCEPT ![a] = "running"] /\ UNCHANGED <<postgres, reply, lost>>
    BY <1>4 DEF Ask, Continue
  <2>3. ask' = [ask EXCEPT ![a] = ask'[a]] /\ ask'[a] = [k EXCEPT !.scope = scope]
    BY <1>1, <2>1
  <2>4. scope \in SUBSET Pages
    BY DEF Scopes
  <2> HIDE DEF k
  <2>5. ask'[a] \in Asks
    BY <1>2, <2>3, <2>4 DEF Asks
  <2>6. /\ ask'[a].found = k.found /\ ask'[a].mode = k.mode /\ ask'[a].reason = k.reason
        /\ ask'[a].indexed = k.indexed /\ ask'[a].vector = k.vector
    BY <1>2, <2>3 DEF Asks
  <2>7. Knows("embed", ask'[a]) /\ Said("embed", ask'[a].found, reply[a], "running")
    BY <1>1, <2>2, <2>6 DEF Knows, Said
  <2>8. AsksAt(a)
    BY <1>1, <2>2, <2>3, <2>5, <2>7 DEF AsksAt, AskSteps
  <2> QED BY <2>8, AsksStay
<1>5. CASE EmbedQuestion(a)
  <2>1. /\ step[a] = "embed" /\ step' = [step EXCEPT ![a] = "compare"]
        /\ UNCHANGED <<postgres, run, reply, lost>>
        /\ \/ ask' = [ask EXCEPT ![a].vector = TRUE]
           \/ ask' = [ask EXCEPT ![a].reason =
                        IF configured THEN "provider error" ELSE "not configured"]
    BY <1>5 DEF EmbedQuestion, Continue
  <2>2. /\ ask' = [ask EXCEPT ![a] = ask'[a]]
        /\ \/ ask'[a] = [k EXCEPT !.vector = TRUE]
           \/ ask'[a] = [k EXCEPT !.reason = "provider error"]
           \/ ask'[a] = [k EXCEPT !.reason = "not configured"]
    BY <1>1, <2>1
  <2>3. ~ k.vector
    BY <1>1, <2>1 DEF Knows
  <2> HIDE DEF k
  <2>4. ask'[a] \in Asks
    BY <1>2, <2>2 DEF Asks, Reasons
  <2>5. /\ ask'[a].found = k.found /\ ask'[a].mode = k.mode /\ ask'[a].indexed = k.indexed
        /\ \/ ask'[a].reason = k.reason
           \/ /\ ask'[a].reason \in {"provider error", "not configured"}
              /\ ask'[a].vector = k.vector
    BY <1>2, <2>2 DEF Asks
  <2>6. Knows("compare", ask'[a]) /\ Said("compare", ask'[a].found, reply[a], run[a])
    BY <1>1, <2>1, <2>3, <2>5 DEF Knows, Said
  <2>7. AsksAt(a)
    BY <1>1, <2>1, <2>2, <2>4, <2>6 DEF AsksAt, AskSteps
  <2> QED BY <2>7, AsksStay
<1>6. CASE Compare(a)
  <2>1. step[a] = "compare" /\ UNCHANGED <<postgres, run, reply, lost>>
    BY <1>6 DEF Compare
  <2>2. k.found = {} /\ k.mode = "lexical" /\ k.indexed = {} /\ (k.vector => k.reason = "none")
    BY <1>1, <2>1 DEF Knows
  <2>3. CASE ~ (k.vector /\ postgres)
    <3>1. ask' = ask /\ step' = [step EXCEPT ![a] = "match"]
      BY <1>6, <2>3 DEF Compare, Continue
    <3> HIDE DEF k
    <3>2. Knows("match", k) /\ Said("match", k.found, reply[a], run[a])
      BY <1>1, <2>1, <2>2 DEF Knows, Said
    <3>3. AsksAt(a)
      BY <1>1, <1>2, <2>1, <3>1, <3>2 DEF AsksAt, AskSteps, k
    <3> QED BY <3>3, AsksStay
  <2>4. CASE k.vector /\ postgres
    <3>1. PICK found \in Nearest(a) :
            /\ ask' = [ask EXCEPT ![a].found = found,
                                  ![a].mode = IF found = {} THEN "lexical" ELSE "vector",
                                  ![a].indexed = {m[1] : m \in Candidates(a)}]
            /\ Continue(a, IF found = {} THEN "match" ELSE "answer")
      BY <1>6, <2>4 DEF Compare
    <3> DEFINE pages == {m[1] : m \in Candidates(a)}
               mode == IF found = {} THEN "lexical" ELSE "vector"
               at == IF found = {} THEN "match" ELSE "answer"
    <3>2. /\ ask' = [ask EXCEPT ![a] = ask'[a]]
          /\ ask'[a] = [k EXCEPT !.found = found, !.mode = mode, !.indexed = pages]
          /\ step' = [step EXCEPT ![a] = at]
      BY <1>1, <3>1 DEF Continue
    <3>3. found \in SUBSET Candidates(a)
      BY DEF Nearest, Embedded
    <3>4. pages \in SUBSET Pages /\ found \in SUBSET (Pages \X Chunks)
          /\ \A m \in found : m[1] \in k.scope
      BY <1>3, <3>3
    <3>5. found = {} => pages = {}
      BY NothingToCompare
    <3>6. mode \in {"lexical", "vector"} /\ (mode = "lexical" <=> found = {}) /\ at \in AskSteps
          /\ (at = "match" <=> found = {}) /\ (at = "answer" <=> found # {})
      BY DEF AskSteps
    <3> HIDE DEF k, pages, mode, at
    <3>7. ask'[a] \in Asks
      BY <1>2, <3>2, <3>4, <3>6 DEF Asks
    <3>8. /\ ask'[a].found = found /\ ask'[a].mode = mode /\ ask'[a].indexed = pages
          /\ ask'[a].reason = k.reason /\ ask'[a].vector = k.vector /\ ask'[a].scope = k.scope
      BY <1>2, <3>2 DEF Asks
    <3>9. Knows(at, ask'[a])
      BY <2>2, <2>4, <3>4, <3>5, <3>6, <3>8 DEF Knows
    <3>10. Said(at, ask'[a].found, reply[a], run[a])
      BY <1>1, <2>1, <3>6 DEF Said
    <3>11. AsksAt(a)
      BY <1>1, <2>1, <3>2, <3>6, <3>7, <3>9, <3>10 DEF AsksAt
    <3> QED BY <3>11, AsksStay
  <2> QED BY <2>3, <2>4
<1>7. CASE CompareFails(a)
  <2>1. /\ step[a] = "compare" /\ step' = [step EXCEPT ![a] = "match"]
        /\ UNCHANGED <<postgres, run, reply, lost>>
        /\ ask' = [ask EXCEPT ![a] = ask'[a]]
        /\ ask'[a] = [k EXCEPT !.aborted = TRUE, !.reason = "query failed"]
    BY <1>1, <1>7 DEF CompareFails, Continue
  <2> HIDE DEF k
  <2>2. ask'[a] \in Asks
    BY <1>2, <2>1 DEF Asks, Reasons
  <2>3. /\ ask'[a].found = k.found /\ ask'[a].mode = k.mode /\ ask'[a].indexed = k.indexed
        /\ ask'[a].reason = "query failed"
    BY <1>2, <2>1 DEF Asks
  <2>4. Knows("match", ask'[a]) /\ Said("match", ask'[a].found, reply[a], run[a])
    BY <1>1, <2>1, <2>3 DEF Knows, Said
  <2>5. AsksAt(a)
    BY <1>1, <2>1, <2>2, <2>4 DEF AsksAt, AskSteps
  <2> QED BY <2>5, AsksStay
<1>8. CASE Match(a)
  <2>1. step[a] = "match" /\ UNCHANGED <<postgres, run, lost>>
    BY <1>8 DEF Match
  <2>2. CASE k.aborted
    <3>1. /\ ask' = ask /\ step' = [step EXCEPT ![a] = "fail"]
          /\ reply' = [reply EXCEPT ![a] = "retrieval error"]
      BY <1>8, <2>2 DEF Match, Continue
    <3> HIDE DEF k
    <3>2. Knows("fail", k) /\ Said("fail", k.found, "retrieval error", run[a])
      BY <1>1, <2>1 DEF Knows, Said
    <3>3. AsksAt(a)
      BY <1>1, <1>2, <2>1, <3>1, <3>2 DEF AsksAt, AskSteps, Replies, k
    <3> QED BY <3>3, AsksStay
  <2>3. CASE ~ k.aborted
    <3> DEFINE reason == IF k.vector /\ postgres /\ Candidates(a) # {}
                         THEN "no vectors" ELSE k.reason
    <3>1. PICK found \in SUBSET Candidates(a) :
            ask' = [ask EXCEPT ![a].found = found,
                      ![a].reason = IF ask[a].vector /\ postgres /\ Candidates(a) # {}
                                    THEN "no vectors" ELSE @]
      BY <1>8, <2>3 DEF Match
    <3>2. /\ ask' = [ask EXCEPT ![a] = ask'[a]]
          /\ ask'[a] = [k EXCEPT !.found = found, !.reason = reason]
          /\ step' = [step EXCEPT ![a] = "answer"] /\ UNCHANGED reply
      BY <1>1, <1>8, <2>3, <3>1 DEF Match, Continue
    <3>3. found \in SUBSET (Pages \X Chunks) /\ \A m \in found : m[1] \in k.scope
      BY <1>3
    <3>4. reason \in Reasons
      BY <1>2 DEF Reasons
    <3> HIDE DEF k, reason
    <3>5. ask'[a] \in Asks
      BY <1>2, <3>2, <3>3, <3>4 DEF Asks
    <3>6. /\ ask'[a].found = found /\ ask'[a].mode = k.mode /\ ask'[a].indexed = k.indexed
          /\ ask'[a].scope = k.scope
      BY <1>2, <3>2 DEF Asks
    <3>7. k.mode = "lexical" /\ k.indexed = {}
      BY <1>1, <2>1 DEF Knows
    <3>8. Knows("answer", ask'[a])
      BY <3>3, <3>6, <3>7 DEF Knows
    <3>9. Said("answer", ask'[a].found, reply[a], run[a])
      BY <1>1, <2>1 DEF Said
    <3>10. AsksAt(a)
      BY <1>1, <2>1, <3>2, <3>5, <3>8, <3>9 DEF AsksAt, AskSteps
    <3> QED BY <3>10, AsksStay
  <2> QED BY <2>2, <2>3
<1>9. CASE Answer(a)
  <2>1. step[a] = "answer" /\ UNCHANGED <<postgres, ask, run, lost>>
    BY <1>9 DEF Answer
  <2>2. /\ reply' = [reply EXCEPT ![a] = reply'[a]] /\ step' = [step EXCEPT ![a] = step'[a]]
        /\ \/ k.found = {} /\ reply'[a] = "no information" /\ step'[a] = "succeed"
           \/ k.found # {} /\ reply'[a] = "answer" /\ step'[a] = "succeed"
           \/ reply'[a] = "model error" /\ step'[a] = "fail"
    BY <1>1, <1>9 DEF Answer, Continue
  <2> HIDE DEF k
  <2>3. Knows(step'[a], k) /\ Said(step'[a], k.found, reply'[a], run[a])
    BY <1>1, <2>1, <2>2 DEF Knows, Said
  <2>4. AsksAt(a)
    BY <1>1, <1>2, <2>1, <2>2, <2>3 DEF AsksAt, AskSteps, Replies, k
  <2> QED BY <2>4, AsksStay
<1>10. CASE Succeed(a)
  <2>1. step[a] = "succeed" /\ UNCHANGED <<postgres, ask>> /\ step' = [step EXCEPT ![a] = "done"]
    BY <1>10 DEF Succeed, Continue
  <2>2. /\ run' = [run EXCEPT ![a] = run'[a]] /\ reply' = [reply EXCEPT ![a] = reply'[a]]
        /\ run'[a] \in {"succeeded", run[a]} /\ lost' \in Nat
        /\ \/ reply'[a] = reply[a] /\ run'[a] = "succeeded"
           \/ reply'[a] = "audit error"
    <3>1. CASE Close(a, "succeeded") /\ UNCHANGED <<reply, lost>>
      BY <1>1, <3>1 DEF Close
    <3>2. CASE /\ lost' = lost + 1 /\ reply' = [reply EXCEPT ![a] = "audit error"]
               /\ Close(a, "succeeded") \/ UNCHANGED run
      <4>1. run' = [run EXCEPT ![a] = run'[a]] /\ run'[a] \in {"succeeded", run[a]}
        BY <1>1, <3>2 DEF Close
      <4>2. reply' = [reply EXCEPT ![a] = reply'[a]] /\ reply'[a] = "audit error"
        BY <1>1, <3>2
      <4>3. lost' \in Nat
        <5>1. lost' = lost + 1
          BY <3>2
        <5>2. lost \in Nat
          BY <1>1
        <5> QED BY <5>1, <5>2
      <4> QED BY <4>1, <4>2, <4>3
    <3> QED BY <1>10, <3>1, <3>2 DEF Succeed
  <2>3. reply[a] \in {"answer", "no information"}
    BY <1>1, <2>1 DEF Said
  <2> HIDE DEF k
  <2>4. Knows("done", k) /\ Said("done", k.found, reply'[a], run'[a])
    BY <1>1, <2>1, <2>2, <2>3 DEF Knows, Said
  <2>5. run'[a] \in {"none", "running", "succeeded", "failed"} /\ reply'[a] \in Replies
    BY <1>1, <2>2 DEF Replies
  <2>6. AsksAt(a)
    BY <1>1, <1>2, <2>1, <2>2, <2>4, <2>5 DEF AsksAt, AskSteps, k
  <2> QED BY <2>6, AsksStay
<1>11. CASE Fail(a)
  <2>1. /\ step[a] = "fail" /\ UNCHANGED <<postgres, ask, reply>>
        /\ step' = [step EXCEPT ![a] = "done"]
    BY <1>11 DEF Fail, Continue
  <2>2. /\ run' = [run EXCEPT ![a] = run'[a]] /\ run'[a] \in {"failed", run[a]} /\ lost' \in Nat
    BY <1>1, <1>11 DEF Fail, Close
  <2>3. reply[a] \in {"retrieval error", "model error"} /\ run[a] # "succeeded"
    BY <1>1, <2>1 DEF Said
  <2> HIDE DEF k
  <2>4. Knows("done", k) /\ Said("done", k.found, reply[a], run'[a])
    BY <1>1, <2>1, <2>2, <2>3 DEF Knows, Said
  <2>5. run'[a] \in {"none", "running", "succeeded", "failed"}
    BY <1>1, <2>2
  <2>6. AsksAt(a)
    BY <1>1, <1>2, <2>1, <2>2, <2>4, <2>5 DEF AsksAt, AskSteps, k
  <2> QED BY <2>6, AsksStay
<1> QED BY <1>4, <1>5, <1>6, <1>7, <1>8, <1>9, <1>10, <1>11 DEF Question

-----------------------------------------------------------------------------
LEMMA ChangeWorks ==
  ASSUME WorkInv, NEW b \in Blocks, NEW s \in Sections, Change(b, s) PROVE WorkInv'
<1>1. /\ version \in [Blocks -> Nat] /\ place \in [Blocks -> Sections]
      /\ began \in [Pages -> Seq([Blocks -> Nat])]
  BY DEF WorkInv, IndexTypeOK
<1>2. version' \in [Blocks -> Nat] /\ place' \in [Blocks -> Sections]
  BY <1>1 DEF Change
<1>3. PICK new : began' = [p \in Pages |-> IF p \in new THEN Append(began[p], version') ELSE began[p]]
  BY DEF Change
<1>4. began' \in [Pages -> Seq([Blocks -> Nat])]
  <2>1. \A p \in Pages : Append(began[p], version') \in Seq([Blocks -> Nat])
    BY <1>1, <1>2
  <2> QED BY <1>1, <1>3, <2>1
<1>5. UNCHANGED <<configured, index, pc, job>>
  BY DEF Change
<1>6. IndexTypeOK'
  BY <1>2, <1>4, <1>5 DEF WorkInv, IndexTypeOK
<1> QED BY <1>5, <1>6 DEF WorkInv, ChunksOwnVectors, IndexIsWhole, SectionsOf

LEMMA WorkInductive == WorkInv /\ AskInv /\ [Next]_vars => WorkInv' /\ AskInv'
<1> SUFFICES ASSUME WorkInv, AskInv, [Next]_vars PROVE WorkInv' /\ AskInv'
  OBVIOUS
<1>1. ASSUME UNCHANGED indexVars PROVE WorkInv'
  BY <1>1 DEF WorkInv, IndexTypeOK, ChunksOwnVectors, IndexIsWhole, SectionsOf, indexVars, notion
<1>2. ASSUME UNCHANGED <<postgres, askVars>> PROVE AskInv'
  BY <1>2 DEF AskInv, AskTypeOK, askVars
<1>3. CASE IndexNext /\ UNCHANGED <<postgres, askVars>>
  BY <1>2, <1>3, ChangeWorks, IndexWorks DEF IndexNext
<1>4. ASSUME NEW a \in Askers, Question(a) PROVE WorkInv' /\ AskInv'
  <2>1. UNCHANGED indexVars
    BY <1>4 DEF Question, Ask, EmbedQuestion, Compare, CompareFails, Match, Answer, Succeed, Fail
  <2> QED BY <1>1, <1>4, <2>1, QuestionStep
<1>5. CASE UNCHANGED vars
  BY <1>1, <1>2, <1>5 DEF vars
<1> QED BY <1>3, <1>4, <1>5 DEF Next

\* Every state is of the types declared, the plans of batches included.
THEOREM TypeCorrect == Spec => []TypeOK
<1>1. WorkInv /\ AskInv => TypeOK
  BY DEF WorkInv, AskInv, AskTypeOK, TypeOK
<1> QED BY <1>1, InitWork, InitAsks, WorkInductive, PTL DEF Spec

\* However pages are cut into batches, edited while they are read, and replaced by
\* several indexers, the index of a page is of one reading, with the vector of its
\* own text for each chunk (_persist_full_page, embedding_batch_service).
THEOREM IndexAlwaysWhole == Spec => []IndexIsWhole
<1>1. WorkInv => IndexIsWhole
  BY DEF WorkInv
<1> QED BY <1>1, InitWork, InitAsks, WorkInductive, PTL DEF Spec

\* Whatever is indexed between the steps of a call and whichever write of the audit
\* raises, an answer rests on chunks of its scope, and the run and the reason say
\* what happened (qa_orchestrator, retriever).
THEOREM AnswersAlwaysTellTruth == Spec => []AnswersTellTruth
<1>1. AskInv => AnswersTellTruth
  BY DEF AskInv, Knows, Said, AnswersTellTruth
<1> QED BY <1>1, InitWork, InitAsks, WorkInductive, PTL DEF Spec

-----------------------------------------------------------------------------
(* The tree of the pages that the index holds, and the picker: PageTree.      *)

P == INSTANCE PageTree
NoPage == P!NoPage

\* An index after Known: parents are pages of it, or none.
Indexed(parent) ==
    /\ IsFiniteSet(DOMAIN parent) /\ NoPage \notin DOMAIN parent
    /\ parent \in [DOMAIN parent -> DOMAIN parent \cup {NoPage}]

\* Up from the pages of S one stays in S.
Closed(parent, S) == \A p \in S \ {NoPage} : parent[p] \in S

\* What every closed set with p has: p, and what is above it.
Reached(parent, p, q) ==
    \A S \in SUBSET (DOMAIN parent \cup {NoPage}) : p \in S /\ Closed(parent, S) => q \in S

\* A page that is above itself.
OnCycle(parent, p) == Reached(parent, parent[p], p)

LEMMA SameCardinality == ASSUME NEW S PROVE P!Cardinality(S) = Cardinality(S)
BY DEF P!Cardinality, Cardinality

LEMMA WayIs ==
  ASSUME NEW parent, Indexed(parent), NEW start \in DOMAIN parent
  PROVE  LET up == P!Way(parent, start)
             n == Cardinality(DOMAIN parent)
         IN /\ n \in Nat /\ up \in [0 .. n -> DOMAIN parent \cup {NoPage}]
            /\ up[0] = start
            /\ \A k \in 1 .. n : up[k] = IF up[k - 1] = NoPage THEN NoPage ELSE parent[up[k - 1]]
<1> DEFINE n == Cardinality(DOMAIN parent)
           A == DOMAIN parent \cup {NoPage}
           Good(t) == t = [k \in 0 .. n |-> IF k = 0 THEN start
                             ELSE IF t[k - 1] = P!NoPage THEN P!NoPage ELSE parent[t[k - 1]]]
           f == CHOOSE t : Good(t)
           F == [k \in 1 .. n |-> [a \in A |-> IF a = NoPage THEN NoPage ELSE parent[a]]]
<1>1. n \in Nat
  BY FS_CardinalityType DEF Indexed
<1>2. P!Way(parent, start) = f
  BY SameCardinality DEF P!Way, NoPage
<1>3. start \in A /\ F \in Functionals(A, n)
  BY DEF Functionals, Indexed
<1>4. \A k \in 1 .. n : \A a \in A : F[k][a] = IF a = NoPage THEN NoPage ELSE parent[a]
  OBVIOUS
<1> HIDE DEF F, A
<1>5. PICK g : g \in [0 .. n -> A] /\ Recursive(g, start, F, n)
  BY <1>1, <1>3, RecursionExists
<1>6. \A k \in 1 .. n : k - 1 \in 0 .. n /\ g[k - 1] \in A
  BY <1>1, <1>5
<1>7. g[0] = start /\ \A k \in 1 .. n : g[k] = IF g[k - 1] = NoPage THEN NoPage ELSE parent[g[k - 1]]
  BY <1>4, <1>5, <1>6 DEF Recursive
<1>8. \A k \in 0 .. n : g[k] = IF k = 0 THEN start
                            ELSE IF g[k - 1] = NoPage THEN NoPage ELSE parent[g[k - 1]]
  BY <1>1, <1>7
<1>9. Good(g)
  BY <1>5, <1>8 DEF NoPage
<1> HIDE DEF Good, f
<1>10. Good(f)
  BY <1>9 DEF f
<1>11. \A k \in 0 .. n : f[k] = IF k = 0 THEN start
                            ELSE IF f[k - 1] = NoPage THEN NoPage ELSE parent[f[k - 1]]
  BY <1>10 DEF Good, NoPage
<1>12. f[0] = start
  BY <1>1, <1>11
<1>13. \A k \in 1 .. n : f[k] = IF f[k - 1] = NoPage THEN NoPage ELSE parent[f[k - 1]]
  BY <1>1, <1>11
<1>14. \A k \in 0 .. n : f[k] \in A
  <2> DEFINE S == {k \in Nat : k <= n => f[k] \in A}
  <2>1. 0 \in S
    BY <1>3, <1>12
  <2>2. ASSUME NEW k \in S, k + 1 <= n PROVE f[k + 1] \in A
    <3>1. f[k] \in A /\ k + 1 \in 1 .. n /\ (k + 1) - 1 = k
      BY <1>1, <2>2
    <3>2. f[k + 1] = IF f[k] = NoPage THEN NoPage ELSE parent[f[k]]
      BY <1>13, <3>1
    <3> QED BY <3>1, <3>2 DEF A, Indexed
  <2>3. \A k \in S : k + 1 \in S
    BY <2>2
  <2> HIDE DEF S
  <2>4. S = Nat
    BY <2>1, <2>3, SetInduction DEF S
  <2> QED BY <1>1, <2>4 DEF S
<1>15. DOMAIN f = 0 .. n /\ f = [k \in 0 .. n |-> f[k]]
  BY <1>10 DEF Good
<1>16. f \in [0 .. n -> A]
  BY <1>14, <1>15
<1> QED BY <1>1, <1>2, <1>12, <1>13, <1>16 DEF A

\* What is above a page is above whatever it is above.
LEMMA ClosedFrom ==
  ASSUME NEW parent, NEW up, NEW n \in Nat, NEW S, Closed(parent, S),
         \A k \in 1 .. n : up[k - 1] # NoPage /\ up[k] = parent[up[k - 1]],
         NEW m \in 0 .. n, up[m] \in S
  PROVE  \A k \in m .. n : up[k] \in S
<1> DEFINE T == {k \in Nat : m + k <= n => up[m + k] \in S}
<1>1. 0 \in T
  OBVIOUS
<1>2. ASSUME NEW k \in T, m + (k + 1) <= n PROVE up[m + (k + 1)] \in S
  <2>1. up[m + k] \in S
    BY <1>2
  <2>2. m + (k + 1) \in 1 .. n /\ (m + (k + 1)) - 1 = m + k
    BY <1>2
  <2>3. up[m + k] # NoPage /\ up[m + (k + 1)] = parent[up[m + k]]
    BY <2>2
  <2> QED BY <2>1, <2>3 DEF Closed
<1>3. \A k \in T : k + 1 \in T
  BY <1>2
<1>4. T \in SUBSET Nat
  OBVIOUS
<1> HIDE DEF T
<1>5. T = Nat
  BY <1>1, <1>3, <1>4, SetInduction
<1>6. \A k \in Nat : m + k <= n => up[m + k] \in S
  BY <1>5 DEF T
<1>7. ASSUME NEW k \in m .. n PROVE up[k] \in S
  <2>1. k - m \in Nat /\ m + (k - m) = k /\ k <= n
    OBVIOUS
  <2> QED BY <1>6, <2>1
<1> QED BY <1>7

\* A climb ends: there are more steps than pages.
LEMMA ClimbEnds ==
  ASSUME NEW parent, Indexed(parent), NEW start \in DOMAIN parent, NEW visited
  PROVE  LET up == P!Way(parent, start)
             Ends(k) == up[k] \in visited \cup {NoPage} \cup {up[l] : l \in 0 .. k - 1}
         IN \E end \in 0 .. Cardinality(DOMAIN parent) : Ends(end) /\ \A k \in 0 .. end - 1 : ~Ends(k)
<1> DEFINE up == P!Way(parent, start)
           n == Cardinality(DOMAIN parent)
           Ends(k) == up[k] \in visited \cup {NoPage} \cup {up[l] : l \in 0 .. k - 1}
           E == {k \in 0 .. n : Ends(k)}
<1>1. n \in Nat /\ up \in [0 .. n -> DOMAIN parent \cup {NoPage}]
  BY WayIs
<1>2. E # {}
  <2> SUFFICES ASSUME \A k \in 0 .. n : ~Ends(k) PROVE FALSE
    OBVIOUS
  <2>1. \A k \in 0 .. n : up[k] # NoPage
    OBVIOUS
  <2>2. \A k \in 0 .. n : \A l \in 0 .. k - 1 : up[k] # up[l]
    OBVIOUS
  <2> HIDE DEF Ends, E, up
  <2>3. up \in [0 .. n -> DOMAIN parent]
    BY <1>1, <2>1
  <2> HIDE DEF n
  <2>4. IsFiniteSet(0 .. n) /\ Cardinality(0 .. n) = n + 1
    BY <1>1, FS_Interval
  <2>5. IsFiniteSet(DOMAIN parent) /\ Cardinality(DOMAIN parent) < Cardinality(0 .. n)
    BY <1>1, <2>4 DEF n, Indexed
  <2>6. PICK k, l \in 0 .. n : k # l /\ up[k] = up[l]
    BY <2>3, <2>4, <2>5, FS_PigeonHole
  <2>7. k \in 0 .. l - 1 \/ l \in 0 .. k - 1
    BY <1>1, <2>6
  <2> QED BY <2>2, <2>6, <2>7
<1>3. E \in SUBSET Nat
  BY <1>1
<1> HIDE DEF E
<1>4. PICK end \in E : \A k \in E : end <= k
  BY <1>2, <1>3, LeastNumber
<1>5. end \in 0 .. n /\ Ends(end)
  BY <1>4 DEF E
<1>6. \A k \in 0 .. end - 1 : ~Ends(k)
  <2> SUFFICES ASSUME NEW k \in 0 .. end - 1, Ends(k) PROVE FALSE
    OBVIOUS
  <2>1. k \in E
    BY <1>1, <1>5 DEF E
  <2>2. end <= k
    BY <1>4, <2>1
  <2> QED BY <1>1, <1>5, <2>2
<1> QED BY <1>5, <1>6

\* The way of a climb: its pages are new and differ, and its end is not.
Climbs(parent, visited, up, end) ==
    /\ end \in Nat
    /\ \A k \in 0 .. end - 1 : up[k] \in DOMAIN parent \ visited
    /\ \A k \in 1 .. end : up[k - 1] # NoPage /\ up[k] = parent[up[k - 1]]
    /\ \A k, l \in 0 .. end - 1 : up[k] = up[l] => k = l
    /\ up[end] \in visited \cup {NoPage} \cup {up[k] : k \in 0 .. end - 1}

\* The way has come back to one of its first k + 1 pages.
Repeats(up, end, k) == \E j \in 0 .. k : up[j] = up[end]

\* What is found on it.
FoundOn(up, end) ==
    [path  |-> {up[k] : k \in 0 .. end - 1},
     cycle |-> {up[k] : k \in {k \in 0 .. end - 1 : Repeats(up, end, k)}}]

LEMMA ClimbIs ==
  ASSUME NEW parent, Indexed(parent), NEW start \in DOMAIN parent, NEW visited
  PROVE  \E up, end :
           /\ Climbs(parent, visited, up, end) /\ up[0] = start
           /\ P!Climb(parent, visited, start) = FoundOn(up, end)
<1> DEFINE up == P!Way(parent, start)
           n == Cardinality(DOMAIN parent)
           Ends(k) == up[k] \in visited \cup {NoPage} \cup {up[l] : l \in 0 .. k - 1}
           First(k) == Ends(k) /\ \A l \in 0 .. k - 1 : ~Ends(l)
           end == CHOOSE k \in DOMAIN up : First(k)
<1>1. /\ n \in Nat /\ up \in [0 .. n -> DOMAIN parent \cup {NoPage}] /\ up[0] = start
      /\ \A k \in 1 .. n : up[k] = IF up[k - 1] = NoPage THEN NoPage ELSE parent[up[k - 1]]
  BY WayIs
<1>2. end \in 0 .. n /\ First(end)
  <2>1. \E k \in 0 .. n : First(k)
    BY ClimbEnds
  <2>2. DOMAIN up = 0 .. n
    BY <1>1
  <2> HIDE DEF First, up, n
  <2> QED BY <2>1, <2>2
<1>3. P!Climb(parent, visited, start) = FoundOn(up, end)
  BY DEF P!Climb, NoPage, FoundOn, Repeats
<1> HIDE DEF end, up
<1>4. end \in Nat /\ 0 .. end - 1 \subseteq 0 .. n /\ 1 .. end \subseteq 1 .. n
  BY <1>1, <1>2
<1>5. \A k \in 0 .. end - 1 : up[k] \in DOMAIN parent \ visited /\ up[k] # NoPage
  BY <1>1, <1>2, <1>4
<1>6. \A k \in 1 .. end : up[k - 1] # NoPage /\ up[k] = parent[up[k - 1]]
  <2> SUFFICES ASSUME NEW k \in 1 .. end
               PROVE  up[k - 1] # NoPage /\ up[k] = parent[up[k - 1]]
    OBVIOUS
  <2>1. k - 1 \in 0 .. end - 1 /\ k \in 1 .. n
    BY <1>4
  <2> QED BY <1>1, <1>5, <2>1
<1>7. \A k \in 0 .. end - 1 : \A l \in 0 .. k - 1 : up[k] # up[l]
  BY <1>2
<1>8. \A k, l \in 0 .. end - 1 : up[k] = up[l] => k = l
  <2> SUFFICES ASSUME NEW k \in 0 .. end - 1, NEW l \in 0 .. end - 1, up[k] = up[l], k # l
               PROVE  FALSE
    OBVIOUS
  <2>1. l \in 0 .. k - 1 \/ k \in 0 .. l - 1
    BY <1>4
  <2> QED BY <1>7, <2>1
<1>9. up[end] \in visited \cup {NoPage} \cup {up[k] : k \in 0 .. end - 1}
  BY <1>2
<1>10. Climbs(parent, visited, up, end)
  BY <1>4, <1>5, <1>6, <1>8, <1>9 DEF Climbs
<1>11. up[0] = start
  BY <1>1
<1> HIDE DEF First, Ends, n
<1> WITNESS up, end
<1> QED BY <1>3, <1>10, <1>11

\* The pages on a cycle are found when its last one is: the way has come back to
\* one of its pages.
LEMMA LoopIs ==
  ASSUME NEW parent, Indexed(parent), NEW visited \in SUBSET DOMAIN parent,
         Closed(parent, visited \cup {NoPage}), NEW up, NEW end, Climbs(parent, visited, up, end),
         NEW k \in 0 .. end - 1
  PROVE  OnCycle(parent, up[k]) <=> Repeats(up, end, k)
<1> DEFINE N == DOMAIN parent
           path(m) == {up[l] : l \in m .. end - 1}
<1>1. /\ end \in Nat /\ k + 1 \in 1 .. end /\ (k + 1) - 1 = k
      /\ up[k] \in N \ visited /\ up[k] # NoPage /\ up[k + 1] = parent[up[k]]
  BY DEF Climbs
<1>2. ASSUME NEW j \in 0 .. k, up[j] = up[end],
             NEW S \in SUBSET (N \cup {NoPage}), parent[up[k]] \in S, Closed(parent, S)
      PROVE  up[k] \in S
  <2> DEFINE m == k + 1
  <2>1. m \in 0 .. end /\ up[m] \in S /\ \A l \in 1 .. end : up[l - 1] # NoPage /\ up[l] = parent[up[l - 1]]
    BY <1>1, <1>2 DEF Climbs
  <2> HIDE DEF m
  <2>2. \A l \in m .. end : up[l] \in S
    BY <1>1, <1>2, <2>1, ClosedFrom
  <2> USE DEF m
  <2>3. up[j] \in S /\ j \in 0 .. end
    BY <1>1, <1>2, <2>2
  <2>4. \A l \in j .. end : up[l] \in S
    BY <1>1, <1>2, <2>1, <2>3, ClosedFrom
  <2> QED BY <1>1, <1>2, <2>4
<1>3. ASSUME NEW m \in 0 .. end, up[end] \in visited \cup {NoPage} \cup path(m)
      PROVE  Closed(parent, visited \cup {NoPage} \cup path(m))
  <2> SUFFICES ASSUME NEW p \in visited \cup path(m), p # NoPage
               PROVE  parent[p] \in visited \cup {NoPage} \cup path(m)
    BY DEF Closed
  <2>1. CASE p \in visited
    BY <2>1 DEF Closed
  <2>2. ASSUME NEW l \in m .. end - 1, p = up[l] PROVE parent[p] \in visited \cup {NoPage} \cup path(m)
    <3>1. l + 1 \in 1 .. end /\ (l + 1) - 1 = l /\ (l + 1 = end \/ l + 1 \in m .. end - 1)
      BY <1>1
    <3>2. up[l + 1] = parent[p]
      BY <2>2, <3>1 DEF Climbs
    <3> QED BY <1>3, <3>1, <3>2
  <2> QED BY <2>1, <2>2
<1>4. path(0) \subseteq N
  BY DEF Climbs
<1>5. ASSUME OnCycle(parent, up[k]) PROVE \E j \in 0 .. k : up[j] = up[end]
  <2> SUFFICES ASSUME \A j \in 0 .. k : up[j] # up[end] PROVE FALSE
    OBVIOUS
  <2> DEFINE S == visited \cup {NoPage} \cup path(k + 1)
  <2>1. up[end] \in S
    <3>1. up[end] \in visited \cup {NoPage} \/ \E j \in 0 .. end - 1 : up[end] = up[j]
      BY DEF Climbs
    <3>2. ASSUME NEW j \in 0 .. end - 1, up[end] = up[j] PROVE up[end] \in path(k + 1)
      <4>1. j \in k + 1 .. end - 1
        BY <1>1, <3>2
      <4> QED BY <3>2, <4>1
    <3> QED BY <3>1, <3>2
  <2>2. k + 1 \in 0 .. end
    BY <1>1
  <2>3. Closed(parent, S)
    BY <1>3, <2>1, <2>2
  <2>4. path(k + 1) \subseteq path(0)
    BY <1>1
  <2>5. S \in SUBSET (N \cup {NoPage})
    BY <1>4, <2>4
  <2>6. parent[up[k]] \in S
    <3>1. k + 1 = end \/ k + 1 \in k + 1 .. end - 1
      BY <1>1
    <3> QED BY <1>1, <2>1, <3>1
  <2>7. up[k] \in S
    BY <1>5, <2>3, <2>5, <2>6 DEF OnCycle, Reached
  <2>8. PICK l \in k + 1 .. end - 1 : up[k] = up[l]
    BY <1>1, <2>7
  <2>9. k = l
    <3>1. l \in 0 .. end - 1
      BY <1>1
    <3> QED BY <2>8, <3>1 DEF Climbs
  <2> QED BY <1>1, <2>9
<1> QED BY <1>2, <1>5 DEF OnCycle, Reached, Repeats

\* What is found from a page: it and the pages above it that are new.
Finds(parent, visited, start, way) ==
    /\ way.path \subseteq DOMAIN parent \ visited /\ start \in visited \cup way.path
    /\ Closed(parent, visited \cup way.path \cup {NoPage})
    /\ way.cycle = {p \in way.path : OnCycle(parent, p)}

LEMMA ClimbFinds ==
  ASSUME NEW parent, Indexed(parent), NEW start \in DOMAIN parent,
         NEW visited \in SUBSET DOMAIN parent, Closed(parent, visited \cup {NoPage})
  PROVE  Finds(parent, visited, start, P!Climb(parent, visited, start))
<1> DEFINE way == P!Climb(parent, visited, start)
<1>1. PICK up, end : Climbs(parent, visited, up, end) /\ up[0] = start /\ way = FoundOn(up, end)
  BY ClimbIs
<1> HIDE DEF way
<1>2. /\ way.path = {up[k] : k \in 0 .. end - 1}
      /\ way.cycle = {up[k] : k \in {k \in 0 .. end - 1 : Repeats(up, end, k)}}
  BY <1>1 DEF FoundOn
<1>3. way.path \subseteq DOMAIN parent \ visited
  BY <1>1, <1>2 DEF Climbs
<1>4. way.cycle = {p \in way.path : OnCycle(parent, p)}
  <2>1. ASSUME NEW k \in 0 .. end - 1 PROVE OnCycle(parent, up[k]) <=> Repeats(up, end, k)
    BY <1>1, LoopIs
  <2> QED BY <1>2, <2>1
<1>5. Closed(parent, visited \cup way.path \cup {NoPage})
  <2> SUFFICES ASSUME NEW p \in visited \cup way.path, p # NoPage
               PROVE  parent[p] \in visited \cup way.path \cup {NoPage}
    BY DEF Closed
  <2>1. CASE p \in visited
    BY <2>1 DEF Closed
  <2>2. ASSUME NEW k \in 0 .. end - 1, p = up[k]
        PROVE  parent[p] \in visited \cup way.path \cup {NoPage}
    <3>1. /\ end \in Nat /\ k + 1 \in 1 .. end /\ (k + 1) - 1 = k
          /\ k + 1 = end \/ k + 1 \in 0 .. end - 1
      BY <1>1 DEF Climbs
    <3>2. up[k + 1] = parent[p]
      BY <1>1, <2>2, <3>1 DEF Climbs
    <3>3. up[end] \in visited \cup {NoPage} \cup way.path
      BY <1>1, <1>2 DEF Climbs
    <3> QED BY <1>2, <3>1, <3>2, <3>3
  <2> QED BY <1>2, <2>1, <2>2
<1>6. start \in visited \cup way.path
  <2>1. CASE end = 0
    <3>1. up[0] \in visited \cup {NoPage}
      BY <1>1, <2>1 DEF Climbs
    <3> QED BY <1>1, <3>1 DEF Indexed
  <2>2. CASE end # 0
    <3>1. 0 \in 0 .. end - 1
      BY <1>1, <2>2 DEF Climbs
    <3> QED BY <1>1, <1>2, <3>1
  <2> QED BY <2>1, <2>2
<1> QED BY <1>3, <1>4, <1>5, <1>6 DEF way, Finds

\* What is found after n starts.
Nothing == [cycle |-> {}, visited |-> {}]
Searched(parent, starts, found) ==
    /\ found[0] = Nothing
    /\ \A n \in 1 .. Len(starts) :
          LET way == P!Climb(parent, found[n - 1].visited, starts[n])
          IN /\ found[n].cycle = found[n - 1].cycle \cup way.cycle
             /\ found[n].visited = found[n - 1].visited \cup way.path

LEMMA SearchIs ==
  ASSUME NEW parent, Indexed(parent), NEW starts \in Seq(DOMAIN parent)
  PROVE  \E found : Searched(parent, starts, found)
                    /\ P!CycleMembers(parent, starts) = found[Len(starts)].cycle
<1> DEFINE m == Len(starts)
           N == DOMAIN parent
           A == [cycle : SUBSET N, visited : SUBSET N]
           More(a, p) == LET way == P!Climb(parent, a.visited, p)
                         IN [cycle   |-> a.cycle \cup way.cycle,
                             visited |-> a.visited \cup way.path]
           Good(t) == t = [n \in 0 .. m |->
                             IF n = 0 THEN Nothing
                             ELSE LET old == t[n - 1]
                                      way == P!Climb(parent, old.visited, starts[n])
                                  IN [cycle   |-> old.cycle \cup way.cycle,
                                      visited |-> old.visited \cup way.path]]
           f == CHOOSE t : Good(t)
           F == [n \in 1 .. m |-> [a \in A |-> More(a, starts[n])]]
<1>1. m \in Nat
  OBVIOUS
<1>2. P!CycleMembers(parent, starts) = f[m].cycle
  BY DEF P!CycleMembers, Nothing
<1>3. ASSUME NEW a \in A, NEW p \in N PROVE More(a, p) \in A
  <2> DEFINE way == P!Climb(parent, a.visited, p)
  <2>1. way.path \subseteq N /\ way.cycle \subseteq N
    <3>1. PICK up, end :
            /\ Climbs(parent, a.visited, up, end)
            /\ way = FoundOn(up, end)
      BY ClimbIs
    <3> QED BY <3>1 DEF Climbs, FoundOn
  <2>2. a.cycle \in SUBSET N /\ a.visited \in SUBSET N
    OBVIOUS
  <2> HIDE DEF way
  <2>3. a.cycle \cup way.cycle \in SUBSET N /\ a.visited \cup way.path \in SUBSET N
    BY <2>1, <2>2
  <2>4. More(a, p) = [cycle |-> a.cycle \cup way.cycle, visited |-> a.visited \cup way.path]
    BY DEF way
  <2> HIDE DEF More
  <2> QED BY <2>3, <2>4
<1>4. \A n \in 1 .. m : starts[n] \in N
  OBVIOUS
<1> HIDE DEF A, More
<1>5. Nothing \in A /\ F \in Functionals(A, m)
  BY <1>3, <1>4 DEF Functionals, A, Nothing
<1>6. \A n \in 1 .. m : \A a \in A : F[n][a] = More(a, starts[n])
  OBVIOUS
<1> HIDE DEF F, m
<1>7. PICK g : g \in [0 .. m -> A] /\ Recursive(g, Nothing, F, m)
  BY <1>1, <1>5, RecursionExists
<1>8. \A n \in 1 .. m : n - 1 \in 0 .. m /\ g[n - 1] \in A
  BY <1>1, <1>7
<1>9. g[0] = Nothing /\ \A n \in 1 .. m : g[n] = More(g[n - 1], starts[n])
  BY <1>6, <1>7, <1>8 DEF Recursive
<1>10. \A n \in 0 .. m : g[n] = IF n = 0 THEN Nothing ELSE More(g[n - 1], starts[n])
  BY <1>1, <1>9
<1>11. Good(g)
  BY <1>7, <1>10 DEF More
<1> HIDE DEF Good, f
<1>12. Good(f)
  BY <1>11 DEF f
<1>13. \A n \in 0 .. m : f[n] = IF n = 0 THEN Nothing ELSE More(f[n - 1], starts[n])
  BY <1>12 DEF Good, More
<1>14. f[0] = Nothing
  BY <1>1, <1>13
<1>15. \A n \in 1 .. m : f[n] = More(f[n - 1], starts[n])
  BY <1>1, <1>13
<1>16. Searched(parent, starts, f)
  <2>1. \A a, p : LET way == P!Climb(parent, a.visited, p)
                  IN /\ More(a, p).cycle = a.cycle \cup way.cycle
                     /\ More(a, p).visited = a.visited \cup way.path
    BY DEF More
  <2> QED BY <1>14, <1>15, <2>1 DEF Searched, m
<1> QED BY <1>2, <1>16 DEF m

\* Each page is started from.
AllStarted(starts, N) == starts \in Seq(N) /\ \A p \in N : \E n \in 1 .. Len(starts) : starts[n] = p

\* Climbing from each page once finds exactly the pages that are above themselves,
\* in whatever order the pages are started from (_find_cycle_members).
THEOREM CyclesAreFound ==
  ASSUME NEW parent, Indexed(parent),
         NEW starts, AllStarted(starts, DOMAIN parent)
  PROVE  P!CycleMembers(parent, starts) = {p \in DOMAIN parent : OnCycle(parent, p)}
<1> DEFINE N == DOMAIN parent
           m == Len(starts)
<1> USE DEF AllStarted
<1>1. PICK found : Searched(parent, starts, found)
                   /\ P!CycleMembers(parent, starts) = found[m].cycle
  BY SearchIs
<1> DEFINE Known(n) ==
             /\ found[n].visited \in SUBSET N
             /\ Closed(parent, found[n].visited \cup {NoPage})
             /\ found[n].cycle = {p \in found[n].visited : OnCycle(parent, p)}
             /\ \A i \in 1 .. n : starts[i] \in found[n].visited
           S == {n \in Nat : n <= m => Known(n)}
<1>2. 0 \in S
  <2>1. found[0] = Nothing
    BY <1>1 DEF Searched
  <2> QED BY <2>1 DEF Nothing, Closed
<1>3. ASSUME NEW n \in S, n + 1 <= m PROVE Known(n + 1)
  <2> DEFINE old == found[n].visited
             way == P!Climb(parent, old, starts[n + 1])
  <2>1. n \in Nat /\ Known(n)
    <3> HIDE DEF Known, m
    <3>1. n \in Nat /\ m \in Nat
      BY DEF m
    <3> QED BY <1>3, <3>1
  <2>2. n + 1 \in 1 .. m /\ (n + 1) - 1 = n /\ starts[n + 1] \in N
    BY <1>3, <2>1
  <2>3. /\ found[n + 1].cycle = found[n].cycle \cup way.cycle
        /\ found[n + 1].visited = old \cup way.path
    <3>1. \A i \in 1 .. m : i - 1 = n =>
            /\ found[i].cycle = found[n].cycle \cup P!Climb(parent, found[n].visited, starts[i]).cycle
            /\ found[i].visited = found[n].visited \cup P!Climb(parent, found[n].visited, starts[i]).path
      BY <1>1 DEF Searched
    <3> QED BY <2>2, <3>1
  <2> HIDE DEF S
  <2>4. Finds(parent, old, starts[n + 1], way)
    <3>1. old \in SUBSET DOMAIN parent /\ Closed(parent, old \cup {NoPage}) /\ starts[n + 1] \in DOMAIN parent
      BY <2>1, <2>2
    <3> HIDE DEF old, Known
    <3> QED BY <3>1, ClimbFinds
  <2> HIDE DEF way
  <2>5. \A i \in 1 .. n + 1 : starts[i] \in old \cup way.path
    <3>1. \A i \in 1 .. n + 1 : i \in 1 .. n \/ i = n + 1
      BY <2>1
    <3> QED BY <2>1, <2>4, <3>1 DEF Finds
  <2>6. found[n + 1].cycle = {p \in old \cup way.path : OnCycle(parent, p)}
    BY <2>1, <2>3, <2>4 DEF Finds
  <2>7. old \cup way.path \in SUBSET N
    BY <2>1, <2>4 DEF Finds
  <2> QED BY <2>3, <2>4, <2>5, <2>6, <2>7 DEF Finds
<1>4. \A n \in S : n + 1 \in S
  <2> HIDE DEF Known
  <2> QED BY <1>3
<1>5. S \in SUBSET Nat
  OBVIOUS
<1> HIDE DEF S
<1>6. S = Nat
  BY <1>2, <1>4, <1>5, SetInduction
<1>7. Known(m)
  <2>1. m \in Nat /\ m <= m
    OBVIOUS
  <2> HIDE DEF Known, m
  <2> QED BY <1>6, <2>1 DEF S
<1>8. found[m].visited = N
  BY <1>7
<1> QED BY <1>1, <1>7, <1>8

-----------------------------------------------------------------------------
LEMMA KnownIs ==
  ASSUME NEW N, IsFiniteSet(N), NoPage \notin N, NEW parent, DOMAIN parent = N
  PROVE  Indexed(P!Known(parent)) /\ DOMAIN P!Known(parent) = N
BY DEF P!Known, Indexed, NoPage

\* A closed set without a root has a page on a cycle: a smallest one of its
\* closed parts is what is above each of its pages.
LEMMA ClosedHasCycle ==
  ASSUME NEW parent, Indexed(parent), NEW S \in SUBSET DOMAIN parent, S # {}, Closed(parent, S)
  PROVE  \E p \in S : OnCycle(parent, p)
<1> DEFINE Parts == {T \in SUBSET S : T # {} /\ Closed(parent, T)}
           Counts == {Cardinality(T) : T \in Parts}
<1>1. \A T \in SUBSET S : IsFiniteSet(T) /\ Cardinality(T) \in Nat
  BY FS_Subset, FS_CardinalityType DEF Indexed
<1>2. Counts \in SUBSET Nat /\ Cardinality(S) \in Counts
  BY <1>1
<1>3. PICK n \in Counts : \A m \in Counts : n <= m
  <2> HIDE DEF Counts
  <2> QED BY <1>2, LeastNumber
<1>4. PICK T \in Parts : Cardinality(T) = n
  BY <1>3
<1>5. PICK p \in T : TRUE
  BY <1>4
<1>6. OnCycle(parent, p)
  <2> SUFFICES ASSUME NEW U \in SUBSET (DOMAIN parent \cup {NoPage}),
                      parent[p] \in U, Closed(parent, U)
               PROVE  p \in U
    BY DEF OnCycle, Reached
  <2> DEFINE V == T \cap U
  <2>1. NoPage \notin T
    BY DEF Indexed
  <2>2. parent[p] \in V
    BY <1>4, <1>5, <2>1 DEF Closed
  <2>3. Closed(parent, V)
    BY <1>4, <2>1 DEF Closed
  <2>4. V \in Parts
    BY <2>2, <2>3
  <2>5. n <= Cardinality(V)
    BY <1>3, <2>4
  <2>6. V \in SUBSET T /\ IsFiniteSet(T) /\ Cardinality(T) \in Nat /\ Cardinality(V) \in Nat
    BY <1>1, <1>4
  <2>7. Cardinality(V) <= Cardinality(T) /\ (Cardinality(T) = Cardinality(V) => T = V)
    <3> HIDE DEF V
    <3> QED BY <2>6, FS_Subset
  <2>8. T = V
    BY <1>4, <2>5, <2>6, <2>7
  <2> QED BY <1>5, <2>8
<1> QED BY <1>5, <1>6

\* Every way up ends at a root.
Forest(tree) == Indexed(tree) /\ \A p \in DOMAIN tree : Reached(tree, p, NoPage)

\* Whatever the index says of parents, what is shown is a forest: each page keeps
\* its parent, unless that is not indexed, or is the page itself, or leads back
\* to it (from_pages).
THEOREM TreesAreForests ==
  ASSUME NEW N, IsFiniteSet(N), NoPage \notin N, NEW parent, DOMAIN parent = N,
         NEW starts, AllStarted(starts, N)
  PROVE  LET tree == P!Tree(parent, starts)
             known == P!Known(parent)
         IN /\ Forest(tree) /\ DOMAIN tree = N
            /\ \A p \in N : tree[p] = IF OnCycle(known, p) THEN NoPage ELSE known[p]
<1> DEFINE tree == P!Tree(parent, starts)
           known == P!Known(parent)
<1>1. Indexed(known) /\ DOMAIN known = N
  BY KnownIs
<1>2. P!CycleMembers(known, starts) = {p \in N : OnCycle(known, p)}
  <2> HIDE DEF known
  <2> QED BY <1>1, CyclesAreFound
<1>3. DOMAIN tree = N /\ \A p \in N : tree[p] = IF OnCycle(known, p) THEN NoPage ELSE known[p]
  BY <1>2 DEF P!Tree, NoPage
<1>4. Indexed(tree)
  <2>1. tree = [p \in N |-> tree[p]]
    BY DEF P!Tree
  <2>2. \A p \in N : tree[p] \in N \cup {NoPage}
    <3> HIDE DEF tree, known
    <3> QED BY <1>1, <1>3 DEF Indexed
  <2> HIDE DEF tree, known
  <2> QED BY <2>1, <2>2 DEF Indexed
<1> HIDE DEF tree, known
<1>5. ASSUME NEW p \in N, NEW S \in SUBSET (N \cup {NoPage}), p \in S, Closed(tree, S), NoPage \notin S
      PROVE  FALSE
  <2>1. S \in SUBSET N /\ S # {}
    BY <1>5
  <2>2. \A q \in S : ~OnCycle(known, q) /\ known[q] \in S
    BY <1>3, <1>5, <2>1 DEF Closed
  <2>3. Closed(known, S)
    BY <2>2 DEF Closed
  <2>4. \E q \in S : OnCycle(known, q)
    BY <1>1, <2>1, <2>3, ClosedHasCycle
  <2> QED BY <2>2, <2>4
<1>6. \A p \in DOMAIN tree : Reached(tree, p, NoPage)
  BY <1>3, <1>5 DEF Reached
<1> QED BY <1>3, <1>4, <1>6 DEF Forest, tree, known

-----------------------------------------------------------------------------
(* The picker. *)

Inner(tree) == {p \in DOMAIN tree : P!HasChildren(tree, p)}
Wider(tree, views) == views \cup {p \in Inner(tree) : tree[p] \in views}

\* What the buttons of a view say.
LEMMA ViewIs ==
  ASSUME NEW tree, NEW v, NEW b
  PROVE  b \in P!View(tree, v) <=>
           \/ \E p \in DOMAIN tree : /\ tree[p] = v
                /\ b = P!Button(IF p \in Inner(tree) THEN "open" ELSE "select", p)
           \/ /\ v # NoPage
              /\ b \in {P!Button("select", v), P!Button("back", v), P!Button("root", NoPage)}
BY DEF P!View, P!Offer, Inner, NoPage

LEMMA OpenedAre ==
  ASSUME NEW tree, NEW views
  PROVE  {b.page : b \in {b \in UNION {P!View(tree, v) : v \in views} : b.action = "open"}}
           = {p \in Inner(tree) : tree[p] \in views}
<1> DEFINE opens == {b \in UNION {P!View(tree, v) : v \in views} : b.action = "open"}
<1>1. ASSUME NEW b \in opens PROVE b.page \in Inner(tree) /\ tree[b.page] \in views
  <2>1. PICK v \in views : b \in P!View(tree, v)
    OBVIOUS
  <2>2. b.action = "open"
    OBVIOUS
  <2>3. \/ \E p \in DOMAIN tree : /\ tree[p] = v
             /\ b = P!Button(IF p \in Inner(tree) THEN "open" ELSE "select", p)
        \/ b \in {P!Button("select", v), P!Button("back", v), P!Button("root", NoPage)}
    BY <2>1, ViewIs
  <2>4. PICK p \in DOMAIN tree : /\ tree[p] = v
             /\ b = P!Button(IF p \in Inner(tree) THEN "open" ELSE "select", p)
    BY <2>2, <2>3 DEF P!Button
  <2>5. p \in Inner(tree) /\ b.page = p
    BY <2>2, <2>4 DEF P!Button
  <2> QED BY <2>4, <2>5
<1>2. ASSUME NEW p \in Inner(tree), tree[p] \in views PROVE \E b \in opens : b.page = p
  <2>1. p \in DOMAIN tree
    BY DEF Inner
  <2>2. P!Button("open", p) \in P!View(tree, tree[p])
    BY <2>1, ViewIs
  <2>3. P!Button("open", p).action = "open" /\ P!Button("open", p).page = p
    BY DEF P!Button
  <2>4. P!Button("open", p) \in opens
    BY <1>2, <2>2, <2>3
  <2> QED BY <2>3, <2>4
<1> HIDE DEF opens
<1> QED BY <1>1, <1>2 DEF opens

LEMMA VisitsAre ==
  ASSUME NEW tree, Indexed(tree)
  PROVE  \E after : LET n == Cardinality(DOMAIN tree)
           IN /\ n \in Nat /\ after[0] = {NoPage} /\ P!Visited(tree) = after[n]
              /\ \A k \in 1 .. n : after[k] = Wider(tree, after[k - 1])
<1> DEFINE n == Cardinality(DOMAIN tree)
           A == SUBSET (DOMAIN tree \cup {NoPage})
           W(views) == views \cup {b.page : b \in {b \in UNION {P!View(tree, v) : v \in views} :
                                                      b.action = "open"}}
           Good(t) == t = [k \in 0 .. n |-> IF k = 0 THEN {P!NoPage} ELSE W(t[k - 1])]
           f == CHOOSE t : Good(t)
           F == [k \in 1 .. n |-> [a \in A |-> Wider(tree, a)]]
<1>1. n \in Nat
  BY FS_CardinalityType DEF Indexed
<1>2. P!Visited(tree) = f[n]
  BY SameCardinality DEF P!Visited
<1>3. \A views : W(views) = Wider(tree, views)
  BY OpenedAre DEF Wider
<1> HIDE DEF W
<1>4. {NoPage} \in A /\ F \in Functionals(A, n)
  BY DEF Functionals, Wider, Inner
<1>5. \A k \in 1 .. n : \A a \in A : F[k][a] = Wider(tree, a)
  OBVIOUS
<1> HIDE DEF F, A
<1>6. PICK g : g \in [0 .. n -> A] /\ Recursive(g, {NoPage}, F, n)
  BY <1>1, <1>4, RecursionExists
<1>7. \A k \in 1 .. n : k - 1 \in 0 .. n /\ g[k - 1] \in A
  BY <1>1, <1>6
<1>8. g[0] = {NoPage} /\ \A k \in 1 .. n : g[k] = W(g[k - 1])
  BY <1>3, <1>5, <1>6, <1>7 DEF Recursive
<1>9. \A k \in 0 .. n : g[k] = IF k = 0 THEN {NoPage} ELSE W(g[k - 1])
  BY <1>1, <1>8
<1>10. Good(g)
  BY <1>6, <1>9 DEF NoPage
<1> HIDE DEF Good, f
<1>11. Good(f)
  BY <1>10 DEF f
<1>12. \A k \in 0 .. n : f[k] = IF k = 0 THEN {NoPage} ELSE W(f[k - 1])
  BY <1>11 DEF Good, NoPage
<1>13. f[0] = {NoPage}
  BY <1>1, <1>12
<1>14. \A k \in 1 .. n : f[k] = Wider(tree, f[k - 1])
  BY <1>1, <1>3, <1>12
<1> QED BY <1>1, <1>2, <1>13, <1>14

\* The owner comes to the view of every page that has pages below it, in no more
\* presses than there are pages.
LEMMA VisitedIs ==
  ASSUME NEW tree, Forest(tree)
  PROVE  P!Visited(tree) = {NoPage} \cup Inner(tree)
<1> DEFINE n == Cardinality(DOMAIN tree)
           All == DOMAIN tree \cup {NoPage}
<1>1. PICK after : /\ n \in Nat /\ after[0] = {NoPage} /\ P!Visited(tree) = after[n]
                   /\ \A k \in 1 .. n : after[k] = Wider(tree, after[k - 1])
  BY VisitsAre DEF Forest
<1>2. IsFiniteSet(All) /\ Cardinality(All) = n + 1
  BY FS_AddElement DEF Forest, Indexed
<1>3. Inner(tree) \subseteq DOMAIN tree
  BY DEF Inner
<1> DEFINE Grown(k) == /\ NoPage \in after[k] /\ after[k] \subseteq {NoPage} \cup Inner(tree)
                       /\ Wider(tree, after[k]) = after[k] \/ Cardinality(after[k]) >= k + 1
           S == {k \in Nat : k <= n => Grown(k)}
<1>4. 0 \in S
  <2>1. Cardinality({NoPage}) = 1
    BY FS_Singleton
  <2>2. Grown(0)
    BY <1>1, <2>1
  <2> HIDE DEF Grown
  <2> QED BY <2>2
<1>5. ASSUME NEW k \in S, k + 1 <= n PROVE Grown(k + 1)
  <2>1. k \in Nat /\ Grown(k)
    <3> HIDE DEF Grown, n
    <3> QED BY <1>1, <1>5
  <2>2. after[k + 1] = Wider(tree, after[k])
    <3>1. k + 1 \in 1 .. n /\ (k + 1) - 1 = k
      BY <1>1, <1>5, <2>1
    <3> QED BY <1>1, <3>1
  <2>3. NoPage \in after[k + 1] /\ after[k + 1] \subseteq {NoPage} \cup Inner(tree)
    BY <2>1, <2>2 DEF Wider
  <2>4. CASE after[k + 1] = after[k]
    BY <2>2, <2>3, <2>4
  <2>5. CASE after[k + 1] # after[k]
    <3>1. Cardinality(after[k]) >= k + 1
      BY <2>1, <2>2, <2>5
    <3>2. after[k + 1] \in SUBSET All /\ after[k] \in SUBSET after[k + 1]
      BY <1>3, <2>2, <2>3 DEF Wider
    <3>3. IsFiniteSet(after[k + 1]) /\ Cardinality(after[k + 1]) \in Nat
      <4> HIDE DEF All
      <4> QED BY <1>2, <3>2, FS_Subset, FS_CardinalityType
    <3>4. IsFiniteSet(after[k]) /\ Cardinality(after[k]) \in Nat
      BY <3>2, <3>3, FS_Subset, FS_CardinalityType
    <3>5. /\ Cardinality(after[k]) <= Cardinality(after[k + 1])
          /\ Cardinality(after[k + 1]) # Cardinality(after[k])
      BY <2>5, <3>2, <3>3, FS_Subset
    <3>6. Cardinality(after[k + 1]) >= (k + 1) + 1
      BY <2>1, <3>1, <3>3, <3>4, <3>5
    <3> QED BY <2>3, <3>6
  <2> QED BY <2>4, <2>5
<1>6. \A k \in S : k + 1 \in S
  <2> HIDE DEF Grown
  <2> QED BY <1>5
<1>7. S \in SUBSET Nat
  OBVIOUS
<1> HIDE DEF S
<1>8. S = Nat
  BY <1>4, <1>6, <1>7, SetInduction
<1>9. Grown(n)
  <2>1. n <= n
    BY <1>1
  <2> HIDE DEF Grown, n
  <2> QED BY <1>1, <1>8, <2>1 DEF S
<1>10. Wider(tree, after[n]) = after[n]
  <2> SUFFICES ASSUME Cardinality(after[n]) >= n + 1 PROVE Wider(tree, after[n]) = after[n]
    BY <1>9
  <2>1. after[n] \in SUBSET All
    BY <1>3, <1>9
  <2>2. Cardinality(after[n]) <= Cardinality(All) /\ Cardinality(after[n]) \in Nat
        /\ (Cardinality(All) = Cardinality(after[n]) => All = after[n])
    <3> HIDE DEF All, n
    <3> QED BY <1>2, <2>1, FS_Subset, FS_CardinalityType
  <2>3. All = after[n]
    BY <1>1, <1>2, <2>2
  <2> QED BY <1>3, <2>3 DEF Wider
<1>11. ASSUME NEW p \in Inner(tree), p \notin after[n] PROVE FALSE
  <2> DEFINE T == Inner(tree) \ after[n]
  <2>1. T \in SUBSET (DOMAIN tree \cup {NoPage}) /\ p \in T /\ NoPage \notin T
    BY <1>3, <1>11 DEF Forest, Indexed
  <2>2. ASSUME NEW q \in T PROVE tree[q] \in T
    <3>1. q \in DOMAIN tree /\ tree[q] \notin after[n]
      BY <1>3, <1>10 DEF Wider
    <3>2. tree[q] \in DOMAIN tree
      BY <1>9, <3>1 DEF Forest, Indexed
    <3>3. tree[q] \in Inner(tree)
      BY <3>1, <3>2 DEF Inner, P!HasChildren
    <3> QED BY <3>1, <3>3
  <2>3. Closed(tree, T)
    BY <2>2 DEF Closed
  <2>4. Reached(tree, p, NoPage)
    BY <1>3, <1>11 DEF Forest
  <2> HIDE DEF T
  <2> QED BY <2>1, <2>3, <2>4 DEF Reached
<1> QED BY <1>1, <1>9, <1>11

\* Every page can be chosen from a view the owner comes to, every button there
\* works while the index stays as it is, and "back" undoes "open" (render).
THEOREM EveryPageSelectable ==
  ASSUME NEW tree, Forest(tree)
  PROVE  LET visited == P!Visited(tree)
         IN /\ \A p \in DOMAIN tree : \E v \in visited : P!Button("select", p) \in P!View(tree, v)
            /\ \A v \in visited : \A b \in P!View(tree, v) :
                 /\ P!Accepts(tree, b)
                 /\ b.action = "open" =>
                      P!Leads(tree, P!Button("back", P!Leads(tree, b))) = v
<1>1. P!Visited(tree) = {NoPage} \cup Inner(tree)
  BY VisitedIs
<1>2. NoPage \notin DOMAIN tree /\ Inner(tree) \subseteq DOMAIN tree
  BY DEF Forest, Indexed, Inner
<1>3. ASSUME NEW p \in DOMAIN tree
      PROVE  \E v \in {NoPage} \cup Inner(tree) : P!Button("select", p) \in P!View(tree, v)
  <2>1. CASE p \in Inner(tree)
    <3>1. P!Button("select", p) \in P!View(tree, p)
      BY <1>2, ViewIs
    <3> QED BY <2>1, <3>1
  <2>2. CASE p \notin Inner(tree)
    <3>1. P!Button("select", p) \in P!View(tree, tree[p])
      BY <2>2, ViewIs
    <3>2. tree[p] = NoPage \/ tree[p] \in Inner(tree)
      BY DEF Forest, Indexed, Inner, P!HasChildren
    <3> QED BY <3>1, <3>2
  <2> QED BY <2>1, <2>2
<1>4. ASSUME NEW v \in {NoPage} \cup Inner(tree), NEW b \in P!View(tree, v)
      PROVE  /\ P!Accepts(tree, b)
             /\ b.action = "open" => P!Leads(tree, P!Button("back", P!Leads(tree, b))) = v
  <2>1. \/ \E p \in DOMAIN tree : /\ tree[p] = v
             /\ b = P!Button(IF p \in Inner(tree) THEN "open" ELSE "select", p)
        \/ /\ v # NoPage
           /\ b \in {P!Button("select", v), P!Button("back", v), P!Button("root", NoPage)}
    BY ViewIs
  <2>2. ASSUME NEW p \in DOMAIN tree, tree[p] = v,
               b = P!Button(IF p \in Inner(tree) THEN "open" ELSE "select", p)
        PROVE  /\ P!Accepts(tree, b)
               /\ b.action = "open" => P!Leads(tree, P!Button("back", P!Leads(tree, b))) = v
    <3>1. CASE p \in Inner(tree)
      BY <2>2, <3>1 DEF P!Button, P!Accepts, P!Leads, Inner
    <3>2. CASE p \notin Inner(tree)
      BY <2>2, <3>2 DEF P!Button, P!Accepts
    <3> QED BY <3>1, <3>2
  <2>3. ASSUME v # NoPage, b \in {P!Button("select", v), P!Button("back", v), P!Button("root", NoPage)}
        PROVE  P!Accepts(tree, b) /\ b.action # "open"
    <3>1. v \in DOMAIN tree
      BY <1>2, <2>3
    <3>2. CASE b \in {P!Button("select", v), P!Button("back", v)}
      <4>1. b.action \in {"back", "select"} /\ b.page = v
        BY <3>2 DEF P!Button
      <4>2. b.action # "open" /\ b.page \in DOMAIN tree
        BY <3>1, <4>1
      <4>3. P!Accepts(tree, b)
        BY <4>1, <4>2 DEF P!Accepts
      <4> QED BY <4>2, <4>3
    <3>3. CASE b = P!Button("root", NoPage)
      <4>1. b.action = "root"
        BY <3>3 DEF P!Button
      <4> QED BY <4>1 DEF P!Accepts
    <3> QED BY <2>3, <3>2, <3>3
  <2> QED BY <2>1, <2>2, <2>3
<1> QED BY <1>1, <1>3, <1>4

\* A button of a view that is out of date is refused, or leads to a view of the
\* index as it is now (_validate_callback_action).
THEOREM StaleButtonsAreSafe ==
  ASSUME NEW old, NEW new, Forest(new), NEW v \in P!Visited(old), NEW b \in P!View(old, v),
         P!Accepts(new, b), b.action # "select"
  PROVE  P!Leads(new, b) \in P!Visited(new)
<1>1. P!Visited(new) = {NoPage} \cup Inner(new)
  BY VisitedIs
<1>2. b.action \in {"open", "back", "root"}
  BY ViewIs DEF P!Button
<1>3. CASE b.action = "open"
  BY <1>1, <1>3 DEF P!Accepts, P!Leads, Inner
<1>4. CASE b.action = "root"
  BY <1>1, <1>4 DEF P!Leads, NoPage
<1>5. CASE b.action = "back"
  <2>1. b.page \in DOMAIN new /\ P!Leads(new, b) = new[b.page]
    BY <1>5 DEF P!Accepts, P!Leads
  <2>2. new[b.page] = NoPage \/ new[b.page] \in Inner(new)
    BY <2>1 DEF Forest, Indexed, Inner, P!HasChildren
  <2> QED BY <1>1, <2>1, <2>2
<1> QED BY <1>2, <1>3, <1>4, <1>5

-----------------------------------------------------------------------------
(* The chunks of a page, and the search for duplicates: Retrieval.           *)

CONSTANTS Spelled, Unit, Threshold, Likeness(_, _)

R == INSTANCE Retrieval

\* The block has text.
Lined(page, b) == page[b].size > 0

ChunkType(page) ==
    [path : {R!Path(page, b) : b \in 1 .. Len(page)} \cup {<<>>},
     lines : Seq(1 .. Len(page)), blocks : Seq(1 .. Len(page))]
CutType(page) == [chunks : Seq(ChunkType(page)), open : ChunkType(page)]

\* The chunks, and the open one.
All(cut) == Append(cut.chunks, cut.open)

\* The blocks are the first ones, and the lines those of them with text.
Told(page, chunks, b) ==
    \A i \in DOMAIN chunks :
      /\ \A k \in DOMAIN chunks[i].blocks : chunks[i].blocks[k] <= b
      /\ \A k \in DOMAIN chunks[i].lines :
           /\ Lined(page, chunks[i].lines[k])
           /\ \E l \in DOMAIN chunks[i].blocks : chunks[i].blocks[l] = chunks[i].lines[k]

\* Lines are in the order of the page, in a chunk and from one to the next, so that
\* none is twice in them; and so are blocks.
LinesAscend(chunks) ==
    \A i, j \in DOMAIN chunks : \A k \in DOMAIN chunks[i].lines, l \in DOMAIN chunks[j].lines :
      i < j \/ (i = j /\ k < l) => chunks[i].lines[k] < chunks[j].lines[l]

BlocksAscend(chunks) ==
    \A i, j \in DOMAIN chunks : \A k \in DOMAIN chunks[i].blocks, l \in DOMAIN chunks[j].blocks :
      i < j \/ (i = j /\ k < l) => chunks[i].blocks[k] < chunks[j].blocks[l]

\* No text of the first blocks is lost.
Kept(page, chunks, b) ==
    \A c \in 1 .. b : Lined(page, c) =>
      \E i \in DOMAIN chunks : \E k \in DOMAIN chunks[i].lines : chunks[i].lines[k] = c

\* The block that has opened the section of another.
Opens(page, h, b) ==
    /\ h \in 1 .. b /\ (h = 1 \/ R!Boundary(page[h]))
    /\ \A c \in h + 1 .. b : ~R!Boundary(page[c])

\* A chunk is cited at the block that opened the section of each of its blocks.
InSection(page, chunks) ==
    \A i \in DOMAIN chunks : \A k \in DOMAIN chunks[i].blocks :
      \E h \in 1 .. Len(page) : /\ Opens(page, h, chunks[i].blocks[k])
                                /\ chunks[i].path = R!Path(page, h)

\* A chunk is too long only when its one line is.
Fit(page, max, chunks) ==
    \A i \in DOMAIN chunks :
      Len(chunks[i].lines) > 1 => ~(R!Length(page, chunks[i].lines) > max)

\* The line would not have fitted, or begins another section.
Parts(page, max, lines, b) ==
    \/ R!Length(page, Append(lines, b)) > max
    \/ \E c \in lines[Len(lines)] + 1 .. b : R!Boundary(page[c])

\* No chunk ends before it has to.
Parted(page, max, chunks) ==
    \A i \in 1 .. Len(chunks) - 1 :
      /\ chunks[i].lines # <<>>
      /\ chunks[i + 1].lines # <<>> => Parts(page, max, chunks[i].lines, chunks[i + 1].lines[1])

WellCut(page, max, chunks, b) ==
    /\ Told(page, chunks, b) /\ Kept(page, chunks, b)
    /\ LinesAscend(chunks) /\ BlocksAscend(chunks)
    /\ InSection(page, chunks)
    /\ Fit(page, max, chunks) /\ Parted(page, max, chunks)

LEMMA AllIs ==
  ASSUME NEW page, NEW cut \in CutType(page)
  PROVE  LET m == Len(cut.chunks)
         IN /\ m \in Nat /\ All(cut) \in Seq(ChunkType(page)) /\ Len(All(cut)) = m + 1
            /\ DOMAIN All(cut) = 1 .. m + 1
            /\ All(cut)[m + 1] = cut.open
            /\ \A i \in 1 .. m : All(cut)[i] = cut.chunks[i]
BY DEF All, CutType

LEMMA ChunkIs ==
  ASSUME NEW page, NEW c \in ChunkType(page)
  PROVE  /\ c.lines \in Seq(1 .. Len(page)) /\ c.blocks \in Seq(1 .. Len(page))
         /\ Len(c.lines) \in Nat /\ DOMAIN c.lines = 1 .. Len(c.lines)
         /\ Len(c.blocks) \in Nat /\ DOMAIN c.blocks = 1 .. Len(c.blocks)
         /\ c.lines # <<>> <=> Len(c.lines) > 0
BY DEF ChunkType

\* An empty chunk in place of one without lines, or at the end, changes nothing.
LEMMA EmptyWellCut ==
  ASSUME NEW page, NEW max, NEW b,
         NEW D, NEW n \in Nat, Len(D) = n, DOMAIN D = 1 .. n, WellCut(page, max, D, b),
         NEW E, NEW m \in Nat, Len(E) = m + 1, DOMAIN E = 1 .. m + 1, m = n \/ m = n - 1,
         m = n - 1 => D[m + 1].lines = <<>>,
         m = n /\ m > 0 => D[m].lines # <<>>,
         \A i \in 1 .. m : E[i] = D[i],
         E[m + 1].lines = <<>>, E[m + 1].blocks = <<>>
  PROVE  WellCut(page, max, E, b)
<1>2. \A i \in DOMAIN E : i \in 1 .. m \/ i = m + 1
  OBVIOUS
<1>3. \A i \in 1 .. m : i \in DOMAIN D /\ i \in DOMAIN E /\ E[i] = D[i]
  OBVIOUS
<1>4. DOMAIN E[m + 1].lines = {} /\ DOMAIN E[m + 1].blocks = {} /\ Len(E[m + 1].lines) = 0
  OBVIOUS
<1>5. \A i \in DOMAIN D : i \in 1 .. m \/ DOMAIN D[i].lines = {}
  <2>1. CASE m = n
    BY <2>1
  <2>2. CASE m = n - 1
    BY <2>2
  <2> QED BY <2>1, <2>2
<1>6. Told(page, E, b)
  BY <1>2, <1>3, <1>4 DEF WellCut, Told
<1>7. Kept(page, E, b)
  BY <1>3, <1>5 DEF WellCut, Kept
<1>8. LinesAscend(E)
  BY <1>2, <1>3, <1>4 DEF WellCut, LinesAscend
<1>9. BlocksAscend(E)
  BY <1>2, <1>3, <1>4 DEF WellCut, BlocksAscend
<1>10. InSection(page, E)
  BY <1>2, <1>3, <1>4 DEF WellCut, InSection
<1>11. Fit(page, max, E)
  BY <1>2, <1>3, <1>4 DEF WellCut, Fit
<1>12. Parted(page, max, E)
  <2>0. Len(E) - 1 = m
    OBVIOUS
  <2> SUFFICES \A i \in 1 .. m :
                 /\ E[i].lines # <<>>
                 /\ E[i + 1].lines # <<>> => Parts(page, max, E[i].lines, E[i + 1].lines[1])
    BY <2>0 DEF Parted
  <2> TAKE i \in 1 .. m
  <2>1. CASE i < n
    <3>1. i \in 1 .. n - 1 /\ E[i] = D[i]
      BY <1>3, <2>1
    <3>2. E[i + 1] = D[i + 1] \/ E[i + 1].lines = <<>>
      OBVIOUS
    <3> QED BY <3>1, <3>2 DEF WellCut, Parted
  <2>2. CASE i = n
    BY <1>3, <2>2
  <2> QED BY <2>1, <2>2
<1> QED BY <1>6, <1>7, <1>8, <1>9, <1>10, <1>11, <1>12 DEF WellCut

LEMMA FlushWellCut ==
  ASSUME NEW page, NEW max, NEW b, NEW cut \in CutType(page), NEW path,
         path \in {R!Path(page, c) : c \in 1 .. Len(page)} \cup {<<>>},
         WellCut(page, max, All(cut), b)
  PROVE  LET next == R!Flush(cut, path)
         IN /\ next \in CutType(page) /\ WellCut(page, max, All(next), b)
            /\ next.open = [path |-> path, lines |-> <<>>, blocks |-> <<>>]
            /\ cut.open.lines = <<>> => next.chunks = cut.chunks
            /\ cut.open.lines # <<>> => next.chunks = Append(cut.chunks, cut.open)
<1> DEFINE next == R!Flush(cut, path)
           D == All(cut)
           E == All(next)
           d == Len(cut.chunks)
           e == Len(next.chunks)
<1>1. /\ next.open = [path |-> path, lines |-> <<>>, blocks |-> <<>>]
      /\ cut.open.lines = <<>> => next.chunks = cut.chunks
      /\ cut.open.lines # <<>> => next.chunks = Append(cut.chunks, cut.open)
  BY DEF R!Flush
<1>2. next \in CutType(page)
  <2>1. next.open \in ChunkType(page)
    BY <1>1 DEF ChunkType
  <2>2. cut.chunks \in Seq(ChunkType(page)) /\ cut.open \in ChunkType(page)
    BY DEF CutType
  <2>3. next.chunks \in Seq(ChunkType(page))
    <3>1. Append(cut.chunks, cut.open) \in Seq(ChunkType(page))
      BY <2>2
    <3> QED BY <1>1, <2>2, <3>1
  <2> QED BY <2>1, <2>3 DEF CutType, R!Flush
<1>3. /\ d \in Nat /\ Len(D) = d + 1 /\ DOMAIN D = 1 .. d + 1 /\ D[d + 1] = cut.open
      /\ \A i \in 1 .. d : D[i] = cut.chunks[i]
  BY AllIs
<1>4. /\ e \in Nat /\ Len(E) = e + 1 /\ DOMAIN E = 1 .. e + 1 /\ E[e + 1] = next.open
      /\ \A i \in 1 .. e : E[i] = next.chunks[i]
  BY <1>2, AllIs
<1>5. E[e + 1].lines = <<>> /\ E[e + 1].blocks = <<>>
  BY <1>1, <1>4
<1>6. cut.chunks \in Seq(ChunkType(page)) /\ cut.open \in ChunkType(page)
  BY DEF CutType
<1>7. CASE cut.open.lines = <<>>
  <2>1. e = d /\ \A i \in 1 .. e : E[i] = D[i]
    BY <1>1, <1>3, <1>4, <1>7
  <2> HIDE DEF next, D, E, d, e
  <2>2. WellCut(page, max, E, b)
    <3>1. WellCut(page, max, D, b) /\ d + 1 \in Nat /\ e = (d + 1) - 1 /\ D[e + 1].lines = <<>>
      BY <1>3, <1>7, <2>1 DEF D
    <3>2. e # d + 1
      BY <1>3, <2>1
    <3> QED BY <1>3, <1>4, <1>5, <2>1, <3>1, <3>2, EmptyWellCut
  <2> QED BY <1>1, <1>2, <2>2 DEF next, E
<1>8. CASE cut.open.lines # <<>>
  <2>1. next.chunks = Append(cut.chunks, cut.open)
    BY <1>1, <1>8
  <2>2. e = d + 1 /\ next.chunks[d + 1] = cut.open /\ \A i \in 1 .. d : next.chunks[i] = cut.chunks[i]
    BY <1>3, <1>6, <2>1
  <2>3. \A i \in 1 .. e : E[i] = D[i]
    BY <1>3, <1>4, <2>2
  <2> HIDE DEF next, D, E, d, e
  <2>4. D[e].lines # <<>>
    BY <1>3, <1>8, <2>2
  <2>5. WellCut(page, max, E, b)
    <3>1. WellCut(page, max, D, b) /\ d + 1 \in Nat /\ e = d + 1
      BY <1>3, <2>2 DEF D
    <3> QED BY <1>3, <1>4, <1>5, <2>3, <2>4, <3>1, EmptyWellCut
  <2> QED BY <1>1, <1>2, <2>5 DEF next, E
<1> QED BY <1>7, <1>8

\* The head of the section that block b is in.
Headed(page, cut, b) ==
    \E h \in 1 .. Len(page) : Opens(page, h, b) /\ cut.open.path = R!Path(page, h)

\* A block is added to the open chunk.
LEMMA AddWellCut ==
  ASSUME NEW page, NEW max, NEW b \in 1 .. Len(page), NEW cut \in CutType(page),
         WellCut(page, max, All(cut), b - 1), Headed(page, cut, b),
         Lined(page, b) /\ cut.open.lines # <<>> =>
           ~(R!Length(page, Append(cut.open.lines, b)) > max),
         Lined(page, b) /\ cut.open.lines = <<>> /\ cut.chunks # <<>> =>
           Parts(page, max, cut.chunks[Len(cut.chunks)].lines, b)
  PROVE  LET next == [cut EXCEPT !.open = R!Add(page, @, b)]
         IN /\ next \in CutType(page) /\ WellCut(page, max, All(next), b)
            /\ next.chunks = cut.chunks /\ next.open.path = cut.open.path
            /\ next.open.lines = <<>> <=> cut.open.lines = <<>> /\ ~Lined(page, b)
<1> DEFINE next == [cut EXCEPT !.open = R!Add(page, @, b)]
           o == cut.open
           p == next.open
           D == All(cut)
           E == All(next)
           d == Len(cut.chunks)
<1>1. /\ cut.chunks \in Seq(ChunkType(page)) /\ o \in ChunkType(page)
      /\ cut = [chunks |-> cut.chunks, open |-> o]
  BY DEF CutType
<1>2. next.chunks = cut.chunks /\ p = R!Add(page, o, b) /\ next = [chunks |-> cut.chunks, open |-> p]
  BY <1>1
<1>3. /\ p.path = o.path /\ p.blocks = Append(o.blocks, b)
      /\ p.lines = IF Lined(page, b) THEN Append(o.lines, b) ELSE o.lines
      /\ p = [path |-> p.path, lines |-> p.lines, blocks |-> p.blocks]
  BY <1>1, <1>2 DEF R!Add, Lined, ChunkType
<1>4. /\ o.lines \in Seq(1 .. Len(page)) /\ o.blocks \in Seq(1 .. Len(page))
      /\ o.path \in {R!Path(page, c) : c \in 1 .. Len(page)} \cup {<<>>}
  BY <1>1 DEF ChunkType
<1>5. p \in ChunkType(page)
  <2> HIDE DEF p, o
  <2>1. p.blocks \in Seq(1 .. Len(page)) /\ Append(o.lines, b) \in Seq(1 .. Len(page))
    BY <1>3, <1>4
  <2>2. p.lines \in Seq(1 .. Len(page))
    BY <1>3, <1>4, <2>1
  <2> QED BY <1>3, <1>4, <2>1, <2>2 DEF ChunkType
<1>6. next \in CutType(page)
  BY <1>1, <1>2, <1>5 DEF CutType
<1>7. /\ d \in Nat /\ Len(D) = d + 1 /\ DOMAIN D = 1 .. d + 1 /\ D[d + 1] = o
      /\ \A i \in 1 .. d : D[i] = cut.chunks[i]
  BY AllIs
<1>8. /\ Len(E) = d + 1 /\ DOMAIN E = 1 .. d + 1 /\ E[d + 1] = p
      /\ \A i \in 1 .. d : E[i] = cut.chunks[i]
  BY <1>2, <1>6, AllIs
<1>9. /\ Len(o.blocks) \in Nat /\ DOMAIN o.blocks = 1 .. Len(o.blocks)
      /\ DOMAIN p.blocks = 1 .. Len(o.blocks) + 1
      /\ p.blocks[Len(o.blocks) + 1] = b
      /\ \A k \in 1 .. Len(o.blocks) : p.blocks[k] = o.blocks[k]
  BY <1>3, <1>4
<1>10. /\ Len(o.lines) \in Nat /\ DOMAIN o.lines = 1 .. Len(o.lines)
       /\ ~Lined(page, b) => p.lines = o.lines
       /\ Lined(page, b) => /\ DOMAIN p.lines = 1 .. Len(o.lines) + 1
                            /\ Len(p.lines) = Len(o.lines) + 1
                            /\ p.lines[Len(o.lines) + 1] = b
                            /\ \A k \in 1 .. Len(o.lines) : p.lines[k] = o.lines[k]
  <2> HIDE DEF p, o
  <2>1. Lined(page, b) => p.lines = Append(o.lines, b)
    BY <1>3
  <2>2. ~Lined(page, b) => p.lines = o.lines
    BY <1>3
  <2>3. LET t == Append(o.lines, b)
        IN /\ DOMAIN t = 1 .. Len(o.lines) + 1 /\ Len(t) = Len(o.lines) + 1
           /\ t[Len(o.lines) + 1] = b /\ \A k \in 1 .. Len(o.lines) : t[k] = o.lines[k]
    BY <1>4
  <2>4. Len(o.lines) \in Nat /\ DOMAIN o.lines = 1 .. Len(o.lines)
    BY <1>4
  <2> QED BY <2>1, <2>2, <2>3, <2>4
<1>11. next.open.lines = <<>> <=> cut.open.lines = <<>> /\ ~Lined(page, b)
  BY <1>3, <1>4, <1>10
<1>12. \A i \in 1 .. d : E[i] = D[i]
  BY <1>7, <1>8
<1>13. \A k \in DOMAIN p.blocks : (k \in DOMAIN o.blocks /\ p.blocks[k] = o.blocks[k]) \/ k = Len(o.blocks) + 1
  BY <1>9
<1>14. \A k \in DOMAIN p.lines : \/ k \in DOMAIN o.lines /\ p.lines[k] = o.lines[k]
                                 \/ k = Len(o.lines) + 1 /\ Lined(page, b) /\ p.lines[k] = b
  <2> HIDE DEF p, o
  <2>1. CASE Lined(page, b)
    BY <1>10, <2>1
  <2>2. CASE ~Lined(page, b)
    BY <1>10, <2>2
  <2> QED BY <2>1, <2>2
<1>15. b \in Nat /\ b \in 1 .. Len(page)
  OBVIOUS
<1>16. WellCut(page, max, D, b - 1)
  OBVIOUS
<1>17. \A i \in DOMAIN D : \A k \in DOMAIN D[i].blocks : D[i].blocks[k] \in Int
  <2>1. D \in Seq(ChunkType(page))
    BY AllIs
  <2>2. \A i \in DOMAIN D : D[i] \in ChunkType(page)
    BY <2>1
  <2> HIDE DEF D
  <2>3. \A i \in DOMAIN D : D[i].blocks \in Seq(1 .. Len(page))
    BY <2>2 DEF ChunkType
  <2> QED BY <2>3
<1>18. \A i \in DOMAIN D : \A k \in DOMAIN D[i].lines : D[i].lines[k] \in Int
  <2>1. D \in Seq(ChunkType(page))
    BY AllIs
  <2>2. \A i \in DOMAIN D : D[i] \in ChunkType(page)
    BY <2>1
  <2> HIDE DEF D
  <2>3. \A i \in DOMAIN D : D[i].lines \in Seq(1 .. Len(page))
    BY <2>2 DEF ChunkType
  <2> QED BY <2>3
<1> HIDE DEF next, o, p, D, E, d
<1>19. \A i \in DOMAIN E : (i \in 1 .. d /\ i \in DOMAIN D /\ E[i] = D[i]) \/ i = d + 1
  BY <1>7, <1>8, <1>12
<1>20. d + 1 \in DOMAIN D /\ d + 1 \in DOMAIN E
  BY <1>7, <1>8
<1>21. /\ \A i \in DOMAIN D : \A k \in DOMAIN D[i].blocks : D[i].blocks[k] <= b - 1
       /\ \A i \in DOMAIN D : \A k \in DOMAIN D[i].lines : D[i].lines[k] <= b - 1
  <2>1. \A i \in DOMAIN D : \A k \in DOMAIN D[i].blocks : D[i].blocks[k] <= b - 1
    BY <1>16 DEF WellCut, Told
  <2>2. \A i \in DOMAIN D : \A k \in DOMAIN D[i].lines :
          \E l \in DOMAIN D[i].blocks : D[i].blocks[l] = D[i].lines[k]
    BY <1>16 DEF WellCut, Told
  <2> QED BY <2>1, <2>2
<1>22. Told(page, E, b)
  <2>1. ASSUME NEW i \in DOMAIN E, NEW k \in DOMAIN E[i].blocks PROVE E[i].blocks[k] <= b
    <3>1. CASE i \in DOMAIN D /\ E[i] = D[i]
      BY <1>15, <1>17, <1>21, <2>1, <3>1
    <3>2. CASE i = d + 1
      <4>1. CASE k \in DOMAIN o.blocks /\ p.blocks[k] = o.blocks[k]
        BY <1>7, <1>8, <1>15, <1>17, <1>20, <1>21, <3>2, <4>1
      <4>2. CASE k = Len(o.blocks) + 1
        BY <1>8, <1>9, <1>15, <3>2, <4>2
      <4> QED BY <1>8, <1>13, <2>1, <3>2, <4>1, <4>2
    <3> QED BY <1>19, <2>1, <3>1, <3>2
  <2>2. ASSUME NEW i \in DOMAIN E, NEW k \in DOMAIN E[i].lines
        PROVE  /\ Lined(page, E[i].lines[k])
               /\ \E l \in DOMAIN E[i].blocks : E[i].blocks[l] = E[i].lines[k]
    <3>1. CASE i \in DOMAIN D /\ E[i] = D[i]
      BY <1>16, <2>2, <3>1 DEF WellCut, Told
    <3>2. CASE i = d + 1
      <4>1. CASE k \in DOMAIN o.lines /\ p.lines[k] = o.lines[k]
        <5>1. /\ Lined(page, o.lines[k])
              /\ \E l \in DOMAIN o.blocks : o.blocks[l] = o.lines[k]
          BY <1>7, <1>16, <1>20, <4>1 DEF WellCut, Told
        <5>2. \A l \in DOMAIN o.blocks : l \in DOMAIN p.blocks /\ p.blocks[l] = o.blocks[l]
          BY <1>9
        <5> QED BY <1>8, <3>2, <4>1, <5>1, <5>2
      <4>2. CASE Lined(page, b) /\ p.lines[k] = b
        BY <1>8, <1>9, <3>2, <4>2
      <4> QED BY <1>8, <1>14, <2>2, <3>2, <4>1, <4>2
    <3> QED BY <1>19, <2>2, <3>1, <3>2
  <2> QED BY <2>1, <2>2 DEF Told
<1>23. Kept(page, E, b)
  <2> SUFFICES ASSUME NEW c \in 1 .. b, Lined(page, c)
               PROVE  \E i \in DOMAIN E : \E k \in DOMAIN E[i].lines : E[i].lines[k] = c
    BY DEF Kept
  <2>1. CASE c = b
    BY <1>8, <1>10, <1>20, <2>1
  <2>2. CASE c \in 1 .. b - 1
    <3>0. PICK i \in DOMAIN D : \E k \in DOMAIN D[i].lines : D[i].lines[k] = c
      BY <1>16, <2>2 DEF WellCut, Kept
    <3>1. PICK k \in DOMAIN D[i].lines : D[i].lines[k] = c
      BY <3>0
    <3>2. CASE i \in 1 .. d
      <4>1. E[i] = D[i] /\ i \in DOMAIN E
        BY <1>7, <1>8, <1>12, <3>2
      <4> QED BY <3>1, <4>1
    <3>3. CASE i = d + 1
      <4>1. k \in DOMAIN o.lines /\ o.lines[k] = c
        BY <1>7, <3>1, <3>3
      <4>2. k \in DOMAIN p.lines /\ p.lines[k] = o.lines[k]
        BY <1>10, <4>1
      <4> QED BY <1>8, <1>20, <4>1, <4>2
    <3> QED BY <1>7, <3>1, <3>2, <3>3
  <2> QED BY <1>15, <2>1, <2>2
<1>24. \A i \in DOMAIN E : \A k \in DOMAIN E[i].lines :
         \/ i \in DOMAIN D /\ k \in DOMAIN D[i].lines /\ E[i].lines[k] = D[i].lines[k]
         \/ i = d + 1 /\ k = Len(o.lines) + 1 /\ E[i].lines[k] = b
  BY <1>7, <1>8, <1>9, <1>14, <1>19, <1>20
<1>25. LinesAscend(E)
  <2> SUFFICES ASSUME NEW i \in DOMAIN E, NEW j \in DOMAIN E,
                      NEW k \in DOMAIN E[i].lines, NEW l \in DOMAIN E[j].lines,
                      i < j \/ (i = j /\ k < l)
               PROVE  E[i].lines[k] < E[j].lines[l]
    BY DEF LinesAscend
  <2>1. CASE i = d + 1 /\ k = Len(o.lines) + 1
    <3>1. j \in DOMAIN D => j <= d + 1
      BY <1>7
    <3>2. j = d + 1 /\ l \in DOMAIN D[j].lines => l <= Len(o.lines)
      BY <1>7, <1>9, <1>10
    <3>3. j \in DOMAIN E /\ j <= d + 1 /\ j \in Nat
      BY <1>7, <1>8
    <3>4. l = Len(o.lines) + 1 \/ l \in DOMAIN D[j].lines
      BY <1>24
    <3>5. j = d + 1 => l \in Nat /\ l <= Len(o.lines) + 1
      BY <1>7, <1>9, <1>10, <3>4
    <3> QED BY <1>7, <1>9, <1>10, <2>1, <3>3, <3>5
  <2>2. CASE i \in DOMAIN D /\ k \in DOMAIN D[i].lines /\ E[i].lines[k] = D[i].lines[k]
    <3>1. CASE j \in DOMAIN D /\ l \in DOMAIN D[j].lines /\ E[j].lines[l] = D[j].lines[l]
      BY <1>16, <2>2, <3>1 DEF WellCut, LinesAscend
    <3>2. CASE E[j].lines[l] = b
      BY <1>15, <1>17, <1>18, <1>21, <2>2, <3>2
    <3> QED BY <1>24, <3>1, <3>2
  <2> QED BY <1>24, <2>1, <2>2
<1>26. \A i \in DOMAIN E : \A k \in DOMAIN E[i].blocks :
         \/ i \in DOMAIN D /\ k \in DOMAIN D[i].blocks /\ E[i].blocks[k] = D[i].blocks[k]
         \/ i = d + 1 /\ k = Len(o.blocks) + 1 /\ E[i].blocks[k] = b
  BY <1>7, <1>8, <1>9, <1>13, <1>19, <1>20
<1>27. BlocksAscend(E)
  <2> SUFFICES ASSUME NEW i \in DOMAIN E, NEW j \in DOMAIN E,
                      NEW k \in DOMAIN E[i].blocks, NEW l \in DOMAIN E[j].blocks,
                      i < j \/ (i = j /\ k < l)
               PROVE  E[i].blocks[k] < E[j].blocks[l]
    BY DEF BlocksAscend
  <2>1. CASE i = d + 1 /\ k = Len(o.blocks) + 1
    <3>1. j \in DOMAIN D => j <= d + 1
      BY <1>7
    <3>2. j = d + 1 /\ l \in DOMAIN D[j].blocks => l <= Len(o.blocks)
      BY <1>7, <1>9, <1>10
    <3>3. j \in DOMAIN E /\ j <= d + 1 /\ j \in Nat
      BY <1>7, <1>8
    <3>4. l = Len(o.blocks) + 1 \/ l \in DOMAIN D[j].blocks
      BY <1>26
    <3>5. j = d + 1 => l \in Nat /\ l <= Len(o.blocks) + 1
      BY <1>7, <1>9, <1>10, <3>4
    <3> QED BY <1>7, <1>9, <1>10, <2>1, <3>3, <3>5
  <2>2. CASE i \in DOMAIN D /\ k \in DOMAIN D[i].blocks /\ E[i].blocks[k] = D[i].blocks[k]
    <3>1. CASE j \in DOMAIN D /\ l \in DOMAIN D[j].blocks /\ E[j].blocks[l] = D[j].blocks[l]
      BY <1>16, <2>2, <3>1 DEF WellCut, BlocksAscend
    <3>2. CASE E[j].blocks[l] = b
      BY <1>15, <1>17, <1>18, <1>21, <2>2, <3>2
    <3> QED BY <1>26, <3>1, <3>2
  <2> QED BY <1>26, <2>1, <2>2
<1>28. InSection(page, E)
  <2> SUFFICES ASSUME NEW i \in DOMAIN E, NEW k \in DOMAIN E[i].blocks
               PROVE  \E h \in 1 .. Len(page) : /\ Opens(page, h, E[i].blocks[k])
                                                /\ E[i].path = R!Path(page, h)
    BY DEF InSection
  <2>1. CASE i \in DOMAIN D /\ k \in DOMAIN D[i].blocks /\ E[i].blocks[k] = D[i].blocks[k]
    <3>1. E[i].path = D[i].path
      BY <1>3, <1>7, <1>8, <1>19, <2>1
    <3> QED BY <1>16, <2>1, <3>1 DEF WellCut, InSection
  <2>2. CASE i = d + 1 /\ E[i].blocks[k] = b
    BY <1>3, <1>8, <2>2 DEF Headed, o
  <2> QED BY <1>26, <2>1, <2>2
<1>29. Fit(page, max, E)
  <2> SUFFICES ASSUME NEW i \in DOMAIN E, Len(E[i].lines) > 1
               PROVE  ~(R!Length(page, E[i].lines) > max)
    BY DEF Fit
  <2>1. CASE i \in DOMAIN D /\ E[i].lines = D[i].lines
    BY <1>16, <2>1 DEF WellCut, Fit
  <2>2. CASE i = d + 1 /\ Lined(page, b)
    <3>1. E[i].lines = Append(o.lines, b) /\ Len(E[i].lines) = Len(o.lines) + 1
      BY <1>3, <1>8, <1>10, <2>2
    <3>2. o.lines # <<>>
      BY <1>10, <3>1
    <3> QED BY <2>2, <3>1, <3>2 DEF o
  <2>3. CASE i = d + 1 /\ ~Lined(page, b)
    BY <1>3, <1>7, <1>8, <1>20, <2>1, <2>3
  <2> QED BY <1>19, <2>1, <2>2, <2>3
<1>30. Parted(page, max, E)
  <2>0. Len(E) - 1 = d /\ Len(D) - 1 = d
    BY <1>7, <1>8
  <2> SUFFICES \A i \in 1 .. d :
                 /\ E[i].lines # <<>>
                 /\ E[i + 1].lines # <<>> => Parts(page, max, E[i].lines, E[i + 1].lines[1])
    BY <2>0 DEF Parted
  <2> TAKE i \in 1 .. d
  <2>1. /\ D[i].lines # <<>>
        /\ D[i + 1].lines # <<>> => Parts(page, max, D[i].lines, D[i + 1].lines[1])
    BY <1>16, <2>0 DEF WellCut, Parted
  <2>2. E[i] = D[i]
    BY <1>12
  <2>3. CASE E[i + 1].lines = D[i + 1].lines
    BY <2>1, <2>2, <2>3
  <2>4. CASE i = d /\ Lined(page, b) /\ o.lines # <<>>
    <3>1. E[i + 1].lines[1] = D[i + 1].lines[1] /\ D[i + 1].lines # <<>>
      BY <1>7, <1>8, <1>10, <2>4
    <3> QED BY <2>1, <2>2, <3>1
  <2>5. CASE i = d /\ Lined(page, b) /\ o.lines = <<>>
    <3>1. Len(o.lines) = 0
      BY <2>5
    <3>2. E[i + 1].lines[1] = b
      BY <1>8, <1>10, <2>5, <3>1
    <3>3. cut.chunks # <<>> /\ Len(cut.chunks) = i /\ E[i] = cut.chunks[i]
      <4>1. Len(cut.chunks) = d
        BY DEF d
      <4> QED BY <1>7, <1>8, <2>5, <4>1
    <3>4. Parts(page, max, cut.chunks[Len(cut.chunks)].lines, b)
      BY <2>5, <3>3 DEF o
    <3> QED BY <2>1, <2>2, <3>2, <3>3, <3>4
  <2>6. E[i + 1].lines = D[i + 1].lines \/ (i = d /\ Lined(page, b))
    <3>1. CASE i = d
      BY <1>3, <1>7, <1>8, <3>1
    <3>2. CASE i + 1 \in 1 .. d
      BY <1>12, <3>2
    <3> QED BY <1>7, <3>1, <3>2
  <2> QED BY <2>3, <2>4, <2>5, <2>6
<1>31. WellCut(page, max, E, b)
  BY <1>22, <1>23, <1>25, <1>27, <1>28, <1>29, <1>30 DEF WellCut
<1> QED BY <1>2, <1>3, <1>6, <1>11, <1>31 DEF next, E, o, p

\* A block that is read is in the section of the open chunk, which has begun since
\* the last line if there is none in it.
Ready(page, cut, b) ==
    b > 0 =>
      /\ Headed(page, cut, b)
      /\ cut.open.lines = <<>> /\ cut.chunks # <<>> =>
           LET lines == cut.chunks[Len(cut.chunks)].lines
           IN \E c \in lines[Len(lines)] + 1 .. b : R!Boundary(page[c])

\* A chunk that is done has lines, of blocks that have been read.
LEMMA LastLine ==
  ASSUME NEW page, NEW max, NEW b \in 0 .. Len(page), NEW cut \in CutType(page),
         WellCut(page, max, All(cut), b)
  PROVE  /\ cut.open.lines # <<>> =>
              cut.open.lines[Len(cut.open.lines)] \in Int /\ cut.open.lines[Len(cut.open.lines)] <= b
         /\ cut.chunks # <<>> =>
              LET lines == cut.chunks[Len(cut.chunks)].lines
              IN lines[Len(lines)] \in Int /\ lines[Len(lines)] <= b
<1> DEFINE D == All(cut)
           d == Len(cut.chunks)
<1>1. /\ d \in Nat /\ Len(D) = d + 1 /\ DOMAIN D = 1 .. d + 1 /\ D[d + 1] = cut.open
      /\ \A i \in 1 .. d : D[i] = cut.chunks[i]
      /\ D \in Seq(ChunkType(page))
  BY AllIs
<1>2. \A i \in DOMAIN D : D[i].lines \in Seq(1 .. Len(page)) /\ D[i].blocks \in Seq(1 .. Len(page))
  <2>1. \A i \in DOMAIN D : D[i] \in ChunkType(page)
    BY <1>1
  <2> QED BY <2>1, ChunkIs
<1>3. WellCut(page, max, D, b)
  OBVIOUS
<1>7. cut.chunks # <<>> => d \in DOMAIN D
  BY <1>1 DEF CutType
<1> HIDE DEF D, d
<1>4. ASSUME NEW i \in DOMAIN D, D[i].lines # <<>>
      PROVE  D[i].lines[Len(D[i].lines)] \in Int /\ D[i].lines[Len(D[i].lines)] <= b
  <2>1. Len(D[i].lines) \in DOMAIN D[i].lines
    <3>1. D[i].lines \in Seq(1 .. Len(page))
      BY <1>2
    <3> QED BY <1>4, <3>1
  <2>2. PICK l \in DOMAIN D[i].blocks : D[i].blocks[l] = D[i].lines[Len(D[i].lines)]
    BY <1>3, <2>1 DEF WellCut, Told
  <2>3. D[i].blocks[l] <= b
    BY <1>3 DEF WellCut, Told
  <2>4. D[i].blocks[l] \in Int
    BY <1>2
  <2> QED BY <2>2, <2>3, <2>4
<1>5. d + 1 \in DOMAIN D
  BY <1>1
<1>6. cut.chunks # <<>> => d \in 1 .. d /\ D[d].lines # <<>>
  <2> SUFFICES ASSUME cut.chunks # <<>> PROVE d \in 1 .. Len(D) - 1
    BY <1>1, <1>3 DEF WellCut, Parted
  <2> QED BY <1>1, <1>7
<1>8. cut.chunks # <<>> => D[d] = cut.chunks[d] /\ d \in DOMAIN D /\ d = Len(cut.chunks)
  BY <1>1, <1>6, <1>7 DEF d
<1> QED BY <1>1, <1>4, <1>5, <1>6, <1>8

LEMMA SectionGoesOn ==
  ASSUME NEW page, NEW b \in 1 .. Len(page)
  PROVE  /\ b = 1 \/ R!Boundary(page[b]) => Opens(page, b, b)
         /\ \A h : Opens(page, h, b - 1) /\ ~R!Boundary(page[b]) => Opens(page, h, b)
<1>1. b = 1 \/ R!Boundary(page[b]) => Opens(page, b, b)
  BY DEF Opens
<1>2. ASSUME NEW h, Opens(page, h, b - 1), ~R!Boundary(page[b]) PROVE Opens(page, h, b)
  <2>1. h \in 1 .. b /\ h + 1 .. b = (h + 1 .. b - 1) \cup {b}
    BY <1>2 DEF Opens
  <2> QED BY <1>2, <2>1 DEF Opens
<1> QED BY <1>1, <1>2

LEMMA CutAtWellCut ==
  ASSUME NEW page, NEW max, NEW b \in 1 .. Len(page), NEW cut \in CutType(page),
         WellCut(page, max, All(cut), b - 1), Ready(page, cut, b - 1),
         b = 1 => cut.open.lines = <<>> /\ cut.chunks = <<>>
  PROVE  LET next == R!CutAt(page, max, cut, b)
         IN next \in CutType(page) /\ WellCut(page, max, All(next), b) /\ Ready(page, next, b)
<1> DEFINE section == IF b = 1 \/ R!Boundary(page[b]) THEN R!Flush(cut, R!Path(page, b)) ELSE cut
           full == /\ Lined(page, b) /\ section.open.lines # <<>>
                   /\ R!Length(page, Append(section.open.lines, b)) > max
           fresh == IF full THEN R!Flush(section, section.open.path) ELSE section
           next == [fresh EXCEPT !.open = R!Add(page, @, b)]
           paths == {R!Path(page, c) : c \in 1 .. Len(page)} \cup {<<>>}
           Pending(c) == LET lines == c.chunks[Len(c.chunks)].lines
                         IN \E e \in lines[Len(lines)] + 1 .. b : R!Boundary(page[e])
<1>0. R!CutAt(page, max, cut, b) = next
  BY DEF R!CutAt, Lined
<1>1. /\ section \in CutType(page) /\ WellCut(page, max, All(section), b - 1)
      /\ Headed(page, section, b)
      /\ section.open.lines = <<>> /\ section.chunks # <<>> => Pending(section)
  <2>1. CASE b = 1 \/ R!Boundary(page[b])
    <3> DEFINE flushed == R!Flush(cut, R!Path(page, b))
    <3>0. R!Path(page, b) \in paths
      OBVIOUS
    <3>1. /\ flushed \in CutType(page) /\ WellCut(page, max, All(flushed), b - 1)
          /\ flushed.open = [path |-> R!Path(page, b), lines |-> <<>>, blocks |-> <<>>]
          /\ cut.open.lines = <<>> => flushed.chunks = cut.chunks
          /\ cut.open.lines # <<>> => flushed.chunks = Append(cut.chunks, cut.open)
      BY <3>0, FlushWellCut
    <3>2. section = flushed
      BY <2>1
    <3> HIDE DEF flushed, section
    <3>3. Headed(page, flushed, b)
      BY <2>1, <3>1, SectionGoesOn DEF Headed
    <3>4. flushed.chunks # <<>> =>
            LET lines == flushed.chunks[Len(flushed.chunks)].lines
            IN lines[Len(lines)] \in Int /\ lines[Len(lines)] <= b - 1
      BY <3>1, LastLine
    <3>5. flushed.chunks # <<>> => R!Boundary(page[b])
      BY <2>1, <3>1
    <3>6. flushed.chunks # <<>> => Pending(flushed)
      BY <3>4, <3>5
    <3> QED BY <3>1, <3>2, <3>3, <3>6
  <2>2. CASE ~(b = 1 \/ R!Boundary(page[b]))
    <3>1. section = cut
      BY <2>2
    <3>2. b - 1 > 0
      BY <2>2
    <3>3. Headed(page, cut, b)
      BY <2>2, <3>2, SectionGoesOn DEF Ready, Headed
    <3>4. cut.open.lines = <<>> /\ cut.chunks # <<>> =>
           LET lines == cut.chunks[Len(cut.chunks)].lines
           IN \E c \in lines[Len(lines)] + 1 .. b - 1 : R!Boundary(page[c])
      BY <3>2 DEF Ready
    <3>5. cut.chunks # <<>> =>
            LET lines == cut.chunks[Len(cut.chunks)].lines IN lines[Len(lines)] \in Int
      BY LastLine
    <3> HIDE DEF section
    <3>6. cut.open.lines = <<>> /\ cut.chunks # <<>> => Pending(cut)
      BY <3>4, <3>5
    <3> QED BY <3>1, <3>3, <3>6
  <2> QED BY <2>1, <2>2
<1> HIDE DEF section
<1>2. /\ fresh \in CutType(page) /\ WellCut(page, max, All(fresh), b - 1)
      /\ Headed(page, fresh, b)
      /\ Lined(page, b) /\ fresh.open.lines # <<>> =>
           ~(R!Length(page, Append(fresh.open.lines, b)) > max)
      /\ Lined(page, b) /\ fresh.open.lines = <<>> /\ fresh.chunks # <<>> =>
           Parts(page, max, fresh.chunks[Len(fresh.chunks)].lines, b)
      /\ ~Lined(page, b) /\ fresh.open.lines = <<>> /\ fresh.chunks # <<>> => Pending(fresh)
  <2>1. CASE full
    <3> DEFINE flushed == R!Flush(section, section.open.path)
    <3>0. section.open.path \in paths /\ section.chunks \in Seq(ChunkType(page)) /\ section.open \in ChunkType(page)
      BY <1>1 DEF CutType, ChunkType
    <3>1. /\ flushed \in CutType(page) /\ WellCut(page, max, All(flushed), b - 1)
          /\ flushed.open = [path |-> section.open.path, lines |-> <<>>, blocks |-> <<>>]
          /\ section.open.lines # <<>> => flushed.chunks = Append(section.chunks, section.open)
      BY <1>1, <3>0, FlushWellCut
    <3>2. fresh = flushed
      BY <2>1
    <3> HIDE DEF flushed, fresh
    <3>3. Headed(page, flushed, b)
      BY <1>1, <3>1 DEF Headed
    <3>4. flushed.chunks[Len(flushed.chunks)] = section.open
      BY <2>1, <3>0, <3>1
    <3>5. Parts(page, max, section.open.lines, b)
      BY <2>1 DEF Parts
    <3> QED BY <2>1, <3>1, <3>2, <3>3, <3>4, <3>5
  <2>2. CASE ~full
    <3>1. fresh = section
      BY <2>2
    <3> HIDE DEF fresh
    <3>2. Pending(section) => Parts(page, max, section.chunks[Len(section.chunks)].lines, b)
      BY DEF Parts
    <3> HIDE DEF Pending
    <3> QED BY <1>1, <2>2, <3>1, <3>2
  <2> QED BY <2>1, <2>2
<1> HIDE DEF fresh
<1>3. /\ next \in CutType(page) /\ WellCut(page, max, All(next), b)
      /\ next.chunks = fresh.chunks /\ next.open.path = fresh.open.path
      /\ next.open.lines = <<>> <=> fresh.open.lines = <<>> /\ ~Lined(page, b)
  BY <1>2, AddWellCut
<1> HIDE DEF next
<1>4. Headed(page, next, b)
  BY <1>2, <1>3 DEF Headed
<1>5. Ready(page, next, b)
  BY <1>2, <1>3, <1>4 DEF Ready
<1> QED BY <1>0, <1>3, <1>5

LEMMA CutAtType ==
  ASSUME NEW page, NEW max, NEW b \in 1 .. Len(page), NEW cut \in CutType(page)
  PROVE  R!CutAt(page, max, cut, b) \in CutType(page)
<1> DEFINE paths == {R!Path(page, c) : c \in 1 .. Len(page)} \cup {<<>>}
           section == IF b = 1 \/ R!Boundary(page[b]) THEN R!Flush(cut, R!Path(page, b)) ELSE cut
           full == /\ page[b].size > 0 /\ section.open.lines # <<>>
                   /\ R!Length(page, Append(section.open.lines, b)) > max
           fresh == IF full THEN R!Flush(section, section.open.path) ELSE section
<1>1. ASSUME NEW c \in CutType(page), NEW path \in paths PROVE R!Flush(c, path) \in CutType(page)
  <2>1. c.chunks \in Seq(ChunkType(page)) /\ c.open \in ChunkType(page)
    BY DEF CutType
  <2>2. Append(c.chunks, c.open) \in Seq(ChunkType(page))
    BY <2>1
  <2>3. [path |-> path, lines |-> <<>>, blocks |-> <<>>] \in ChunkType(page)
    BY DEF ChunkType
  <2> QED BY <2>1, <2>2, <2>3 DEF R!Flush, CutType
<1>2. R!Path(page, b) \in paths
  OBVIOUS
<1>3. \A c \in CutType(page) : c.open \in ChunkType(page) /\ c.open.path \in paths
  BY DEF CutType, ChunkType
<1> HIDE DEF paths
<1>4. section \in CutType(page)
  BY <1>1, <1>2
<1> HIDE DEF section
<1>5. fresh \in CutType(page)
  BY <1>1, <1>3, <1>4
<1>6. R!CutAt(page, max, cut, b) = [fresh EXCEPT !.open = R!Add(page, @, b)]
  BY DEF R!CutAt, section
<1> HIDE DEF fresh
<1>7. ASSUME NEW c \in ChunkType(page) PROVE R!Add(page, c, b) \in ChunkType(page)
  <2>1. c.lines \in Seq(1 .. Len(page)) /\ c.blocks \in Seq(1 .. Len(page))
    BY DEF ChunkType
  <2>2. Append(c.lines, b) \in Seq(1 .. Len(page)) /\ Append(c.blocks, b) \in Seq(1 .. Len(page))
    BY <2>1
  <2> QED BY <2>1, <2>2 DEF R!Add, ChunkType
<1>8. R!Add(page, fresh.open, b) \in ChunkType(page)
  BY <1>3, <1>5, <1>7
<1> QED BY <1>5, <1>6, <1>8 DEF CutType

\* What is cut of the first blocks.
LEMMA CutIs ==
  ASSUME NEW page, Len(page) \in Nat, NEW max
  PROVE  \E cut \in [0 .. Len(page) -> CutType(page)] :
           /\ R!ChunksOf(page, max) = R!Flush(cut[Len(page)], <<>>).chunks
           /\ cut[0] = R!NothingCut
           /\ \A b \in 1 .. Len(page) : cut[b] = R!CutAt(page, max, cut[b - 1], b)
<1> DEFINE n == Len(page)
           A == CutType(page)
           Good(t) == t = [b \in 0 .. n |-> IF b = 0 THEN R!NothingCut
                                            ELSE R!CutAt(page, max, t[b - 1], b)]
           f == CHOOSE t : Good(t)
           F == [b \in 1 .. n |-> [a \in A |-> R!CutAt(page, max, a, b)]]
<1>1. R!ChunksOf(page, max) = R!Flush(f[n], <<>>).chunks
  BY DEF R!ChunksOf
<1>2. R!NothingCut \in A
  BY DEF R!NothingCut, CutType, ChunkType
<1>3. F \in Functionals(A, n)
  BY CutAtType DEF Functionals
<1>4. \A b \in 1 .. n : \A a \in A : F[b][a] = R!CutAt(page, max, a, b)
  OBVIOUS
<1> HIDE DEF F, A
<1>5. PICK g : g \in [0 .. n -> A] /\ Recursive(g, R!NothingCut, F, n)
  BY <1>2, <1>3, RecursionExists
<1>6. \A b \in 1 .. n : b - 1 \in 0 .. n /\ g[b - 1] \in A
  BY <1>5
<1>7. g[0] = R!NothingCut /\ \A b \in 1 .. n : g[b] = R!CutAt(page, max, g[b - 1], b)
  BY <1>4, <1>5, <1>6 DEF Recursive
<1>8. \A b \in 0 .. n : g[b] = IF b = 0 THEN R!NothingCut ELSE R!CutAt(page, max, g[b - 1], b)
  BY <1>7
<1>9. Good(g)
  BY <1>5, <1>8
<1> HIDE DEF Good, f
<1>10. Good(f)
  BY <1>9 DEF f
<1>11. \A b \in 0 .. n : f[b] = IF b = 0 THEN R!NothingCut ELSE R!CutAt(page, max, f[b - 1], b)
  BY <1>10 DEF Good
<1>12. f[0] = R!NothingCut /\ \A b \in 1 .. n : f[b] = R!CutAt(page, max, f[b - 1], b)
  BY <1>11
<1>13. \A b \in 0 .. n : f[b] \in A
  <2> DEFINE S == {b \in Nat : b <= n => f[b] \in A}
  <2>1. 0 \in S
    BY <1>2, <1>12
  <2>2. ASSUME NEW b \in S, b + 1 <= n PROVE f[b + 1] \in A
    <3>1. f[b] \in A /\ b + 1 \in 1 .. n /\ (b + 1) - 1 = b
      BY <2>2
    <3>2. f[b + 1] = R!CutAt(page, max, f[b], b + 1)
      BY <1>12, <3>1
    <3> QED BY <3>1, <3>2, CutAtType DEF A
  <2>3. \A b \in S : b + 1 \in S
    BY <2>2
  <2> HIDE DEF S
  <2>4. S = Nat
    BY <2>1, <2>3, SetInduction DEF S
  <2> QED BY <2>4 DEF S
<1>14. DOMAIN f = 0 .. n /\ f = [b \in 0 .. n |-> f[b]]
  BY <1>10 DEF Good
<1>15. f \in [0 .. n -> A]
  BY <1>13, <1>14
<1> QED BY <1>1, <1>12, <1>15 DEF A

\* However a page is built and whatever a chunk may hold: every line with text is in
\* one chunk, in the order of the page; each chunk is cited at the block that opened the
\* section of its blocks; it is too long only if its one line is, and is not closed
\* before the section ends or the next line would be too much (chunk_notion_page).
THEOREM ChunksHoldTheText ==
  ASSUME NEW page, Len(page) \in Nat, NEW max
  PROVE  LET chunks == R!ChunksOf(page, max)
         IN WellCut(page, max, chunks, Len(page)) /\ \A i \in DOMAIN chunks : chunks[i].lines # <<>>
<1> DEFINE n == Len(page)
<1>1. PICK cut \in [0 .. n -> CutType(page)] :
        /\ R!ChunksOf(page, max) = R!Flush(cut[n], <<>>).chunks
        /\ cut[0] = R!NothingCut
        /\ \A b \in 1 .. n : cut[b] = R!CutAt(page, max, cut[b - 1], b)
  BY CutIs
<1>2. WellCut(page, max, All(cut[0]), 0) /\ Ready(page, cut[0], 0)
      /\ cut[0].open.lines = <<>> /\ cut[0].chunks = <<>>
  <2> DEFINE D == All(cut[0])
  <2>1. cut[0].open = [path |-> <<>>, lines |-> <<>>, blocks |-> <<>>] /\ cut[0].chunks = <<>>
    BY <1>1 DEF R!NothingCut
  <2>2. DOMAIN D = {1} /\ Len(D) = 1 /\ D[1].lines = <<>> /\ D[1].blocks = <<>>
    BY <2>1 DEF All
  <2> HIDE DEF D
  <2>3. \A i \in DOMAIN D : DOMAIN D[i].lines = {} /\ DOMAIN D[i].blocks = {} /\ ~(Len(D[i].lines) > 1)
    BY <2>2
  <2>4. Told(page, D, 0) /\ LinesAscend(D) /\ BlocksAscend(D)
    BY <2>3 DEF Told, LinesAscend, BlocksAscend
  <2>5. Kept(page, D, 0) /\ InSection(page, D) /\ Fit(page, max, D)
    BY <2>3 DEF Kept, InSection, Fit
  <2>6. Parted(page, max, D)
    BY <2>2 DEF Parted
  <2>7. WellCut(page, max, D, 0)
    BY <2>4, <2>5, <2>6 DEF WellCut
  <2> QED BY <2>1, <2>7 DEF D, Ready
<1>3. WellCut(page, max, All(cut[n]), n)
  <2> DEFINE S == {b \in Nat : b <= n => WellCut(page, max, All(cut[b]), b) /\ Ready(page, cut[b], b)}
  <2>1. 0 \in S
    BY <1>2
  <2>2. ASSUME NEW b \in S, b + 1 <= n
        PROVE  WellCut(page, max, All(cut[b + 1]), b + 1) /\ Ready(page, cut[b + 1], b + 1)
    <3>1. /\ b \in 0 .. n /\ b + 1 \in 1 .. n /\ (b + 1) - 1 = b
          /\ WellCut(page, max, All(cut[b]), b) /\ Ready(page, cut[b], b)
      BY <2>2
    <3>2. cut[b] \in CutType(page) /\ cut[b + 1] = R!CutAt(page, max, cut[b], b + 1)
      BY <1>1, <3>1
    <3>3. b + 1 = 1 => cut[b].open.lines = <<>> /\ cut[b].chunks = <<>>
      <4>1. b + 1 = 1 => b = 0
        BY <3>1
      <4> QED BY <1>2, <4>1
    <3> HIDE DEF S
    <3> QED BY <3>1, <3>2, <3>3, CutAtWellCut
  <2>3. \A b \in S : b + 1 \in S
    BY <2>2
  <2> HIDE DEF S
  <2>4. S = Nat
    BY <2>1, <2>3, SetInduction DEF S
  <2> QED BY <2>4 DEF S
<1> DEFINE last == R!Flush(cut[n], <<>>)
           C == R!ChunksOf(page, max)
           D == All(last)
           m == Len(C)
<1>4. cut[n] \in CutType(page)
  BY <1>1
<1>5. /\ last \in CutType(page) /\ WellCut(page, max, D, n)
      /\ last.open = [path |-> <<>>, lines |-> <<>>, blocks |-> <<>>]
  BY <1>3, <1>4, FlushWellCut
<1>6. /\ m \in Nat /\ DOMAIN C = 1 .. m /\ Len(D) = m + 1 /\ DOMAIN D = 1 .. m + 1
      /\ D[m + 1] = last.open /\ \A i \in 1 .. m : D[i] = C[i]
  <2>1. last.chunks = C
    BY <1>1
  <2>2. last.chunks \in Seq(ChunkType(page))
    BY <1>5 DEF CutType
  <2> HIDE DEF last, C
  <2>3. DOMAIN C = 1 .. m /\ m \in Nat
    BY <2>1, <2>2
  <2>4. /\ Len(D) = Len(last.chunks) + 1 /\ DOMAIN D = 1 .. Len(last.chunks) + 1
        /\ D[Len(last.chunks) + 1] = last.open
        /\ \A i \in 1 .. Len(last.chunks) : D[i] = last.chunks[i]
    BY <1>5, AllIs
  <2> HIDE DEF D
  <2> QED BY <2>1, <2>3, <2>4
<1> HIDE DEF last, C, D, m
<1>7. \A i \in DOMAIN C : i \in 1 .. m /\ i \in DOMAIN D /\ D[i] = C[i]
  BY <1>6
<1>8. \A i \in DOMAIN D : i \in DOMAIN C \/ DOMAIN D[i].lines = {}
  BY <1>5, <1>6
<1>9. Told(page, C, n)
  BY <1>5, <1>7 DEF WellCut, Told
<1>10. Kept(page, C, n)
  BY <1>5, <1>7, <1>8 DEF WellCut, Kept
<1>11. LinesAscend(C) /\ BlocksAscend(C)
  BY <1>5, <1>7 DEF WellCut, LinesAscend, BlocksAscend
<1>12. InSection(page, C) /\ Fit(page, max, C)
  BY <1>5, <1>7 DEF WellCut, InSection, Fit
<1>13. \A i \in 1 .. m : D[i].lines # <<>> /\
            (D[i + 1].lines # <<>> => Parts(page, max, D[i].lines, D[i + 1].lines[1]))
  <2>1. Len(D) - 1 = m
    BY <1>6
  <2> QED BY <1>5, <2>1 DEF WellCut, Parted
<1>14. Parted(page, max, C)
  <2>1. Len(C) = m
    BY DEF m
  <2> SUFFICES ASSUME NEW i \in 1 .. m - 1
               PROVE  /\ C[i].lines # <<>>
                      /\ C[i + 1].lines # <<>> => Parts(page, max, C[i].lines, C[i + 1].lines[1])
    BY <2>1 DEF Parted
  <2>2. i \in 1 .. m /\ i + 1 \in 1 .. m /\ D[i] = C[i] /\ D[i + 1] = C[i + 1]
    BY <1>6
  <2> QED BY <1>13, <2>2
<1>15. \A i \in DOMAIN C : C[i].lines # <<>>
  BY <1>7, <1>13
<1> QED BY <1>9, <1>10, <1>11, <1>12, <1>14, <1>15 DEF WellCut, C

LEMMA CountsAlike == ASSUME NEW S PROVE R!Cardinality(S) = Cardinality(S)
BY DEF R!Cardinality, Cardinality

LEMMA TokensFinite ==
  ASSUME NEW Words, NEW text \in Seq(Words)
  PROVE  IsFiniteSet(R!Tokens(text))
<1> DEFINE S == {text[i] : i \in 1 .. Len(text)}
<1>1. IsFiniteSet(1 .. Len(text))
  BY FS_Interval
<1>2. IsFiniteSet(S)
  <2>1. text \in Surjection(1 .. Len(text), S)
    BY DEF Surjection
  <2> QED BY <1>1, <2>1, FS_Surjection DEF ExistsSurjection
<1>3. R!Tokens(text) \subseteq S
  BY DEF R!Tokens, R!ToSet
<1> HIDE DEF S
<1> QED BY <1>2, <1>3, FS_Subset

LEMMA SimilarityIs ==
  ASSUME Unit \in Nat, \A a, b : Likeness(a, b) \in Nat,
         NEW Words, NEW new \in Seq(Words), NEW text \in Seq(Words)
  PROVE  /\ R!Similarity(new, text) \in Nat
         /\ R!Tokens(new) \cap R!Tokens(text) = {} => R!Similarity(new, text) = 0
<1> DEFINE A == R!Tokens(new)
           B == R!Tokens(text)
           u == Cardinality(A \cup B)
           c == Cardinality(A \cap B)
           l == Likeness(new, text)
<1>1. IsFiniteSet(A) /\ IsFiniteSet(B)
  BY TokensFinite
<1>2. IsFiniteSet(A \cup B) /\ IsFiniteSet(A \cap B)
  BY <1>1, FS_Union, FS_Intersection
<1>3. u \in Nat /\ c \in Nat /\ (u = 0 => A \cup B = {})
  BY <1>2, FS_CardinalityType, FS_EmptySet
<1>4. R!Similarity(new, text) = IF A \cap B = {} THEN 0
                                ELSE (45 * Unit * c) \div (100 * u) + (55 * l) \div 100
  BY CountsAlike DEF R!Similarity
<1>5. CASE A \cap B = {}
  BY <1>4, <1>5
<1>6. CASE A \cap B # {}
  <2>1. u > 0 /\ l \in Nat
    BY <1>3, <1>6
  <2> HIDE DEF A, B, u, c, l
  <2>2. 45 * Unit * c \in Nat /\ 100 * u \in Nat /\ 100 * u > 0
    <3>1. \A x, y \in Nat : x * y \in Nat
      OBVIOUS
    <3> QED BY <1>3, <2>1, <3>1
  <2>3. \A x, y \in Nat : y > 0 => x \div y \in Nat
    OBVIOUS
  <2>4. (45 * Unit * c) \div (100 * u) \in Nat
    BY <2>2, <2>3
  <2>5. (55 * l) \div 100 \in Nat
    BY <2>1, <2>3
  <2> DEFINE x == (45 * Unit * c) \div (100 * u)
             y == (55 * l) \div 100
  <2>6. R!Similarity(new, text) = x + y
    BY <1>4, <1>6
  <2>7. x \in Nat /\ y \in Nat
    BY <2>4, <2>5
  <2> HIDE DEF x, y
  <2> QED BY <1>6, <2>6, <2>7 DEF A, B
<1> QED BY <1>5, <1>6

\* The text of a proposal that repeats an indexed chunk is found, and reported with
\* one chunk that has a path: one with the same text if there is any, and else one
\* that is similar enough.  A text without ASCII words only repeats the same text
\* (check_duplicate).
THEOREM DuplicatesAreReported ==
  ASSUME Unit \in Nat, Threshold \in Nat, \A a, b : Likeness(a, b) \in Nat,
         NEW Words, NEW Paths, NEW new \in Seq(Words),
         NEW chunks \in Seq([path : Paths, text : Seq(Words)])
  PROVE  LET found == R!DuplicateOf(new, chunks)
             pathed == {c \in DOMAIN chunks : chunks[c].path # <<>>}
         IN /\ found \subseteq pathed /\ \A c, d \in found : c = d
            /\ found = {} <=> \A c \in pathed :
                 chunks[c].text # new /\ R!Similarity(new, chunks[c].text) < Threshold
            /\ (\E c \in pathed : chunks[c].text = new) => \A c \in found : chunks[c].text = new
            /\ Threshold > 0 /\ R!Tokens(new) = {} => \A c \in found : chunks[c].text = new
<1> DEFINE found == R!DuplicateOf(new, chunks)
           pathed == {c \in DOMAIN chunks : chunks[c].path # <<>>}
           same == {c \in pathed : chunks[c].text = new}
           score == [c \in DOMAIN chunks |-> R!Similarity(new, chunks[c].text)]
           close == {c \in pathed : score[c] >= Threshold}
           best == {c \in close : \A d \in close : score[c] >= score[d]}
           Oldest(S) == {c \in S : \A d \in S : c <= d}
<1>1. DOMAIN chunks = 1 .. Len(chunks) /\ Len(chunks) \in Nat
  OBVIOUS
<1>2. \A c \in DOMAIN chunks : score[c] \in Nat /\ (R!Tokens(new) = {} => score[c] = 0)
  <2> SUFFICES ASSUME NEW c \in DOMAIN chunks
               PROVE  /\ R!Similarity(new, chunks[c].text) \in Nat
                      /\ R!Tokens(new) = {} => R!Similarity(new, chunks[c].text) = 0
    OBVIOUS
  <2>0. chunks[c] \in [path : Paths, text : Seq(Words)]
    <3> DEFINE Rowlike == [path : Paths, text : Seq(Words)]
    <3>1. chunks \in Seq(Rowlike)
      OBVIOUS
    <3> HIDE DEF Rowlike
    <3>2. chunks[c] \in Rowlike
      BY <3>1
    <3> QED BY <3>2 DEF Rowlike
  <2>1. chunks[c].text \in Seq(Words)
    BY <2>0
  <2> QED BY <2>1, SimilarityIs
<1>3. found = IF same # {} THEN Oldest(same) ELSE Oldest(best)
  <2>1. \A c \in pathed : score[c] = R!Similarity(new, chunks[c].text)
    OBVIOUS
  <2>2. close = {c \in pathed : R!Similarity(new, chunks[c].text) >= Threshold}
    BY <2>1
  <2>3. best = {c \in close : \A d \in close :
                 R!Similarity(new, chunks[c].text) >= R!Similarity(new, chunks[d].text)}
    BY <2>1
  <2> HIDE DEF score
  <2> QED BY <2>2, <2>3 DEF R!DuplicateOf
<1>4. ASSUME NEW S \in SUBSET DOMAIN chunks
      PROVE  /\ Oldest(S) \subseteq S /\ \A c, d \in Oldest(S) : c = d
             /\ S # {} => Oldest(S) # {}
  <2>1. S \in SUBSET Nat
    BY <1>1
  <2>2. S # {} => \E c \in S : \A d \in S : c <= d
    BY <2>1, LeastNumber
  <2> QED BY <2>1, <2>2
<1>5. same \in SUBSET pathed /\ best \in SUBSET close /\ close \in SUBSET pathed /\ pathed \in SUBSET DOMAIN chunks
  OBVIOUS
<1>6. close # {} => best # {}
  <2> DEFINE T(m) == {c \in close : c <= m}
             S == {m \in Nat : T(m) # {} => \E c \in T(m) : \A d \in T(m) : score[c] >= score[d]}
  <2>0. \A c \in close : c \in Nat /\ c > 0 /\ score[c] \in Nat
    BY <1>1, <1>2
  <2> HIDE DEF close, score
  <2>1. 0 \in S
    BY <2>0
  <2>2. ASSUME NEW m \in S PROVE m + 1 \in S
    <3>1. T(m + 1) = T(m) \cup {c \in close : c = m + 1}
      BY <2>0, <2>2
    <3>2. CASE m + 1 \notin close
      <4>1. T(m + 1) = T(m)
        BY <3>1, <3>2
      <4> QED BY <2>2, <4>1
    <3>3. CASE m + 1 \in close /\ T(m) = {}
      <4>1. T(m + 1) = {m + 1}
        BY <3>1, <3>3
      <4> QED BY <2>0, <2>2, <3>3, <4>1
    <3>4. CASE m + 1 \in close /\ T(m) # {}
      <4>1. PICK c \in T(m) : \A d \in T(m) : score[c] >= score[d]
        BY <2>2, <3>4
      <4>2. T(m + 1) = T(m) \cup {m + 1} /\ m + 1 \in Nat
        BY <2>2, <3>1, <3>4
      <4>3. \A d \in T(m + 1) : score[d] \in Nat
        BY <2>0
      <4>4. c \in T(m + 1) /\ m + 1 \in T(m + 1)
        BY <4>2
      <4> HIDE DEF T
      <4>5. \E e \in T(m + 1) : \A d \in T(m + 1) : score[e] >= score[d]
        <5>1. CASE score[c] >= score[m + 1]
          BY <4>1, <4>2, <4>4, <5>1
        <5>2. CASE score[m + 1] > score[c]
          <6>1. \A d \in T(m + 1) : score[m + 1] >= score[d]
            <7>1. \A d \in T(m) : score[c] >= score[d] /\ score[d] \in Nat
              BY <4>1, <4>2, <4>3
            <7>2. score[c] \in Nat /\ score[m + 1] \in Nat
              BY <4>3, <4>4
            <7>3. \A d \in T(m) : score[m + 1] >= score[d]
              BY <5>2, <7>1, <7>2
            <7> QED BY <4>2, <7>2, <7>3
          <6> QED BY <4>4, <6>1
        <5> QED BY <4>3, <4>4, <5>1, <5>2
      <4> QED BY <4>2, <4>5
    <3> QED BY <3>2, <3>3, <3>4
  <2> HIDE DEF S
  <2>3. S = Nat
    <3>1. S \in SUBSET Nat
      BY DEF S
    <3> QED BY <2>1, <2>2, <3>1, SetInduction
  <2>4. T(Len(chunks)) = close
    BY <1>1, <1>5
  <2> QED BY <1>1, <2>3, <2>4 DEF S
<1>7. \A c \in pathed : score[c] = R!Similarity(new, chunks[c].text) /\ score[c] \in Nat
  BY <1>2
<1>8. Threshold > 0 /\ R!Tokens(new) = {} => close = {}
  <2>1. \A c \in pathed : R!Tokens(new) = {} => score[c] = 0
    BY <1>2
  <2> HIDE DEF pathed, score
  <2> QED BY <2>1
<1>9. \A c \in same : chunks[c].text = new
  OBVIOUS
<1>10. \A c \in pathed : c \in same <=> chunks[c].text = new
  OBVIOUS
<1>11. \A c \in pathed : c \in close <=> score[c] >= Threshold
  OBVIOUS
<1> HIDE DEF found, pathed, same, score, close, best, Oldest
<1>12. found \subseteq pathed /\ \A c, d \in found : c = d
  BY <1>3, <1>4, <1>5
<1>13. found = {} <=> same = {} /\ close = {}
  BY <1>3, <1>4, <1>5, <1>6
<1>14. close = {} <=> \A c \in pathed : score[c] < Threshold
  BY <1>5, <1>7, <1>11
<1>15. found = {} <=> \A c \in pathed :
                 chunks[c].text # new /\ R!Similarity(new, chunks[c].text) < Threshold
  BY <1>5, <1>7, <1>10, <1>13, <1>14
<1>16. same # {} => found \subseteq same
  BY <1>3, <1>4, <1>5
<1>17. close = {} => found \subseteq same
  BY <1>3, <1>4, <1>5
<1> QED BY <1>8, <1>9, <1>10, <1>12, <1>15, <1>16, <1>17 DEF found, pathed
=============================================================================
