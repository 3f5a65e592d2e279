----------------------------- MODULE DataProofs -----------------------------
(***************************************************************************)
(* Theorems about what is computed from data: FilterIsExact of the         *)
(* sensitive word filter, BuilderIsSound and BatchesAsOneByOne of the      *)
(* statement builders, FilterTypesOK and SqlTypesOK.                       *)
(*                                                                         *)
(* The model's loops are recursive functions and folds over sequences.     *)
(* What they compute is proved by induction on the position or the length  *)
(* (InductionOnSet, InductionUpTo, InductionOnSeq): of the numbers without *)
(* a property none is the least.  That such a function is what its         *)
(* equations say is proved first each time (WalkExists, FoldExists,        *)
(* FoldUnique).                                                            *)
(*                                                                         *)
(* FilterInv: the trie is the prefixes of the words, so that a walk from   *)
(* any letter finds a word, and the first one to end, exactly where the    *)
(* text spells one.  BuilderInv: a builder's values are the values of its  *)
(* clauses in their order, and each clause has a hole for each of its own. *)
(* BatchInv: what is left of a batch is a tail of its normal rows, and     *)
(* what is done is what the rows given would have done.                    *)
(***************************************************************************)
EXTENDS TextFilter, SqlBuilders, TLAPS, FiniteSetTheorems, SequenceTheorems, WellFoundedInduction

(* Induction on the natural numbers, for a property given as a set: of the
   numbers that are not in it none is the least. *)
LEMMA InductionOnSet ==
    ASSUME NEW S, 0 \in S, \A n \in Nat : n \in S => n + 1 \in S
    PROVE  Nat \subseteq S
<1> DEFINE R == {ss \in Nat \X Nat : ss[1] < ss[2]}
           M == {n \in Nat : n \notin S}
<1>1. IsWellFoundedOn(R, Nat)
  BY NatLessThanWellFounded DEF OpToRel
<1>2. \A x, y \in Nat : y < x => <<y, x>> \in R
  OBVIOUS
<1>3. SUFFICES ASSUME M # {} PROVE FALSE
  OBVIOUS
<1>4. PICK x \in M : \A y \in M : ~(<<y, x>> \in R)
  <2> HIDE DEF R
  <2>1. M \in SUBSET Nat OBVIOUS
  <2> HIDE DEF M
  <2> QED BY <1>1, <1>3, <2>1, WFMin
<1>5. x \in Nat /\ x # 0 /\ x - 1 \in Nat
  BY <1>4
<1>6. x - 1 \in M
  BY <1>4, <1>5
<1> QED
  <2>1. <<x - 1, x>> \in R BY <1>2, <1>5
  <2> HIDE DEF R, M
  <2> QED BY <1>4, <1>6, <2>1

(* What the code's loop does at one position of the text, with what it does
   from the next one on. *)
Walked(text, f, p) == [node \in trie |->
    IF p > Len(text) THEN 0
    ELSE LET next == Append(node, Fold[text[p]])
         IN  IF next \in wordEnds THEN p
             ELSE IF next \in trie THEN f[p + 1][next]
             ELSE IF Fold[text[p]] \in stopWords THEN f[p + 1][node]
             ELSE 0]

LEMMA WalkExists ==
    ASSUME NEW text \in Seq(Chars)
    PROVE  \E f : f = [p \in 1 .. Len(text) + 1 |-> Walked(text, f, p)]
<1> DEFINE L == Len(text)
           S == {k \in Nat : k <= L =>
                   \E f : f = [p \in (L + 1 - k) .. (L + 1) |-> Walked(text, f, p)]}
<1>0. L \in Nat
  OBVIOUS
<1>1. 0 \in S
  <2> DEFINE f == [p \in (L + 1) .. (L + 1) |-> [node \in trie |-> 0]]
  <2>1. \A p \in (L + 1) .. (L + 1) : Walked(text, f, p) = [node \in trie |-> 0]
    BY <1>0 DEF Walked
  <2>2. f = [p \in (L + 1) .. (L + 1) |-> Walked(text, f, p)]
    BY <2>1
  <2>3. (L + 1 - 0) .. (L + 1) = (L + 1) .. (L + 1)
    BY <1>0
  <2> QED BY <2>2, <2>3
<1>2. ASSUME NEW k \in Nat, k \in S PROVE k + 1 \in S
  <2>1. SUFFICES ASSUME k + 1 <= L
                 PROVE  \E f : f = [p \in (L + 1 - (k + 1)) .. (L + 1) |-> Walked(text, f, p)]
    OBVIOUS
  <2>2. PICK f : f = [p \in (L + 1 - k) .. (L + 1) |-> Walked(text, f, p)]
    BY <1>0, <1>2, <2>1
  <2> DEFINE i == L - k
             g == [p \in i .. (L + 1) |-> IF p = i THEN Walked(text, f, p) ELSE f[p]]
  <2>3. i \in Nat /\ i <= L /\ L + 1 - (k + 1) = i /\ L + 1 - k = i + 1
    BY <1>0, <2>1
  <2>4. ASSUME NEW p \in i .. (L + 1) PROVE g[p] = Walked(text, g, p)
    <3>1. p <= L => g[p + 1] = f[p + 1]
      BY <1>0, <2>3
    <3>2. Walked(text, g, p) = Walked(text, f, p)
      <4> HIDE DEF g
      <4>1. p <= L \/ p > L BY <1>0, <2>3
      <4> QED BY <3>1, <4>1 DEF Walked
    <3>3. p # i => f[p] = Walked(text, f, p)
      <4>1. p # i => p \in (L + 1 - k) .. (L + 1) BY <1>0, <2>3
      <4> HIDE DEF L, i
      <4> QED BY <2>2, <4>1
    <3>4. g[p] = Walked(text, f, p)
      BY <3>3
    <3> QED BY <3>2, <3>4
  <2>5. g = [p \in i .. (L + 1) |-> Walked(text, g, p)]
    BY <2>4
  <2> QED BY <2>3, <2>5
<1>3. L \in S
  <2> HIDE DEF S
  <2> QED BY <1>0, <1>1, <1>2, InductionOnSet
<1>4. PICK f : f = [p \in (L + 1 - L) .. (L + 1) |-> Walked(text, f, p)]
  BY <1>0, <1>3
<1>5. L + 1 - L = 1
  BY <1>0
<1> QED BY <1>4, <1>5

(* The recursive definition of WordEnd says what it seems to say. *)
LEMMA WordEndUnfolds ==
    ASSUME NEW text \in Seq(Chars)
    PROVE  WordEnd(text) = [p \in 1 .. Len(text) + 1 |-> Walked(text, WordEnd(text), p)]
<1> DEFINE f == WordEnd(text)
<1>1. f = CHOOSE g : g = [p \in 1 .. Len(text) + 1 |-> Walked(text, g, p)]
  BY DEF WordEnd, Walked
<1>2. \E g : g = [p \in 1 .. Len(text) + 1 |-> Walked(text, g, p)]
  BY WalkExists
<1> QED
  <2> HIDE DEF f
  <2>1. f = [p \in 1 .. Len(text) + 1 |-> Walked(text, f, p)]
    BY ONLY <1>1, <1>2, Zenon
  <2> QED BY <2>1 DEF f

(* Induction from the end of a text to its beginning. *)
LEMMA InductionFromTheEnd ==
    ASSUME NEW L \in Nat, NEW S, L + 1 \in S,
           \A p \in 1 .. L : (\A r \in p + 1 .. L + 1 : r \in S) => p \in S
    PROVE  \A p \in 1 .. L + 1 : p \in S
<1> DEFINE T == {k \in Nat : \A p \in 1 .. L + 1 : p >= L + 1 - k => p \in S}
<1>1. 0 \in T
  <2>1. \A p \in 1 .. L + 1 : p >= L + 1 - 0 => p = L + 1
    OBVIOUS
  <2> QED BY <2>1
<1>2. ASSUME NEW k \in Nat, k \in T PROVE k + 1 \in T
  <2>1. SUFFICES ASSUME NEW p \in 1 .. L + 1, p >= L + 1 - (k + 1) PROVE p \in S
    OBVIOUS
  <2>2. CASE p >= L + 1 - k
    BY <1>2, <2>2
  <2>3. CASE p < L + 1 - k
    <3>1. \A r \in p + 1 .. L + 1 : r \in 1 .. L + 1 /\ r >= L + 1 - k
      BY <2>1
    <3>2. \A r \in p + 1 .. L + 1 : r \in S
      BY <1>2, <3>1
    <3>3. p \in 1 .. L
      BY <2>3
    <3> QED BY <3>2, <3>3
  <2> QED BY <2>2, <2>3
<1>3. L + 1 \in T
  <2> HIDE DEF T
  <2> QED BY <1>1, <1>2, InductionOnSet
<1> QED
  <2>1. \A p \in 1 .. L + 1 : p >= L + 1 - (L + 1)
    OBVIOUS
  <2> QED BY <1>3, <2>1

-----------------------------------------------------------------------------
(* Words and the paths in the trie *)

Prefix(w, k) == SubSeq(Folded(w), 1, k)

WordsOK ==
    /\ loadedWords \subseteq Seq(Chars)
    /\ \A w \in loadedWords : \A i \in DOMAIN w : Fold[w[i]] \notin StopChars

TrieOfWords ==
    /\ wordEnds = {Folded(w) : w \in loadedWords}
    /\ trie = {<<>>} \cup UNION {{Prefix(w, n) : n \in 0 .. Len(w)} : w \in loadedWords}

LEMMA FoldedIsSeq ==
    ASSUME NEW w \in Seq(Chars)
    PROVE  /\ Folded(w) \in Seq(Chars) /\ Len(Folded(w)) = Len(w)
           /\ \A i \in DOMAIN w : Folded(w)[i] = Fold[w[i]]
  BY FilterAssumption DEF Folded

LEMMA PrefixFacts ==
    ASSUME NEW w \in Seq(Chars), NEW k \in 0 .. Len(w)
    PROVE  /\ Prefix(w, k) \in Seq(Chars) /\ Len(Prefix(w, k)) = k
           /\ \A i \in 1 .. k : Prefix(w, k)[i] = Fold[w[i]]
<1>1. Folded(w) \in Seq(Chars) /\ Len(Folded(w)) = Len(w)
      /\ \A i \in DOMAIN w : Folded(w)[i] = Fold[w[i]]
  BY FoldedIsSeq
<1>2. /\ Prefix(w, k) \in Seq(Chars) /\ Len(Prefix(w, k)) = k
      /\ \A i \in 1 .. k : Prefix(w, k)[i] = Folded(w)[i]
  BY <1>1, SubSeqProperties DEF Prefix
<1> QED BY <1>1, <1>2

LEMMA WholeWord ==
    ASSUME NEW w \in Seq(Chars)
    PROVE  Prefix(w, Len(w)) = Folded(w) /\ Prefix(w, 0) = <<>>
<1>1. Folded(w) \in Seq(Chars) /\ Len(Folded(w)) = Len(w)
      /\ \A i \in DOMAIN w : Folded(w)[i] = Fold[w[i]]
  BY FoldedIsSeq
<1>2. Len(w) \in 0 .. Len(w) /\ 0 \in 0 .. Len(w)
  OBVIOUS
<1>3. /\ Prefix(w, Len(w)) \in Seq(Chars) /\ Len(Prefix(w, Len(w))) = Len(w)
      /\ \A i \in 1 .. Len(w) : Prefix(w, Len(w))[i] = Fold[w[i]]
  BY <1>2, PrefixFacts
<1>4. Prefix(w, 0) \in Seq(Chars) /\ Len(Prefix(w, 0)) = 0
  BY <1>2, PrefixFacts
<1>5. Prefix(w, Len(w)) = Folded(w)
  BY <1>1, <1>3, SeqEqual
<1> QED BY <1>4, <1>5

(* One letter more. *)
LEMMA NextPrefix ==
    ASSUME NEW w \in Seq(Chars), NEW k \in 0 .. Len(w) - 1
    PROVE  Append(Prefix(w, k), Fold[w[k + 1]]) = Prefix(w, k + 1)
<1>1. k \in 0 .. Len(w) /\ k + 1 \in 0 .. Len(w) /\ k + 1 \in DOMAIN w
  OBVIOUS
<1>2. /\ Prefix(w, k) \in Seq(Chars) /\ Len(Prefix(w, k)) = k
      /\ \A i \in 1 .. k : Prefix(w, k)[i] = Fold[w[i]]
  BY <1>1, PrefixFacts
<1>3. /\ Prefix(w, k + 1) \in Seq(Chars) /\ Len(Prefix(w, k + 1)) = k + 1
      /\ \A i \in 1 .. k + 1 : Prefix(w, k + 1)[i] = Fold[w[i]]
  BY <1>1, PrefixFacts
<1>4. Fold[w[k + 1]] \in Chars
  BY <1>1, FilterAssumption
<1> DEFINE a == Append(Prefix(w, k), Fold[w[k + 1]])
<1>5. a \in Seq(Chars) /\ Len(a) = k + 1 /\ \A i \in 1 .. k + 1 : a[i] = Fold[w[i]]
  BY <1>1, <1>2, <1>4
<1> QED
  <2> HIDE DEF a
  <2>1. a = Prefix(w, k + 1)
    BY <1>3, <1>5, SeqEqual
  <2> QED BY <2>1 DEF a

(* And one letter less. *)
LEMMA PrefixShorter ==
    ASSUME NEW w \in Seq(Chars), NEW k \in 1 .. Len(w), NEW node \in Seq(Chars), NEW c \in Chars,
           Append(node, c) = Prefix(w, k)
    PROVE  Len(node) = k - 1 /\ node = Prefix(w, k - 1) /\ c = Fold[w[k]]
<1>1. k \in 0 .. Len(w) /\ k - 1 \in 0 .. Len(w)
  OBVIOUS
<1>2. /\ Prefix(w, k) \in Seq(Chars) /\ Len(Prefix(w, k)) = k
      /\ \A i \in 1 .. k : Prefix(w, k)[i] = Fold[w[i]]
  BY <1>1, PrefixFacts
<1>3. /\ Prefix(w, k - 1) \in Seq(Chars) /\ Len(Prefix(w, k - 1)) = k - 1
      /\ \A i \in 1 .. k - 1 : Prefix(w, k - 1)[i] = Fold[w[i]]
  BY <1>1, PrefixFacts
<1>4. /\ Len(Append(node, c)) = Len(node) + 1 /\ Append(node, c)[Len(node) + 1] = c
      /\ \A i \in 1 .. Len(node) : Append(node, c)[i] = node[i]
  OBVIOUS
<1>5. Len(node) = k - 1
  BY <1>2, <1>4
<1>6. c = Fold[w[k]]
  BY <1>2, <1>4, <1>5
<1>7. \A i \in 1 .. Len(node) : node[i] = Prefix(w, k - 1)[i]
  <2>1. SUFFICES ASSUME NEW i \in 1 .. Len(node) PROVE node[i] = Prefix(w, k - 1)[i]
    OBVIOUS
  <2>2. i \in 1 .. k - 1 /\ i \in 1 .. k
    BY <1>5
  <2> QED BY <1>2, <1>3, <1>4, <2>2
<1>8. node = Prefix(w, k - 1)
  BY <1>3, <1>5, <1>7, SeqEqual
<1> QED BY <1>5, <1>6, <1>8

(* A node is the beginning of a loaded word, or the root. *)
LEMMA TrieNodes ==
    ASSUME WordsOK, TrieOfWords
    PROVE  /\ trie \subseteq Seq(Chars) /\ <<>> \in trie /\ wordEnds \subseteq trie
           /\ \A w \in loadedWords : \A n \in 0 .. Len(w) : Prefix(w, n) \in trie
           /\ \A node \in trie : node = <<>> \/
                \E w \in loadedWords : \E n \in 0 .. Len(w) : node = Prefix(w, n)
<1>1. \A w \in loadedWords : \A n \in 0 .. Len(w) : Prefix(w, n) \in trie
  BY DEF TrieOfWords
<1>2. \A node \in trie : node = <<>> \/
        \E w \in loadedWords : \E n \in 0 .. Len(w) : node = Prefix(w, n)
  BY DEF TrieOfWords
<1>3. \A w \in loadedWords : \A n \in 0 .. Len(w) : Prefix(w, n) \in Seq(Chars)
  BY PrefixFacts DEF WordsOK
<1>4. <<>> \in Seq(Chars)
  BY EmptySeq
<1>5. trie \subseteq Seq(Chars)
  BY <1>2, <1>3, <1>4
<1>6. wordEnds \subseteq trie
  <2>1. SUFFICES ASSUME NEW w \in loadedWords PROVE Folded(w) \in trie
    BY DEF TrieOfWords
  <2>2. w \in Seq(Chars) /\ Len(w) \in 0 .. Len(w)
    BY DEF WordsOK
  <2>3. Prefix(w, Len(w)) = Folded(w)
    BY <2>2, WholeWord
  <2> QED BY <1>1, <2>2, <2>3
<1>7. <<>> \in trie
  BY DEF TrieOfWords
<1> QED BY <1>1, <1>2, <1>5, <1>6, <1>7

(* No stop character leads to a node. *)
LEMMA StopsLeadNowhere ==
    ASSUME WordsOK, TrieOfWords, NEW node \in trie, NEW c \in StopChars
    PROVE  Append(node, c) \notin trie /\ Append(node, c) \notin wordEnds
<1>1. node \in Seq(Chars) /\ wordEnds \subseteq trie /\ c \in Chars
  BY TrieNodes, FilterAssumption
<1>2. SUFFICES ASSUME Append(node, c) \in trie PROVE FALSE
  BY <1>1
<1>3. Append(node, c) # <<>> /\ Len(Append(node, c)) = Len(node) + 1
  BY <1>1
<1>4. PICK w \in loadedWords : \E n \in 0 .. Len(w) : Append(node, c) = Prefix(w, n)
  BY <1>2, <1>3, TrieNodes
<1>9. PICK n \in 0 .. Len(w) : Append(node, c) = Prefix(w, n)
  BY <1>4
<1>5. w \in Seq(Chars)
  BY DEF WordsOK
<1>6. n \in 1 .. Len(w)
  BY <1>1, <1>3, <1>9, <1>5, PrefixFacts
<1>7. c = Fold[w[n]]
  BY <1>1, <1>9, <1>5, <1>6, PrefixShorter
<1> QED BY <1>5, <1>6, <1>7 DEF WordsOK

-----------------------------------------------------------------------------
(* What getSensitiveLength finds *)

(* The rest of a word, from its k+1st letter on, stands in the stretch of text from p
   to q, with nothing but stop characters around its letters. *)
ReadAt(text, w, k, p, q, at) ==
    /\ at \in [k + 1 .. Len(w) -> p .. q]
    /\ \A m, n \in k + 1 .. Len(w) : m < n => at[m] < at[n]
    /\ \A n \in k + 1 .. Len(w) : Fold[text[at[n]]] = Fold[w[n]]
    /\ \A i \in p .. q : Fold[text[i]] \in StopChars \/ \E n \in k + 1 .. Len(w) : at[n] = i

Reads(text, w, k, p, q) == \E at : ReadAt(text, w, k, p, q, at)

(* One letter in front. *)
LEMMA ReadLetter ==
    ASSUME NEW text, NEW w \in Seq(Chars), NEW k \in 0 .. Len(w) - 1, NEW p \in Nat, NEW q \in Nat,
           p <= q, Fold[text[p]] = Fold[w[k + 1]], Reads(text, w, k + 1, p + 1, q)
    PROVE  Reads(text, w, k, p, q)
<1>1. PICK at : ReadAt(text, w, k + 1, p + 1, q, at)
  BY DEF Reads
<1> DEFINE new == [n \in k + 1 .. Len(w) |-> IF n = k + 1 THEN p ELSE at[n]]
<1>2. \A n \in k + 1 .. Len(w) : n # k + 1 => n \in (k + 1) + 1 .. Len(w)
  OBVIOUS
<1>3. \A n \in k + 1 .. Len(w) : n # k + 1 => at[n] \in p + 1 .. q /\ Fold[text[at[n]]] = Fold[w[n]]
  BY <1>1, <1>2 DEF ReadAt
<1>4. new \in [k + 1 .. Len(w) -> p .. q]
  <2>1. \A i \in p + 1 .. q : i \in p .. q OBVIOUS
  <2>2. p \in p .. q OBVIOUS
  <2> QED BY <1>3, <2>1, <2>2
<1>5. ASSUME NEW m \in k + 1 .. Len(w), NEW n \in k + 1 .. Len(w), m < n PROVE new[m] < new[n]
  <2>1. n # k + 1
    BY <1>5
  <2>2. CASE m = k + 1
    BY <1>3, <2>1, <2>2
  <2>3. CASE m # k + 1
    <3>1. at[m] < at[n]
      BY <1>1, <1>2, <1>5, <2>1, <2>3 DEF ReadAt
    <3> QED BY <2>1, <2>3, <3>1
  <2> QED BY <2>2, <2>3
<1>6. \A n \in k + 1 .. Len(w) : Fold[text[new[n]]] = Fold[w[n]]
  BY <1>3
<1>7. ASSUME NEW i \in p .. q
      PROVE  Fold[text[i]] \in StopChars \/ \E n \in k + 1 .. Len(w) : new[n] = i
  <2>1. CASE i = p
    <3>1. k + 1 \in k + 1 .. Len(w) /\ new[k + 1] = p OBVIOUS
    <3> HIDE DEF new
    <3> QED BY <2>1, <3>1
  <2>2. CASE i # p /\ Fold[text[i]] \notin StopChars
    <3>1. i \in p + 1 .. q
      BY <2>2
    <3>2. PICK n \in (k + 1) + 1 .. Len(w) : at[n] = i
      BY <1>1, <2>2, <3>1 DEF ReadAt
    <3>3. n \in k + 1 .. Len(w) /\ n # k + 1
      OBVIOUS
    <3>4. new[n] = i
      BY <3>2, <3>3
    <3> HIDE DEF new
    <3> QED BY <3>3, <3>4
  <2> QED BY <2>1, <2>2
<1>8. ReadAt(text, w, k, p, q, new)
  <2> HIDE DEF new
  <2> QED BY <1>4, <1>5, <1>6, <1>7 DEF ReadAt
<1> QED BY <1>8 DEF Reads

(* One stop character in front, or one less. *)
LEMMA ReadStop ==
    ASSUME NEW text, NEW w \in Seq(Chars), NEW k \in 0 .. Len(w) - 1, NEW p \in Nat, NEW q \in Nat,
           Fold[text[p]] \in StopChars, \A i \in DOMAIN w : Fold[w[i]] \notin StopChars
    PROVE  /\ Reads(text, w, k, p + 1, q) => Reads(text, w, k, p, q)
           /\ Reads(text, w, k, p, q) => Reads(text, w, k, p + 1, q) /\ p + 1 <= q
<1>1. ASSUME Reads(text, w, k, p + 1, q) PROVE Reads(text, w, k, p, q)
  <2>1. PICK at : ReadAt(text, w, k, p + 1, q, at)
    BY <1>1 DEF Reads
  <2>2. \A i \in p + 1 .. q : i \in p .. q
    OBVIOUS
  <2>3. \A i \in p .. q : i = p \/ i \in p + 1 .. q
    OBVIOUS
  <2>4. at \in [k + 1 .. Len(w) -> p .. q]
    BY <2>1, <2>2 DEF ReadAt
  <2>5. ReadAt(text, w, k, p, q, at)
    BY <2>1, <2>3, <2>4 DEF ReadAt
  <2> QED BY <2>5 DEF Reads
<1>2. ASSUME Reads(text, w, k, p, q) PROVE Reads(text, w, k, p + 1, q) /\ p + 1 <= q
  <2>1. PICK at : ReadAt(text, w, k, p, q, at)
    BY <1>2 DEF Reads
  <2>2. \A n \in k + 1 .. Len(w) : n \in DOMAIN w
    OBVIOUS
  <2>3. \A n \in k + 1 .. Len(w) : at[n] # p
    BY <2>1, <2>2 DEF ReadAt
  <2>4. \A i \in p .. q : i # p => i \in p + 1 .. q
    OBVIOUS
  <2>5. at \in [k + 1 .. Len(w) -> p + 1 .. q]
    BY <2>1, <2>3, <2>4 DEF ReadAt
  <2>6. \A i \in p + 1 .. q : i \in p .. q
    OBVIOUS
  <2>7. ReadAt(text, w, k, p + 1, q, at)
    BY <2>1, <2>5, <2>6 DEF ReadAt
  <2>8. k + 1 \in k + 1 .. Len(w)
    OBVIOUS
  <2>9. at[k + 1] \in p + 1 .. q
    BY <2>5, <2>8
  <2>10. p + 1 <= q
    BY <2>9
  <2> QED BY <2>7, <2>10 DEF Reads
<1> QED BY <1>1, <1>2

(* A stretch that begins with no stop character begins with the next letter. *)
LEMMA ReadOn ==
    ASSUME NEW text, NEW w \in Seq(Chars), NEW k \in 0 .. Len(w) - 1, NEW p \in Nat, NEW q \in Nat,
           p <= q, Fold[text[p]] \notin StopChars, Reads(text, w, k, p, q)
    PROVE  /\ Fold[text[p]] = Fold[w[k + 1]]
           /\ Reads(text, w, k + 1, p + 1, q)
           /\ k + 1 < Len(w) => p + 1 <= q
<1>1. PICK at : ReadAt(text, w, k, p, q, at)
  BY DEF Reads
<1>2. p \in p .. q /\ k + 1 \in k + 1 .. Len(w)
  OBVIOUS
<1>3. PICK n \in k + 1 .. Len(w) : at[n] = p
  BY <1>1, <1>2 DEF ReadAt
<1>4. at[k + 1] \in p .. q
  BY <1>1, <1>2 DEF ReadAt
<1>5. n = k + 1
  <2>1. k + 1 < n => at[k + 1] < at[n]
    BY <1>1, <1>2 DEF ReadAt
  <2> QED BY <1>3, <1>4, <2>1
<1>6. Fold[text[p]] = Fold[w[k + 1]]
  BY <1>1, <1>3, <1>5 DEF ReadAt
<1> DEFINE new == [m \in (k + 1) + 1 .. Len(w) |-> at[m]]
<1>7. \A m \in (k + 1) + 1 .. Len(w) : m \in k + 1 .. Len(w) /\ k + 1 < m
  OBVIOUS
<1>8. \A m \in (k + 1) + 1 .. Len(w) : at[m] \in p .. q /\ p < at[m]
  BY <1>1, <1>2, <1>3, <1>5, <1>7 DEF ReadAt
<1>9. \A m \in (k + 1) + 1 .. Len(w) : at[m] \in p + 1 .. q
  <2>1. \A i \in p .. q : p < i => i \in p + 1 .. q OBVIOUS
  <2> QED BY <1>8, <2>1
<1>10. new \in [(k + 1) + 1 .. Len(w) -> p + 1 .. q]
  BY <1>9
<1>11. ReadAt(text, w, k + 1, p + 1, q, new)
  <2>1. \A m, x \in (k + 1) + 1 .. Len(w) : m < x => new[m] < new[x]
    BY <1>1, <1>7 DEF ReadAt
  <2>2. \A m \in (k + 1) + 1 .. Len(w) : Fold[text[new[m]]] = Fold[w[m]]
    BY <1>1, <1>7 DEF ReadAt
  <2>3. ASSUME NEW i \in p + 1 .. q
        PROVE  Fold[text[i]] \in StopChars \/ \E m \in (k + 1) + 1 .. Len(w) : new[m] = i
    <3>1. i \in p .. q /\ i # p
      OBVIOUS
    <3>2. ASSUME NEW m \in k + 1 .. Len(w), at[m] = i
          PROVE  \E x \in (k + 1) + 1 .. Len(w) : new[x] = i
      <4>1. m # k + 1
        BY <1>3, <1>5, <3>1, <3>2
      <4>2. m \in (k + 1) + 1 .. Len(w)
        BY <4>1
      <4> QED BY <3>2, <4>2
    <3> QED BY <1>1, <3>1, <3>2 DEF ReadAt
  <2> HIDE DEF new
  <2> QED BY <1>10, <2>1, <2>2, <2>3 DEF ReadAt
<1>12. Reads(text, w, k + 1, p + 1, q)
  BY <1>11 DEF Reads
<1>13. ASSUME k + 1 < Len(w) PROVE p + 1 <= q
  <2>1. (k + 1) + 1 \in (k + 1) + 1 .. Len(w)
    BY <1>13
  <2>2. at[(k + 1) + 1] \in p + 1 .. q
    BY <1>9, <2>1
  <2> QED BY <2>2
<1> QED BY <1>6, <1>12, <1>13

FilterLoaded == WordsOK /\ TrieOfWords /\ stopWords = StopChars

(* One step of the loop. *)
LEMMA OneStep ==
    ASSUME NEW text \in Seq(Chars), NEW p \in 1 .. Len(text), NEW node \in trie
    PROVE  LET W == WordEnd(text)
               next == Append(node, Fold[text[p]])
           IN  W[p][node] = IF next \in wordEnds THEN p
                            ELSE IF next \in trie THEN W[p + 1][next]
                            ELSE IF Fold[text[p]] \in stopWords THEN W[p + 1][node]
                            ELSE 0
<1> DEFINE W == WordEnd(text)
<1>1. p \in 1 .. Len(text) + 1 /\ ~(p > Len(text))
  OBVIOUS
<1>2. W[p] = Walked(text, W, p)
  <2>1. W = [i \in 1 .. Len(text) + 1 |-> Walked(text, W, i)]
    BY WordEndUnfolds
  <2> HIDE DEF W
  <2> QED BY <1>1, <2>1
<1> HIDE DEF W
<1>3. W[p][node] = LET next == Append(node, Fold[text[p]])
                   IN  IF next \in wordEnds THEN p
                       ELSE IF next \in trie THEN W[p + 1][next]
                       ELSE IF Fold[text[p]] \in stopWords THEN W[p + 1][node]
                       ELSE 0
  BY <1>1, <1>2 DEF Walked
<1> QED BY <1>3 DEF W

LEMMA AtTheEnd ==
    ASSUME NEW text \in Seq(Chars), NEW node \in trie
    PROVE  WordEnd(text)[Len(text) + 1][node] = 0
<1> DEFINE W == WordEnd(text)
<1>1. Len(text) + 1 \in 1 .. Len(text) + 1 /\ Len(text) + 1 > Len(text)
  OBVIOUS
<1>2. W[Len(text) + 1] = Walked(text, W, Len(text) + 1)
  <2>1. W = [i \in 1 .. Len(text) + 1 |-> Walked(text, W, i)]
    BY WordEndUnfolds
  <2> HIDE DEF W
  <2> QED BY <1>1, <2>1
<1> HIDE DEF W
<1>3. W[Len(text) + 1][node] = 0
  BY <1>1, <1>2 DEF Walked
<1> QED BY <1>3 DEF W

Truthful(text, p, node, e) ==
    \/ e = 0
    \/ /\ e \in p .. Len(text)
       /\ \E w \in loadedWords :
            /\ Len(node) < Len(w) /\ node = Prefix(w, Len(node))
            /\ Reads(text, w, Len(node), p, e)

(* Where the loop says that a word ends, from a node on, one does. *)
LEMMA WordEndTruthful ==
    ASSUME FilterLoaded, NEW text \in Seq(Chars)
    PROVE  \A p \in 1 .. Len(text) + 1 : \A node \in trie :
                Truthful(text, p, node, WordEnd(text)[p][node])
<1> DEFINE L == Len(text)
           S == {p \in 1 .. L + 1 : \A node \in trie :
                    Truthful(text, p, node, WordEnd(text)[p][node])}
<1>0. L \in Nat
  OBVIOUS
<1> USE DEF FilterLoaded
<1>1. L + 1 \in S
  <2>1. \A node \in trie : WordEnd(text)[L + 1][node] = 0
    BY AtTheEnd
  <2> HIDE DEF L
  <2> QED BY <1>0, <2>1 DEF Truthful
<1>2. ASSUME NEW p \in 1 .. L, p + 1 \in S PROVE p \in S
  <2>1. SUFFICES ASSUME NEW node \in trie
                 PROVE  Truthful(text, p, node, WordEnd(text)[p][node])
    BY <1>0
  <2> DEFINE c == Fold[text[p]]
             next == Append(node, c)
             W == WordEnd(text)
  <2>2. W[p][node] = IF next \in wordEnds THEN p
                     ELSE IF next \in trie THEN W[p + 1][next]
                     ELSE IF c \in stopWords THEN W[p + 1][node] ELSE 0
    BY OneStep
  <2>3. trie \subseteq Seq(Chars) /\ node \in Seq(Chars) /\ c \in Chars
    BY TrieNodes, FilterAssumption
  <2>4. next # <<>> /\ Len(next) = Len(node) + 1 /\ Len(node) \in Nat
    BY <2>3
  <2>5. p \in Nat /\ p <= Len(text)
    BY <1>0
  <2>6. CASE next \in wordEnds
    <3>1. PICK w \in loadedWords : next = Folded(w)
      BY <2>6 DEF TrieOfWords
    <3>2. w \in Seq(Chars) /\ next = Prefix(w, Len(w)) /\ Len(w) = Len(node) + 1
      <4>1. w \in Seq(Chars) BY DEF WordsOK
      <4>2. Folded(w) = Prefix(w, Len(w)) /\ Len(Folded(w)) = Len(w)
        BY <4>1, WholeWord, FoldedIsSeq
      <4> HIDE DEF next
      <4> QED BY <2>4, <3>1, <4>1, <4>2
    <3>3. Len(w) \in 1 .. Len(w)
      BY <2>4, <3>2
    <3>4. Len(node) = Len(w) - 1 /\ node = Prefix(w, Len(w) - 1) /\ c = Fold[w[Len(w)]]
      <4> HIDE DEF c
      <4> DEFINE k == Len(w)
      <4>1. Append(node, c) = Prefix(w, k) /\ k \in 1 .. Len(w)
        BY <3>2, <3>3
      <4>2. Len(node) = k - 1 /\ node = Prefix(w, k - 1) /\ c = Fold[w[k]]
        <5> HIDE DEF k, next
        <5> QED BY <2>3, <3>2, <4>1, PrefixShorter
      <4> QED BY <4>2
    <3>5. Reads(text, w, Len(node), p, p)
      <4> DEFINE at == [n \in Len(w) .. Len(w) |-> p]
      <4>1. Len(node) + 1 .. Len(w) = Len(w) .. Len(w) /\ p .. p = {p}
        BY <2>4, <2>5, <3>2
      <4>2. \A n \in Len(w) .. Len(w) : n = Len(w) /\ at[n] = p
        BY <3>2
      <4>3. Len(w) \in Len(w) .. Len(w)
        BY <3>2
      <4>4. at \in [Len(w) .. Len(w) -> {p}]
        OBVIOUS
      <4>5. \A m, n \in Len(w) .. Len(w) : ~(m < n)
        BY <3>2
      <4> HIDE DEF at
      <4>6. ReadAt(text, w, Len(node), p, p, at)
        BY <3>4, <4>1, <4>2, <4>3, <4>4, <4>5 DEF ReadAt
      <4> QED BY <4>6 DEF Reads
    <3>6. W[p][node] = p /\ p \in p .. Len(text)
      BY <2>2, <2>5, <2>6
    <3>7. Len(node) < Len(w) /\ node = Prefix(w, Len(node))
      BY <2>4, <3>2, <3>4
    <3> HIDE DEF W
    <3> QED BY <3>5, <3>6, <3>7 DEF Truthful, W
  <2>7. CASE next \notin wordEnds /\ next \in trie /\ W[p + 1][next] # 0
    <3>1. W[p][node] = W[p + 1][next]
      BY <2>2, <2>7
    <3> DEFINE e == W[p + 1][next]
    <3>2. Truthful(text, p + 1, next, e)
      BY <1>2, <2>7
    <3> HIDE DEF W, next, c
    <3>3. PICK w \in loadedWords :
            /\ Len(next) < Len(w) /\ next = Prefix(w, Len(next))
            /\ Reads(text, w, Len(next), p + 1, e)
      BY <2>7, <3>2 DEF Truthful
    <3>4. e \in p + 1 .. Len(text)
      BY <2>7, <3>2 DEF Truthful
    <3>5. w \in Seq(Chars)
      BY DEF WordsOK
    <3>6. Len(next) \in 1 .. Len(w)
      BY <2>4, <3>3, <3>5
    <3>7. Len(node) = Len(next) - 1 /\ node = Prefix(w, Len(next) - 1) /\ c = Fold[w[Len(next)]]
      BY <2>3, <3>3, <3>5, <3>6, PrefixShorter DEF next
    <3>8. Len(node) < Len(w) /\ node = Prefix(w, Len(node)) /\ Len(node) \in 0 .. Len(w) - 1
      BY <2>4, <3>3, <3>5, <3>7
    <3>9. Fold[text[p]] = Fold[w[Len(node) + 1]] /\ Reads(text, w, Len(node) + 1, p + 1, e)
      BY <2>4, <3>3, <3>7 DEF c
    <3>10. e \in Nat /\ p <= e /\ e \in p .. Len(text)
      BY <2>5, <3>4
    <3>11. Reads(text, w, Len(node), p, e)
      BY <2>5, <3>5, <3>8, <3>9, <3>10, ReadLetter
    <3> QED BY <3>1, <3>8, <3>10, <3>11 DEF Truthful, W
  <2>8. CASE next \notin wordEnds /\ next \notin trie /\ c \in StopChars /\ W[p + 1][node] # 0
    <3>1. W[p][node] = W[p + 1][node]
      BY <2>2, <2>8
    <3> DEFINE e == W[p + 1][node]
    <3>2. Truthful(text, p + 1, node, e)
      BY <1>2
    <3> HIDE DEF W, next
    <3>3. PICK w \in loadedWords :
            /\ Len(node) < Len(w) /\ node = Prefix(w, Len(node))
            /\ Reads(text, w, Len(node), p + 1, e)
      BY <2>8, <3>2 DEF Truthful
    <3>4. e \in p + 1 .. Len(text)
      BY <2>8, <3>2 DEF Truthful
    <3>5. w \in Seq(Chars) /\ \A i \in DOMAIN w : Fold[w[i]] \notin StopChars
      BY DEF WordsOK
    <3>6. Len(node) \in 0 .. Len(w) - 1
      BY <2>4, <3>3, <3>5
    <3>7. e \in Nat /\ e \in p .. Len(text)
      BY <2>5, <3>4
    <3>8. Reads(text, w, Len(node), p, e)
      BY <2>5, <2>8, <3>3, <3>5, <3>6, <3>7, ReadStop DEF c
    <3> QED BY <3>1, <3>3, <3>7, <3>8 DEF Truthful, W
  <2>9. CASE W[p][node] = 0
    BY <2>9 DEF Truthful
  <2> QED BY <2>2, <2>6, <2>7, <2>8, <2>9
<1>3. \A p \in 1 .. L : (\A r \in p + 1 .. L + 1 : r \in S) => p \in S
  <2>1. \A p \in 1 .. L : p + 1 \in p + 1 .. L + 1
    BY <1>0
  <2> HIDE DEF S
  <2> QED BY <1>2, <2>1
<1>4. \A p \in 1 .. L + 1 : p \in S
  <2> HIDE DEF S, L
  <2> QED BY <1>0, <1>1, <1>3, InductionFromTheEnd
<1> QED BY <1>4

(* Where a word could be read on from a node, the loop finds the end of one, not
   behind it. *)
LEMMA WordEndFinds ==
    ASSUME FilterLoaded, NEW text \in Seq(Chars)
    PROVE  \A p \in 1 .. Len(text) + 1 : \A q \in p .. Len(text) :
             \A w \in loadedWords : \A k \in 0 .. Len(w) - 1 :
                Reads(text, w, k, p, q) => WordEnd(text)[p][Prefix(w, k)] \in p .. q
<1> DEFINE L == Len(text)
           W == WordEnd(text)
           S == {p \in 1 .. L + 1 : \A q \in p .. L :
                    \A w \in loadedWords : \A k \in 0 .. Len(w) - 1 :
                        Reads(text, w, k, p, q) => W[p][Prefix(w, k)] \in p .. q}
<1>0. L \in Nat
  OBVIOUS
<1> USE DEF FilterLoaded
<1>1. L + 1 \in S
  <2>1. L + 1 .. L = {}
    BY <1>0
  <2> QED BY <1>0, <2>1
<1>2. ASSUME NEW p \in 1 .. L, p + 1 \in S PROVE p \in S
  <2>1. SUFFICES ASSUME NEW q \in p .. L, NEW w \in loadedWords, NEW k \in 0 .. Len(w) - 1,
                        Reads(text, w, k, p, q)
                 PROVE  W[p][Prefix(w, k)] \in p .. q
    BY <1>0
  <2> DEFINE c == Fold[text[p]]
             node == Prefix(w, k)
             next == Append(node, c)
  <2>2. w \in Seq(Chars) /\ \A i \in DOMAIN w : Fold[w[i]] \notin StopChars
    BY DEF WordsOK
  <2>3. k \in 0 .. Len(w) /\ k + 1 \in 0 .. Len(w) /\ Len(w) \in Nat /\ k \in Nat
    BY <2>2
  <2>4. node \in trie
    BY <2>3, TrieNodes
  <2>5. W[p][node] = IF next \in wordEnds THEN p
                     ELSE IF next \in trie THEN W[p + 1][next]
                     ELSE IF c \in stopWords THEN W[p + 1][node] ELSE 0
    BY <2>4, OneStep
  <2>6. p \in Nat /\ q \in Nat /\ p <= q /\ p \in p .. q /\ p + 1 \in 1 .. L + 1
    BY <1>0
  <2>7. CASE c \in StopChars
    <3>1. next \notin trie /\ next \notin wordEnds
      BY <2>4, <2>7, StopsLeadNowhere
    <3>2. W[p][node] = W[p + 1][node]
      BY <2>5, <2>7, <3>1
    <3>3. Reads(text, w, k, p + 1, q) /\ p + 1 <= q
      BY <2>1, <2>2, <2>6, <2>7, ReadStop
    <3>4. q \in p + 1 .. L
      BY <1>0, <2>6, <3>3
    <3>5. W[p + 1][node] \in p + 1 .. q
      <4> HIDE DEF W
      <4> QED BY <1>2, <3>3, <3>4
    <3>6. p + 1 .. q \subseteq p .. q
      BY <2>6
    <3> QED BY <3>2, <3>5, <3>6
  <2>8. CASE c \notin StopChars
    <3>1. c = Fold[w[k + 1]] /\ Reads(text, w, k + 1, p + 1, q) /\ (k + 1 < Len(w) => p + 1 <= q)
      BY <2>1, <2>2, <2>6, <2>8, ReadOn
    <3>2. next = Prefix(w, k + 1)
      BY <2>2, <3>1, NextPrefix
    <3>3. next \in trie
      BY <2>3, <3>2, TrieNodes
    <3>4. CASE next \in wordEnds
      BY <2>5, <2>6, <3>4
    <3>5. CASE next \notin wordEnds
      <4>1. k + 1 # Len(w)
        <5>1. Folded(w) \in wordEnds
          BY DEF TrieOfWords
        <5> QED BY <2>2, <3>2, <3>5, <5>1, WholeWord
      <4>2. k + 1 < Len(w) /\ k + 1 \in 0 .. Len(w) - 1
        BY <2>3, <4>1
      <4>3. q \in p + 1 .. L
        BY <1>0, <2>6, <3>1, <4>2
      <4>4. W[p + 1][Prefix(w, k + 1)] \in p + 1 .. q
        <5> HIDE DEF W
        <5> QED BY <1>2, <3>1, <4>2, <4>3
      <4>5. W[p][node] = W[p + 1][Prefix(w, k + 1)]
        BY <2>5, <3>2, <3>3, <3>5
      <4>6. p + 1 .. q \subseteq p .. q
        BY <2>6
      <4> QED BY <4>4, <4>5, <4>6
    <3> QED BY <3>4, <3>5
  <2> QED BY <2>7, <2>8
<1>3. \A p \in 1 .. L : (\A r \in p + 1 .. L + 1 : r \in S) => p \in S
  <2>1. \A p \in 1 .. L : p + 1 \in p + 1 .. L + 1
    BY <1>0
  <2> HIDE DEF S
  <2> QED BY <1>2, <2>1
<1>4. \A p \in 1 .. L + 1 : p \in S
  <2> HIDE DEF S, L
  <2> QED BY <1>0, <1>1, <1>3, InductionFromTheEnd
<1> QED BY <1>4

-----------------------------------------------------------------------------
(* What getSensitive collects *)

LEMMA LengthFits ==
    ASSUME FilterLoaded, NEW text \in Seq(Chars), NEW i \in 1 .. Len(text)
    PROVE  LET n == SensitiveLength(text, i)
               e == WordEnd(text)[i][<<>>]
           IN  \/ n = 0 /\ e = 0
               \/ n \in Nat /\ n > 0 /\ e = i + n - 1 /\ e \in i .. Len(text)
<1> DEFINE e == WordEnd(text)[i][<<>>]
<1>1. i \in 1 .. Len(text) + 1 /\ <<>> \in trie
  BY TrieNodes DEF FilterLoaded
<1>2. Truthful(text, i, <<>>, e)
  BY <1>1, WordEndTruthful
<1>3. e = 0 \/ e \in i .. Len(text)
  <2> HIDE DEF e
  <2> QED BY <1>2 DEF Truthful
<1>4. SensitiveLength(text, i) = IF e = 0 THEN 0 ELSE e - i + 1
  BY DEF SensitiveLength
<1> QED
  <2> HIDE DEF e
  <2>1. i \in Nat /\ i > 0 /\ Len(text) \in Nat
    OBVIOUS
  <2>2. CASE e = 0
    BY <1>4, <2>2 DEF e
  <2>3. CASE e \in i .. Len(text)
    <3>1. e # 0 /\ e \in Nat /\ e >= i
      BY <2>1, <2>3
    <3>2. SensitiveLength(text, i) = e - i + 1
      BY <1>4, <3>1
    <3>3. e - i + 1 \in Nat /\ e - i + 1 > 0 /\ e = i + (e - i + 1) - 1
      BY <2>1, <3>1
    <3> QED BY <2>3, <3>2, <3>3 DEF e
  <2> QED BY <1>3, <2>2, <2>3

Found(text, f, i) ==
    IF i > Len(text) THEN {}
    ELSE LET n == SensitiveLength(text, i)
         IN  IF n > 0 THEN {<<i, n>>} \cup f[i + n] ELSE f[i + 1]

LEMMA HitsExist ==
    ASSUME FilterLoaded, NEW text \in Seq(Chars)
    PROVE  \E f : f = [i \in 1 .. Len(text) + 1 |-> Found(text, f, i)]
<1> DEFINE L == Len(text)
           S == {k \in 1 .. L + 1 : \E f : f = [i \in k .. (L + 1) |-> Found(text, f, i)]}
<1>0. L \in Nat
  OBVIOUS
<1>1. L + 1 \in S
  <2> DEFINE f == [i \in (L + 1) .. (L + 1) |-> {}]
  <2>1. \A i \in (L + 1) .. (L + 1) : Found(text, f, i) = {}
    BY <1>0 DEF Found
  <2>2. f = [i \in (L + 1) .. (L + 1) |-> Found(text, f, i)]
    BY <2>1
  <2>3. L + 1 \in 1 .. L + 1
    BY <1>0
  <2> QED BY <2>2, <2>3
<1>2. ASSUME NEW k \in 1 .. L, k + 1 \in S PROVE k \in S
  <2>1. PICK f : f = [i \in k + 1 .. (L + 1) |-> Found(text, f, i)]
    BY <1>2
  <2> DEFINE g == [i \in k .. (L + 1) |-> IF i = k THEN Found(text, f, i) ELSE f[i]]
  <2>2. k \in Nat /\ k \in 1 .. L + 1
    BY <1>0
  <2>3. ASSUME NEW i \in k .. (L + 1) PROVE g[i] = Found(text, g, i)
    <3> DEFINE n == SensitiveLength(text, i)
    <3>1. i \in Nat /\ i \in 1 .. L + 1
      BY <1>0, <2>2
    <3>2. i <= L => n = 0 \/ (n \in Nat /\ n > 0 /\ i + n <= L + 1)
      <4>1. ASSUME i <= L PROVE i \in 1 .. Len(text)
        BY <3>1, <4>1
      <4>2. ASSUME i <= L PROVE n = 0 \/ (n \in Nat /\ n > 0 /\ i + n - 1 \in i .. Len(text))
        <5> HIDE DEF L
        <5> QED BY <4>1, <4>2, LengthFits
      <4> HIDE DEF n
      <4> QED BY <1>0, <3>1, <4>2
    <3> HIDE DEF n
    <3>3. i <= L => g[i + 1] = f[i + 1]
      BY <1>0, <2>2
    <3>4. i <= L /\ n > 0 => g[i + n] = f[i + n]
      <4>1. SUFFICES ASSUME i <= L, n > 0 PROVE g[i + n] = f[i + n]
        OBVIOUS
      <4>2. n \in Nat /\ i + n <= L + 1
        BY <3>2, <4>1
      <4>3. i + n \in k .. (L + 1) /\ i + n # k
        BY <1>0, <2>2, <3>1, <4>1, <4>2
      <4> QED BY <4>3
    <3>5. Found(text, g, i) = Found(text, f, i)
      <4> HIDE DEF g, L
      <4>1. ~(i > Len(text)) => i <= L
        BY <1>0, <3>1 DEF L
      <4> QED BY <3>3, <3>4, <4>1 DEF Found, n
    <3>6. i # k => f[i] = Found(text, f, i)
      <4>1. i # k => i \in k + 1 .. (L + 1) BY <1>0, <2>2
      <4> HIDE DEF L
      <4> QED BY <2>1, <4>1
    <3>7. g[i] = Found(text, f, i)
      BY <3>6
    <3> QED BY <3>5, <3>7
  <2>4. g = [i \in k .. (L + 1) |-> Found(text, g, i)]
    BY <2>3
  <2> QED BY <2>2, <2>4
<1>3. \A p \in 1 .. L : (\A r \in p + 1 .. L + 1 : r \in S) => p \in S
  <2>1. \A p \in 1 .. L : p + 1 \in p + 1 .. L + 1
    BY <1>0
  <2> HIDE DEF S
  <2> QED BY <1>2, <2>1
<1>4. 1 \in S
  <2>1. 1 \in 1 .. L + 1
    BY <1>0
  <2> HIDE DEF S, L
  <2> QED BY <1>0, <1>1, <1>3, <2>1, InductionFromTheEnd
<1> QED BY <1>4

(* Two facts of the hits: each is a stretch the length of which was found, and a
   place in none of them begins no such stretch. *)
LEMMA HitsExact ==
    ASSUME FilterLoaded, NEW text \in Seq(Chars)
    PROVE  /\ \A h \in Sensitive(text) :
                /\ h[1] \in 1 .. Len(text) /\ h[2] = SensitiveLength(text, h[1]) /\ h[2] > 0
           /\ \A k \in 1 .. Len(text) :
                \/ SensitiveLength(text, k) = 0
                \/ \E h \in Sensitive(text) : k \in h[1] .. h[1] + h[2] - 1
<1> DEFINE L == Len(text)
<1>0. L \in Nat
  OBVIOUS
<1>1. PICK from : /\ from = [i \in 1 .. L + 1 |-> Found(text, from, i)]
                  /\ Sensitive(text) = from[1]
  <2> DEFINE f == CHOOSE g : g = [i \in 1 .. L + 1 |-> Found(text, g, i)]
  <2>1. Sensitive(text) = f[1]
    BY DEF Sensitive, Found
  <2>2. \E g : g = [i \in 1 .. L + 1 |-> Found(text, g, i)]
    BY HitsExist
  <2>3. f = [i \in 1 .. L + 1 |-> Found(text, f, i)]
    BY ONLY <2>2, Zenon
  <2> HIDE DEF f
  <2> QED BY <2>1, <2>3
<1> DEFINE S == {i \in 1 .. L + 1 :
                    /\ \A h \in from[i] : /\ h[1] \in 1 .. L /\ h[2] = SensitiveLength(text, h[1])
                                          /\ h[2] > 0
                    /\ \A k \in i .. L : \/ SensitiveLength(text, k) = 0
                                         \/ \E h \in from[i] : k \in h[1] .. h[1] + h[2] - 1}
<1>2. L + 1 \in S
  <2>1. L + 1 \in 1 .. L + 1 /\ L + 1 > L /\ L + 1 .. L = {}
    BY <1>0
  <2>2. from[L + 1] = Found(text, from, L + 1)
    <3> HIDE DEF L
    <3> QED BY <1>1, <2>1
  <2>3. from[L + 1] = {}
    BY <2>1, <2>2 DEF Found
  <2> QED BY <2>1, <2>3
<1>3. ASSUME NEW i \in 1 .. L, \A r \in i + 1 .. L + 1 : r \in S PROVE i \in S
  <2> DEFINE n == SensitiveLength(text, i)
  <2>1. i \in Nat /\ i \in 1 .. L + 1 /\ ~(i > L) /\ i + 1 \in i + 1 .. L + 1
    BY <1>0
  <2>2. n = 0 \/ (n \in Nat /\ n > 0 /\ i + n - 1 \in i .. L)
    <3>1. i \in 1 .. Len(text)
      OBVIOUS
    <3> QED BY <3>1, LengthFits
  <2>3. from[i] = Found(text, from, i)
    <3> HIDE DEF L
    <3> QED BY <1>1, <2>1
  <2>4. CASE n = 0
    <3>1. from[i] = from[i + 1]
      <4>1. ~(n > 0) BY <2>4
      <4> HIDE DEF n
      <4> QED BY <2>1, <2>3, <4>1 DEF Found, n
    <3>2. i + 1 \in S
      BY <1>3, <2>1
    <3>3. \A k \in i .. L : k = i \/ k \in i + 1 .. L
      BY <2>1
    <3> QED BY <2>1, <2>4, <3>1, <3>2, <3>3
  <2>5. CASE n \in Nat /\ n > 0 /\ i + n - 1 \in i .. L
    <3>1. from[i] = {<<i, n>>} \cup from[i + n]
      BY <2>1, <2>3, <2>5 DEF Found
    <3>2. i + n \in i + 1 .. L + 1
      <4> HIDE DEF n
      <4> QED BY <1>0, <2>1, <2>5
    <3>3. i + n \in S
      <4> HIDE DEF S
      <4> QED BY <1>3, <3>2
    <3>4. ASSUME NEW k \in i .. L
          PROVE  k \in i .. i + n - 1 \/ k \in i + n .. L
      <4> HIDE DEF n
      <4> QED BY <1>0, <2>1, <2>5
    <3>5. \A h \in from[i] : h[1] \in 1 .. L /\ h[2] = SensitiveLength(text, h[1]) /\ h[2] > 0
      <4>1. SUFFICES ASSUME NEW h \in from[i]
                     PROVE  h[1] \in 1 .. L /\ h[2] = SensitiveLength(text, h[1]) /\ h[2] > 0
        OBVIOUS
      <4>2. CASE h = <<i, n>>
        <5>1. h[1] = i /\ h[2] = n BY <4>2
        <5> QED BY <2>5, <5>1
      <4>3. CASE h \in from[i + n]
        <5> HIDE DEF n
        <5> QED BY <3>3, <4>3
      <4> QED BY <3>1, <4>1, <4>2, <4>3
    <3>6. ASSUME NEW k \in i .. L
          PROVE  \/ SensitiveLength(text, k) = 0
                 \/ \E h \in from[i] : k \in h[1] .. h[1] + h[2] - 1
      <4> HIDE DEF n
      <4>1. CASE k \in i .. i + n - 1
        <5>1. <<i, n>> \in from[i] /\ <<i, n>>[1] = i /\ <<i, n>>[2] = n
          BY <3>1
        <5> QED BY <4>1, <5>1
      <4>2. CASE k \in i + n .. L
        BY <3>1, <3>3, <4>2
      <4> QED BY <3>4, <4>1, <4>2
    <3> QED BY <2>1, <3>5, <3>6
  <2> QED BY <2>2, <2>4, <2>5
<1>4. 1 \in S
  <2>1. 1 \in 1 .. L + 1 /\ \A p \in 1 .. L : (\A r \in p + 1 .. L + 1 : r \in S) => p \in S
    BY <1>0, <1>3
  <2> HIDE DEF S, L
  <2> QED BY <1>0, <1>2, <2>1, InductionFromTheEnd
<1> QED BY <1>1, <1>4

-----------------------------------------------------------------------------
(* What comes back *)

(* A stretch spells a word when the word can be read in it from its beginning. *)
LEMMA SpellsIsReads ==
    ASSUME WordsOK, NEW s \in Seq(Chars \cup {Mask}),
           NEW i \in 1 .. Len(s), NEW j \in 1 .. Len(s), i <= j
    PROVE  Spells(SubSeq(s, i, j)) <=>
             /\ \A x \in i .. j : s[x] # Mask
             /\ \E w \in loadedWords \ {<<>>} : Reads(s, w, 0, i, j)
<1> DEFINE stretch == SubSeq(s, i, j)
<1>1. /\ stretch \in Seq(Chars \cup {Mask}) /\ Len(stretch) = j - i + 1
      /\ \A x \in 1 .. j - i + 1 : stretch[x] = s[i + x - 1]
  <2>1. i \in 1 .. Len(s) + 1 /\ j \in i - 1 .. Len(s) /\ i \in Nat /\ j \in Nat
    OBVIOUS
  <2>2. Len(stretch) = IF i <= j THEN j - i + 1 ELSE 0
    OBVIOUS
  <2>3. stretch \in Seq(Chars \cup {Mask}) /\ Len(stretch) = j - i + 1
    OBVIOUS
  <2>4. \A x \in 1 .. j - i + 1 : stretch[x] = s[i + x - 1]
    OBVIOUS
  <2> QED BY <2>3, <2>4
<1>2. DOMAIN stretch = 1 .. j - i + 1
  <2> HIDE DEF stretch
  <2> QED BY <1>1
<1>3. /\ \A x \in 1 .. j - i + 1 : i + x - 1 \in i .. j
      /\ \A y \in i .. j : y - i + 1 \in 1 .. j - i + 1 /\ i + (y - i + 1) - 1 = y
  OBVIOUS
<1> HIDE DEF stretch
<1>4. (\A x \in DOMAIN stretch : stretch[x] # Mask) <=> (\A x \in i .. j : s[x] # Mask)
  <2>1. ASSUME \A x \in DOMAIN stretch : stretch[x] # Mask, NEW y \in i .. j PROVE s[y] # Mask
    <3>1. y - i + 1 \in DOMAIN stretch /\ stretch[y - i + 1] = s[y]
      BY <1>1, <1>2, <1>3
    <3> QED BY <2>1, <3>1
  <2>2. ASSUME \A x \in i .. j : s[x] # Mask, NEW x \in DOMAIN stretch PROVE stretch[x] # Mask
    BY <1>1, <1>2, <1>3, <2>2
  <2> QED BY <2>1, <2>2
<1>5. ASSUME NEW w \in loadedWords \ {<<>>}, NEW at \in [DOMAIN w -> DOMAIN stretch],
             \A m, n \in DOMAIN w : m < n => at[m] < at[n],
             \A n \in DOMAIN w : Fold[stretch[at[n]]] = Fold[w[n]],
             \A x \in DOMAIN stretch :
                Fold[stretch[x]] \in StopChars \/ \E n \in DOMAIN w : at[n] = x
      PROVE  Reads(s, w, 0, i, j)
  <2> DEFINE new == [n \in DOMAIN w |-> i + at[n] - 1]
  <2>1. DOMAIN w = 0 + 1 .. Len(w) /\ w \in Seq(Chars)
    BY DEF WordsOK
  <2>2. \A n \in DOMAIN w : at[n] \in 1 .. j - i + 1
    BY <1>2, <1>5
  <2>3. new \in [DOMAIN w -> i .. j]
    BY <1>3, <2>2
  <2>4. \A m, n \in DOMAIN w : m < n => new[m] < new[n]
    BY <1>5, <2>2
  <2>5. \A n \in DOMAIN w : Fold[s[new[n]]] = Fold[w[n]]
    BY <1>1, <1>5, <2>2
  <2>6. ASSUME NEW y \in i .. j
        PROVE  Fold[s[y]] \in StopChars \/ \E n \in DOMAIN w : new[n] = y
    <3>1. y - i + 1 \in DOMAIN stretch /\ stretch[y - i + 1] = s[y]
      BY <1>1, <1>2, <1>3
    <3>2. ASSUME NEW n \in DOMAIN w, at[n] = y - i + 1 PROVE new[n] = y
      BY <1>3, <3>2
    <3> HIDE DEF new
    <3> QED BY <1>5, <3>1, <3>2
  <2> HIDE DEF new
  <2>7. ReadAt(s, w, 0, i, j, new)
    BY <2>1, <2>3, <2>4, <2>5, <2>6 DEF ReadAt
  <2> QED BY <2>7 DEF Reads
<1>6. ASSUME NEW w \in loadedWords \ {<<>>}, Reads(s, w, 0, i, j)
      PROVE  \E at \in [DOMAIN w -> DOMAIN stretch] :
                /\ \A m, n \in DOMAIN w : m < n => at[m] < at[n]
                /\ \A n \in DOMAIN w : Fold[stretch[at[n]]] = Fold[w[n]]
                /\ \A x \in DOMAIN stretch :
                    Fold[stretch[x]] \in StopChars \/ \E n \in DOMAIN w : at[n] = x
  <2>1. DOMAIN w = 0 + 1 .. Len(w) /\ w \in Seq(Chars)
    BY DEF WordsOK
  <2>2. PICK at : ReadAt(s, w, 0, i, j, at)
    BY <1>6 DEF Reads
  <2> DEFINE new == [n \in DOMAIN w |-> at[n] - i + 1]
  <2>3. \A n \in DOMAIN w : at[n] \in i .. j
    BY <2>1, <2>2 DEF ReadAt
  <2>4. new \in [DOMAIN w -> DOMAIN stretch]
    BY <1>2, <1>3, <2>3
  <2>5. \A m, n \in DOMAIN w : m < n => new[m] < new[n]
    <3>1. \A m, n \in DOMAIN w : m < n => at[m] < at[n]
      BY <2>1, <2>2 DEF ReadAt
    <3> QED BY <2>3, <3>1
  <2>6. \A n \in DOMAIN w : stretch[new[n]] = s[at[n]]
    BY <1>1, <1>3, <2>3
  <2>7. \A n \in DOMAIN w : Fold[stretch[new[n]]] = Fold[w[n]]
    BY <2>1, <2>2, <2>6 DEF ReadAt
  <2>8. ASSUME NEW x \in DOMAIN stretch
        PROVE  Fold[stretch[x]] \in StopChars \/ \E n \in DOMAIN w : new[n] = x
    <3>1. x \in 1 .. j - i + 1 /\ stretch[x] = s[i + x - 1] /\ i + x - 1 \in i .. j
      BY <1>1, <1>2, <1>3
    <3>2. Fold[s[i + x - 1]] \in StopChars \/ \E n \in DOMAIN w : at[n] = i + x - 1
      BY <2>1, <2>2, <3>1 DEF ReadAt
    <3>3. ASSUME NEW n \in DOMAIN w, at[n] = i + x - 1 PROVE new[n] = x
      BY <3>1, <3>3
    <3> HIDE DEF new
    <3> QED BY <3>1, <3>2, <3>3
  <2> HIDE DEF new
  <2> QED BY <2>4, <2>5, <2>7, <2>8
<1> QED BY <1>4, <1>5, <1>6 DEF Spells, stretch

LEMMA CensorOfLoaded ==
    ASSUME FilterLoaded, NEW text \in Seq(Chars)
    PROVE  LET masked == ReplaceSensitive(text)
           IN  /\ DOMAIN masked = DOMAIN text /\ Len(masked) = Len(text)
               /\ \A i, j \in DOMAIN masked : i <= j => ~Spells(SubSeq(masked, i, j))
               /\ \A k \in DOMAIN masked : masked[k] = Mask =>
                    \E i, j \in DOMAIN text : i <= k /\ k <= j /\ Spells(SubSeq(text, i, j))
<1> DEFINE masked == ReplaceSensitive(text)
           Hit(k) == \E h \in Sensitive(text) : k \in h[1] .. h[1] + h[2] - 1
<1>1. /\ DOMAIN masked = DOMAIN text
      /\ \A k \in DOMAIN text : masked[k] = IF Hit(k) THEN Mask ELSE text[k]
  BY DEF ReplaceSensitive
<1>2. DOMAIN text = 1 .. Len(text) /\ Len(text) \in Nat /\ \A k \in DOMAIN text : text[k] \in Chars
  OBVIOUS
<1>3. masked \in Seq(Chars \cup {Mask}) /\ Len(masked) = Len(text)
  <2>1. masked = [k \in 1 .. Len(text) |-> masked[k]]
    BY <1>1, <1>2 DEF ReplaceSensitive
  <2>2. \A k \in 1 .. Len(text) : masked[k] \in Chars \cup {Mask}
    BY <1>1, <1>2
  <2> HIDE DEF masked
  <2> QED BY <1>2, <2>1, <2>2
<1> HIDE DEF masked, Hit
<1>4. ASSUME NEW i \in DOMAIN masked, NEW j \in DOMAIN masked, i <= j, Spells(SubSeq(masked, i, j))
      PROVE  FALSE
  <2>1. i \in 1 .. Len(masked) /\ j \in 1 .. Len(masked) /\ i \in 1 .. Len(text) /\ j \in 1 .. Len(text)
    BY <1>1, <1>2, <1>3
  <2>2. /\ \A x \in i .. j : masked[x] # Mask
        /\ \E w \in loadedWords \ {<<>>} : Reads(masked, w, 0, i, j)
    BY <1>3, <1>4, <2>1, SpellsIsReads DEF FilterLoaded
  <2>3. PICK w \in loadedWords \ {<<>>} : Reads(masked, w, 0, i, j)
    BY <2>2
  <2>4. PICK at : ReadAt(masked, w, 0, i, j, at)
    BY <2>3 DEF Reads
  <2>5. \A x \in i .. j : x \in DOMAIN text /\ ~Hit(x) /\ masked[x] = text[x]
    <3>1. \A x \in i .. j : x \in DOMAIN text
      BY <1>2, <2>1
    <3> QED BY <1>1, <2>2, <3>1
  <2>6. ReadAt(text, w, 0, i, j, at)
    BY <2>4, <2>5 DEF ReadAt
  <2>7. Reads(text, w, 0, i, j)
    BY <2>6 DEF Reads
  <2>8. w \in Seq(Chars) /\ 0 \in 0 .. Len(w) - 1 /\ w \in loadedWords
    <3>1. w \in Seq(Chars) /\ w # <<>>
      BY DEF FilterLoaded, WordsOK
    <3> QED BY <3>1
  <2>9. i \in 1 .. Len(text) + 1 /\ j \in i .. Len(text) /\ i \in i .. j /\ i > 0
    BY <1>2, <1>4, <2>1
  <2>10. WordEnd(text)[i][Prefix(w, 0)] \in i .. j
    BY <2>7, <2>8, <2>9, WordEndFinds
  <2>11. Prefix(w, 0) = <<>>
    BY <2>8, WholeWord
  <2>12. WordEnd(text)[i][<<>>] # 0
    BY <2>9, <2>10, <2>11
  <2>13. SensitiveLength(text, i) # 0
    <3> DEFINE n == SensitiveLength(text, i)
               e == WordEnd(text)[i][<<>>]
    <3>1. \/ n = 0 /\ e = 0
          \/ n \in Nat /\ n > 0 /\ e = i + n - 1 /\ e \in i .. Len(text)
      BY <2>1, LengthFits
    <3> HIDE DEF n, e
    <3>2. e # 0
      BY <2>12 DEF e
    <3>3. n # 0
      BY <3>1, <3>2
    <3> QED BY <3>3 DEF n
  <2>14. Hit(i)
    BY <2>1, <2>13, HitsExact DEF Hit
  <2> QED BY <2>5, <2>9, <2>14
<1>5. ASSUME NEW k \in DOMAIN masked, masked[k] = Mask
      PROVE  \E i, j \in DOMAIN text : i <= k /\ k <= j /\ Spells(SubSeq(text, i, j))
  <2>1. Hit(k)
    BY <1>1, <1>2, <1>5, FilterAssumption
  <2>2. PICK h \in Sensitive(text) : k \in h[1] .. h[1] + h[2] - 1
    BY <2>1 DEF Hit
  <2> DEFINE i == h[1]
             n == SensitiveLength(text, i)
             e == WordEnd(text)[i][<<>>]
  <2>3. i \in 1 .. Len(text) /\ h[2] = n /\ n > 0
    BY <2>2, HitsExact
  <2>4. \/ n = 0 /\ e = 0
        \/ n \in Nat /\ n > 0 /\ e = i + n - 1 /\ e \in i .. Len(text)
    BY <2>3, LengthFits
  <2>5. i \in 1 .. Len(text) + 1 /\ <<>> \in trie
    BY <2>3, TrieNodes DEF FilterLoaded
  <2>6. Truthful(text, i, <<>>, e)
    BY <2>5, WordEndTruthful
  <2>7. k \in i .. i + n - 1
    BY <2>2, <2>3
  <2> HIDE DEF i, n, e
  <2>8. e = i + n - 1 /\ e \in i .. Len(text) /\ e # 0
    BY <2>3, <2>4
  <2>9. PICK w \in loadedWords : Len(<<>>) < Len(w) /\ Reads(text, w, Len(<<>>), i, e)
    BY <2>6, <2>8 DEF Truthful
  <2>10. w \in Seq(Chars) /\ w # <<>> /\ Reads(text, w, 0, i, e)
    BY <2>9 DEF FilterLoaded, WordsOK
  <2>11. e \in 1 .. Len(text) /\ i <= e /\ i <= k /\ k <= e
    BY <2>3, <2>7, <2>8
  <2>12. text \in Seq(Chars \cup {Mask}) /\ \A x \in i .. e : text[x] # Mask
    <3>1. \A x \in i .. e : x \in DOMAIN text
      BY <1>2, <2>3, <2>11
    <3>2. text \in Seq(Chars \cup {Mask})
      BY SeqMonotonic
    <3> QED BY <1>2, <3>1, <3>2, FilterAssumption
  <2>13. Spells(SubSeq(text, i, e))
    BY <2>3, <2>9, <2>10, <2>11, <2>12, SpellsIsReads DEF FilterLoaded
  <2> QED BY <1>2, <2>3, <2>11, <2>13
<1> QED BY <1>1, <1>3, <1>4, <1>5 DEF masked

-----------------------------------------------------------------------------
(* The life of the filter *)

(* CensorExact, said of any list of words and any answer. *)
SpellsIn(words, stretch) ==
    /\ \A i \in DOMAIN stretch : stretch[i] # Mask
    /\ \E w \in words \ {<<>>} : \E at \in [DOMAIN w -> DOMAIN stretch] :
        /\ \A m, n \in DOMAIN w : m < n => at[m] < at[n]
        /\ \A n \in DOMAIN w : Fold[stretch[at[n]]] = Fold[w[n]]
        /\ \A i \in DOMAIN stretch : Fold[stretch[i]] \in StopChars \/ \E n \in DOMAIN w : at[n] = i

ExactIn(words, text, masked) ==
    /\ \A i, j \in DOMAIN masked : i <= j => ~SpellsIn(words, SubSeq(masked, i, j))
    /\ \A k \in DOMAIN masked : masked[k] = Mask =>
        \E i, j \in DOMAIN text : i <= k /\ k <= j /\ SpellsIn(words, SubSeq(text, i, j))

LEMMA SpellsAny == ASSUME NEW s PROVE Spells(s) <=> SpellsIn(loadedWords, s)
  BY DEF Spells, SpellsIn

LEMMA ExactAny ==
    /\ CensorExact <=> ExactIn(loadedWords, checked.text, checked.masked)
    /\ CensorExact' <=> ExactIn(loadedWords', checked'.text, checked'.masked)
<1>1. CensorExact <=> ExactIn(loadedWords, checked.text, checked.masked)
  BY SpellsAny DEF CensorExact, ExactIn
<1>2. (CensorExact <=> ExactIn(loadedWords, checked.text, checked.masked))'
  BY <1>1, PTL
<1> QED BY <1>1, <1>2

FilterTypes ==
    /\ toLoad \cup loadedWords \in WordLists
    /\ stopWords \in {{}, StopChars}

CheckedOK ==
    /\ checked = NoText \/ (toLoad = {} /\ stopWords = StopChars)
    /\ Len(checked.text) = Len(checked.masked)
    /\ CensorExact

FilterInv == FilterTypes /\ TrieOfWords /\ CheckedOK

LEMMA NothingCheckedOK ==
    ASSUME checked = NoText PROVE CheckedOK
<1>1. checked.text = <<>> /\ checked.masked = <<>> /\ DOMAIN checked.masked = {}
  BY DEF NoText
<1>2. CensorExact
  BY <1>1 DEF CensorExact
<1> QED BY <1>1, <1>2 DEF CheckedOK

LEMMA LoadedWordsOK ==
    ASSUME FilterTypes PROVE WordsOK
<1>1. \A w \in loadedWords : w \in toLoad \cup loadedWords
  OBVIOUS
<1>2. toLoad \cup loadedWords \in WordLists
  BY DEF FilterTypes
<1> HIDE DEF FilterTypes
<1> QED BY <1>1, <1>2, FilterAssumption DEF WordsOK

LEMMA FilterInvInit == FilterInit => FilterInv
<1> SUFFICES ASSUME FilterInit PROVE FilterInv
  OBVIOUS
<1>1. FilterTypes
  <2>1. toLoad \cup loadedWords = toLoad BY DEF FilterInit
  <2> QED BY <2>1 DEF FilterInit, FilterTypes
<1>2. TrieOfWords
  BY DEF FilterInit, TrieOfWords
<1>3. CheckedOK
  BY NothingCheckedOK DEF FilterInit
<1> QED BY <1>1, <1>2, <1>3 DEF FilterInv

LEMMA FilterInvStep == FilterInv /\ [FilterNext]_filterVars => FilterInv'
<1> SUFFICES ASSUME FilterInv, [FilterNext]_filterVars PROVE FilterInv'
  OBVIOUS
<1> USE DEF FilterInv
<1>1. ASSUME NEW w \in toLoad, LoadWord(w) PROVE FilterInv'
  <2>1. (toLoad \cup loadedWords)' = toLoad \cup loadedWords
    BY <1>1 DEF LoadWord
  <2>2. FilterTypes'
    BY <1>1, <2>1 DEF LoadWord, FilterTypes
  <2>3. w \in Seq(Chars)
    BY FilterAssumption DEF FilterTypes
  <2>4. TrieOfWords'
    <3>1. loadedWords' = loadedWords \cup {w}
      BY <1>1 DEF LoadWord
    <3>2. wordEnds' = {Folded(x) : x \in loadedWords'}
      BY <1>1, <3>1 DEF LoadWord, TrieOfWords
    <3>3. trie' = trie \cup {Prefix(w, n) : n \in 0 .. Len(w)}
      BY <1>1 DEF LoadWord, Prefix
    <3>4. trie' = {<<>>} \cup UNION {{Prefix(x, n) : n \in 0 .. Len(x)} : x \in loadedWords'}
      <4> DEFINE Of(x) == {Prefix(x, n) : n \in 0 .. Len(x)}
      <4>1. trie = {<<>>} \cup UNION {Of(x) : x \in loadedWords} /\ trie' = trie \cup Of(w)
        BY <3>3 DEF TrieOfWords
      <4> HIDE DEF Of
      <4>2. UNION {Of(x) : x \in loadedWords \cup {w}}
                = (UNION {Of(x) : x \in loadedWords}) \cup Of(w)
        OBVIOUS
      <4>3. trie' = {<<>>} \cup UNION {Of(x) : x \in loadedWords'}
        BY <3>1, <4>1, <4>2
      <4> QED BY <4>3 DEF Of
    <3> QED BY <3>2, <3>4 DEF TrieOfWords, Folded, Prefix
  <2>5. CheckedOK'
    <3>1. checked = NoText
      BY <1>1 DEF CheckedOK
    <3>2. (checked = NoText)'
      BY <1>1, <3>1 DEF LoadWord, NoText
    <3> QED BY <3>2, NothingCheckedOK, PTL
  <2> QED BY <2>2, <2>4, <2>5
<1>2. ASSUME LoadStopWords PROVE FilterInv'
  <2>1. FilterTypes'
    BY <1>2 DEF LoadStopWords, FilterTypes
  <2>2. TrieOfWords'
    BY <1>2 DEF LoadStopWords, TrieOfWords, Prefix, Folded
  <2>3. CheckedOK'
    <3>1. checked = NoText
      BY <1>2 DEF CheckedOK, LoadStopWords
    <3>2. (checked = NoText)'
      BY <1>2, <3>1 DEF LoadStopWords, NoText
    <3> QED BY <3>2, NothingCheckedOK, PTL
  <2> QED BY <2>1, <2>2, <2>3
<1>3. ASSUME NEW text \in BoundedSeq(Chars, MaxText), Check(text) PROVE FilterInv'
  <2>1. FilterTypes'
    BY <1>3 DEF Check, FilterTypes
  <2>2. TrieOfWords'
    BY <1>3 DEF Check, TrieOfWords, Prefix, Folded
  <2>3. text \in Seq(Chars)
    <3>1. PICK m \in 0 .. MaxText : text \in [1 .. m -> Chars]
      BY DEF BoundedSeq, SeqOf
    <3>2. m \in Nat
      BY FilterAssumption
    <3> QED BY <3>1, <3>2
  <2>4. CheckedOK'
    <3> DEFINE masked == ReplaceSensitive(text)
    <3>1. FilterLoaded
      BY <1>3, LoadedWordsOK DEF Check, FilterLoaded
    <3>2. /\ Len(masked) = Len(text)
          /\ \A i, j \in DOMAIN masked : i <= j => ~Spells(SubSeq(masked, i, j))
          /\ \A k \in DOMAIN masked : masked[k] = Mask =>
                \E i, j \in DOMAIN text : i <= k /\ k <= j /\ Spells(SubSeq(text, i, j))
      BY <2>3, <3>1, CensorOfLoaded
    <3>3. checked'.text = text /\ checked'.masked = masked /\ loadedWords' = loadedWords
      BY <1>3 DEF Check
    <3> HIDE DEF masked
    <3>4. ExactIn(loadedWords, text, masked)
      BY <3>2, SpellsAny DEF ExactIn
    <3>5. ExactIn(loadedWords', checked'.text, checked'.masked)
      BY <3>3, <3>4
    <3>6. CensorExact'
      BY <3>5, ExactAny
    <3> QED BY <1>3, <3>2, <3>3, <3>6 DEF Check, CheckedOK
  <2> QED BY <2>1, <2>2, <2>4
<1>4. ASSUME UNCHANGED filterVars PROVE FilterInv'
  <2>1. FilterTypes'
    BY <1>4 DEF filterVars, FilterTypes
  <2>2. TrieOfWords'
    BY <1>4 DEF filterVars, TrieOfWords, Prefix, Folded
  <2>3. CheckedOK'
    <3>1. ExactIn(loadedWords', checked'.text, checked'.masked)
      BY <1>4, ExactAny DEF filterVars, CheckedOK
    <3>2. CensorExact'
      BY <3>1, ExactAny
    <3> QED BY <1>4, <3>2 DEF filterVars, CheckedOK
  <2> QED BY <2>1, <2>2, <2>3
<1> QED BY <1>1, <1>2, <1>3, <1>4 DEF FilterNext

LEMMA FilterAlways == FilterSpec => []FilterInv
  BY FilterInvInit, FilterInvStep, PTL DEF FilterSpec

LEMMA FilterInvSays == FilterInv => FilterTypeOK /\ CensorExact
<1> SUFFICES ASSUME FilterInv PROVE FilterTypeOK /\ CensorExact
  OBVIOUS
<1>1. WordsOK /\ TrieOfWords
  BY LoadedWordsOK DEF FilterInv
<1>2. wordEnds \subseteq trie /\ stopWords \subseteq Chars
  BY <1>1, TrieNodes, FilterAssumption DEF FilterInv, FilterTypes
<1> QED BY <1>2 DEF FilterInv, CheckedOK, FilterTypeOK

(* Whatever the words, the stop characters and the texts are: the trie holds the words
   and the masked text is as long as the text. *)
THEOREM FilterTypesOK == FilterSpec => []FilterTypeOK
  BY FilterAlways, FilterInvSays, PTL

(* Whatever they are, what replaceSensitive returns spells no word of the list any more
   and masks nothing but what belonged to a stretch that spelled one. *)
THEOREM FilterIsExact == FilterSpec => []CensorExact
  BY FilterAlways, FilterInvSays, PTL

-----------------------------------------------------------------------------
(* Sequences and folds *)

LEMMA InductionUpTo ==
    ASSUME NEW L \in Nat, NEW S, 0 \in S, \A n \in 1 .. L : n - 1 \in S => n \in S
    PROVE  \A n \in 0 .. L : n \in S
<1> DEFINE T == {k \in Nat : k <= L => k \in S}
<1>1. 0 \in T
  OBVIOUS
<1>2. ASSUME NEW n \in Nat, n \in T PROVE n + 1 \in T
  <2>1. SUFFICES ASSUME n + 1 <= L PROVE n + 1 \in S
    OBVIOUS
  <2>2. n + 1 \in 1 .. L /\ (n + 1) - 1 = n /\ n <= L
    BY <2>1
  <2> QED BY <1>2, <2>2
<1>3. Nat \subseteq T
  <2> HIDE DEF T
  <2> QED BY <1>1, <1>2, InductionOnSet
<1> QED BY <1>3

(* Induction on the length of a sequence. *)
LEMMA InductionOnSeq ==
    ASSUME NEW T, NEW S, <<>> \in S, \A s \in Seq(T) : \A e \in T : s \in S => Append(s, e) \in S
    PROVE  Seq(T) \subseteq S
<1> DEFINE N == {n \in Nat : \A s \in Seq(T) : Len(s) = n => s \in S}
<1>1. 0 \in N
  <2>1. \A s \in Seq(T) : Len(s) = 0 => s = <<>>
    OBVIOUS
  <2> QED BY <2>1
<1>2. ASSUME NEW n \in Nat, n \in N PROVE n + 1 \in N
  <2>1. SUFFICES ASSUME NEW s \in Seq(T), Len(s) = n + 1 PROVE s \in S
    OBVIOUS
  <2> DEFINE front == SubSeq(s, 1, n)
  <2>2. front \in Seq(T) /\ Len(front) = n /\ \A i \in 1 .. n : front[i] = s[i]
    BY <2>1
  <2>3. s[n + 1] \in T
    BY <2>1
  <2>4. front \in S
    BY <1>2, <2>2
  <2>5. s = Append(front, s[n + 1])
    <3> HIDE DEF front
    <3>1. /\ Append(front, s[n + 1]) \in Seq(T) /\ Len(Append(front, s[n + 1])) = n + 1
          /\ \A i \in 1 .. n + 1 : Append(front, s[n + 1])[i] = s[i]
      BY <2>2, <2>3
    <3> QED BY <2>1, <3>1, SeqEqual
  <2> HIDE DEF front
  <2>6. Append(front, s[n + 1]) \in S
    BY <2>2, <2>3, <2>4
  <2> QED BY <2>5, <2>6
<1>3. Nat \subseteq N
  <2> HIDE DEF N
  <2> QED BY <1>1, <1>2, InductionOnSet
<1> QED BY <1>3

-----------------------------------------------------------------------------
(* Folds: the loops of the builders go through a sequence and keep a value; G
   says what the value becomes. *)

FoldedFrom(f, G, b, s) == [n \in 0 .. Len(s) |-> IF n = 0 THEN b ELSE G[<<f[n - 1], s[n]>>]]
FoldOver(G, b, s) == (CHOOSE f : f = FoldedFrom(f, G, b, s))[Len(s)]

Folding(V, E, G, b, s) == G \in [V \X E -> V] /\ b \in V /\ s \in Seq(E)

LEMMA FoldExists ==
    ASSUME NEW V, NEW E, NEW G, NEW b, NEW s, Folding(V, E, G, b, s)
    PROVE  \E f : f = FoldedFrom(f, G, b, s)
<1>0. G \in [V \X E -> V] /\ b \in V /\ s \in Seq(E)
  BY DEF Folding
<1> DEFINE L == Len(s)
           Good(f, k) == f = [n \in 0 .. k |-> IF n = 0 THEN b ELSE G[<<f[n - 1], s[n]>>]]
           S == {k \in Nat : \E f : Good(f, k)}
<1>1. 0 \in S
  <2> DEFINE f == [n \in 0 .. 0 |-> b]
  <2>1. \A n \in 0 .. 0 : n = 0
    OBVIOUS
  <2>2. Good(f, 0)
    BY <2>1
  <2> HIDE DEF Good
  <2> QED BY <2>2
<1>2. ASSUME NEW k \in Nat, k \in S PROVE k + 1 \in S
  <2>1. PICK f : Good(f, k)
    BY <1>2
  <2> DEFINE g == [n \in 0 .. k + 1 |-> IF n = k + 1 THEN G[<<f[k], s[n]>>] ELSE f[n]]
  <2>2. ASSUME NEW n \in 0 .. k + 1
        PROVE  g[n] = IF n = 0 THEN b ELSE G[<<g[n - 1], s[n]>>]
    <3>1. CASE n = k + 1
      <4>1. g[n - 1] = f[k] /\ n # 0 BY <3>1
      <4>2. g[n] = G[<<f[k], s[n]>>] BY <3>1
      <4> HIDE DEF g
      <4> QED BY <4>1, <4>2
    <3>2. CASE n # k + 1
      <4>1. n \in 0 .. k /\ g[n] = f[n] BY <3>2
      <4>2. f[n] = IF n = 0 THEN b ELSE G[<<f[n - 1], s[n]>>] BY <2>1, <4>1
      <4>3. n # 0 => g[n - 1] = f[n - 1] BY <4>1
      <4> HIDE DEF g
      <4> QED BY <4>1, <4>2, <4>3
    <3> QED BY <3>1, <3>2
  <2>3. Good(g, k + 1)
    BY <2>2
  <2> HIDE DEF Good
  <2> QED BY <2>3
<1>3. L \in S
  <2> HIDE DEF S
  <2>1. L \in Nat BY <1>0
  <2> QED BY <1>1, <1>2, <2>1, InductionOnSet
<1> QED BY <1>3 DEF FoldedFrom

(* Whatever agrees with G step by step ends at the fold, and on the way stays in V. *)
LEMMA FoldSteps ==
    ASSUME NEW V, NEW E, NEW G, NEW b, NEW s, Folding(V, E, G, b, s)
    PROVE  \E f \in [0 .. Len(s) -> V] :
              /\ f[0] = b /\ \A n \in 1 .. Len(s) : f[n] = G[<<f[n - 1], s[n]>>]
              /\ FoldOver(G, b, s) = f[Len(s)]
<1>0. G \in [V \X E -> V] /\ b \in V /\ s \in Seq(E)
  BY DEF Folding
<1> DEFINE f == CHOOSE g : g = FoldedFrom(g, G, b, s)
           L == Len(s)
<1>1. \E g : g = FoldedFrom(g, G, b, s)
  BY FoldExists
<1>2. f = FoldedFrom(f, G, b, s)
  BY ONLY <1>1, Zenon
<1>3. FoldOver(G, b, s) = f[L]
  BY DEF FoldOver
<1> HIDE DEF f
<1>4. L \in Nat /\ \A n \in 1 .. L : n \in 0 .. L /\ n # 0 /\ s[n] \in E
  BY <1>0
<1>5. DOMAIN f = 0 .. L /\ f[0] = b /\ \A n \in 1 .. L : f[n] = G[<<f[n - 1], s[n]>>]
  <2>1. \A n \in 0 .. L : f[n] = IF n = 0 THEN b ELSE G[<<f[n - 1], s[n]>>]
    BY <1>2 DEF FoldedFrom
  <2>2. 0 \in 0 .. L
    BY <1>4
  <2> HIDE DEF L
  <2>3. \A n \in 1 .. L : f[n] = G[<<f[n - 1], s[n]>>]
    BY <1>4, <2>1
  <2>4. f[0] = b
    BY <2>1, <2>2
  <2> QED BY <1>2, <2>3, <2>4 DEF FoldedFrom, L
<1> DEFINE S == {n \in 0 .. L : f[n] \in V}
<1>6. 0 \in S /\ \A n \in 1 .. L : n - 1 \in S => n \in S
  <2>1. 0 \in S
    BY <1>0, <1>4, <1>5
  <2>2. \A n \in 1 .. L : n - 1 \in S => n \in S
    BY <1>4, <1>5
  <2> QED BY <2>1, <2>2
<1>7. \A n \in 0 .. L : n \in S
  <2> HIDE DEF S
  <2> QED BY <1>4, <1>6, InductionUpTo
<1>8. f \in [0 .. L -> V]
  <2>1. f = [n \in 0 .. L |-> f[n]]
    BY <1>2 DEF FoldedFrom
  <2> QED BY <1>7, <2>1
<1> QED BY <1>3, <1>5, <1>8

LEMMA FoldUnique ==
    ASSUME NEW V, NEW E, NEW G, NEW b, NEW s, Folding(V, E, G, b, s), NEW g,
           g[0] = b, \A n \in 1 .. Len(s) : g[n - 1] \in V => g[n] = G[<<g[n - 1], s[n]>>]
    PROVE  g[Len(s)] = FoldOver(G, b, s)
<1>0. G \in [V \X E -> V] /\ b \in V /\ s \in Seq(E)
  BY DEF Folding
<1> DEFINE L == Len(s)
<1>1. PICK f \in [0 .. L -> V] :
          /\ f[0] = b /\ \A n \in 1 .. L : f[n] = G[<<f[n - 1], s[n]>>]
          /\ FoldOver(G, b, s) = f[L]
  BY FoldSteps
<1> DEFINE S == {n \in 0 .. L : g[n] = f[n]}
<1>2. L \in Nat
  BY <1>0
<1>3. 0 \in S
  BY <1>1, <1>2
<1>4. ASSUME NEW n \in 1 .. L, n - 1 \in S PROVE n \in S
  <2>1. n - 1 \in 0 .. L /\ n \in 0 .. L
    BY <1>2
  <2>2. g[n - 1] = f[n - 1] /\ f[n - 1] \in V
    BY <1>1, <1>4, <2>1
  <2>3. g[n] = G[<<g[n - 1], s[n]>>]
    BY <2>2
  <2>4. g[n] = f[n]
    BY <1>1, <2>2, <2>3
  <2> QED BY <2>1, <2>4
<1>5. \A n \in 0 .. L : n \in S
  <2> HIDE DEF S, L
  <2> QED BY <1>2, <1>3, <1>4, InductionUpTo
<1>6. L \in 0 .. L
  BY <1>2
<1> QED BY <1>1, <1>5, <1>6

(* The equations of a fold. *)
LEMMA FoldEquations ==
    ASSUME NEW V, NEW E, NEW G, NEW b, NEW s, Folding(V, E, G, b, s)
    PROVE  /\ FoldOver(G, b, s) \in V
           /\ FoldOver(G, b, <<>>) = b
           /\ \A e \in E : FoldOver(G, b, Append(s, e)) = G[<<FoldOver(G, b, s), e>>]
<1>0. G \in [V \X E -> V] /\ b \in V /\ s \in Seq(E)
  BY DEF Folding
<1>1. PICK f \in [0 .. Len(s) -> V] :
          /\ f[0] = b /\ \A n \in 1 .. Len(s) : f[n] = G[<<f[n - 1], s[n]>>]
          /\ FoldOver(G, b, s) = f[Len(s)]
  BY FoldSteps
<1>2. Len(s) \in 0 .. Len(s)
  BY <1>0
<1>3. FoldOver(G, b, s) \in V
  BY <1>1, <1>2
<1>4. FoldOver(G, b, <<>>) = b
  <2> DEFINE t == <<>>
  <2>1. t \in Seq(E) /\ Len(t) = 0
    BY EmptySeq
  <2> HIDE DEF t
  <2>2. Folding(V, E, G, b, t)
    BY <1>0, <2>1 DEF Folding
  <2>3. PICK h \in [0 .. Len(t) -> V] :
          /\ h[0] = b /\ \A n \in 1 .. Len(t) : h[n] = G[<<h[n - 1], t[n]>>]
          /\ FoldOver(G, b, t) = h[Len(t)]
    BY <2>2, FoldSteps
  <2>4. FoldOver(G, b, t) = b
    BY <2>1, <2>3
  <2> QED BY <2>4 DEF t
<1>5. ASSUME NEW e \in E PROVE FoldOver(G, b, Append(s, e)) = G[<<FoldOver(G, b, s), e>>]
  <2> DEFINE t == Append(s, e)
             k == Len(s)
  <2>1. t \in Seq(E) /\ Len(t) = k + 1 /\ t[k + 1] = e /\ k \in Nat /\ \A n \in 1 .. k : t[n] = s[n]
    BY <1>0
  <2> HIDE DEF t
  <2>7. Folding(V, E, G, b, t)
    BY <1>0, <2>1 DEF Folding
  <2>2. PICK h \in [0 .. Len(t) -> V] :
          /\ h[0] = b /\ \A n \in 1 .. Len(t) : h[n] = G[<<h[n - 1], t[n]>>]
          /\ FoldOver(G, b, t) = h[Len(t)]
    BY <2>7, FoldSteps
  <2>3. \A n \in 1 .. Len(s) : h[n] = G[<<h[n - 1], s[n]>>]
    <3>1. \A n \in 1 .. Len(s) : n \in 1 .. Len(t) /\ t[n] = s[n]
      BY <2>1
    <3> QED BY <2>2, <3>1
  <2>4. h[Len(s)] = FoldOver(G, b, s)
    BY <2>2, <2>3, FoldUnique
  <2>5. k + 1 \in 1 .. Len(t) /\ (k + 1) - 1 = k
    BY <2>1
  <2>6. h[k + 1] = G[<<h[k], e>>]
    BY <2>1, <2>2, <2>5
  <2> QED BY <2>1, <2>2, <2>4, <2>6 DEF t
<1> QED BY <1>3, <1>4, <1>5

(* FlattenSeq, one sequence after the other. *)
Cat(T) == [p \in Seq(T) \X Seq(T) |-> p[1] \o p[2]]

LEMMA CatFolds ==
    ASSUME NEW T, NEW s \in Seq(Seq(T))
    PROVE  /\ Folding(Seq(T), Seq(T), Cat(T), <<>>, s)
           /\ \A a, b \in Seq(T) : Cat(T)[<<a, b>>] = a \o b
<1>1. Cat(T) \in [Seq(T) \X Seq(T) -> Seq(T)]
  <2>1. \A p \in Seq(T) \X Seq(T) : p[1] \o p[2] \in Seq(T)
    BY ConcatProperties
  <2> QED BY <2>1 DEF Cat
<1>2. <<>> \in Seq(T)
  BY EmptySeq
<1>3. \A a, b \in Seq(T) : Cat(T)[<<a, b>>] = a \o b
  BY DEF Cat
<1> QED BY <1>1, <1>2, <1>3 DEF Folding

LEMMA FlattenIsFold ==
    ASSUME NEW T, NEW s \in Seq(Seq(T))
    PROVE  FlattenSeq(s) = FoldOver(Cat(T), <<>>, s)
<1> DEFINE L == Len(s)
           G == Cat(T)
           empty == <<>>
<1>0. L \in Nat /\ empty \in Seq(T) /\ \A n \in 1 .. L : s[n] \in Seq(T)
  BY EmptySeq
<1>1. Folding(Seq(T), Seq(T), G, empty, s) /\ \A a, b \in Seq(T) : G[<<a, b>>] = a \o b
  BY CatFolds
<1>2. CASE L = 0
  <2>1. FlattenSeq(s) = s /\ s = empty
    BY <1>2 DEF FlattenSeq
  <2>2. FoldOver(G, empty, <<>>) = empty
    <3> HIDE DEF G, empty
    <3> QED BY <1>1, FoldEquations
  <2> QED BY <2>1, <2>2
<1>3. CASE L > 0
  <2> HIDE DEF G, empty
  <2>1. PICK f \in [0 .. Len(s) -> Seq(T)] :
          /\ f[0] = empty /\ \A n \in 1 .. Len(s) : f[n] = G[<<f[n - 1], s[n]>>]
          /\ FoldOver(G, empty, s) = f[Len(s)]
    BY <1>1, FoldSteps
  <2> DEFINE h == [i \in 1 .. L |-> f[i]]
  <2>2. \A i \in 1 .. L : f[i] = f[i - 1] \o s[i]
    <3>1. \A i \in 1 .. L : i - 1 \in 0 .. L
      BY <1>0
    <3> QED BY <1>0, <1>1, <2>1, <3>1
  <2>3. f[0] \o s[1] = s[1]
    <3>1. s[1] \in Seq(T) BY <1>0, <1>3
    <3> QED BY <2>1, <3>1, ConcatEmptySeq DEF empty
  <2>4. \A i \in 1 .. L : h[i] = IF i = 1 THEN s[i] ELSE h[i - 1] \o s[i]
    <3>1. \A i \in 1 .. L : h[i] = f[i] /\ (i # 1 => i - 1 \in 1 .. L /\ h[i - 1] = f[i - 1])
      BY <1>0
    <3> HIDE DEF h
    <3>2. ASSUME NEW i \in 1 .. L PROVE h[i] = IF i = 1 THEN s[i] ELSE h[i - 1] \o s[i]
      <4>1. CASE i = 1
        <5>1. i - 1 = 0
          BY <4>1
        <5>2. f[i] = f[0] \o s[1]
          BY <2>2, <4>1, <5>1
        <5> QED BY <2>3, <3>1, <4>1, <5>2
      <4>2. CASE i # 1
        BY <2>2, <3>1, <4>2
      <4> QED BY <4>1, <4>2
    <3> QED BY <3>2
  <2>5. \E g : g = [i \in 1 .. L |-> IF i = 1 THEN s[i] ELSE g[i - 1] \o s[i]]
    <3>1. h = [i \in 1 .. L |-> IF i = 1 THEN s[i] ELSE h[i - 1] \o s[i]]
      BY <2>4
    <3> HIDE DEF h
    <3> QED BY <3>1
  <2> DEFINE fl == CHOOSE g : g = [i \in 1 .. L |-> IF i = 1 THEN s[i] ELSE g[i - 1] \o s[i]]
  <2>6. fl = [i \in 1 .. L |-> IF i = 1 THEN s[i] ELSE fl[i - 1] \o s[i]]
    BY ONLY <2>5, Zenon
  <2>7. FlattenSeq(s) = fl[L]
    BY <1>0, <1>3 DEF FlattenSeq
  <2> HIDE DEF fl
  <2> DEFINE w == [i \in 0 .. L |-> IF i = 0 THEN empty ELSE fl[i]]
  <2>8. w[0] = empty /\ w[L] = fl[L]
    BY <1>0, <1>3
  <2>9. ASSUME NEW n \in 1 .. Len(s), w[n - 1] \in Seq(T) PROVE w[n] = G[<<w[n - 1], s[n]>>]
    <3>1. n \in 0 .. L /\ n - 1 \in 0 .. L /\ n # 0 /\ s[n] \in Seq(T) /\ n \in 1 .. L
      BY <1>0
    <3>2. w[n] = fl[n] /\ (n # 1 => w[n - 1] = fl[n - 1]) /\ (n = 1 => w[n - 1] = empty)
      BY <3>1
    <3>3. fl[n] = IF n = 1 THEN s[n] ELSE fl[n - 1] \o s[n]
      BY <2>6, <3>1
    <3>4. empty \o s[n] = s[n]
      BY <3>1, ConcatEmptySeq DEF empty
    <3> HIDE DEF w
    <3>5. w[n] = w[n - 1] \o s[n]
      BY <3>2, <3>3, <3>4
    <3> QED BY <1>1, <2>9, <3>1, <3>5
  <2>10. w[Len(s)] = FoldOver(G, empty, s)
    <3> HIDE DEF w
    <3> QED BY <1>1, <2>8, <2>9, FoldUnique
  <2> QED BY <2>7, <2>8, <2>10 DEF G, empty
<1> QED BY <1>0, <1>2, <1>3

LEMMA FlattenEquations ==
    ASSUME NEW T, NEW s \in Seq(Seq(T))
    PROVE  /\ FlattenSeq(s) \in Seq(T)
           /\ FlattenSeq(<<>>) = <<>>
           /\ \A e \in Seq(T) : FlattenSeq(Append(s, e)) = FlattenSeq(s) \o e
<1> DEFINE empty == <<>>
           G == Cat(T)
<1>1. Folding(Seq(T), Seq(T), G, empty, s) /\ \A a, b \in Seq(T) : G[<<a, b>>] = a \o b
  BY CatFolds
<1>2. \A x \in Seq(Seq(T)) : FlattenSeq(x) = FoldOver(G, empty, x)
  BY FlattenIsFold
<1>3. empty \in Seq(Seq(T)) /\ \A e \in Seq(T) : Append(s, e) \in Seq(Seq(T))
  BY EmptySeq
<1> HIDE DEF G
<1>4. /\ FoldOver(G, empty, s) \in Seq(T)
      /\ \A e \in Seq(T) : FoldOver(G, empty, Append(s, e)) = G[<<FoldOver(G, empty, s), e>>]
  <2> HIDE DEF empty
  <2> QED BY <1>1, FoldEquations
<1>5. FlattenSeq(empty) = empty
  BY DEF FlattenSeq
<1> QED BY <1>1, <1>2, <1>3, <1>4, <1>5

LEMMA AppendConcat ==
    ASSUME NEW T, NEW s \in Seq(T), NEW x \in Seq(T), NEW e \in T
    PROVE  s \o Append(x, e) = Append(s \o x, e)
<1> DEFINE a == s \o Append(x, e)
           b == Append(s \o x, e)
<1>1. /\ a \in Seq(T) /\ b \in Seq(T) /\ Len(a) = Len(s) + Len(x) + 1
      /\ Len(b) = Len(s) + Len(x) + 1
  OBVIOUS
<1>2. \A i \in 1 .. Len(s) + Len(x) + 1 : a[i] = b[i]
  OBVIOUS
<1> HIDE DEF a, b
<1>3. a = b
  BY <1>1, <1>2, SeqEqual
<1> QED BY <1>3 DEF a, b

LEMMA FlattenConcat ==
    ASSUME NEW T, NEW s \in Seq(Seq(T)), NEW t \in Seq(Seq(T))
    PROVE  FlattenSeq(s \o t) = FlattenSeq(s) \o FlattenSeq(t)
<1> DEFINE S == {x \in Seq(Seq(T)) : FlattenSeq(s \o x) = FlattenSeq(s) \o FlattenSeq(x)}
<1>1. <<>> \in S
  <2>1. <<>> \in Seq(Seq(T)) /\ s \o <<>> = s
    BY EmptySeq, ConcatEmptySeq
  <2>2. FlattenSeq(s) \in Seq(T) /\ FlattenSeq(<<>>) = <<>>
    BY FlattenEquations
  <2>3. FlattenSeq(s) \o <<>> = FlattenSeq(s)
    BY <2>2, ConcatEmptySeq
  <2> QED BY <2>1, <2>2, <2>3
<1>2. ASSUME NEW x \in Seq(Seq(T)), NEW e \in Seq(T), x \in S PROVE Append(x, e) \in S
  <2>1. Append(x, e) \in Seq(Seq(T)) /\ s \o x \in Seq(Seq(T))
    BY ConcatProperties
  <2>2. s \o Append(x, e) = Append(s \o x, e)
    BY AppendConcat
  <2>3. FlattenSeq(Append(s \o x, e)) = FlattenSeq(s \o x) \o e
    BY <2>1, FlattenEquations
  <2>4. FlattenSeq(Append(x, e)) = FlattenSeq(x) \o e
    BY FlattenEquations
  <2>5. FlattenSeq(s \o x) = FlattenSeq(s) \o FlattenSeq(x)
    BY <1>2
  <2>6. FlattenSeq(s) \in Seq(T) /\ FlattenSeq(x) \in Seq(T)
    BY FlattenEquations
  <2>7. (FlattenSeq(s) \o FlattenSeq(x)) \o e = FlattenSeq(s) \o (FlattenSeq(x) \o e)
    BY <2>6, ConcatAssociative
  <2> QED BY <2>1, <2>2, <2>3, <2>4, <2>5, <2>7
<1>3. t \in S
  <2>1. Seq(Seq(T)) \subseteq S
    <3> HIDE DEF S
    <3> QED BY <1>1, <1>2, InductionOnSeq
  <2> QED BY <2>1
<1> QED BY <1>3

-----------------------------------------------------------------------------
(* The scan for holes *)

Atoms == {"?", "1 = 1", "1 = 0"} \cup (UNION {ToSet(text) : text \in Conditions})
ScanType == [state : {"normal", "quote", "escaped", "comment"}, count : Nat]
ScanStart == [state |-> "normal", count |-> 0]
ScanG == [p \in ScanType \X Atoms |-> ScanStep(p[1], p[2])]

LEMMA ScanStepType ==
    ASSUME NEW scan \in ScanType, NEW c \in Atoms
    PROVE  ScanStep(scan, c) \in ScanType
<1>1. scan.state \in {"normal", "quote", "escaped", "comment"} /\ scan.count \in Nat
  BY DEF ScanType
<1>2. ScanState(scan.state, c) \in {"normal", "quote", "escaped", "comment"}
  BY <1>1 DEF ScanState
<1> QED BY <1>1, <1>2 DEF ScanStep, ScanType

LEMMA ScanFolds ==
    ASSUME NEW text \in Seq(Atoms)
    PROVE  Folding(ScanType, Atoms, ScanG, ScanStart, text)
<1>1. ScanG \in [ScanType \X Atoms -> ScanType]
  BY ScanStepType DEF ScanG
<1>2. ScanStart \in ScanType
  BY DEF ScanStart, ScanType
<1> QED BY <1>1, <1>2 DEF Folding

LEMMA ScannedIsFold ==
    ASSUME NEW text \in Seq(Atoms)
    PROVE  Scanned(text) = FoldOver(ScanG, ScanStart, text)
<1> DEFINE L == Len(text)
           V == ScanType
<1>0. L \in Nat /\ \A n \in 1 .. L : text[n] \in Atoms
  OBVIOUS
<1>1. PICK f \in [0 .. Len(text) -> V] :
        /\ f[0] = ScanStart /\ \A n \in 1 .. Len(text) : f[n] = ScanG[<<f[n - 1], text[n]>>]
        /\ FoldOver(ScanG, ScanStart, text) = f[Len(text)]
  <2> HIDE DEF V
  <2>1. Folding(V, Atoms, ScanG, ScanStart, text)
    BY ScanFolds DEF V
  <2> QED BY <2>1, FoldSteps
<1>2. \A v \in V : \A c \in Atoms : ScanG[<<v, c>>] = ScanStep(v, c)
  BY DEF ScanG
<1> HIDE DEF V
<1>3. \E g : g = [n \in 0 .. L |-> IF n = 0 THEN ScanStart ELSE ScanStep(g[n - 1], text[n])]
  <2>1. \A n \in 0 .. L : f[n] = IF n = 0 THEN ScanStart ELSE ScanStep(f[n - 1], text[n])
    <3>1. \A n \in 0 .. L : n # 0 => n \in 1 .. L /\ n - 1 \in 0 .. L
      BY <1>0
    <3> QED BY <1>0, <1>1, <1>2, <3>1
  <2>2. f = [n \in 0 .. L |-> IF n = 0 THEN ScanStart ELSE ScanStep(f[n - 1], text[n])]
    BY <2>1
  <2> QED BY <2>2
<1> DEFINE g == CHOOSE g : g = [n \in 0 .. L |->
                    IF n = 0 THEN ScanStart ELSE ScanStep(g[n - 1], text[n])]
<1>4. g = [n \in 0 .. L |-> IF n = 0 THEN ScanStart ELSE ScanStep(g[n - 1], text[n])]
  BY ONLY <1>3, Zenon
<1>5. Scanned(text) = g[L]
  BY DEF Scanned, ScanStart
<1> HIDE DEF g
<1>6. g[0] = ScanStart
  <2>1. 0 \in 0 .. L
    BY <1>0
  <2> QED BY <1>4, <2>1
<1>7. ASSUME NEW n \in 1 .. Len(text), g[n - 1] \in V PROVE g[n] = ScanG[<<g[n - 1], text[n]>>]
  <2>1. n \in 0 .. L /\ n # 0 /\ text[n] \in Atoms
    BY <1>0
  <2>2. g[n] = ScanStep(g[n - 1], text[n])
    BY <1>4, <2>1
  <2> QED BY <1>2, <1>7, <2>1, <2>2
<1>8. Folding(V, Atoms, ScanG, ScanStart, text)
  BY ScanFolds DEF V
<1>9. g[Len(text)] = FoldOver(ScanG, ScanStart, text)
  BY <1>6, <1>7, <1>8, FoldUnique
<1> QED BY <1>5, <1>9

LEMMA ScanEquations ==
    ASSUME NEW text \in Seq(Atoms)
    PROVE  /\ Scanned(text) \in ScanType
           /\ Scanned(<<>>) = ScanStart
           /\ \A c \in Atoms : Scanned(Append(text, c)) = ScanStep(Scanned(text), c)
<1> DEFINE empty == <<>>
           V == ScanType
<1>1. Folding(V, Atoms, ScanG, ScanStart, text)
  BY ScanFolds
<1>2. \A x \in Seq(Atoms) : Scanned(x) = FoldOver(ScanG, ScanStart, x)
  BY ScannedIsFold
<1>3. empty \in Seq(Atoms) /\ \A c \in Atoms : Append(text, c) \in Seq(Atoms)
  BY EmptySeq
<1>4. \A v \in V : \A c \in Atoms : ScanG[<<v, c>>] = ScanStep(v, c)
  BY DEF ScanG
<1> HIDE DEF V, empty
<1>5. /\ FoldOver(ScanG, ScanStart, text) \in V
      /\ \A c \in Atoms : FoldOver(ScanG, ScanStart, Append(text, c))
            = ScanG[<<FoldOver(ScanG, ScanStart, text), c>>]
  BY <1>1, FoldEquations
<1>6. FoldOver(ScanG, ScanStart, empty) = ScanStart
  BY <1>1, FoldEquations DEF empty
<1> QED BY <1>2, <1>3, <1>4, <1>5, <1>6 DEF V, empty
(* A text that ends outside of quotes does not change what the next one means. *)
LEMMA ScanAdds ==
    ASSUME NEW a \in Seq(Atoms), Scanned(a).state = "normal", NEW b \in Seq(Atoms)
    PROVE  /\ Scanned(a \o b).state = Scanned(b).state
           /\ Scanned(a \o b).count = Scanned(a).count + Scanned(b).count
<1> DEFINE A == Atoms
           S == {x \in Seq(A) : /\ Scanned(a \o x).state = Scanned(x).state
                                /\ Scanned(a \o x).count = Scanned(a).count + Scanned(x).count}
<1>0. \A x \in Seq(A) : Scanned(x) \in ScanType
  BY ScanEquations
<1>1. <<>> \in S
  <2>1. <<>> \in Seq(A) /\ a \o <<>> = a
    BY EmptySeq, ConcatEmptySeq
  <2>2. Scanned(<<>>) = ScanStart
    BY ScanEquations
  <2>3. Scanned(a).count \in Nat
    BY <1>0 DEF ScanType
  <2> QED BY <2>1, <2>2, <2>3 DEF ScanStart
<1>2. ASSUME NEW x \in Seq(A), NEW c \in A, x \in S PROVE Append(x, c) \in S
  <2> HIDE DEF A
  <2>1. Append(x, c) \in Seq(A) /\ a \o x \in Seq(A) /\ a \in Seq(A)
    BY ConcatProperties DEF A
  <2>2. a \o Append(x, c) = Append(a \o x, c)
    BY <2>1, AppendConcat
  <2>3. Scanned(Append(a \o x, c)) = ScanStep(Scanned(a \o x), c)
    BY <2>1, ScanEquations DEF A
  <2>4. Scanned(Append(x, c)) = ScanStep(Scanned(x), c)
    BY ScanEquations DEF A
  <2>5. Scanned(a).count \in Nat /\ Scanned(x).count \in Nat
    BY <1>0, <2>1 DEF ScanType
  <2> DEFINE ax == Scanned(a \o x)
             sx == Scanned(x)
  <2>6. ax.state = sx.state /\ ax.count = Scanned(a).count + sx.count
    BY <1>2
  <2> HIDE DEF ax, sx
  <2>7. ScanStep(ax, c).state = ScanStep(sx, c).state
    BY <2>6 DEF ScanStep
  <2>8. ScanStep(ax, c).count = Scanned(a).count + ScanStep(sx, c).count
    <3> DEFINE k == Scanned(a).count
    <3>1. k \in Nat /\ sx.count \in Nat /\ ax.count = k + sx.count /\ ax.state = sx.state
      BY <2>5, <2>6 DEF sx
    <3> HIDE DEF k
    <3>2. ScanStep(ax, c).count = k + ScanStep(sx, c).count
      BY <3>1 DEF ScanStep
    <3> QED BY <3>2 DEF k
  <2> QED BY <2>1, <2>2, <2>3, <2>4, <2>7, <2>8 DEF ax, sx
<1>3. Seq(A) \subseteq S
  <2> HIDE DEF S, A
  <2> QED BY <1>1, <1>2, InductionOnSeq
<1> QED BY <1>3
-----------------------------------------------------------------------------
(* A sequence with one step of another along each element *)

LEMMA ConcatAt ==
    ASSUME NEW T, NEW a \in Seq(T), NEW b \in Seq(T)
    PROVE  /\ a \o b \in Seq(T) /\ Len(a \o b) = Len(a) + Len(b)
           /\ Len(a) \in Nat /\ Len(b) \in Nat
           /\ \A i \in 1 .. Len(a) : (a \o b)[i] = a[i]
           /\ \A i \in 1 .. Len(b) : (a \o b)[Len(a) + i] = b[i]
<1>1. a \o b \in Seq(T) /\ Len(a \o b) = Len(a) + Len(b) /\ Len(a) \in Nat /\ Len(b) \in Nat
  OBVIOUS
<1>2. \A i \in 1 .. Len(a) : (a \o b)[i] = a[i]
  OBVIOUS
<1>3. ASSUME NEW i \in 1 .. Len(b) PROVE (a \o b)[Len(a) + i] = b[i]
  <2>1. Len(a) + i > Len(a) /\ Len(a) + i \in 1 .. Len(a) + Len(b) /\ (Len(a) + i) - Len(a) = i
    BY <1>1
  <2> QED BY <1>1, <2>1
<1> QED BY <1>1, <1>2, <1>3

Along(H, x) == [i \in DOMAIN x |-> H[x[i]]]
Mapping(T, C, H, x) == H \in [C -> T] /\ x \in Seq(C)

LEMMA AlongTypes ==
    ASSUME NEW T, NEW C, NEW H, NEW x, Mapping(T, C, H, x)
    PROVE  /\ Along(H, x) \in Seq(T) /\ Len(Along(H, x)) = Len(x)
           /\ \A i \in 1 .. Len(x) : Along(H, x)[i] = H[x[i]]
<1>1. DOMAIN x = 1 .. Len(x) /\ Len(x) \in Nat /\ \A i \in 1 .. Len(x) : H[x[i]] \in T
  BY DEF Mapping
<1> QED BY <1>1 DEF Along

LEMMA AlongEquations ==
    ASSUME NEW T, NEW C, NEW H, NEW s, Mapping(T, C, H, s)
    PROVE  /\ Along(H, <<>>) = <<>>
           /\ \A c \in C : Along(H, Append(s, c)) = Append(Along(H, s), H[c])
           /\ \A t \in Seq(C) : Along(H, s \o t) = Along(H, s) \o Along(H, t)
<1>1. H \in [C -> T] /\ s \in Seq(C)
  BY DEF Mapping
<1>2. Along(H, <<>>) = <<>>
  <2> DEFINE empty == <<>>
  <2>1. empty \in Seq(C) /\ Len(empty) = 0
    BY EmptySeq
  <2> HIDE DEF empty
  <2>2. Mapping(T, C, H, empty)
    BY <1>1, <2>1 DEF Mapping
  <2>3. Along(H, empty) \in Seq(T) /\ Len(Along(H, empty)) = 0
    BY <2>1, <2>2, AlongTypes
  <2>4. Along(H, empty) = <<>>
    BY <2>3
  <2> QED BY <2>4 DEF empty
<1> DEFINE ms == Along(H, s)
<1>3. ms \in Seq(T) /\ Len(ms) = Len(s) /\ \A i \in 1 .. Len(s) : ms[i] = H[s[i]]
  BY AlongTypes
<1> HIDE DEF ms
<1>4. \A c \in C : Along(H, Append(s, c)) = Append(ms, H[c])
  <2>1. SUFFICES ASSUME NEW c \in C PROVE Along(H, Append(s, c)) = Append(ms, H[c])
    OBVIOUS
  <2> DEFINE x == Append(s, c)
             mx == Along(H, x)
             e == H[c]
             y == Append(ms, e)
  <2>2. /\ x \in Seq(C) /\ Len(x) = Len(s) + 1 /\ Len(s) \in Nat
        /\ \A i \in 1 .. Len(s) : x[i] = s[i]
        /\ x[Len(s) + 1] = c
    BY <1>1
  <2> HIDE DEF x
  <2>9. Mapping(T, C, H, x)
    BY <1>1, <2>2 DEF Mapping
  <2>3. mx \in Seq(T) /\ Len(mx) = Len(x) /\ \A i \in 1 .. Len(x) : mx[i] = H[x[i]]
    BY <2>9, AlongTypes
  <2> HIDE DEF mx
  <2>4. e \in T
    BY <1>1
  <2> HIDE DEF e
  <2>5. /\ y \in Seq(T) /\ Len(y) = Len(s) + 1
        /\ \A i \in 1 .. Len(s) : y[i] = ms[i]
        /\ y[Len(s) + 1] = e
    BY <1>3, <2>4
  <2> HIDE DEF y
  <2>6. ASSUME NEW i \in 1 .. Len(s) + 1 PROVE mx[i] = y[i]
    <3>1. CASE i = Len(s) + 1
      BY <2>2, <2>3, <2>5, <3>1 DEF e
    <3>2. CASE i # Len(s) + 1
      <4>1. i \in 1 .. Len(s) /\ i \in 1 .. Len(x)
        BY <2>2, <3>2
      <4> QED BY <1>3, <2>2, <2>3, <2>5, <4>1
    <3> QED BY <3>1, <3>2
  <2>7. mx = y
    BY <2>2, <2>3, <2>5, <2>6, SeqEqual
  <2> QED BY <2>7 DEF mx, x, y, e
<1>5. \A t \in Seq(C) : Along(H, s \o t) = ms \o Along(H, t)
  <2>1. SUFFICES ASSUME NEW t \in Seq(C) PROVE Along(H, s \o t) = ms \o Along(H, t)
    OBVIOUS
  <2> DEFINE x == s \o t
             mx == Along(H, x)
             mt == Along(H, t)
             y == ms \o mt
  <2>2. /\ x \in Seq(C) /\ Len(x) = Len(s) + Len(t) /\ Len(s) \in Nat /\ Len(t) \in Nat
        /\ \A i \in 1 .. Len(s) : x[i] = s[i]
        /\ \A i \in 1 .. Len(t) : x[Len(s) + i] = t[i]
    BY <1>1, ConcatAt
  <2> HIDE DEF x
  <2>9. Mapping(T, C, H, x) /\ Mapping(T, C, H, t)
    BY <1>1, <2>2 DEF Mapping
  <2>3. mx \in Seq(T) /\ Len(mx) = Len(x) /\ \A i \in 1 .. Len(x) : mx[i] = H[x[i]]
    BY <2>9, AlongTypes
  <2> HIDE DEF mx
  <2>4. mt \in Seq(T) /\ Len(mt) = Len(t) /\ \A i \in 1 .. Len(t) : mt[i] = H[t[i]]
    BY <2>9, AlongTypes
  <2> HIDE DEF mt
  <2>5. /\ y \in Seq(T) /\ Len(y) = Len(s) + Len(t)
        /\ \A i \in 1 .. Len(s) : y[i] = ms[i]
        /\ \A i \in 1 .. Len(t) : y[Len(s) + i] = mt[i]
    <3>1. ms \in Seq(T) /\ mt \in Seq(T)
      BY <1>3, <2>4
    <3>2. /\ y \in Seq(T) /\ Len(y) = Len(ms) + Len(mt)
          /\ \A i \in 1 .. Len(ms) : y[i] = ms[i]
          /\ \A i \in 1 .. Len(mt) : y[Len(ms) + i] = mt[i]
      BY <3>1, ConcatAt
    <3>3. Len(ms) = Len(s) /\ Len(mt) = Len(t)
      BY <1>3, <2>4
    <3> HIDE DEF y
    <3> QED BY <3>2, <3>3
  <2> HIDE DEF y
  <2>6. ASSUME NEW i \in 1 .. Len(s) + Len(t) PROVE mx[i] = y[i]
    <3>1. CASE i <= Len(s)
      <4>1. i \in 1 .. Len(s) /\ i \in 1 .. Len(x)
        BY <2>2, <3>1
      <4> QED BY <1>3, <2>2, <2>3, <2>5, <4>1
    <3>2. CASE i > Len(s)
      <4>1. PICK j \in 1 .. Len(t) : i = Len(s) + j
        <5>1. i - Len(s) \in 1 .. Len(t) /\ i = Len(s) + (i - Len(s))
          BY <2>2, <3>2
        <5> QED BY <5>1
      <4>2. i \in 1 .. Len(x)
        BY <2>2
      <4>3. x[i] = t[j] /\ y[i] = mt[j] /\ mt[j] = H[t[j]]
        BY <2>2, <2>4, <2>5, <4>1
      <4>4. mx[i] = H[x[i]]
        BY <2>3, <4>2
      <4> QED BY <4>3, <4>4
    <3> QED BY <2>2, <3>1, <3>2
  <2>7. mx = y
    BY <2>2, <2>3, <2>5, <2>6, SeqEqual
  <2> QED BY <2>7 DEF mx, mt, x, y
<1> QED BY <1>2, <1>4, <1>5 DEF ms

LEMMA FlattenAlong ==
    ASSUME NEW T, NEW C, NEW H, NEW s, Mapping(Seq(T), C, H, s)
    PROVE  /\ FlattenSeq(Along(H, s)) \in Seq(T)
           /\ FlattenSeq(Along(H, <<>>)) = <<>>
           /\ \A c \in C : FlattenSeq(Along(H, Append(s, c))) = FlattenSeq(Along(H, s)) \o H[c]
           /\ \A t \in Seq(C) : FlattenSeq(Along(H, s \o t))
                              = FlattenSeq(Along(H, s)) \o FlattenSeq(Along(H, t))
<1> DEFINE Q == Seq(T)
<1>1. /\ Along(H, s) \in Seq(Q) /\ Along(H, <<>>) = <<>>
      /\ \A c \in C : Along(H, Append(s, c)) = Append(Along(H, s), H[c])
      /\ \A t \in Seq(C) : Along(H, s \o t) = Along(H, s) \o Along(H, t) /\ Along(H, t) \in Seq(Q)
  <2>1. Mapping(Q, C, H, s) /\ \A t \in Seq(C) : Mapping(Q, C, H, t)
    BY DEF Mapping
  <2> HIDE DEF Q
  <2> QED BY <2>1, AlongTypes, AlongEquations
<1> DEFINE ms == Along(H, s)
<1> HIDE DEF ms
<1>2. /\ FlattenSeq(ms) \in Seq(T) /\ FlattenSeq(<<>>) = <<>>
      /\ \A e \in Seq(T) : FlattenSeq(Append(ms, e)) = FlattenSeq(ms) \o e
  BY <1>1, FlattenEquations DEF ms
<1>3. \A t \in Seq(Seq(T)) : FlattenSeq(ms \o t) = FlattenSeq(ms) \o FlattenSeq(t)
  BY <1>1, FlattenConcat DEF ms
<1>4. \A c \in C : H[c] \in Seq(T)
  BY DEF Mapping
<1> QED BY <1>1, <1>2, <1>3, <1>4 DEF ms

-----------------------------------------------------------------------------
(* Clauses: as many holes as values, and the text ends outside of quotes *)

Values == Nat
FitsHoles(text, values) == Scanned(text) = [state |-> "normal", count |-> Len(values)]
Filled == {c \in [text : Seq(Atoms), values : Seq(Values)] : FitsHoles(c.text, c.values)}
Assigned == {c \in [field : Columns, text : Seq(Atoms), values : Seq(Values)] :
                FitsHoles(c.text, c.values) /\ Len(c.values) = 1}
AnyClause == Filled \cup Assigned

LEMMA ClauseTypes ==
    ASSUME NEW c \in AnyClause
    PROVE  c.text \in Seq(Atoms) /\ c.values \in Seq(Values) /\ FitsHoles(c.text, c.values)
<1> DEFINE A == Atoms
<1> HIDE DEF A
<1> QED BY DEF AnyClause, Filled, Assigned

LEMMA TextEquations ==
    ASSUME NEW s \in Seq(AnyClause)
    PROVE  /\ TextOf(s) \in Seq(Atoms)
           /\ TextOf(<<>>) = <<>>
           /\ \A c \in AnyClause : TextOf(Append(s, c)) = TextOf(s) \o c.text
<1> DEFINE C == AnyClause
           A == Atoms
           H == [c \in C |-> c.text]
<1>1. H \in [C -> Seq(A)] /\ \A c \in C : H[c] = c.text
  BY ClauseTypes
<1>2. ASSUME NEW x \in Seq(C) PROVE TextOf(x) = FlattenSeq(Along(H, x))
  <2> HIDE DEF C, H
  <2>1. [i \in DOMAIN x |-> x[i].text] = Along(H, x)
    BY <1>1 DEF Along
  <2> QED BY <2>1 DEF TextOf
<1>3. <<>> \in Seq(C) /\ s \in Seq(C) /\ \A c \in C : Append(s, c) \in Seq(C)
  BY EmptySeq
<1>5. Mapping(Seq(A), C, H, s)
  BY <1>1 DEF Mapping
<1> HIDE DEF C, A, H
<1>4. /\ FlattenSeq(Along(H, s)) \in Seq(A)
      /\ FlattenSeq(Along(H, <<>>)) = <<>>
      /\ \A c \in C : FlattenSeq(Along(H, Append(s, c))) = FlattenSeq(Along(H, s)) \o H[c]
  BY <1>5, FlattenAlong
<1> QED BY <1>1, <1>2, <1>3, <1>4 DEF C, A

LEMMA ValuesEquations ==
    ASSUME NEW s \in Seq(AnyClause)
    PROVE  /\ ValuesOf(s) \in Seq(Values)
           /\ ValuesOf(<<>>) = <<>>
           /\ \A c \in AnyClause : ValuesOf(Append(s, c)) = ValuesOf(s) \o c.values
           /\ \A t \in Seq(AnyClause) : ValuesOf(s \o t) = ValuesOf(s) \o ValuesOf(t)
<1> DEFINE C == AnyClause
           A == Values
           H == [c \in C |-> c.values]
<1>1. H \in [C -> Seq(A)] /\ \A c \in C : H[c] = c.values
  BY ClauseTypes
<1>2. ASSUME NEW x \in Seq(C) PROVE ValuesOf(x) = FlattenSeq(Along(H, x))
  <2> HIDE DEF C, H
  <2>1. [i \in DOMAIN x |-> x[i].values] = Along(H, x)
    BY <1>1 DEF Along
  <2> QED BY <2>1 DEF ValuesOf
<1>3. /\ <<>> \in Seq(C) /\ s \in Seq(C) /\ \A c \in C : Append(s, c) \in Seq(C)
      /\ \A t \in Seq(C) : s \o t \in Seq(C)
  BY EmptySeq, ConcatProperties
<1>5. Mapping(Seq(A), C, H, s)
  BY <1>1 DEF Mapping
<1> HIDE DEF C, A, H
<1>4. /\ FlattenSeq(Along(H, s)) \in Seq(A)
      /\ FlattenSeq(Along(H, <<>>)) = <<>>
      /\ \A c \in C : FlattenSeq(Along(H, Append(s, c))) = FlattenSeq(Along(H, s)) \o H[c]
      /\ \A t \in Seq(C) : FlattenSeq(Along(H, s \o t)) = FlattenSeq(Along(H, s)) \o FlattenSeq(Along(H, t))
  BY <1>5, FlattenAlong
<1> QED BY <1>1, <1>2, <1>3, <1>4 DEF C, A

(* The whole of a statement has as many holes as values. *)
LEMMA ClausesFilled ==
    ASSUME NEW s \in Seq(AnyClause)
    PROVE  /\ TextOf(s) \in Seq(Atoms) /\ ValuesOf(s) \in Seq(Values)
           /\ FitsHoles(TextOf(s), ValuesOf(s))
<1> DEFINE C == AnyClause
           S == {x \in Seq(C) : FitsHoles(TextOf(x), ValuesOf(x))}
<1>1. <<>> \in S
  <2>1. <<>> \in Seq(C)
    BY EmptySeq
  <2>2. TextOf(<<>>) = <<>> /\ ValuesOf(<<>>) = <<>>
    BY TextEquations, ValuesEquations
  <2>3. Scanned(<<>>) = ScanStart
    <3>1. <<>> \in Seq(Atoms) BY EmptySeq
    <3> QED BY <3>1, ScanEquations
  <2>4. Len(<<>>) = 0
    BY EmptySeq
  <2> QED BY <2>1, <2>2, <2>3, <2>4 DEF FitsHoles, ScanStart
<1>2. ASSUME NEW x \in Seq(C), NEW c \in C, x \in S PROVE Append(x, c) \in S
  <2> DEFINE tx == TextOf(x)
             vx == ValuesOf(x)
  <2>1. tx \in Seq(Atoms) /\ vx \in Seq(Values) /\ FitsHoles(tx, vx)
    BY <1>2, TextEquations, ValuesEquations
  <2>2. c.text \in Seq(Atoms) /\ c.values \in Seq(Values) /\ FitsHoles(c.text, c.values)
    BY ClauseTypes
  <2>3. TextOf(Append(x, c)) = tx \o c.text /\ ValuesOf(Append(x, c)) = vx \o c.values
    BY TextEquations, ValuesEquations
  <2> HIDE DEF tx, vx
  <2>4. /\ Scanned(tx).state = "normal" /\ Scanned(tx).count = Len(vx)
        /\ Scanned(c.text).state = "normal" /\ Scanned(c.text).count = Len(c.values)
    BY <2>1, <2>2 DEF FitsHoles
  <2>5. /\ Scanned(tx \o c.text).state = "normal"
        /\ Scanned(tx \o c.text).count = Len(vx) + Len(c.values)
    BY <2>1, <2>2, <2>4, ScanAdds
  <2>6. Scanned(tx \o c.text) \in ScanType
    <3>1. tx \o c.text \in Seq(Atoms)
      BY <2>1, <2>2, ConcatProperties
    <3> QED BY <3>1, ScanEquations
  <2>7. Len(vx \o c.values) = Len(vx) + Len(c.values)
    BY <2>1, <2>2
  <2>8. FitsHoles(tx \o c.text, vx \o c.values)
    <3> DEFINE t == tx \o c.text
               v == vx \o c.values
    <3> HIDE DEF t, v
    <3>1. Scanned(t) \in ScanType /\ Scanned(t).state = "normal" /\ Scanned(t).count = Len(v)
      BY <2>5, <2>6, <2>7 DEF t, v
    <3>2. FitsHoles(t, v)
      BY <3>1 DEF FitsHoles, ScanType
    <3> QED BY <3>2 DEF t, v
  <2>9. Append(x, c) \in Seq(C)
    OBVIOUS
  <2> QED BY <2>3, <2>8, <2>9
<1>3. Seq(C) \subseteq S
  <2> HIDE DEF S, C
  <2> QED BY <1>1, <1>2, InductionOnSeq
<1> QED BY <1>3, TextEquations, ValuesEquations
-----------------------------------------------------------------------------
(* The first and the last place of a kind in a sequence *)

LEMMA LeastPlace ==
    ASSUME NEW I, I \subseteq Nat, I # {}
    PROVE  Min(I) \in I /\ \A y \in I : Min(I) <= y
<1> DEFINE S == {n \in Nat : \A i \in I : i > n}
<1>1. \E x \in I : \A y \in I : x <= y
  <2>1. SUFFICES ASSUME \A x \in I : \E y \in I : y < x PROVE FALSE
    OBVIOUS
  <2>2. 0 \in S
    <3>1. ASSUME NEW i \in I PROVE i > 0
      <4>1. PICK y \in I : y < i BY <2>1
      <4> QED BY <4>1
    <3> QED BY <3>1
  <2>3. ASSUME NEW n \in Nat, n \in S PROVE n + 1 \in S
    <3>1. ASSUME NEW i \in I PROVE i > n + 1
      <4>1. PICK y \in I : y < i BY <2>1
      <4>2. y > n BY <2>3
      <4> QED BY <4>1, <4>2
    <3> QED BY <3>1
  <2>4. Nat \subseteq S
    <3> HIDE DEF S
    <3> QED BY <2>2, <2>3, InductionOnSet
  <2>5. PICK i \in I : TRUE
    OBVIOUS
  <2>6. i \in S
    BY <2>4
  <2> QED BY <2>6
<1>2. \E x : x \in I /\ \A y \in I : x <= y
  BY <1>1
<1> DEFINE m == CHOOSE x : x \in I /\ \A y \in I : x <= y
<1>3. m \in I /\ \A y \in I : m <= y
  BY ONLY <1>2, Zenon
<1>4. Min(I) = m
  BY DEF Min
<1> HIDE DEF m
<1> QED BY <1>3, <1>4

LEMMA GreatestPlace ==
    ASSUME NEW n \in Nat, NEW I, I \subseteq 1 .. n, I # {}
    PROVE  Max(I) \in I /\ \A y \in I : Max(I) >= y
<1> DEFINE J == {n - i : i \in I}
<1>1. J \subseteq Nat /\ J # {}
  <2>1. \A i \in I : i \in 1 .. n
    OBVIOUS
  <2>2. \A i \in 1 .. n : n - i \in Nat
    OBVIOUS
  <2>3. \A i \in I : n - i \in Nat /\ n - i \in J
    BY <2>1, <2>2
  <2> QED BY <2>3
<1>2. \E j \in J : \A y \in J : j <= y
  <2> HIDE DEF J
  <2> QED BY <1>1, LeastPlace
<1>3. \E x \in I : \A y \in I : x >= y
  <2>1. PICK j \in J : \A y \in J : j <= y
    BY <1>2
  <2>2. PICK x \in I : j = n - x
    BY <2>1
  <2>3. ASSUME NEW y \in I PROVE x >= y
    <3>1. n - y \in J
      OBVIOUS
    <3>2. n - x <= n - y
      BY <2>1, <2>2, <3>1
    <3>3. x \in Int /\ y \in Int
      OBVIOUS
    <3> HIDE DEF J
    <3> QED BY <3>2, <3>3
  <2> QED BY <2>3
<1>4. \E x : x \in I /\ \A y \in I : x >= y
  BY <1>3
<1> DEFINE m == CHOOSE x : x \in I /\ \A y \in I : x >= y
<1>5. m \in I /\ \A y \in I : m >= y
  BY ONLY <1>4, Zenon
<1>6. Max(I) = m
  BY DEF Max
<1> HIDE DEF m
<1> QED BY <1>5, <1>6

IsFirstPlace(n, len, I) ==
    /\ n \in 0 .. len /\ (n = 0 <=> I = {})
    /\ n # 0 => n \in I /\ \A i \in I : n <= i

PlacesOf(pairs, f) == {i \in 1 .. Len(pairs) : pairs[i].field = f}

LEMMA PlaceOfFirst ==
    ASSUME NEW S, NEW pairs \in Seq(S), NEW f
    PROVE  IsFirstPlace(PlaceOf(pairs, f), Len(pairs), PlacesOf(pairs, f))
<1> DEFINE I == PlacesOf(pairs, f)
<1>1. PlaceOf(pairs, f) = IF I # {} THEN Min(I) ELSE 0
  BY DEF PlaceOf, SelectInSeq, PlacesOf
<1>2. I \subseteq 1 .. Len(pairs) /\ I \subseteq Nat /\ Len(pairs) \in Nat
  BY DEF PlacesOf
<1> HIDE DEF I
<1>3. I # {} => Min(I) \in I /\ \A y \in I : Min(I) <= y
  BY <1>2, LeastPlace
<1> QED BY <1>1, <1>2, <1>3 DEF IsFirstPlace, I

-----------------------------------------------------------------------------
(* The columns a builder has set *)

LEMMA SetFieldType ==
    ASSUME NEW P, NEW pairs \in Seq(P), NEW new \in P
    PROVE  SetField(pairs, new) \in Seq(P)
<1> DEFINE n == PlaceOf(pairs, new.field)
<1>1. n \in 0 .. Len(pairs)
  BY PlaceOfFirst DEF IsFirstPlace
<1> HIDE DEF n
<1> QED BY <1>1 DEF SetField, n

(* n holes take n values. *)
LEMMA HolesTextScan ==
    ASSUME NEW n \in Nat
    PROVE  HolesText(n) \in Seq(Atoms) /\ Len(HolesText(n)) = n
           /\ Scanned(HolesText(n)) = [state |-> "normal", count |-> n]
<1> DEFINE A == Atoms
           S == {k \in Nat : Scanned(HolesText(k)) = [state |-> "normal", count |-> k]}
<1>1. \A k \in Nat : HolesText(k) \in Seq(A) /\ Len(HolesText(k)) = k
  <2>1. "?" \in A
    BY DEF Atoms
  <2> HIDE DEF A
  <2> QED BY <2>1 DEF HolesText
<1>2. 0 \in S
  <2>1. HolesText(0) = <<>>
    BY <1>1
  <2>2. Scanned(<<>>) = ScanStart
    <3>1. <<>> \in Seq(A) BY EmptySeq
    <3> QED BY <3>1, ScanEquations
  <2> QED BY <2>1, <2>2 DEF ScanStart
<1>3. ASSUME NEW k \in Nat, k \in S PROVE k + 1 \in S
  <2>1. HolesText(k + 1) = Append(HolesText(k), "?")
    <3> DEFINE a == HolesText(k + 1)
               h == HolesText(k)
               b == Append(h, "?")
    <3>1. a \in Seq(A) /\ Len(a) = k + 1 /\ h \in Seq(A) /\ Len(h) = k
      BY <1>1
    <3>2. (\A i \in 1 .. k + 1 : a[i] = "?") /\ \A i \in 1 .. k : h[i] = "?"
      BY DEF HolesText
    <3> DEFINE q == "?"
    <3>3. q \in A
      BY DEF Atoms
    <3> HIDE DEF a, h, q, A
    <3>4. b \in Seq(A) /\ Len(b) = k + 1 /\ (\A i \in 1 .. k : b[i] = h[i]) /\ b[k + 1] = q
      BY <3>1, <3>3 DEF q
    <3>5. \A i \in 1 .. k + 1 : a[i] = b[i]
      <4>1. \A i \in 1 .. k + 1 : i # k + 1 => i \in 1 .. k
        OBVIOUS
      <4> HIDE DEF b
      <4> QED BY <3>2, <3>4, <4>1 DEF q
    <3> HIDE DEF b
    <3>6. a = b
      BY <3>1, <3>4, <3>5, SeqEqual
    <3> QED BY <3>6 DEF a, b, h
  <2>2. Scanned(Append(HolesText(k), "?")) = ScanStep(Scanned(HolesText(k)), "?")
    <3>1. "?" \in Atoms BY DEF Atoms
    <3> QED BY <1>1, <3>1, ScanEquations
  <2>3. Scanned(HolesText(k)) = [state |-> "normal", count |-> k]
    BY <1>3
  <2>4. ScanStep([state |-> "normal", count |-> k], "?") = [state |-> "normal", count |-> k + 1]
    BY DEF ScanStep, ScanState
  <2>5. Scanned(HolesText(k + 1)) = [state |-> "normal", count |-> k + 1]
    BY <2>1, <2>2, <2>3, <2>4
  <2> QED BY <2>5
<1>4. n \in S
  <2> HIDE DEF S
  <2> QED BY <1>2, <1>3, InductionOnSet
<1> QED BY <1>1, <1>4
-----------------------------------------------------------------------------
(* The invariant of a builder *)

GoodBuilder(b, k, g) ==
    /\ b \in [where : Seq(Filled), whereValues : Seq(1 .. g), having : Seq(Filled),
              havingValues : Seq(1 .. g), sets : Seq(Assigned), allowAll : BOOLEAN]
    /\ b.whereValues = ValuesOf(b.where) /\ b.havingValues = ValuesOf(b.having)
    /\ k \in {"update", "delete"} => EveryRow \notin ToSet(b.where)

GoodStatement(s, k) ==
    /\ s.clauses \in Seq(AnyClause) /\ s.bound = ValuesOf(s.clauses)
    /\ k \in {"update", "delete"} =>
            s.allowed \/ (s.where # <<>> /\ EveryRow \notin ToSet(s.where))

BuilderInv ==
    /\ kind \in Single \cup Batches /\ calls \in 0 .. MaxCalls /\ given \in Nat
    /\ GoodBuilder(builder, kind, given)
    /\ \A s \in ToSet(statement) : GoodStatement(s, kind)

FreshFrom(g, n) == [i \in 1 .. n |-> g + i]

LEMMA ToSetAppend ==
    ASSUME NEW S, NEW s \in Seq(S), NEW e
    PROVE  ToSet(Append(s, e)) = ToSet(s) \cup {e}
<1>1. /\ DOMAIN Append(s, e) = 1 .. Len(s) + 1 /\ DOMAIN s = 1 .. Len(s) /\ Len(s) \in Nat
      /\ Append(s, e)[Len(s) + 1] = e /\ \A i \in 1 .. Len(s) : Append(s, e)[i] = s[i]
  OBVIOUS
<1> DEFINE a == Append(s, e)
<1> HIDE DEF a
<1>2. ToSet(a) \subseteq ToSet(s) \cup {e}
  <2>1. \A i \in 1 .. Len(s) + 1 : i = Len(s) + 1 \/ i \in 1 .. Len(s)
    BY <1>1
  <2> QED BY <1>1, <2>1 DEF ToSet, a
<1>3. ToSet(s) \cup {e} \subseteq ToSet(a)
  <2>1. Len(s) + 1 \in 1 .. Len(s) + 1 /\ \A i \in 1 .. Len(s) : i \in 1 .. Len(s) + 1
    BY <1>1
  <2> QED BY <1>1, <2>1 DEF ToSet, a
<1> QED BY <1>2, <1>3 DEF a

LEMMA Singleton ==
    ASSUME NEW S, NEW c \in S
    PROVE  <<c>> = Append(<<>>, c) /\ <<c>> \in Seq(S)
OBVIOUS

LEMMA SeqMonotone ==
    ASSUME NEW S, NEW T, S \subseteq T
    PROVE  Seq(S) \subseteq Seq(T)
OBVIOUS

LEMMA FreshTypes ==
    ASSUME NEW g \in Nat, NEW n \in Nat
    PROVE  FreshFrom(g, n) \in Seq(1 .. g + n) /\ FreshFrom(g, n) \in Seq(Values) /\ Len(FreshFrom(g, n)) = n
<1>1. \A i \in 1 .. n : g + i \in 1 .. g + n /\ g + i \in Nat
  OBVIOUS
<1> QED BY <1>1 DEF FreshFrom, Values

LEMMA FreshClause ==
    ASSUME NEW g \in Nat, NEW n \in Nat, NEW text \in Seq(Atoms),
           Scanned(text) = [state |-> "normal", count |-> n]
    PROVE  Clause(text, FreshFrom(g, n)) \in Filled
<1> DEFINE A == Atoms
<1> HIDE DEF A
<1>1. FreshFrom(g, n) \in Seq(Values) /\ Len(FreshFrom(g, n)) = n
  BY FreshTypes
<1> QED BY <1>1 DEF Filled, Clause, FitsHoles

LEMMA SomeEmpty ==
    /\ ValuesOf(<<>>) = <<>> /\ TextOf(<<>>) = <<>>
    /\ \A S : <<>> \in Seq(S)
<1>1. \A S : <<>> \in Seq(S)
  BY EmptySeq
<1>2. <<>> \in Seq(AnyClause)
  BY <1>1
<1> QED BY <1>1, <1>2, TextEquations, ValuesEquations

LEMMA EmptyBuilder ==
    ASSUME NEW k
    PROVE  GoodBuilder(NewBuilder, k, 0)
<1>1. NewBuilder.where = <<>> /\ NewBuilder.having = <<>> /\ ToSet(<<>>) = {}
  BY DEF NewBuilder, ToSet
<1>2. NewBuilder \in [where : Seq(Filled), whereValues : Seq(1 .. 0), having : Seq(Filled),
                     havingValues : Seq(1 .. 0), sets : Seq(Assigned), allowAll : BOOLEAN]
  BY SomeEmpty DEF NewBuilder
<1> QED BY <1>1, <1>2, SomeEmpty DEF GoodBuilder, NewBuilder

(* The builders of a longer list of given values. *)
LEMMA MoreGiven ==
    ASSUME NEW b, NEW k, NEW g \in Nat, NEW h \in Nat, g <= h, GoodBuilder(b, k, g)
    PROVE  GoodBuilder(b, k, h)
<1>1. Seq(1 .. g) \subseteq Seq(1 .. h)
  <2>1. 1 .. g \subseteq 1 .. h
    OBVIOUS
  <2> QED BY <2>1, SeqMonotone
<1> QED BY <1>1 DEF GoodBuilder

LEMMA WhereKeeps ==
    ASSUME NEW b, NEW k, NEW g \in Nat, GoodBuilder(b, k, g),
           NEW c \in Filled, c.values \in Seq(1 .. g),
           k \in {"update", "delete"} => c # EveryRow
    PROVE  GoodBuilder([b EXCEPT !.where = Append(@, c), !.whereValues = @ \o c.values], k, g)
<1> DEFINE w == Append(b.where, c)
           v == b.whereValues \o c.values
<1>1. w \in Seq(Filled) /\ v \in Seq(1 .. g)
  BY ConcatProperties DEF GoodBuilder
<1>2. v = ValuesOf(w)
  <2>1. b.where \in Seq(AnyClause) /\ c \in AnyClause
    BY SeqMonotone DEF AnyClause, GoodBuilder
  <2>2. ValuesOf(w) = ValuesOf(b.where) \o c.values
    BY <2>1, ValuesEquations
  <2> QED BY <2>2 DEF GoodBuilder
<1>3. ToSet(w) = ToSet(b.where) \cup {c}
  <2>1. b.where \in Seq(Filled)
    BY DEF GoodBuilder
  <2> QED BY <2>1, ToSetAppend
<1> HIDE DEF w, v
<1>4. [b EXCEPT !.where = w, !.whereValues = v]
        \in [where : Seq(Filled), whereValues : Seq(1 .. g), having : Seq(Filled),
             havingValues : Seq(1 .. g), sets : Seq(Assigned), allowAll : BOOLEAN]
  BY <1>1 DEF GoodBuilder
<1>5. GoodBuilder([b EXCEPT !.where = w, !.whereValues = v], k, g)
  BY <1>2, <1>3, <1>4 DEF GoodBuilder
<1> QED BY <1>5 DEF w, v

LEMMA HavingKeeps ==
    ASSUME NEW b, NEW k, NEW g \in Nat, GoodBuilder(b, k, g),
           NEW c \in Filled, c.values \in Seq(1 .. g)
    PROVE  GoodBuilder([b EXCEPT !.having = Append(@, c), !.havingValues = @ \o c.values], k, g)
<1> DEFINE w == Append(b.having, c)
           v == b.havingValues \o c.values
<1>1. w \in Seq(Filled) /\ v \in Seq(1 .. g)
  BY ConcatProperties DEF GoodBuilder
<1>2. v = ValuesOf(w)
  <2>1. b.having \in Seq(AnyClause) /\ c \in AnyClause
    BY SeqMonotone DEF AnyClause, GoodBuilder
  <2>2. ValuesOf(w) = ValuesOf(b.having) \o c.values
    BY <2>1, ValuesEquations
  <2> QED BY <2>2 DEF GoodBuilder
<1> HIDE DEF w, v
<1>4. [b EXCEPT !.having = w, !.havingValues = v]
        \in [where : Seq(Filled), whereValues : Seq(1 .. g), having : Seq(Filled),
             havingValues : Seq(1 .. g), sets : Seq(Assigned), allowAll : BOOLEAN]
  BY <1>1 DEF GoodBuilder
<1>5. GoodBuilder([b EXCEPT !.having = w, !.havingValues = v], k, g)
  BY <1>2, <1>4 DEF GoodBuilder
<1> QED BY <1>5 DEF w, v

LEMMA SetsKeep ==
    ASSUME NEW b, NEW k, NEW g \in Nat, GoodBuilder(b, k, g), NEW new \in Assigned
    PROVE  GoodBuilder([b EXCEPT !.sets = SetField(@, new)], k, g)
<1> DEFINE w == SetField(b.sets, new)
<1>1. w \in Seq(Assigned)
  BY SetFieldType DEF GoodBuilder
<1> HIDE DEF w
<1>2. GoodBuilder([b EXCEPT !.sets = w], k, g)
  BY <1>1 DEF GoodBuilder
<1> QED BY <1>2 DEF w

(* Every executed statement is made of filled clauses and the values they came with. *)
LEMMA ExecutesKeeps ==
    ASSUME BuilderInv, NEW clauses, NEW bound, clauses \in Seq(AnyClause),
           bound = ValuesOf(clauses),
           kind \in {"update", "delete"} => builder.allowAll \/ builder.where # <<>>,
           kind' = kind,
           Executes(clauses, bound)
    PROVE  \A s \in ToSet(statement') : GoodStatement(s, kind')
<1> DEFINE s == [clauses |-> clauses, bound |-> bound, where |-> builder.where,
                 allowed |-> builder.allowAll]
<1>1. ToSet(statement') = {s}
  BY DEF Executes, ToSet
<1>2. kind \in {"update", "delete"} => EveryRow \notin ToSet(builder.where)
  BY DEF BuilderInv, GoodBuilder
<1>3. GoodStatement(s, kind)
  BY <1>2 DEF GoodStatement
<1> QED BY <1>1, <1>3
LEMMA ConditionTypes ==
    ASSUME NEW text \in Conditions
    PROVE  /\ text \in Seq(Atoms) /\ PlaceholderCount(text) \in Nat
           /\ Scanned(text) = [state |-> "normal", count |-> PlaceholderCount(text)]
           /\ text # <<"1 = 1">>
<1>1. text \in Seq(Atoms)
  <2>1. ToSet(text) \subseteq Atoms
    BY DEF Atoms
  <2>2. text \in Seq(ToSet(text))
    BY SqlAssumption
  <2> QED BY <2>1, <2>2, SeqMonotone
<1>2. Scanned(text) \in ScanType
  BY <1>1, ScanEquations
<1>3. Scanned(text).state = "normal" /\ text # <<"1 = 1">>
  BY SqlAssumption
<1> DEFINE sc == Scanned(text)
<1> HIDE DEF sc
<1>4. sc = [state |-> sc.state, count |-> sc.count] /\ sc.count \in Nat
  BY <1>2 DEF ScanType, sc
<1> QED BY <1>1, <1>3, <1>4 DEF PlaceholderCount, sc

(* What a builder writes itself. *)
LEMMA OwnTexts ==
    /\ Clause(<<"1 = 0">>, <<>>) \in Filled /\ EveryRow \in Filled
    /\ Clause(<<"1 = 0">>, <<>>) # EveryRow
    /\ \A n \in Nat \ {0} : HolesText(n) # <<"1 = 1">>
<1> DEFINE A == Atoms
<1>1. ASSUME NEW c \in {"1 = 1", "1 = 0"}
      PROVE  <<c>> \in Seq(A) /\ Scanned(<<c>>) = [state |-> "normal", count |-> 0]
  <2> DEFINE empty == <<>>
  <2>5. c \in A
    BY Zenon DEF Atoms
  <2>6. empty \in Seq(A)
    BY EmptySeq, Zenon
  <2>7. <<c>> = Append(empty, c)
    BY <2>5, Singleton
  <2>1. c \in A /\ empty \in Seq(A) /\ <<c>> = Append(empty, c)
    BY <2>5, <2>6, <2>7
  <2>2. Scanned(<<>>) = ScanStart /\ Scanned(Append(empty, c)) = ScanStep(Scanned(empty), c)
    BY <2>1, ScanEquations
  <2>3. ScanStep([state |-> "normal", count |-> 0], c) = [state |-> "normal", count |-> 0]
    BY DEF ScanStep, ScanState
  <2>4. Append(empty, c) \in Seq(A)
    <3> HIDE DEF A, empty
    <3> QED BY <2>5, <2>6, AppendProperties
  <2> QED BY <2>1, <2>2, <2>3, <2>4 DEF ScanStart
<1> HIDE DEF A
<1>2. ASSUME NEW c \in {"1 = 1", "1 = 0"} PROVE Clause(<<c>>, <<>>) \in Filled
  <2>1. <<>> \in Seq(Values) /\ Len(<<>>) = 0
    BY EmptySeq
  <2> DEFINE empty == <<>>
             t == <<c>>
  <2> HIDE DEF empty, t
  <2>2. empty \in Seq(Values) /\ Len(empty) = 0 /\ t \in Seq(A)
        /\ Scanned(t) = [state |-> "normal", count |-> 0]
    BY <1>1, <2>1 DEF empty, t
  <2>3. Clause(t, empty) \in Filled
    BY <2>2 DEF Clause, Filled, FitsHoles, A
  <2> QED BY <2>3 DEF t, empty
<1>3. Clause(<<"1 = 0">>, <<>>) # EveryRow
  <2>1. <<"1 = 0">> # <<"1 = 1">>
    OBVIOUS
  <2>2. Clause(<<"1 = 0">>, <<>>).text = <<"1 = 0">> /\ EveryRow.text = <<"1 = 1">>
    BY DEF Clause, EveryRow
  <2> QED BY <2>1, <2>2
<1>4. \A n \in Nat \ {0} : HolesText(n) # <<"1 = 1">>
  <2>1. \A n \in Nat \ {0} : HolesText(n)[1] = "?"
    BY DEF HolesText
  <2>2. <<"1 = 1">>[1] # "?"
    OBVIOUS
  <2> QED BY <2>1, <2>2
<1> QED BY <1>2, <1>3, <1>4 DEF EveryRow

-----------------------------------------------------------------------------
(* Every call keeps the invariant *)

LEMMA CallKeeps ==
    ASSUME BuilderInv, NEW kinds, NEW n \in Nat, SqlCall(kinds, n)
    PROVE  /\ kind \in kinds /\ kind' = kind /\ kind' \in Single \cup Batches
           /\ calls' \in 0 .. MaxCalls /\ given' = given + n /\ given' \in Nat
           /\ GoodBuilder(builder, kind, given')
<1>1. kind \in kinds /\ kind' = kind /\ kind' \in Single \cup Batches /\ given \in Nat
  BY DEF SqlCall, BuilderInv
<1>2. calls' \in 0 .. MaxCalls
  <2>1. MaxCalls \in Nat
    BY SqlAssumption, Zenon
  <2>2. calls \in 0 .. MaxCalls
    BY Zenon DEF BuilderInv
  <2>3. calls < MaxCalls /\ calls' = calls + 1
    BY DEF SqlCall
  <2> QED BY <2>1, <2>2, <2>3
<1>3. given' = given + n /\ given' \in Nat /\ given <= given'
  BY <1>1 DEF SqlCall
<1>4. GoodBuilder(builder, kind, given')
  BY <1>1, <1>3, MoreGiven DEF BuilderInv
<1> QED BY <1>1, <1>2, <1>3, <1>4

LEMMA AddWhereKeeps ==
    ASSUME BuilderInv, NEW kinds, NEW n \in Nat, SqlCall(kinds, n), NEW c \in Filled,
           c.values \in Seq(1 .. given + n),
           kind \in {"update", "delete"} => c # EveryRow, AddWhere(c)
    PROVE  BuilderInv'
<1>1. /\ kind' = kind /\ kind' \in Single \cup Batches
      /\ calls' \in 0 .. MaxCalls /\ given' = given + n /\ given' \in Nat
      /\ GoodBuilder(builder, kind, given')
  BY CallKeeps
<1>2. GoodBuilder(builder', kind, given')
  BY <1>1, WhereKeeps DEF AddWhere
<1>3. statement' = statement
  BY DEF AddWhere
<1>4. \A s \in ToSet(statement') : GoodStatement(s, kind')
  BY <1>1, <1>3 DEF BuilderInv
<1> QED BY <1>1, <1>2, <1>4 DEF BuilderInv

LEMMA WhereTextKeeps ==
    ASSUME BuilderInv, NEW text \in Conditions, WhereText(text)
    PROVE  BuilderInv'
<1> DEFINE n == PlaceholderCount(text)
           c == Clause(text, FreshValues(n))
<1>1. /\ text \in Seq(Atoms) /\ n \in Nat /\ Scanned(text) = [state |-> "normal", count |-> n]
      /\ text # <<"1 = 1">>
  BY ConditionTypes
<1>2. SqlCall({"query", "update", "delete"}, n) /\ AddWhere(c)
  BY DEF WhereText
<1> HIDE DEF n
<1>3. given \in Nat
  BY DEF BuilderInv
<1>4. FreshValues(n) = FreshFrom(given, n)
  BY DEF FreshValues, FreshFrom
<1>5. c \in Filled /\ c.values \in Seq(1 .. given + n)
  BY <1>1, <1>3, <1>4, FreshClause, FreshTypes DEF Clause
<1>6. c # EveryRow
  BY <1>1 DEF Clause, EveryRow
<1> HIDE DEF c
<1> QED BY <1>1, <1>2, <1>5, <1>6, AddWhereKeeps

LEMMA WhereInKeeps ==
    ASSUME BuilderInv, NEW n \in 0 .. 2, WhereIn(n)
    PROVE  BuilderInv'
<1> DEFINE c == IF n = 0 THEN Clause(<<"1 = 0">>, <<>>) ELSE Clause(HolesText(n), FreshValues(n))
<1>1. SqlCall({"query", "update", "delete"}, n) /\ AddWhere(c) /\ n \in Nat
  <2>1. SqlCall({"query", "update", "delete"}, n) /\ AddWhere(c)
    BY Zenon DEF WhereIn
  <2>2. n \in Nat
    OBVIOUS
  <2> QED BY <2>1, <2>2
<1>2. given \in Nat
  BY DEF BuilderInv
<1>3. FreshValues(n) = FreshFrom(given, n)
  BY DEF FreshValues, FreshFrom
<1>4. c \in Filled /\ c.values \in Seq(1 .. given + n) /\ c # EveryRow
  <2>1. CASE n = 0
    BY <2>1, OwnTexts, SomeEmpty DEF Clause
  <2>2. CASE n # 0
    <3>1. c = Clause(HolesText(n), FreshFrom(given, n))
      BY <1>3, <2>2
    <3>2. HolesText(n) \in Seq(Atoms) /\ Scanned(HolesText(n)) = [state |-> "normal", count |-> n]
      BY <1>1, HolesTextScan
    <3>3. c \in Filled
      BY <1>1, <1>2, <3>1, <3>2, FreshClause
    <3>4. HolesText(n) # <<"1 = 1">>
      BY <1>1, <2>2, OwnTexts
    <3>5. c.values \in Seq(1 .. given + n)
      BY <1>1, <1>2, <3>1, FreshTypes DEF Clause
    <3> HIDE DEF c
    <3>6. c # EveryRow
      BY <3>1, <3>4 DEF Clause, EveryRow
    <3> QED BY <3>3, <3>5, <3>6
  <2> QED BY <2>1, <2>2
<1> HIDE DEF c
<1> QED BY <1>1, <1>4, AddWhereKeeps

LEMMA WhereNotInKeeps ==
    ASSUME BuilderInv, WhereNotInNothing
    PROVE  BuilderInv'
<1>1. SqlCall({"query"}, 0) /\ AddWhere(EveryRow) /\ kind = "query"
  BY DEF WhereNotInNothing, SqlCall
<1>2. EveryRow \in Filled /\ EveryRow.values \in Seq(1 .. given + 0)
  BY OwnTexts, SomeEmpty DEF EveryRow, Clause
<1>3. 0 \in Nat
  OBVIOUS
<1>4. kind \notin {"update", "delete"}
  BY <1>1
<1> QED BY <1>1, <1>2, <1>3, <1>4, AddWhereKeeps

LEMMA HavingTextKeeps ==
    ASSUME BuilderInv, NEW text \in Conditions, Having(text)
    PROVE  BuilderInv'
<1> DEFINE n == PlaceholderCount(text)
           c == Clause(text, FreshValues(n))
<1>1. text \in Seq(Atoms) /\ n \in Nat /\ Scanned(text) = [state |-> "normal", count |-> n]
  BY ConditionTypes
<1>2. /\ SqlCall({"query"}, n) /\ statement' = statement
      /\ builder' = [builder EXCEPT !.having = Append(@, c), !.havingValues = @ \o FreshValues(n)]
  BY DEF Having
<1> HIDE DEF n
<1>3. given \in Nat
  BY DEF BuilderInv
<1>4. FreshValues(n) = FreshFrom(given, n)
  BY DEF FreshValues, FreshFrom
<1>5. c \in Filled /\ c.values \in Seq(1 .. given + n) /\ c.values = FreshValues(n)
  BY <1>1, <1>3, <1>4, FreshClause, FreshTypes DEF Clause
<1> HIDE DEF c
<1>6. /\ kind' = kind /\ kind' \in Single \cup Batches
      /\ calls' \in 0 .. MaxCalls /\ given' = given + n /\ given' \in Nat
      /\ GoodBuilder(builder, kind, given')
  BY <1>1, <1>2, CallKeeps
<1>7. builder' = [builder EXCEPT !.having = Append(@, c), !.havingValues = @ \o c.values]
  BY <1>2, <1>5
<1>8. GoodBuilder(builder', kind, given')
  BY <1>5, <1>6, <1>7, HavingKeeps
<1>9. \A s \in ToSet(statement') : GoodStatement(s, kind')
  BY <1>2, <1>6 DEF BuilderInv
<1> QED BY <1>6, <1>8, <1>9 DEF BuilderInv
LEMMA SetColumnKeeps ==
    ASSUME BuilderInv, NEW f \in Columns, SetColumn(f)
    PROVE  BuilderInv'
<1> DEFINE new == [field |-> f, text |-> HolesText(1), values |-> FreshValues(1)]
<1>1. SqlCall({"update", "insert"}, 1) /\ statement' = statement
      /\ builder' = [builder EXCEPT !.sets = SetField(@, new)]
  BY DEF SetColumn
<1>2. given \in Nat /\ 1 \in Nat
  BY DEF BuilderInv
<1>3. FreshValues(1) = FreshFrom(given, 1)
  BY DEF FreshValues, FreshFrom
<1>4. new \in Assigned
  <2> DEFINE A == Atoms
             h == HolesText(1)
             v == FreshValues(1)
  <2>1. h \in Seq(A) /\ Scanned(h) = [state |-> "normal", count |-> 1]
    BY <1>2, HolesTextScan
  <2>2. v \in Seq(Values) /\ Len(v) = 1
    BY <1>2, <1>3, FreshTypes
  <2> HIDE DEF A, h, v
  <2>3. [field |-> f, text |-> h, values |-> v] \in Assigned
    BY <2>1, <2>2 DEF Assigned, FitsHoles, A
  <2> QED BY <2>3 DEF h, v
<1> HIDE DEF new
<1>5. /\ kind' = kind /\ kind' \in Single \cup Batches
      /\ calls' \in 0 .. MaxCalls /\ given' = given + 1 /\ given' \in Nat
      /\ GoodBuilder(builder, kind, given')
  BY <1>1, <1>2, CallKeeps
<1>6. GoodBuilder(builder', kind, given')
  BY <1>1, <1>4, <1>5, SetsKeep
<1>7. \A s \in ToSet(statement') : GoodStatement(s, kind')
  BY <1>1, <1>5 DEF BuilderInv
<1> QED BY <1>5, <1>6, <1>7 DEF BuilderInv

LEMMA AllowKeeps ==
    ASSUME BuilderInv, AllowFullTableDelete
    PROVE  BuilderInv'
<1>1. SqlCall({"delete"}, 0) /\ statement' = statement /\ 0 \in Nat
      /\ builder' = [builder EXCEPT !.allowAll = TRUE]
  BY DEF AllowFullTableDelete
<1>2. /\ kind' = kind /\ kind' \in Single \cup Batches
      /\ calls' \in 0 .. MaxCalls /\ given' \in Nat
      /\ GoodBuilder(builder, kind, given')
  BY <1>1, CallKeeps
<1>3. GoodBuilder(builder', kind, given')
  BY <1>1, <1>2 DEF GoodBuilder
<1>4. \A s \in ToSet(statement') : GoodStatement(s, kind')
  BY <1>1, <1>2 DEF BuilderInv
<1> QED BY <1>2, <1>3, <1>4 DEF BuilderInv

(* An execution leaves the builder alone. *)
LEMMA ExecKeeps ==
    ASSUME BuilderInv, NEW kinds, NEW n \in Nat, SqlCall(kinds, n),
           NEW clauses, NEW bound, clauses \in Seq(AnyClause), bound = ValuesOf(clauses),
           kind \in {"update", "delete"} => builder.allowAll \/ builder.where # <<>>,
           Executes(clauses, bound)
    PROVE  BuilderInv'
<1>1. /\ kind' = kind /\ kind' \in Single \cup Batches
      /\ calls' \in 0 .. MaxCalls /\ given' \in Nat
      /\ GoodBuilder(builder, kind, given')
  BY CallKeeps
<1>2. builder' = builder
  BY DEF Executes
<1>3. \A s \in ToSet(statement') : GoodStatement(s, kind')
  BY <1>1, ExecutesKeeps
<1> QED BY <1>1, <1>2, <1>3 DEF BuilderInv

LEMMA BuilderLists ==
    ASSUME BuilderInv
    PROVE  /\ builder.where \in Seq(AnyClause) /\ builder.having \in Seq(AnyClause)
           /\ builder.sets \in Seq(AnyClause) /\ builder.sets \in Seq(Assigned)
           /\ builder.whereValues = ValuesOf(builder.where)
           /\ builder.havingValues = ValuesOf(builder.having)
<1>1. Seq(Filled) \subseteq Seq(AnyClause) /\ Seq(Assigned) \subseteq Seq(AnyClause)
  BY SeqMonotone DEF AnyClause
<1> QED BY <1>1 DEF BuilderInv, GoodBuilder

LEMMA ExecQueryKeeps ==
    ASSUME BuilderInv, ExecQuery
    PROVE  BuilderInv'
<1> DEFINE c == builder.where \o builder.having
           v == builder.whereValues \o builder.havingValues
<1>1. SqlCall({"query"}, 0) /\ Executes(c, v) /\ 0 \in Nat
  BY DEF ExecQuery, QueryClauses, QueryValues
<1>2. c \in Seq(AnyClause) /\ v = ValuesOf(c)
  BY BuilderLists, ValuesEquations, ConcatProperties
<1>3. kind \notin {"update", "delete"}
  BY <1>1 DEF SqlCall
<1> HIDE DEF c, v
<1> QED BY <1>1, <1>2, <1>3, ExecKeeps

LEMMA ExecUpdateKeeps ==
    ASSUME BuilderInv, ExecUpdate
    PROVE  BuilderInv'
<1> DEFINE c == builder.sets \o builder.where
           v == ValuesOf(builder.sets) \o builder.whereValues
<1>1. SqlCall({"update"}, 0) /\ Executes(c, v) /\ 0 \in Nat /\ builder.where # <<>>
  BY DEF ExecUpdate
<1>2. c \in Seq(AnyClause) /\ v = ValuesOf(c)
  BY BuilderLists, ValuesEquations, ConcatProperties
<1> HIDE DEF c, v
<1> QED BY <1>1, <1>2, ExecKeeps

(* A column takes one value. *)
LEMMA OneValueEach ==
    ASSUME NEW s \in Seq(Assigned)
    PROVE  Len(ValuesOf(s)) = Len(s)
<1> DEFINE C == Assigned
           S == {x \in Seq(C) : Len(ValuesOf(x)) = Len(x)}
<1>0. Seq(C) \subseteq Seq(AnyClause) /\ C \subseteq AnyClause
  BY SeqMonotone DEF AnyClause
<1>1. <<>> \in S
  BY SomeEmpty
<1>2. ASSUME NEW x \in Seq(C), NEW c \in C, x \in S PROVE Append(x, c) \in S
  <2>1. x \in Seq(AnyClause) /\ c \in AnyClause
    BY <1>0
  <2>2. ValuesOf(Append(x, c)) = ValuesOf(x) \o c.values /\ ValuesOf(x) \in Seq(Values)
    BY <2>1, ValuesEquations
  <2>3. c.values \in Seq(Values) /\ Len(c.values) = 1
    BY <2>1, ClauseTypes DEF Assigned
  <2>4. Len(ValuesOf(x) \o c.values) = Len(ValuesOf(x)) + Len(c.values)
    <3> DEFINE a == ValuesOf(x)
               b == c.values
    <3>1. a \in Seq(Values) /\ b \in Seq(Values)
      BY <2>2, <2>3
    <3> HIDE DEF a, b
    <3>2. Len(a \o b) = Len(a) + Len(b)
      BY <3>1
    <3> QED BY <3>2 DEF a, b
  <2>5. Append(x, c) \in Seq(C) /\ Len(Append(x, c)) = Len(x) + 1
    <3> HIDE DEF C
    <3> QED OBVIOUS
  <2>6. Len(ValuesOf(x)) = Len(x)
    BY <1>2
  <2> QED BY <2>2, <2>3, <2>4, <2>5, <2>6
<1>3. Seq(C) \subseteq S
  <2> HIDE DEF S, C
  <2> QED BY <1>1, <1>2, InductionOnSeq
<1> QED BY <1>3

LEMMA SingleClause ==
    ASSUME NEW c \in AnyClause
    PROVE  <<c>> \in Seq(AnyClause) /\ ValuesOf(<<c>>) = c.values
<1> DEFINE empty == <<>>
<1>1. empty \in Seq(AnyClause) /\ ValuesOf(empty) = empty
  BY SomeEmpty
<1>2. <<c>> = Append(empty, c)
  OBVIOUS
<1>3. c.values \in Seq(Values)
  BY ClauseTypes
<1>4. empty \o c.values = c.values
  BY <1>3, ConcatEmptySeq
<1>5. Append(empty, c) \in Seq(AnyClause) /\ ValuesOf(Append(empty, c)) = ValuesOf(empty) \o c.values
  <2> HIDE DEF empty
  <2> QED BY <1>1, ValuesEquations, AppendProperties
<1> HIDE DEF empty
<1> QED BY <1>1, <1>2, <1>4, <1>5

LEMMA ExecInsertKeeps ==
    ASSUME BuilderInv, ExecInsert
    PROVE  BuilderInv'
<1> DEFINE n == Len(builder.sets)
           v == ValuesOf(builder.sets)
           one == Clause(HolesText(n), v)
           c == <<one>>
<1>1. SqlCall({"insert"}, 0) /\ Executes(c, v) /\ 0 \in Nat
  BY DEF ExecInsert
<1>2. n \in Nat /\ v \in Seq(Values) /\ Len(v) = n
  BY BuilderLists, ValuesEquations, OneValueEach
<1>3. one \in AnyClause /\ one.values = v
  <2> DEFINE A == Atoms
             h == HolesText(n)
  <2>1. h \in Seq(A) /\ Scanned(h) = [state |-> "normal", count |-> n]
    BY <1>2, HolesTextScan
  <2> HIDE DEF A, h, n, v
  <2>2. Clause(h, v) \in AnyClause /\ Clause(h, v).values = v
    BY <1>2, <2>1 DEF Clause, AnyClause, Filled, FitsHoles, A
  <2> QED BY <2>2 DEF h
<1>4. c \in Seq(AnyClause) /\ v = ValuesOf(c)
  <2> HIDE DEF one
  <2> QED BY <1>3, SingleClause
<1>5. kind \notin {"update", "delete"}
  BY <1>1 DEF SqlCall
<1> HIDE DEF c, v
<1> QED BY <1>1, <1>4, <1>5, ExecKeeps

LEMMA ExecDeleteKeeps ==
    ASSUME BuilderInv, ExecDelete
    PROVE  BuilderInv'
<1>1. SqlCall({"delete"}, 0) /\ Executes(builder.where, builder.whereValues) /\ 0 \in Nat
      /\ (builder.where # <<>> \/ builder.allowAll)
  BY DEF ExecDelete, MayDelete
<1>2. builder.where \in Seq(AnyClause) /\ builder.whereValues = ValuesOf(builder.where)
  BY BuilderLists
<1> QED BY <1>1, <1>2, ExecKeeps

LEMMA SoftDeleteKeeps ==
    ASSUME BuilderInv, SoftDelete
    PROVE  BuilderInv'
<1> DEFINE one == Clause(HolesText(1), FreshValues(1))
           c == <<one>> \o builder.where
           v == FreshValues(1) \o builder.whereValues
<1>1. SqlCall({"delete"}, 1) /\ Executes(c, v) /\ 1 \in Nat
      /\ (builder.where # <<>> \/ builder.allowAll)
  BY DEF SoftDelete, MayDelete
<1>2. given \in Nat
  BY DEF BuilderInv
<1>3. FreshValues(1) = FreshFrom(given, 1)
  BY DEF FreshValues, FreshFrom
<1>4. one \in AnyClause /\ one.values = FreshValues(1)
  <2>1. HolesText(1) \in Seq(Atoms) /\ Scanned(HolesText(1)) = [state |-> "normal", count |-> 1]
    BY <1>1, HolesTextScan
  <2>2. one \in Filled
    BY <1>1, <1>2, <1>3, <2>1, FreshClause
  <2> QED BY <2>2 DEF AnyClause, Clause
<1>5. c \in Seq(AnyClause) /\ v = ValuesOf(c)
  <2> HIDE DEF one
  <2>1. <<one>> \in Seq(AnyClause) /\ ValuesOf(<<one>>) = FreshValues(1)
    BY <1>4, SingleClause
  <2> DEFINE q == <<one>>
  <2> HIDE DEF q
  <2>2. q \o builder.where \in Seq(AnyClause)
        /\ ValuesOf(q \o builder.where) = ValuesOf(q) \o ValuesOf(builder.where)
    BY <2>1, BuilderLists, ValuesEquations, ConcatProperties DEF q
  <2> QED BY <2>1, <2>2, BuilderLists DEF q
<1> HIDE DEF c, v
<1> QED BY <1>1, <1>5, ExecKeeps

LEMMA BatchesKeep ==
    ASSUME BuilderInv, UNCHANGED <<kind, builder, calls, given, statement>>
    PROVE  BuilderInv'
<1>1. kind' = kind /\ builder' = builder /\ calls' = calls /\ given' = given
      /\ statement' = statement
  OBVIOUS
<1> QED BY <1>1 DEF BuilderInv

LEMMA BuilderInitially ==
    ASSUME SqlInit
    PROVE  BuilderInv
<1>1. kind \in Single \cup Batches /\ builder = NewBuilder /\ calls = 0 /\ given = 0
      /\ statement = <<>>
  BY DEF SqlInit
<1>2. ToSet(statement) = {}
  BY <1>1 DEF ToSet
<1>3. calls \in 0 .. MaxCalls
  <2>1. MaxCalls \in Nat
    BY SqlAssumption, Zenon
  <2> QED BY <1>1, <2>1
<1> QED BY <1>1, <1>2, <1>3, EmptyBuilder DEF BuilderInv

LEMMA BuilderStep ==
    ASSUME BuilderInv, [SqlNext]_sqlVars
    PROVE  BuilderInv'
<1>1. CASE UNCHANGED sqlVars
  BY <1>1, BatchesKeep DEF sqlVars
<1>2. ASSUME NEW text \in Conditions, WhereText(text) PROVE BuilderInv'
  BY <1>2, WhereTextKeeps
<1>3. ASSUME NEW text \in Conditions, Having(text) PROVE BuilderInv'
  BY <1>3, HavingTextKeeps
<1>4. ASSUME NEW n \in 0 .. 2, WhereIn(n) PROVE BuilderInv'
  BY <1>4, WhereInKeeps
<1>5. CASE WhereNotInNothing
  BY <1>5, WhereNotInKeeps
<1>6. CASE AllowFullTableDelete
  BY <1>6, AllowKeeps
<1>7. ASSUME NEW f \in Columns, SetColumn(f) PROVE BuilderInv'
  BY <1>7, SetColumnKeeps
<1>8. CASE ExecQuery
  BY <1>8, ExecQueryKeeps
<1>9. CASE ExecUpdate
  BY <1>9, ExecUpdateKeeps
<1>10. CASE ExecInsert
  BY <1>10, ExecInsertKeeps
<1>11. CASE ExecDelete
  BY <1>11, ExecDeleteKeeps
<1>12. CASE SoftDelete
  BY <1>12, SoftDeleteKeeps
<1>13. CASE Batch
  BY <1>13, BatchesKeep DEF Batch, BatchBegins
<1>14. CASE UpdateChunk
  BY <1>14, BatchesKeep DEF UpdateChunk, ChunkGoes
<1>15. CASE InsertChunk
  BY <1>15, BatchesKeep DEF InsertChunk, ChunkGoes
<1>16. CASE DeleteChunk
  BY <1>16, BatchesKeep DEF DeleteChunk, ChunkGoes
<1>17. CASE ChunkFails
  BY <1>17, BatchesKeep DEF ChunkFails
<1> QED
  BY <1>1, <1>2, <1>3, <1>4, <1>5, <1>6, <1>7, <1>8, <1>9, <1>10, <1>11, <1>12, <1>13,
     <1>14, <1>15, <1>16, <1>17 DEF SqlNext

LEMMA GoodStatementsAreSound ==
    ASSUME BuilderInv
    PROVE  BuilderSound
<1>1. EveryValueInItsPlace
  <2>1. SUFFICES ASSUME NEW s \in ToSet(statement)
                 PROVE  /\ PlaceholderCount(TextOf(s.clauses)) = Len(s.bound)
                        /\ ValuesOf(s.clauses) = s.bound
    BY DEF EveryValueInItsPlace
  <2>2. s.clauses \in Seq(AnyClause) /\ s.bound = ValuesOf(s.clauses)
    BY DEF BuilderInv, GoodStatement
  <2>3. FitsHoles(TextOf(s.clauses), ValuesOf(s.clauses))
    BY <2>2, ClausesFilled
  <2>4. Scanned(TextOf(s.clauses)).count = Len(ValuesOf(s.clauses))
    BY <2>3 DEF FitsHoles
  <2> QED BY <2>2, <2>4 DEF PlaceholderCount
<1>2. WholeTableOnlyOnPurpose
  BY DEF BuilderInv, GoodStatement, WholeTableOnlyOnPurpose
<1> QED BY <1>1, <1>2 DEF BuilderSound

(* In whatever order a builder's calls come, each hole of the statement gets the value
   given for it (SqlBuilderSupport.h counts the holes, SqlQuery.h and SqlCrud.h order
   the values as the text), and a statement without a condition goes to the whole table
   only where that was asked for. *)
THEOREM BuilderIsSound == SqlSpec => []BuilderSound
<1>1. SqlInit => BuilderInv
  BY BuilderInitially
<1>2. BuilderInv /\ [SqlNext]_sqlVars => BuilderInv'
  BY BuilderStep
<1>3. BuilderInv => BuilderSound
  BY GoodStatementsAreSound
<1> QED BY <1>1, <1>2, <1>3, PTL DEF SqlSpec

-----------------------------------------------------------------------------
(* The rows of a batch *)

Pair == [field : Columns, value : Nat]
Row == [key : RowKeys, values : Seq(Pair)]

LEMMA SetPairType ==
    ASSUME NEW pairs \in Seq(Pair), NEW new \in Pair
    PROVE  SetField(pairs, new) \in Seq(Pair)
BY SetFieldType

(* SetFields sets the columns one after the other. *)
LEMMA SetFieldsEquations ==
    ASSUME NEW pairs \in Seq(Pair), NEW s \in Seq(Pair)
    PROVE  /\ SetFields(pairs, s) \in Seq(Pair)
           /\ SetFields(pairs, <<>>) = pairs
           /\ \A e \in Pair : SetFields(pairs, Append(s, e)) = SetField(SetFields(pairs, s), e)
<1> DEFINE V == Seq(Pair)
           E == Pair
           base == pairs
           G == [p \in V \X E |-> SetField(p[1], p[2])]
<1>1. \A v \in V : \A e \in E : SetField(v, e) \in V
  BY SetPairType
<1>2. base \in V
  OBVIOUS
<1>3. \A v \in V : \A e \in E : G[<<v, e>>] = SetField(v, e)
  OBVIOUS
<1>4. G \in [V \X E -> V]
  <2> HIDE DEF V, E
  <2>1. \A p \in V \X E : p[1] \in V /\ p[2] \in E
    OBVIOUS
  <2>2. \A p \in V \X E : SetField(p[1], p[2]) \in V
    BY <1>1, <2>1
  <2> QED BY <2>2
<1> HIDE DEF V, base, G
<1>5. ASSUME NEW x \in Seq(E)
      PROVE  Folding(V, E, G, base, x) /\ SetFields(pairs, x) = FoldOver(G, base, x)
  <2> DEFINE L == Len(x)
  <2>0. L \in Nat /\ \A n \in 1 .. L : x[n] \in E
    OBVIOUS
  <2>1. Folding(V, E, G, base, x)
    BY <1>2, <1>4 DEF Folding
  <2> HIDE DEF E
  <2>2. PICK f \in [0 .. Len(x) -> V] :
          /\ f[0] = base /\ \A n \in 1 .. Len(x) : f[n] = G[<<f[n - 1], x[n]>>]
          /\ FoldOver(G, base, x) = f[Len(x)]
    BY <2>1, FoldSteps
  <2>3. \E g : g = [n \in 0 .. L |-> IF n = 0 THEN base ELSE SetField(g[n - 1], x[n])]
    <3>1. ASSUME NEW n \in 0 .. L
          PROVE  f[n] = IF n = 0 THEN base ELSE SetField(f[n - 1], x[n])
      <4>1. CASE n = 0
        BY <2>2, <4>1
      <4>2. CASE n # 0
        <5>1. n \in 1 .. L /\ n - 1 \in 0 .. L
          BY <2>0, <4>2
        <5>2. f[n - 1] \in V /\ x[n] \in E /\ f[n] = G[<<f[n - 1], x[n]>>]
          BY <2>0, <2>2, <5>1
        <5>3. f[n] = SetField(f[n - 1], x[n])
          BY <1>3, <5>2
        <5> QED BY <4>2, <5>3
      <4> QED BY <4>1, <4>2
    <3>2. f = [n \in 0 .. L |-> f[n]]
      BY <2>2
    <3>3. f = [n \in 0 .. L |-> IF n = 0 THEN base ELSE SetField(f[n - 1], x[n])]
      BY <3>1, <3>2
    <3> QED BY <3>3
  <2> DEFINE g == CHOOSE g : g = [n \in 0 .. L |->
                      IF n = 0 THEN base ELSE SetField(g[n - 1], x[n])]
  <2>4. g = [n \in 0 .. L |-> IF n = 0 THEN base ELSE SetField(g[n - 1], x[n])]
    BY ONLY <2>3, Zenon
  <2>5. SetFields(pairs, x) = g[L]
    BY DEF SetFields, base
  <2> HIDE DEF g
  <2>6. g[0] = base
    <3>1. 0 \in 0 .. L
      BY <2>0
    <3> QED BY <2>4, <3>1
  <2>7. ASSUME NEW n \in 1 .. Len(x), g[n - 1] \in V PROVE g[n] = G[<<g[n - 1], x[n]>>]
    <3>1. n \in 0 .. L /\ n # 0 /\ x[n] \in E
      BY <2>0
    <3>2. g[n] = SetField(g[n - 1], x[n])
      BY <2>4, <3>1
    <3> QED BY <1>3, <2>7, <3>1, <3>2
  <2>8. g[Len(x)] = FoldOver(G, base, x)
    BY <2>1, <2>6, <2>7, FoldUnique
  <2> QED BY <2>1, <2>5, <2>8
<1> DEFINE empty == <<>>
<1>6. s \in Seq(E) /\ empty \in Seq(E) /\ \A e \in E : Append(s, e) \in Seq(E)
  BY EmptySeq
<1> HIDE DEF E
<1>7. /\ FoldOver(G, base, s) \in V
      /\ \A e \in E : FoldOver(G, base, Append(s, e)) = G[<<FoldOver(G, base, s), e>>]
  BY <1>5, <1>6, FoldEquations
<1>8. FoldOver(G, base, empty) = base
  BY <1>5, <1>6, FoldEquations
<1>9. SetFields(pairs, empty) = base
  BY <1>5, <1>6, <1>8
<1>10. SetFields(pairs, s) \in V
  BY <1>5, <1>6, <1>7
<1>11. ASSUME NEW e \in E PROVE SetFields(pairs, Append(s, e)) = SetField(SetFields(pairs, s), e)
  <2> DEFINE v == SetFields(pairs, s)
             t == Append(s, e)
  <2>1. v \in V /\ v = FoldOver(G, base, s) /\ t \in Seq(E)
    BY <1>5, <1>6, <1>10
  <2>2. SetFields(pairs, t) = FoldOver(G, base, t)
    BY <1>5, <2>1
  <2>3. FoldOver(G, base, t) = G[<<v, e>>]
    BY <1>7, <2>1
  <2> HIDE DEF v, t
  <2>4. SetFields(pairs, t) = SetField(v, e)
    BY <1>3, <2>1, <2>2, <2>3
  <2> QED BY <2>4 DEF v, t
<1> QED BY <1>9, <1>10, <1>11 DEF V, E, base

LEMMA NormalRowType ==
    ASSUME NEW row \in Row
    PROVE  /\ NormalRow(row) \in Row /\ NormalRow(row).key = row.key
           /\ NormalRow(row).values = SetFields(<<>>, row.values)
<1> DEFINE empty == <<>>
<1>1. row.values \in Seq(Pair) /\ row.key \in RowKeys
  BY DEF Row
<1>2. empty \in Seq(Pair)
  BY EmptySeq
<1> HIDE DEF empty
<1>3. SetFields(empty, row.values) \in Seq(Pair)
  BY <1>1, <1>2, SetFieldsEquations
<1> DEFINE v == SetFields(empty, row.values)
<1>4. NormalRow(row) = [row EXCEPT !.values = v]
  BY DEF NormalRow, empty
<1> HIDE DEF v
<1>5. NormalRow(row) \in Row /\ NormalRow(row).key = row.key /\ NormalRow(row).values = v
  BY <1>1, <1>3, <1>4 DEF Row, v
<1> QED BY <1>5 DEF v, empty

LEMMA KeepRowType ==
    ASSUME NEW kept \in Seq(Row), NEW row \in Row
    PROVE  KeepRow(kept, row) \in Seq(Row)
<1> DEFINE R == Row
<1> HIDE DEF R
<1>1. kept \in Seq(R) /\ row \in R
  BY DEF R
<1>2. KeepRow(kept, row) \in Seq(R)
  BY <1>1, AppendProperties DEF KeepRow
<1> QED BY <1>2 DEF R

KeyPlace(done, k) == SelectInSeq(done, LAMBDA r : r.key = k)
RowsWith(done, k) == {i \in 1 .. Len(done) : done[i].key = k}

LEMMA KeyPlaceFirst ==
    ASSUME NEW done \in Seq(Row), NEW k
    PROVE  IsFirstPlace(KeyPlace(done, k), Len(done), RowsWith(done, k))
<1> DEFINE I == RowsWith(done, k)
<1>1. KeyPlace(done, k) = IF I # {} THEN Min(I) ELSE 0
  BY DEF KeyPlace, SelectInSeq, RowsWith
<1>2. I \subseteq 1 .. Len(done) /\ I \subseteq Nat /\ Len(done) \in Nat
  BY DEF RowsWith
<1> HIDE DEF I
<1>3. I # {} => Min(I) \in I /\ \A y \in I : Min(I) <= y
  BY <1>2, LeastPlace
<1> QED BY <1>1, <1>2, <1>3 DEF IsFirstPlace, I

LEMMA MergedRow ==
    ASSUME NEW done \in Seq(Row), NEW row \in Row
    PROVE  LET n == KeyPlace(done, row.key)
           IN  /\ n = 0 => MergeRow(done, row) = Append(done, row)
               /\ n # 0 => /\ n \in 1 .. Len(done) /\ done[n].key = row.key
                           /\ [done[n] EXCEPT !.values = SetFields(@, row.values)] \in Row
                           /\ MergeRow(done, row)
                                = [done EXCEPT ![n] = [done[n] EXCEPT !.values = SetFields(@, row.values)]]
<1> DEFINE n == KeyPlace(done, row.key)
<1>1. MergeRow(done, row) = IF n = 0 THEN Append(done, row)
                            ELSE [done EXCEPT ![n].values = SetFields(@, row.values)]
  BY DEF MergeRow, KeyPlace
<1>2. IsFirstPlace(n, Len(done), RowsWith(done, row.key))
  BY KeyPlaceFirst
<1> HIDE DEF n
<1>3. ASSUME n # 0
      PROVE  /\ n \in 1 .. Len(done) /\ done[n].key = row.key
             /\ [done[n] EXCEPT !.values = SetFields(@, row.values)] \in Row
             /\ MergeRow(done, row)
                    = [done EXCEPT ![n] = [done[n] EXCEPT !.values = SetFields(@, row.values)]]
  <2>1. n \in 1 .. Len(done) /\ done[n].key = row.key
    BY <1>2, <1>3 DEF IsFirstPlace, RowsWith
  <2>2. done[n] \in Row
    BY <2>1
  <2>3. done[n].values \in Seq(Pair) /\ row.values \in Seq(Pair)
    BY <2>2 DEF Row
  <2>4. SetFields(done[n].values, row.values) \in Seq(Pair)
    BY <2>3, SetFieldsEquations
  <2>5. [done[n] EXCEPT !.values = SetFields(@, row.values)] \in Row
    <3> DEFINE v == SetFields(done[n].values, row.values)
    <3> HIDE DEF v
    <3>1. [done[n] EXCEPT !.values = v] \in Row
      BY <2>2, <2>4 DEF Row, v
    <3> QED BY <3>1 DEF v
  <2>6. MergeRow(done, row) = [done EXCEPT ![n].values = SetFields(@, row.values)]
    BY <1>1, <1>3
  <2> QED BY <2>1, <2>5, <2>6
<1> QED BY <1>1, <1>3 DEF n

LEMMA ReplacedAt ==
    ASSUME NEW S, NEW s \in Seq(S), NEW n \in 1 .. Len(s), NEW e \in S
    PROVE  /\ [s EXCEPT ![n] = e] \in Seq(S) /\ Len([s EXCEPT ![n] = e]) = Len(s)
           /\ \A i \in 1 .. Len(s) : [s EXCEPT ![n] = e][i] = IF i = n THEN e ELSE s[i]
OBVIOUS

LEMMA MergeRowType ==
    ASSUME NEW done \in Seq(Row), NEW row \in Row
    PROVE  MergeRow(done, row) \in Seq(Row)
<1> DEFINE n == KeyPlace(done, row.key)
           R == Row
           new == [done[n] EXCEPT !.values = SetFields(@, row.values)]
<1>1. n = 0 => MergeRow(done, row) = Append(done, row)
  BY MergedRow
<1>2. n # 0 => n \in 1 .. Len(done) /\ new \in R /\ MergeRow(done, row) = [done EXCEPT ![n] = new]
  BY MergedRow
<1>3. done \in Seq(R) /\ row \in R
  OBVIOUS
<1> HIDE DEF n, R, new
<1>4. n = 0 => MergeRow(done, row) \in Seq(R)
  BY <1>1, <1>3, AppendProperties
<1>5. n # 0 => MergeRow(done, row) \in Seq(R)
  BY <1>2, <1>3, ReplacedAt
<1>6. MergeRow(done, row) \in Seq(R)
  BY <1>4, <1>5
<1> QED BY <1>6 DEF R

LEMMA MeetFieldType ==
    ASSUME NEW met \in Seq(Columns), NEW f \in Columns
    PROVE  MeetField(met, f) \in Seq(Columns)
BY AppendProperties DEF MeetField

(* The last value a row gives a column. *)
LEMMA LastGivenLast ==
    ASSUME NEW row \in Row, NEW f
    PROVE  LET n == LastGiven(row, f)
               I == PlacesOf(row.values, f)
           IN  /\ n \in 0 .. Len(row.values) /\ (n = 0 <=> I = {})
               /\ n # 0 => n \in I /\ \A i \in I : n >= i
<1> DEFINE I == PlacesOf(row.values, f)
           len == Len(row.values)
<1>1. LastGiven(row, f) = IF I # {} THEN Max(I) ELSE 0
  BY DEF LastGiven, SelectLastInSeq, PlacesOf
<1>2. I \subseteq 1 .. len /\ len \in Nat
  BY DEF PlacesOf, Row
<1> HIDE DEF I, len
<1>3. I # {} => Max(I) \in I /\ \A y \in I : Max(I) >= y
  BY <1>2, GreatestPlace
<1>4. \A y \in I : y \in 1 .. len
  BY <1>2
<1> DEFINE n == LastGiven(row, f)
<1>5. n \in 0 .. len /\ (n = 0 <=> I = {}) /\ (n # 0 => n \in I /\ \A i \in I : n >= i)
  <2> HIDE DEF n
  <2>1. CASE I = {}
    BY <1>1, <1>2, <2>1 DEF n
  <2>2. CASE I # {}
    <3>1. n \in I /\ \A i \in I : n >= i
      BY <1>1, <1>3, <2>2 DEF n
    <3>2. n \in 1 .. len
      BY <1>4, <3>1
    <3> QED BY <1>2, <2>2, <3>1, <3>2
  <2> QED BY <2>1, <2>2
<1> QED BY <1>5 DEF I, len

LEMMA UpdatedByType ==
    ASSUME NEW row \in Row, NEW k, NEW before \in [Columns -> Nat]
    PROVE  UpdatedBy(row, k, before) \in [Columns -> Nat]
<1>1. ASSUME NEW f \in Columns, LastGiven(row, f) # 0
      PROVE  row.values[LastGiven(row, f)].value \in Nat
  <2>1. LastGiven(row, f) \in 1 .. Len(row.values)
    BY <1>1, LastGivenLast DEF PlacesOf
  <2>2. row.values \in Seq(Pair)
    BY DEF Row
  <2>3. row.values[LastGiven(row, f)] \in Pair
    BY <2>1, <2>2
  <2> QED BY <2>3 DEF Pair
<1> QED BY <1>1 DEF UpdatedBy

(* NormalizeRows keeps the rows that say something. *)
LEMMA NormalizeRowsEquations ==
    ASSUME NEW s \in Seq(Row)
    PROVE  /\ NormalizeRows(s) \in Seq(Row)
           /\ NormalizeRows(<<>>) = <<>>
           /\ \A e \in Row : NormalizeRows(Append(s, e)) = KeepRow(NormalizeRows(s), NormalRow(e))
<1> DEFINE V == Seq(Row)
           E == Row
           base == <<>>
           G == [p \in V \X E |-> KeepRow(p[1], NormalRow(p[2]))]
<1>1. \A v \in V : \A e \in E : KeepRow(v, NormalRow(e)) \in V
  BY KeepRowType, NormalRowType
<1>2. base \in V
  BY EmptySeq
<1>3. \A v \in V : \A e \in E : G[<<v, e>>] = KeepRow(v, NormalRow(e))
  OBVIOUS
<1>4. G \in [V \X E -> V]
  <2> HIDE DEF V, E
  <2>1. \A p \in V \X E : p[1] \in V /\ p[2] \in E
    OBVIOUS
  <2>2. \A p \in V \X E : KeepRow(p[1], NormalRow(p[2])) \in V
    BY <1>1, <2>1
  <2> QED BY <2>2
<1> HIDE DEF V, base, G
<1>5. ASSUME NEW x \in Seq(E)
      PROVE  Folding(V, E, G, base, x) /\ NormalizeRows(x) = FoldOver(G, base, x)
  <2> DEFINE L == Len(x)
  <2>0. L \in Nat /\ \A n \in 1 .. L : x[n] \in E
    OBVIOUS
  <2>1. Folding(V, E, G, base, x)
    BY <1>2, <1>4 DEF Folding
  <2> HIDE DEF E
  <2>2. PICK f \in [0 .. Len(x) -> V] :
          /\ f[0] = base /\ \A n \in 1 .. Len(x) : f[n] = G[<<f[n - 1], x[n]>>]
          /\ FoldOver(G, base, x) = f[Len(x)]
    BY <2>1, FoldSteps
  <2>3. \E g : g = [n \in 0 .. L |-> IF n = 0 THEN base ELSE KeepRow(g[n - 1], NormalRow(x[n]))]
    <3>1. ASSUME NEW n \in 0 .. L
          PROVE  f[n] = IF n = 0 THEN base ELSE KeepRow(f[n - 1], NormalRow(x[n]))
      <4>1. CASE n = 0
        BY <2>2, <4>1
      <4>2. CASE n # 0
        <5>1. n \in 1 .. L /\ n - 1 \in 0 .. L
          BY <2>0, <4>2
        <5>2. f[n - 1] \in V /\ x[n] \in E /\ f[n] = G[<<f[n - 1], x[n]>>]
          BY <2>0, <2>2, <5>1
        <5>3. f[n] = KeepRow(f[n - 1], NormalRow(x[n]))
          BY <1>3, <5>2
        <5> QED BY <4>2, <5>3
      <4> QED BY <4>1, <4>2
    <3>2. f = [n \in 0 .. L |-> f[n]]
      BY <2>2
    <3>3. f = [n \in 0 .. L |-> IF n = 0 THEN base ELSE KeepRow(f[n - 1], NormalRow(x[n]))]
      BY <3>1, <3>2
    <3> QED BY <3>3
  <2> DEFINE g == CHOOSE g : g = [n \in 0 .. L |->
                      IF n = 0 THEN base ELSE KeepRow(g[n - 1], NormalRow(x[n]))]
  <2>4. g = [n \in 0 .. L |-> IF n = 0 THEN base ELSE KeepRow(g[n - 1], NormalRow(x[n]))]
    BY ONLY <2>3, Zenon
  <2>5. NormalizeRows(x) = g[L]
    BY DEF NormalizeRows, base
  <2> HIDE DEF g
  <2>6. g[0] = base
    <3>1. 0 \in 0 .. L
      BY <2>0
    <3> QED BY <2>4, <3>1
  <2>7. ASSUME NEW n \in 1 .. Len(x), g[n - 1] \in V PROVE g[n] = G[<<g[n - 1], x[n]>>]
    <3>1. n \in 0 .. L /\ n # 0 /\ x[n] \in E
      BY <2>0
    <3>2. g[n] = KeepRow(g[n - 1], NormalRow(x[n]))
      BY <2>4, <3>1
    <3> QED BY <1>3, <2>7, <3>1, <3>2
  <2>8. g[Len(x)] = FoldOver(G, base, x)
    BY <2>1, <2>6, <2>7, FoldUnique
  <2> QED BY <2>1, <2>5, <2>8
<1> DEFINE empty == <<>>
<1>6. s \in Seq(E) /\ empty \in Seq(E) /\ \A e \in E : Append(s, e) \in Seq(E)
  BY EmptySeq
<1> HIDE DEF E
<1>7. /\ FoldOver(G, base, s) \in V
      /\ \A e \in E : FoldOver(G, base, Append(s, e)) = G[<<FoldOver(G, base, s), e>>]
  BY <1>5, <1>6, FoldEquations
<1>8. FoldOver(G, base, empty) = base
  BY <1>5, <1>6, FoldEquations
<1>9. NormalizeRows(empty) = base
  BY <1>5, <1>6, <1>8
<1>10. NormalizeRows(s) \in V
  BY <1>5, <1>6, <1>7
<1>11. ASSUME NEW e \in E PROVE NormalizeRows(Append(s, e)) = KeepRow(NormalizeRows(s), NormalRow(e))
  <2> DEFINE v == NormalizeRows(s)
             t == Append(s, e)
  <2>1. v \in V /\ v = FoldOver(G, base, s) /\ t \in Seq(E)
    BY <1>5, <1>6, <1>10
  <2>2. NormalizeRows(t) = FoldOver(G, base, t)
    BY <1>5, <2>1
  <2>3. FoldOver(G, base, t) = G[<<v, e>>]
    BY <1>7, <2>1
  <2> HIDE DEF v, t
  <2>4. NormalizeRows(t) = KeepRow(v, NormalRow(e))
    BY <1>3, <2>1, <2>2, <2>3
  <2> QED BY <2>4 DEF v, t
<1> QED BY <1>9, <1>10, <1>11 DEF V, E, base

(* MergeRows merges the rows one after the other. *)
LEMMA MergeRowsEquations ==
    ASSUME NEW s \in Seq(Row)
    PROVE  /\ MergeRows(s) \in Seq(Row)
           /\ MergeRows(<<>>) = <<>>
           /\ \A e \in Row : MergeRows(Append(s, e)) = MergeRow(MergeRows(s), e)
<1> DEFINE V == Seq(Row)
           E == Row
           base == <<>>
           G == [p \in V \X E |-> MergeRow(p[1], p[2])]
<1>1. \A v \in V : \A e \in E : MergeRow(v, e) \in V
  BY MergeRowType
<1>2. base \in V
  BY EmptySeq
<1>3. \A v \in V : \A e \in E : G[<<v, e>>] = MergeRow(v, e)
  OBVIOUS
<1>4. G \in [V \X E -> V]
  <2> HIDE DEF V, E
  <2>1. \A p \in V \X E : p[1] \in V /\ p[2] \in E
    OBVIOUS
  <2>2. \A p \in V \X E : MergeRow(p[1], p[2]) \in V
    BY <1>1, <2>1
  <2> QED BY <2>2
<1> HIDE DEF V, base, G
<1>5. ASSUME NEW x \in Seq(E)
      PROVE  Folding(V, E, G, base, x) /\ MergeRows(x) = FoldOver(G, base, x)
  <2> DEFINE L == Len(x)
  <2>0. L \in Nat /\ \A n \in 1 .. L : x[n] \in E
    OBVIOUS
  <2>1. Folding(V, E, G, base, x)
    BY <1>2, <1>4 DEF Folding
  <2> HIDE DEF E
  <2>2. PICK f \in [0 .. Len(x) -> V] :
          /\ f[0] = base /\ \A n \in 1 .. Len(x) : f[n] = G[<<f[n - 1], x[n]>>]
          /\ FoldOver(G, base, x) = f[Len(x)]
    BY <2>1, FoldSteps
  <2>3. \E g : g = [n \in 0 .. L |-> IF n = 0 THEN base ELSE MergeRow(g[n - 1], x[n])]
    <3>1. ASSUME NEW n \in 0 .. L
          PROVE  f[n] = IF n = 0 THEN base ELSE MergeRow(f[n - 1], x[n])
      <4>1. CASE n = 0
        BY <2>2, <4>1
      <4>2. CASE n # 0
        <5>1. n \in 1 .. L /\ n - 1 \in 0 .. L
          BY <2>0, <4>2
        <5>2. f[n - 1] \in V /\ x[n] \in E /\ f[n] = G[<<f[n - 1], x[n]>>]
          BY <2>0, <2>2, <5>1
        <5>3. f[n] = MergeRow(f[n - 1], x[n])
          BY <1>3, <5>2
        <5> QED BY <4>2, <5>3
      <4> QED BY <4>1, <4>2
    <3>2. f = [n \in 0 .. L |-> f[n]]
      BY <2>2
    <3>3. f = [n \in 0 .. L |-> IF n = 0 THEN base ELSE MergeRow(f[n - 1], x[n])]
      BY <3>1, <3>2
    <3> QED BY <3>3
  <2> DEFINE g == CHOOSE g : g = [n \in 0 .. L |->
                      IF n = 0 THEN base ELSE MergeRow(g[n - 1], x[n])]
  <2>4. g = [n \in 0 .. L |-> IF n = 0 THEN base ELSE MergeRow(g[n - 1], x[n])]
    BY ONLY <2>3, Zenon
  <2>5. MergeRows(x) = g[L]
    BY DEF MergeRows, base
  <2> HIDE DEF g
  <2>6. g[0] = base
    <3>1. 0 \in 0 .. L
      BY <2>0
    <3> QED BY <2>4, <3>1
  <2>7. ASSUME NEW n \in 1 .. Len(x), g[n - 1] \in V PROVE g[n] = G[<<g[n - 1], x[n]>>]
    <3>1. n \in 0 .. L /\ n # 0 /\ x[n] \in E
      BY <2>0
    <3>2. g[n] = MergeRow(g[n - 1], x[n])
      BY <2>4, <3>1
    <3> QED BY <1>3, <2>7, <3>1, <3>2
  <2>8. g[Len(x)] = FoldOver(G, base, x)
    BY <2>1, <2>6, <2>7, FoldUnique
  <2> QED BY <2>1, <2>5, <2>8
<1> DEFINE empty == <<>>
<1>6. s \in Seq(E) /\ empty \in Seq(E) /\ \A e \in E : Append(s, e) \in Seq(E)
  BY EmptySeq
<1> HIDE DEF E
<1>7. /\ FoldOver(G, base, s) \in V
      /\ \A e \in E : FoldOver(G, base, Append(s, e)) = G[<<FoldOver(G, base, s), e>>]
  BY <1>5, <1>6, FoldEquations
<1>8. FoldOver(G, base, empty) = base
  BY <1>5, <1>6, FoldEquations
<1>9. MergeRows(empty) = base
  BY <1>5, <1>6, <1>8
<1>10. MergeRows(s) \in V
  BY <1>5, <1>6, <1>7
<1>11. ASSUME NEW e \in E PROVE MergeRows(Append(s, e)) = MergeRow(MergeRows(s), e)
  <2> DEFINE v == MergeRows(s)
             t == Append(s, e)
  <2>1. v \in V /\ v = FoldOver(G, base, s) /\ t \in Seq(E)
    BY <1>5, <1>6, <1>10
  <2>2. MergeRows(t) = FoldOver(G, base, t)
    BY <1>5, <2>1
  <2>3. FoldOver(G, base, t) = G[<<v, e>>]
    BY <1>7, <2>1
  <2> HIDE DEF v, t
  <2>4. MergeRows(t) = MergeRow(v, e)
    BY <1>3, <2>1, <2>2, <2>3
  <2> QED BY <2>4 DEF v, t
<1> QED BY <1>9, <1>10, <1>11 DEF V, E, base

(* Distinct meets the names one after the other. *)
LEMMA DistinctEquations ==
    ASSUME NEW s \in Seq(Columns)
    PROVE  /\ Distinct(s) \in Seq(Columns)
           /\ Distinct(<<>>) = <<>>
           /\ \A e \in Columns : Distinct(Append(s, e)) = MeetField(Distinct(s), e)
<1> DEFINE V == Seq(Columns)
           E == Columns
           base == <<>>
           G == [p \in V \X E |-> MeetField(p[1], p[2])]
<1>1. \A v \in V : \A e \in E : MeetField(v, e) \in V
  BY MeetFieldType
<1>2. base \in V
  BY EmptySeq
<1>3. \A v \in V : \A e \in E : G[<<v, e>>] = MeetField(v, e)
  OBVIOUS
<1>4. G \in [V \X E -> V]
  <2> HIDE DEF V, E
  <2>1. \A p \in V \X E : p[1] \in V /\ p[2] \in E
    OBVIOUS
  <2>2. \A p \in V \X E : MeetField(p[1], p[2]) \in V
    BY <1>1, <2>1
  <2> QED BY <2>2
<1> HIDE DEF V, base, G
<1>5. ASSUME NEW x \in Seq(E)
      PROVE  Folding(V, E, G, base, x) /\ Distinct(x) = FoldOver(G, base, x)
  <2> DEFINE L == Len(x)
  <2>0. L \in Nat /\ \A n \in 1 .. L : x[n] \in E
    OBVIOUS
  <2>1. Folding(V, E, G, base, x)
    BY <1>2, <1>4 DEF Folding
  <2> HIDE DEF E
  <2>2. PICK f \in [0 .. Len(x) -> V] :
          /\ f[0] = base /\ \A n \in 1 .. Len(x) : f[n] = G[<<f[n - 1], x[n]>>]
          /\ FoldOver(G, base, x) = f[Len(x)]
    BY <2>1, FoldSteps
  <2>3. \E g : g = [n \in 0 .. L |-> IF n = 0 THEN base ELSE MeetField(g[n - 1], x[n])]
    <3>1. ASSUME NEW n \in 0 .. L
          PROVE  f[n] = IF n = 0 THEN base ELSE MeetField(f[n - 1], x[n])
      <4>1. CASE n = 0
        BY <2>2, <4>1
      <4>2. CASE n # 0
        <5>1. n \in 1 .. L /\ n - 1 \in 0 .. L
          BY <2>0, <4>2
        <5>2. f[n - 1] \in V /\ x[n] \in E /\ f[n] = G[<<f[n - 1], x[n]>>]
          BY <2>0, <2>2, <5>1
        <5>3. f[n] = MeetField(f[n - 1], x[n])
          BY <1>3, <5>2
        <5> QED BY <4>2, <5>3
      <4> QED BY <4>1, <4>2
    <3>2. f = [n \in 0 .. L |-> f[n]]
      BY <2>2
    <3>3. f = [n \in 0 .. L |-> IF n = 0 THEN base ELSE MeetField(f[n - 1], x[n])]
      BY <3>1, <3>2
    <3> QED BY <3>3
  <2> DEFINE g == CHOOSE g : g = [n \in 0 .. L |->
                      IF n = 0 THEN base ELSE MeetField(g[n - 1], x[n])]
  <2>4. g = [n \in 0 .. L |-> IF n = 0 THEN base ELSE MeetField(g[n - 1], x[n])]
    BY ONLY <2>3, Zenon
  <2>5. Distinct(x) = g[L]
    BY DEF Distinct, base
  <2> HIDE DEF g
  <2>6. g[0] = base
    <3>1. 0 \in 0 .. L
      BY <2>0
    <3> QED BY <2>4, <3>1
  <2>7. ASSUME NEW n \in 1 .. Len(x), g[n - 1] \in V PROVE g[n] = G[<<g[n - 1], x[n]>>]
    <3>1. n \in 0 .. L /\ n # 0 /\ x[n] \in E
      BY <2>0
    <3>2. g[n] = MeetField(g[n - 1], x[n])
      BY <2>4, <3>1
    <3> QED BY <1>3, <2>7, <3>1, <3>2
  <2>8. g[Len(x)] = FoldOver(G, base, x)
    BY <2>1, <2>6, <2>7, FoldUnique
  <2> QED BY <2>1, <2>5, <2>8
<1> DEFINE empty == <<>>
<1>6. s \in Seq(E) /\ empty \in Seq(E) /\ \A e \in E : Append(s, e) \in Seq(E)
  BY EmptySeq
<1> HIDE DEF E
<1>7. /\ FoldOver(G, base, s) \in V
      /\ \A e \in E : FoldOver(G, base, Append(s, e)) = G[<<FoldOver(G, base, s), e>>]
  BY <1>5, <1>6, FoldEquations
<1>8. FoldOver(G, base, empty) = base
  BY <1>5, <1>6, FoldEquations
<1>9. Distinct(empty) = base
  BY <1>5, <1>6, <1>8
<1>10. Distinct(s) \in V
  BY <1>5, <1>6, <1>7
<1>11. ASSUME NEW e \in E PROVE Distinct(Append(s, e)) = MeetField(Distinct(s), e)
  <2> DEFINE v == Distinct(s)
             t == Append(s, e)
  <2>1. v \in V /\ v = FoldOver(G, base, s) /\ t \in Seq(E)
    BY <1>5, <1>6, <1>10
  <2>2. Distinct(t) = FoldOver(G, base, t)
    BY <1>5, <2>1
  <2>3. FoldOver(G, base, t) = G[<<v, e>>]
    BY <1>7, <2>1
  <2> HIDE DEF v, t
  <2>4. Distinct(t) = MeetField(v, e)
    BY <1>3, <2>1, <2>2, <2>3
  <2> QED BY <2>4 DEF v, t
<1> QED BY <1>9, <1>10, <1>11 DEF V, E, base

(* OneByOne updates a row with the given rows one after the other. *)
LEMMA OneByOneEquations ==
    ASSUME NEW k, NEW s \in Seq(Row)
    PROVE  /\ OneByOne(s, k) \in [Columns -> Nat]
           /\ OneByOne(<<>>, k) = [f \in Columns |-> SqlNull]
           /\ \A e \in Row : OneByOne(Append(s, e), k) = UpdatedBy(e, k, OneByOne(s, k))
<1> DEFINE V == [Columns -> Nat]
           E == Row
           base == [f \in Columns |-> SqlNull]
           G == [p \in V \X E |-> UpdatedBy(p[2], k, p[1])]
<1>1. \A v \in V : \A e \in E : UpdatedBy(e, k, v) \in V
  BY UpdatedByType
<1>2. base \in V
  BY DEF SqlNull
<1>3. \A v \in V : \A e \in E : G[<<v, e>>] = UpdatedBy(e, k, v)
  OBVIOUS
<1>4. G \in [V \X E -> V]
  <2> HIDE DEF V, E
  <2>1. \A p \in V \X E : p[1] \in V /\ p[2] \in E
    OBVIOUS
  <2>2. \A p \in V \X E : UpdatedBy(p[2], k, p[1]) \in V
    BY <1>1, <2>1
  <2> QED BY <2>2
<1> HIDE DEF V, base, G
<1>5. ASSUME NEW x \in Seq(E)
      PROVE  Folding(V, E, G, base, x) /\ OneByOne(x, k) = FoldOver(G, base, x)
  <2> DEFINE L == Len(x)
  <2>0. L \in Nat /\ \A n \in 1 .. L : x[n] \in E
    OBVIOUS
  <2>1. Folding(V, E, G, base, x)
    BY <1>2, <1>4 DEF Folding
  <2> HIDE DEF E
  <2>2. PICK f \in [0 .. Len(x) -> V] :
          /\ f[0] = base /\ \A n \in 1 .. Len(x) : f[n] = G[<<f[n - 1], x[n]>>]
          /\ FoldOver(G, base, x) = f[Len(x)]
    BY <2>1, FoldSteps
  <2>3. \E g : g = [n \in 0 .. L |-> IF n = 0 THEN base ELSE UpdatedBy(x[n], k, g[n - 1])]
    <3>1. ASSUME NEW n \in 0 .. L
          PROVE  f[n] = IF n = 0 THEN base ELSE UpdatedBy(x[n], k, f[n - 1])
      <4>1. CASE n = 0
        BY <2>2, <4>1
      <4>2. CASE n # 0
        <5>1. n \in 1 .. L /\ n - 1 \in 0 .. L
          BY <2>0, <4>2
        <5>2. f[n - 1] \in V /\ x[n] \in E /\ f[n] = G[<<f[n - 1], x[n]>>]
          BY <2>0, <2>2, <5>1
        <5>3. f[n] = UpdatedBy(x[n], k, f[n - 1])
          BY <1>3, <5>2
        <5> QED BY <4>2, <5>3
      <4> QED BY <4>1, <4>2
    <3>2. f = [n \in 0 .. L |-> f[n]]
      BY <2>2
    <3>3. f = [n \in 0 .. L |-> IF n = 0 THEN base ELSE UpdatedBy(x[n], k, f[n - 1])]
      BY <3>1, <3>2
    <3> QED BY <3>3
  <2> DEFINE g == CHOOSE g : g = [n \in 0 .. L |->
                      IF n = 0 THEN base ELSE UpdatedBy(x[n], k, g[n - 1])]
  <2>4. g = [n \in 0 .. L |-> IF n = 0 THEN base ELSE UpdatedBy(x[n], k, g[n - 1])]
    BY ONLY <2>3, Zenon
  <2>5. OneByOne(x, k) = g[L]
    BY DEF OneByOne, base
  <2> HIDE DEF g
  <2>6. g[0] = base
    <3>1. 0 \in 0 .. L
      BY <2>0
    <3> QED BY <2>4, <3>1
  <2>7. ASSUME NEW n \in 1 .. Len(x), g[n - 1] \in V PROVE g[n] = G[<<g[n - 1], x[n]>>]
    <3>1. n \in 0 .. L /\ n # 0 /\ x[n] \in E
      BY <2>0
    <3>2. g[n] = UpdatedBy(x[n], k, g[n - 1])
      BY <2>4, <3>1
    <3> QED BY <1>3, <2>7, <3>1, <3>2
  <2>8. g[Len(x)] = FoldOver(G, base, x)
    BY <2>1, <2>6, <2>7, FoldUnique
  <2> QED BY <2>1, <2>5, <2>8
<1> DEFINE empty == <<>>
<1>6. s \in Seq(E) /\ empty \in Seq(E) /\ \A e \in E : Append(s, e) \in Seq(E)
  BY EmptySeq
<1> HIDE DEF E
<1>7. /\ FoldOver(G, base, s) \in V
      /\ \A e \in E : FoldOver(G, base, Append(s, e)) = G[<<FoldOver(G, base, s), e>>]
  BY <1>5, <1>6, FoldEquations
<1>8. FoldOver(G, base, empty) = base
  BY <1>5, <1>6, FoldEquations
<1>9. OneByOne(empty, k) = base
  BY <1>5, <1>6, <1>8
<1>10. OneByOne(s, k) \in V
  BY <1>5, <1>6, <1>7
<1>11. ASSUME NEW e \in E PROVE OneByOne(Append(s, e), k) = UpdatedBy(e, k, OneByOne(s, k))
  <2> DEFINE v == OneByOne(s, k)
             t == Append(s, e)
  <2>1. v \in V /\ v = FoldOver(G, base, s) /\ t \in Seq(E)
    BY <1>5, <1>6, <1>10
  <2>2. OneByOne(t, k) = FoldOver(G, base, t)
    BY <1>5, <2>1
  <2>3. FoldOver(G, base, t) = G[<<v, e>>]
    BY <1>7, <2>1
  <2> HIDE DEF v, t
  <2>4. OneByOne(t, k) = UpdatedBy(e, k, v)
    BY <1>3, <2>1, <2>2, <2>3
  <2> QED BY <2>4 DEF v, t
<1> QED BY <1>9, <1>10, <1>11 DEF V, E, base

(* Saying keeps the rows that say something. *)
LEMMA SayingEquations ==
    ASSUME NEW s \in Seq(Row)
    PROVE  /\ Saying(s) \in Seq(Row)
           /\ Saying(<<>>) = <<>>
           /\ \A e \in Row : Saying(Append(s, e)) = KeepRow(Saying(s), e)
<1> DEFINE V == Seq(Row)
           E == Row
           base == <<>>
           G == [p \in V \X E |-> KeepRow(p[1], p[2])]
<1>1. \A v \in V : \A e \in E : KeepRow(v, e) \in V
  BY KeepRowType
<1>2. base \in V
  BY EmptySeq
<1>3. \A v \in V : \A e \in E : G[<<v, e>>] = KeepRow(v, e)
  OBVIOUS
<1>4. G \in [V \X E -> V]
  <2> HIDE DEF V, E
  <2>1. \A p \in V \X E : p[1] \in V /\ p[2] \in E
    OBVIOUS
  <2>2. \A p \in V \X E : KeepRow(p[1], p[2]) \in V
    BY <1>1, <2>1
  <2> QED BY <2>2
<1> HIDE DEF V, base, G
<1>5. ASSUME NEW x \in Seq(E)
      PROVE  Folding(V, E, G, base, x) /\ Saying(x) = FoldOver(G, base, x)
  <2> DEFINE L == Len(x)
  <2>0. L \in Nat /\ \A n \in 1 .. L : x[n] \in E
    OBVIOUS
  <2>1. Folding(V, E, G, base, x)
    BY <1>2, <1>4 DEF Folding
  <2> HIDE DEF E
  <2>2. PICK f \in [0 .. Len(x) -> V] :
          /\ f[0] = base /\ \A n \in 1 .. Len(x) : f[n] = G[<<f[n - 1], x[n]>>]
          /\ FoldOver(G, base, x) = f[Len(x)]
    BY <2>1, FoldSteps
  <2>3. \E g : g = [n \in 0 .. L |-> IF n = 0 THEN base ELSE KeepRow(g[n - 1], x[n])]
    <3>1. ASSUME NEW n \in 0 .. L
          PROVE  f[n] = IF n = 0 THEN base ELSE KeepRow(f[n - 1], x[n])
      <4>1. CASE n = 0
        BY <2>2, <4>1
      <4>2. CASE n # 0
        <5>1. n \in 1 .. L /\ n - 1 \in 0 .. L
          BY <2>0, <4>2
        <5>2. f[n - 1] \in V /\ x[n] \in E /\ f[n] = G[<<f[n - 1], x[n]>>]
          BY <2>0, <2>2, <5>1
        <5>3. f[n] = KeepRow(f[n - 1], x[n])
          BY <1>3, <5>2
        <5> QED BY <4>2, <5>3
      <4> QED BY <4>1, <4>2
    <3>2. f = [n \in 0 .. L |-> f[n]]
      BY <2>2
    <3>3. f = [n \in 0 .. L |-> IF n = 0 THEN base ELSE KeepRow(f[n - 1], x[n])]
      BY <3>1, <3>2
    <3> QED BY <3>3
  <2> DEFINE g == CHOOSE g : g = [n \in 0 .. L |->
                      IF n = 0 THEN base ELSE KeepRow(g[n - 1], x[n])]
  <2>4. g = [n \in 0 .. L |-> IF n = 0 THEN base ELSE KeepRow(g[n - 1], x[n])]
    BY ONLY <2>3, Zenon
  <2>5. Saying(x) = g[L]
    BY DEF Saying, base
  <2> HIDE DEF g
  <2>6. g[0] = base
    <3>1. 0 \in 0 .. L
      BY <2>0
    <3> QED BY <2>4, <3>1
  <2>7. ASSUME NEW n \in 1 .. Len(x), g[n - 1] \in V PROVE g[n] = G[<<g[n - 1], x[n]>>]
    <3>1. n \in 0 .. L /\ n # 0 /\ x[n] \in E
      BY <2>0
    <3>2. g[n] = KeepRow(g[n - 1], x[n])
      BY <2>4, <3>1
    <3> QED BY <1>3, <2>7, <3>1, <3>2
  <2>8. g[Len(x)] = FoldOver(G, base, x)
    BY <2>1, <2>6, <2>7, FoldUnique
  <2> QED BY <2>1, <2>5, <2>8
<1> DEFINE empty == <<>>
<1>6. s \in Seq(E) /\ empty \in Seq(E) /\ \A e \in E : Append(s, e) \in Seq(E)
  BY EmptySeq
<1> HIDE DEF E
<1>7. /\ FoldOver(G, base, s) \in V
      /\ \A e \in E : FoldOver(G, base, Append(s, e)) = G[<<FoldOver(G, base, s), e>>]
  BY <1>5, <1>6, FoldEquations
<1>8. FoldOver(G, base, empty) = base
  BY <1>5, <1>6, FoldEquations
<1>9. Saying(empty) = base
  BY <1>5, <1>6, <1>8
<1>10. Saying(s) \in V
  BY <1>5, <1>6, <1>7
<1>11. ASSUME NEW e \in E PROVE Saying(Append(s, e)) = KeepRow(Saying(s), e)
  <2> DEFINE v == Saying(s)
             t == Append(s, e)
  <2>1. v \in V /\ v = FoldOver(G, base, s) /\ t \in Seq(E)
    BY <1>5, <1>6, <1>10
  <2>2. Saying(t) = FoldOver(G, base, t)
    BY <1>5, <2>1
  <2>3. FoldOver(G, base, t) = G[<<v, e>>]
    BY <1>7, <2>1
  <2> HIDE DEF v, t
  <2>4. Saying(t) = KeepRow(v, e)
    BY <1>3, <2>1, <2>2, <2>3
  <2> QED BY <2>4 DEF v, t
<1> QED BY <1>9, <1>10, <1>11 DEF V, E, base

-----------------------------------------------------------------------------
(* What a list of columns and values says of a column: the first place counts once
   repetitions are merged, the last one while they are not; None says nothing. *)

None == -1
Told(pairs, f) == IF PlaceOf(pairs, f) = 0 THEN None ELSE pairs[PlaceOf(pairs, f)].value
LastPlaceOf(pairs, f) == SelectLastInSeq(pairs, LAMBDA v : v.field = f)
LastTold(pairs, f) ==
    IF LastPlaceOf(pairs, f) = 0 THEN None ELSE pairs[LastPlaceOf(pairs, f)].value
OrNull(v) == IF v = None THEN SqlNull ELSE v

IsLast(n, len, I) ==
    /\ n \in 0 .. len /\ (n = 0 <=> I = {})
    /\ n # 0 => n \in I /\ \A i \in I : n >= i

LEMMA LastPlaceOfLast ==
    ASSUME NEW pairs \in Seq(Pair), NEW f
    PROVE  IsLast(LastPlaceOf(pairs, f), Len(pairs), PlacesOf(pairs, f))
<1> DEFINE I == PlacesOf(pairs, f)
           len == Len(pairs)
           n == LastPlaceOf(pairs, f)
<1>1. n = IF I # {} THEN Max(I) ELSE 0
  BY DEF LastPlaceOf, SelectLastInSeq, PlacesOf
<1>2. I \subseteq 1 .. len /\ len \in Nat
  BY DEF PlacesOf
<1> HIDE DEF I, len, n
<1>3. I # {} => Max(I) \in I /\ \A y \in I : Max(I) >= y
  BY <1>2, GreatestPlace
<1>4. IsLast(n, len, I)
  <2>1. CASE I = {}
    BY <1>1, <1>2, <2>1 DEF IsLast
  <2>2. CASE I # {}
    <3>1. n \in I /\ \A i \in I : n >= i
      BY <1>1, <1>3, <2>2
    <3>2. n \in 1 .. len
      BY <1>2, <3>1
    <3> QED BY <1>2, <2>2, <3>1, <3>2 DEF IsLast
  <2> QED BY <2>1, <2>2
<1> QED BY <1>4 DEF I, len, n

LEMMA OneFirst ==
    ASSUME NEW m, NEW n, NEW k \in Nat, NEW l \in Nat, NEW I, I \subseteq Nat \ {0},
           IsFirstPlace(m, k, I), IsFirstPlace(n, l, I)
    PROVE  m = n
<1>1. CASE I = {}
  BY <1>1 DEF IsFirstPlace
<1>2. CASE I # {}
  <2>1. m # 0 /\ n # 0
    BY <1>2 DEF IsFirstPlace
  <2>2. m \in I /\ n \in I
    BY <2>1 DEF IsFirstPlace
  <2>3. m <= n /\ n <= m
    BY <2>1, <2>2 DEF IsFirstPlace
  <2>4. m \in Nat /\ n \in Nat
    BY <2>2
  <2> QED BY <2>3, <2>4
<1> QED BY <1>1, <1>2

LEMMA OneLast ==
    ASSUME NEW m, NEW n, NEW k \in Nat, NEW l \in Nat, NEW I, I \subseteq Nat \ {0},
           IsLast(m, k, I), IsLast(n, l, I)
    PROVE  m = n
<1>1. CASE I = {}
  BY <1>1 DEF IsLast
<1>2. CASE I # {}
  <2>1. m # 0 /\ n # 0
    BY <1>2 DEF IsLast
  <2>2. m \in I /\ n \in I
    BY <2>1 DEF IsLast
  <2>3. m <= n /\ n <= m
    BY <2>1, <2>2 DEF IsLast
  <2>4. m \in Nat /\ n \in Nat
    BY <2>2
  <2> QED BY <2>3, <2>4
<1> QED BY <1>1, <1>2

LEMMA PlacesOfAppend ==
    ASSUME NEW pairs \in Seq(Pair), NEW v \in Pair, NEW f
    PROVE  /\ PlacesOf(pairs, f) \subseteq 1 .. Len(pairs) /\ Len(pairs) \in Nat
           /\ Append(pairs, v) \in Seq(Pair) /\ Len(Append(pairs, v)) = Len(pairs) + 1
           /\ \A i \in 1 .. Len(pairs) : Append(pairs, v)[i] = pairs[i]
           /\ Append(pairs, v)[Len(pairs) + 1] = v
           /\ PlacesOf(Append(pairs, v), f)
                = PlacesOf(pairs, f) \cup (IF v.field = f THEN {Len(pairs) + 1} ELSE {})
<1> DEFINE P == Pair
           a == Append(pairs, v)
           len == Len(pairs)
<1> HIDE DEF P
<1>1. /\ a \in Seq(P) /\ Len(a) = len + 1 /\ len \in Nat
      /\ (\A i \in 1 .. len : a[i] = pairs[i]) /\ a[len + 1] = v
  BY AppendProperties DEF P
<1> HIDE DEF a, len
<1>2. \A i : i \in 1 .. len + 1 <=> i \in 1 .. len \/ i = len + 1
  BY <1>1
<1>3. PlacesOf(a, f) = PlacesOf(pairs, f) \cup (IF v.field = f THEN {len + 1} ELSE {})
  <2>1. PlacesOf(a, f) = {i \in 1 .. len + 1 : a[i].field = f}
    BY <1>1 DEF PlacesOf
  <2>2. PlacesOf(pairs, f) = {i \in 1 .. len : pairs[i].field = f}
    BY DEF PlacesOf, len
  <2>3. ASSUME NEW i PROVE i \in PlacesOf(a, f)
                <=> i \in PlacesOf(pairs, f) \cup (IF v.field = f THEN {len + 1} ELSE {})
    <3>1. CASE i \in 1 .. len
      <4>1. i # len + 1
        BY <1>1, <3>1
      <4> QED BY <1>1, <1>2, <2>1, <2>2, <3>1, <4>1
    <3>2. CASE i \notin 1 .. len
      <4>1. CASE i = len + 1
        BY <1>1, <1>2, <2>1, <2>2, <3>2, <4>1
      <4>2. CASE i # len + 1
        BY <1>2, <2>1, <2>2, <3>2, <4>2
      <4> QED BY <4>1, <4>2
    <3> QED BY <3>1, <3>2
  <2> QED BY <2>3
<1>4. PlacesOf(pairs, f) \subseteq 1 .. len
  BY DEF PlacesOf, len
<1> QED BY <1>1, <1>3, <1>4 DEF a, len, P

LEMMA LastToldAppend ==
    ASSUME NEW pairs \in Seq(Pair), NEW v \in Pair, NEW f
    PROVE  LastTold(Append(pairs, v), f) = IF v.field = f THEN v.value ELSE LastTold(pairs, f)
<1> DEFINE a == Append(pairs, v)
           I == PlacesOf(pairs, f)
           J == PlacesOf(a, f)
           len == Len(pairs)
           m == LastPlaceOf(pairs, f)
           n == LastPlaceOf(a, f)
<1>1. /\ I \subseteq 1 .. len /\ len \in Nat /\ a \in Seq(Pair) /\ Len(a) = len + 1
      /\ (\A i \in 1 .. len : a[i] = pairs[i]) /\ a[len + 1] = v
      /\ J = I \cup (IF v.field = f THEN {len + 1} ELSE {})
  BY PlacesOfAppend
<1>2. IsLast(m, len, I)
  BY LastPlaceOfLast
<1> HIDE DEF a
<1>3. IsLast(n, len + 1, J)
  BY <1>1, LastPlaceOfLast
<1>4. LastTold(pairs, f) = IF m = 0 THEN None ELSE pairs[m].value
  BY DEF LastTold
<1>5. LastTold(a, f) = IF n = 0 THEN None ELSE a[n].value
  BY DEF LastTold
<1> HIDE DEF I, J, len, m, n
<1>6. CASE v.field = f
  <2>1. J = I \cup {len + 1}
    BY <1>1, <1>6
  <2>2. n \in J /\ n >= len + 1 /\ n \in 0 .. len + 1
    BY <1>3, <2>1 DEF IsLast
  <2>3. n = len + 1
    BY <1>1, <2>2
  <2>4. n # 0
    BY <1>1, <2>3
  <2> QED BY <1>1, <1>5, <1>6, <2>3, <2>4 DEF a
<1>7. CASE v.field # f
  <2>1. J = I
    BY <1>1, <1>7
  <2>2. I \subseteq Nat \ {0}
    BY <1>1
  <2>3. m = n
    <3>1. len + 1 \in Nat
      BY <1>1
    <3> QED BY <1>1, <1>2, <1>3, <2>1, <2>2, <3>1, OneLast
  <2>4. m # 0 => m \in 1 .. len
    BY <1>1, <1>2 DEF IsLast
  <2> QED BY <1>1, <1>4, <1>5, <1>7, <2>3, <2>4 DEF a
<1> QED BY <1>6, <1>7

(* Setting a column changes what is said of it and of nothing else. *)
LEMMA ToldSetField ==
    ASSUME NEW pairs \in Seq(Pair), NEW v \in Pair, NEW f
    PROVE  Told(SetField(pairs, v), f) = IF v.field = f THEN v.value ELSE Told(pairs, f)
<1> DEFINE g == v.field
           p == PlaceOf(pairs, g)
           s == SetField(pairs, v)
           I == PlacesOf(pairs, f)
           len == Len(pairs)
           m == PlaceOf(pairs, f)
           n == PlaceOf(s, f)
<1>1. IsFirstPlace(p, len, PlacesOf(pairs, g)) /\ IsFirstPlace(m, len, I) /\ s \in Seq(Pair)
  BY PlaceOfFirst, SetPairType
<1>2. s = IF p = 0 THEN Append(pairs, v) ELSE [pairs EXCEPT ![p] = v]
  BY DEF SetField
<1>3. I \subseteq 1 .. len /\ len \in Nat /\ PlacesOf(pairs, g) \subseteq 1 .. len
  BY DEF PlacesOf
<1>4. Told(pairs, f) = IF m = 0 THEN None ELSE pairs[m].value
  BY DEF Told
<1>5. Told(s, f) = IF n = 0 THEN None ELSE s[n].value
  BY DEF Told
<1> HIDE DEF s
<1>6. IsFirstPlace(n, Len(s), PlacesOf(s, f))
  BY <1>1, PlaceOfFirst
<1> HIDE DEF n, m
<1>7. CASE p = 0
  <2>1. /\ s = Append(pairs, v) /\ Len(s) = len + 1
        /\ (\A i \in 1 .. len : s[i] = pairs[i]) /\ s[len + 1] = v
        /\ PlacesOf(s, f) = I \cup (IF g = f THEN {len + 1} ELSE {})
    <3>1. s = Append(pairs, v)
      BY <1>2, <1>7
    <3> QED BY <3>1, PlacesOfAppend
  <2>2. PlacesOf(pairs, g) = {}
    BY <1>1, <1>7 DEF IsFirstPlace
  <2> HIDE DEF I, g, p, len
  <2>3. CASE g = f
    <3>1. PlacesOf(s, f) = {len + 1}
      BY <2>1, <2>2, <2>3 DEF I
    <3>2. n = len + 1
      BY <1>6, <3>1 DEF IsFirstPlace
    <3>3. n # 0
      BY <1>3, <3>2
    <3> QED BY <1>5, <2>1, <2>3, <3>2, <3>3 DEF g, s
  <2>4. CASE g # f
    <3>1. PlacesOf(s, f) = I /\ I \subseteq Nat \ {0}
      BY <1>3, <2>1, <2>4
    <3>2. m = n
      <4>1. len + 1 \in Nat
        BY <1>3
      <4> QED BY <1>1, <1>3, <1>6, <2>1, <3>1, <4>1, OneFirst
    <3>3. m # 0 => m \in 1 .. len
      BY <1>1, <1>3 DEF IsFirstPlace
    <3>4. m # 0 => s[n] = pairs[m]
      BY <2>1, <3>2, <3>3
    <3> QED BY <1>4, <1>5, <2>4, <3>2, <3>4 DEF g, s
  <2> QED BY <2>3, <2>4
<1>8. CASE p # 0
  <2>1. p \in 1 .. len /\ pairs[p].field = g /\ \A i \in PlacesOf(pairs, g) : p <= i
    BY <1>1, <1>8 DEF IsFirstPlace, PlacesOf
  <2>2. Len(s) = len /\ \A i \in 1 .. len : s[i] = IF i = p THEN v ELSE pairs[i]
    <3> HIDE DEF p
    <3>1. s = [pairs EXCEPT ![p] = v]
      BY <1>2, <1>8
    <3> QED BY <2>1, <3>1, ReplacedAt
  <2> HIDE DEF p, g, len
  <2>3. PlacesOf(s, f) = I
    <3>1. \A i \in 1 .. len : s[i].field = pairs[i].field
      BY <2>1, <2>2 DEF g
    <3> QED BY <2>2, <3>1 DEF PlacesOf, I, len
  <2> HIDE DEF I
  <2>4. m = n
    <3>1. I \subseteq Nat \ {0}
      BY <1>3
    <3> QED BY <1>1, <1>3, <1>6, <2>2, <2>3, <3>1, OneFirst
  <2>5. m # 0 => m \in 1 .. len /\ m \in I
    BY <1>1, <1>3 DEF IsFirstPlace
  <2>6. CASE g = f
    <3>1. p \in I /\ p \in PlacesOf(pairs, g)
      BY <2>1, <2>6 DEF I, PlacesOf, len
    <3>2. m # 0 /\ m <= p /\ p <= m
      <4>1. I = PlacesOf(pairs, g)
        BY <2>6 DEF I
      <4> QED BY <1>1, <2>1, <3>1, <4>1 DEF IsFirstPlace
    <3>3. m = p
      BY <2>1, <2>5, <3>2, <1>3
    <3> QED BY <1>5, <2>1, <2>2, <2>4, <2>6, <3>2, <3>3 DEF g, s
  <2>7. CASE g # f
    <3>1. m # 0 => m # p
      BY <2>1, <2>5, <2>7 DEF I, PlacesOf
    <3>2. m # 0 => s[n] = pairs[m]
      BY <2>2, <2>4, <2>5, <3>1
    <3> QED BY <1>4, <1>5, <2>4, <2>7, <3>2 DEF g, s
  <2> QED BY <2>6, <2>7
<1> QED BY <1>7, <1>8

LEMMA NothingTold ==
    ASSUME NEW f
    PROVE  Told(<<>>, f) = None /\ LastTold(<<>>, f) = None
<1> DEFINE empty == <<>>
<1>1. empty \in Seq(Pair) /\ PlacesOf(empty, f) = {}
  BY EmptySeq DEF PlacesOf
<1> HIDE DEF empty
<1>2. PlaceOf(empty, f) = 0 /\ LastPlaceOf(empty, f) = 0
  BY <1>1, PlaceOfFirst, LastPlaceOfLast DEF IsFirstPlace, IsLast
<1>3. Told(empty, f) = None /\ LastTold(empty, f) = None
  BY <1>2 DEF Told, LastTold
<1> QED BY <1>3 DEF empty

LEMMA ToldTypes ==
    ASSUME NEW pairs \in Seq(Pair), NEW f
    PROVE  Told(pairs, f) \in Nat \cup {None} /\ LastTold(pairs, f) \in Nat \cup {None}
<1>1. PlacesOf(pairs, f) \subseteq 1 .. Len(pairs)
  BY DEF PlacesOf
<1>2. PlaceOf(pairs, f) # 0 => PlaceOf(pairs, f) \in 1 .. Len(pairs)
  BY <1>1, PlaceOfFirst DEF IsFirstPlace
<1>3. LastPlaceOf(pairs, f) # 0 => LastPlaceOf(pairs, f) \in 1 .. Len(pairs)
  BY <1>1, LastPlaceOfLast DEF IsLast
<1>4. \A i \in 1 .. Len(pairs) : pairs[i].value \in Nat
  <2>1. \A i \in 1 .. Len(pairs) : pairs[i] \in Pair
    OBVIOUS
  <2> QED BY <2>1 DEF Pair
<1> QED BY <1>2, <1>3, <1>4 DEF Told, LastTold

LEMMA ToldSetFields ==
    ASSUME NEW pairs \in Seq(Pair), NEW news \in Seq(Pair), NEW f
    PROVE  Told(SetFields(pairs, news), f)
             = IF LastTold(news, f) # None THEN LastTold(news, f) ELSE Told(pairs, f)
<1> DEFINE P == Pair
           S == {x \in Seq(P) : Told(SetFields(pairs, x), f)
                    = IF LastTold(x, f) # None THEN LastTold(x, f) ELSE Told(pairs, f)}
<1>1. <<>> \in S
  <2>1. <<>> \in Seq(P)
    BY EmptySeq
  <2>2. SetFields(pairs, <<>>) = pairs
    BY SetFieldsEquations
  <2> QED BY <2>1, <2>2, NothingTold
<1>2. ASSUME NEW x \in Seq(P), NEW v \in P, x \in S PROVE Append(x, v) \in S
  <2>1. SetFields(pairs, Append(x, v)) = SetField(SetFields(pairs, x), v)
        /\ SetFields(pairs, x) \in Seq(Pair)
    BY SetFieldsEquations
  <2>2. Told(SetFields(pairs, Append(x, v)), f)
          = IF v.field = f THEN v.value ELSE Told(SetFields(pairs, x), f)
    BY <2>1, ToldSetField
  <2>3. LastTold(Append(x, v), f) = IF v.field = f THEN v.value ELSE LastTold(x, f)
    BY LastToldAppend
  <2>4. v.value # None
    BY DEF Pair, None
  <2>5. Append(x, v) \in Seq(P)
    BY AppendProperties
  <2> QED BY <1>2, <2>2, <2>3, <2>4, <2>5
<1>3. Seq(P) \subseteq S
  <2> HIDE DEF S, P
  <2> QED BY <1>1, <1>2, InductionOnSeq
<1> QED BY <1>3

(* Without repetitions the first place is the last one. *)
NoRepetition(pairs) ==
    \A i \in 1 .. Len(pairs) : \A j \in 1 .. Len(pairs) : pairs[i].field = pairs[j].field => i = j

LEMMA SetFieldNoRepetition ==
    ASSUME NEW pairs \in Seq(Pair), NEW v \in Pair, NoRepetition(pairs)
    PROVE  NoRepetition(SetField(pairs, v))
<1> DEFINE p == PlaceOf(pairs, v.field)
           s == SetField(pairs, v)
           len == Len(pairs)
<1>1. IsFirstPlace(p, len, PlacesOf(pairs, v.field)) /\ len \in Nat
  BY PlaceOfFirst
<1>2. s = IF p = 0 THEN Append(pairs, v) ELSE [pairs EXCEPT ![p] = v]
  BY DEF SetField
<1> HIDE DEF s, p
<1>3. CASE p = 0
  <2>1. /\ Len(s) = len + 1 /\ (\A i \in 1 .. len : s[i] = pairs[i]) /\ s[len + 1] = v
    BY <1>2, <1>3, PlacesOfAppend
  <2>2. \A i \in 1 .. len : pairs[i].field # v.field
    BY <1>1, <1>3 DEF IsFirstPlace, PlacesOf
  <2>3. \A i \in 1 .. len + 1 : i \in 1 .. len \/ i = len + 1
    BY <1>1
  <2> HIDE DEF len
  <2>4. ASSUME NEW i \in 1 .. len + 1, NEW j \in 1 .. len + 1, s[i].field = s[j].field
        PROVE  i = j
    <3>1. CASE i \in 1 .. len /\ j \in 1 .. len
      BY <2>1, <2>4, <3>1 DEF NoRepetition, len
    <3>2. CASE i \notin 1 .. len \/ j \notin 1 .. len
      BY <2>1, <2>2, <2>3, <2>4, <3>2
    <3> QED BY <3>1, <3>2
  <2> QED BY <2>1, <2>4 DEF NoRepetition, s
<1>4. CASE p # 0
  <2>1. p \in 1 .. len /\ pairs[p].field = v.field
    BY <1>1, <1>4 DEF IsFirstPlace, PlacesOf
  <2>2. Len(s) = len /\ \A i \in 1 .. len : s[i] = IF i = p THEN v ELSE pairs[i]
    BY <1>2, <1>4, <2>1, ReplacedAt
  <2>3. \A i \in 1 .. len : s[i].field = pairs[i].field
    BY <2>1, <2>2
  <2> QED BY <2>2, <2>3 DEF NoRepetition, s
<1> QED BY <1>3, <1>4

LEMMA SetFieldsNoRepetition ==
    ASSUME NEW pairs \in Seq(Pair), NEW news \in Seq(Pair), NoRepetition(pairs)
    PROVE  NoRepetition(SetFields(pairs, news)) /\ (news # <<>> => SetFields(pairs, news) # <<>>)
<1> DEFINE P == Pair
           S == {x \in Seq(P) : NoRepetition(SetFields(pairs, x))
                                /\ (x # <<>> => SetFields(pairs, x) # <<>>)}
<1>1. <<>> \in S
  <2>1. <<>> \in Seq(P)
    BY EmptySeq
  <2>2. SetFields(pairs, <<>>) = pairs
    BY SetFieldsEquations
  <2> QED BY <2>1, <2>2
<1>2. ASSUME NEW x \in Seq(P), NEW v \in P, x \in S PROVE Append(x, v) \in S
  <2>1. SetFields(pairs, Append(x, v)) = SetField(SetFields(pairs, x), v)
        /\ SetFields(pairs, x) \in Seq(Pair)
    BY SetFieldsEquations
  <2>2. NoRepetition(SetField(SetFields(pairs, x), v))
    BY <1>2, <2>1, SetFieldNoRepetition
  <2>3. SetField(SetFields(pairs, x), v) # <<>>
    <3> DEFINE q == SetField(SetFields(pairs, x), v)
    <3>1. Told(q, v.field) = v.value
      BY <2>1, ToldSetField
    <3>2. v.value # None
      BY DEF Pair, None
    <3> HIDE DEF q
    <3>3. q # <<>>
      BY <3>1, <3>2, NothingTold
    <3> QED BY <3>3 DEF q
  <2>4. Append(x, v) \in Seq(P)
    BY AppendProperties
  <2> QED BY <2>1, <2>2, <2>3, <2>4
<1>3. Seq(P) \subseteq S
  <2> HIDE DEF S, P
  <2> QED BY <1>1, <1>2, InductionOnSeq
<1> QED BY <1>3

LEMMA FirstIsLast ==
    ASSUME NEW pairs \in Seq(Pair), NoRepetition(pairs), NEW f
    PROVE  Told(pairs, f) = LastTold(pairs, f)
<1> DEFINE m == PlaceOf(pairs, f)
           n == LastPlaceOf(pairs, f)
           I == PlacesOf(pairs, f)
           len == Len(pairs)
<1>1. IsFirstPlace(m, len, I) /\ IsLast(n, len, I)
  BY PlaceOfFirst, LastPlaceOfLast
<1>2. \A i \in I : \A j \in I : i = j
  BY DEF NoRepetition, PlacesOf
<1> HIDE DEF m, n, I, len
<1>3. m = n
  BY <1>1, <1>2 DEF IsFirstPlace, IsLast
<1> QED BY <1>3 DEF Told, LastTold, m, n

(* A normal row says of each column what the given row says last. *)
LEMMA NormalRowSays ==
    ASSUME NEW row \in Row, NEW f
    PROVE  /\ Told(NormalRow(row).values, f) = LastTold(row.values, f)
           /\ LastTold(NormalRow(row).values, f) = LastTold(row.values, f)
           /\ NoRepetition(NormalRow(row).values)
           /\ NormalRow(row).values = <<>> <=> row.values = <<>>
<1> DEFINE empty == <<>>
           v == NormalRow(row).values
           r == row.values
<1>1. v = SetFields(empty, r) /\ v \in Seq(Pair) /\ r \in Seq(Pair)
  <2>1. NormalRow(row) \in Row
    BY NormalRowType
  <2> QED BY <2>1, NormalRowType DEF Row
<1>2. empty \in Seq(Pair) /\ NoRepetition(empty)
  BY EmptySeq DEF NoRepetition
<1>3. Told(empty, f) = None
  BY NothingTold
<1>4. r = empty => SetFields(empty, r) = empty
  <2>1. SetFields(empty, <<>>) = empty
    BY <1>2, SetFieldsEquations
  <2> QED BY <2>1
<1>5. NoRepetition(SetFields(empty, r)) /\ (r # <<>> => SetFields(empty, r) # <<>>)
  <2> HIDE DEF empty, r
  <2> QED BY <1>1, <1>2, SetFieldsNoRepetition
<1>6. Told(SetFields(empty, r), f)
          = IF LastTold(r, f) # None THEN LastTold(r, f) ELSE Told(empty, f)
  <2> HIDE DEF empty, r
  <2> QED BY <1>1, <1>2, ToldSetFields
<1> HIDE DEF v, r
<1>7. Told(v, f) = LastTold(r, f) /\ NoRepetition(v) /\ (v = empty <=> r = empty)
  BY <1>1, <1>3, <1>4, <1>5, <1>6
<1>8. Told(v, f) = LastTold(v, f)
  BY <1>1, <1>7, FirstIsLast
<1> QED BY <1>7, <1>8 DEF v, r

LEMMA UpdatedBySays ==
    ASSUME NEW row \in Row, NEW k, NEW before \in [Columns -> Nat], NEW f \in Columns
    PROVE  UpdatedBy(row, k, before)[f]
             = IF row.key = k /\ LastTold(row.values, f) # None THEN LastTold(row.values, f)
               ELSE before[f]
<1> DEFINE n == LastGiven(row, f)
<1>1. n = LastPlaceOf(row.values, f)
  BY DEF LastGiven, LastPlaceOf
<1>2. n # 0 => row.values[n].value # None
  <2>1. row.values \in Seq(Pair)
    BY DEF Row
  <2>2. n # 0 => n \in 1 .. Len(row.values)
    BY <1>1, <2>1, LastPlaceOfLast DEF IsLast
  <2>3. n # 0 => row.values[n] \in Pair
    BY <2>1, <2>2
  <2> QED BY <2>3 DEF Pair, None
<1> HIDE DEF n
<1>3. LastTold(row.values, f) = IF n = 0 THEN None ELSE row.values[n].value
  BY <1>1 DEF LastTold
<1>4. UpdatedBy(row, k, before)[f]
        = IF row.key = k /\ n # 0 THEN row.values[n].value ELSE before[f]
  BY DEF UpdatedBy, n
<1> QED BY <1>2, <1>3, <1>4

-----------------------------------------------------------------------------
(* Updates: merged rows say of each key what its rows say one after the other *)

UniqueKeys(rows) ==
    \A i \in 1 .. Len(rows) : \A j \in 1 .. Len(rows) : rows[i].key = rows[j].key => i = j
KeyTold(rows, k, f) ==
    IF KeyPlace(rows, k) = 0 THEN None ELSE Told(rows[KeyPlace(rows, k)].values, f)

LEMMA KeyPlaceIs ==
    ASSUME NEW rows \in Seq(Row), NEW k
    PROVE  /\ (\A i \in 1 .. Len(rows) : rows[i].key # k) => KeyPlace(rows, k) = 0
           /\ KeyPlace(rows, k) = 0 => \A i \in 1 .. Len(rows) : rows[i].key # k
           /\ KeyPlace(rows, k) # 0 =>
                KeyPlace(rows, k) \in 1 .. Len(rows) /\ rows[KeyPlace(rows, k)].key = k
           /\ \A i \in 1 .. Len(rows) : UniqueKeys(rows) /\ rows[i].key = k => KeyPlace(rows, k) = i
<1> DEFINE n == KeyPlace(rows, k)
           I == RowsWith(rows, k)
<1>1. IsFirstPlace(n, Len(rows), I)
  BY KeyPlaceFirst
<1>2. I = {i \in 1 .. Len(rows) : rows[i].key = k}
  BY DEF RowsWith
<1> HIDE DEF n, I
<1>3. (\A i \in 1 .. Len(rows) : rows[i].key # k) => n = 0
  BY <1>1, <1>2 DEF IsFirstPlace
<1>4. n = 0 => \A i \in 1 .. Len(rows) : rows[i].key # k
  BY <1>1, <1>2 DEF IsFirstPlace
<1>5. n # 0 => n \in 1 .. Len(rows) /\ rows[n].key = k
  BY <1>1, <1>2 DEF IsFirstPlace
<1>6. ASSUME NEW i \in 1 .. Len(rows), UniqueKeys(rows), rows[i].key = k PROVE n = i
  <2>1. n # 0
    BY <1>4, <1>6
  <2> QED BY <1>5, <1>6, <2>1 DEF UniqueKeys
<1> QED BY <1>3, <1>4, <1>5, <1>6 DEF n

LEMMA AppendedAt ==
    ASSUME NEW S, NEW s \in Seq(S), NEW e \in S
    PROVE  /\ Append(s, e) \in Seq(S) /\ Len(Append(s, e)) = Len(s) + 1 /\ Len(s) \in Nat
           /\ \A i \in 1 .. Len(s) : Append(s, e)[i] = s[i]
           /\ Append(s, e)[Len(s) + 1] = e
OBVIOUS

LEMMA MergeRowSays ==
    ASSUME NEW done \in Seq(Row), UniqueKeys(done), NEW r \in Row, NoRepetition(r.values)
    PROVE  /\ UniqueKeys(MergeRow(done, r))
           /\ \A k, f : KeyTold(MergeRow(done, r), k, f)
                 = IF r.key = k /\ LastTold(r.values, f) # None THEN LastTold(r.values, f)
                   ELSE KeyTold(done, k, f)
<1> DEFINE n == KeyPlace(done, r.key)
           new == [done[n] EXCEPT !.values = SetFields(@, r.values)]
           m == MergeRow(done, r)
           len == Len(done)
<1>1. n = 0 => m = Append(done, r)
  BY MergedRow
<1>2. n # 0 => n \in 1 .. len /\ done[n].key = r.key /\ new \in Row /\ m = [done EXCEPT ![n] = new]
  BY MergedRow
<1>3. n = 0 => \A i \in 1 .. len : done[i].key # r.key
  BY KeyPlaceIs
<1>4. m \in Seq(Row) /\ len \in Nat
  BY MergeRowType
<1>5. n # 0 => new.key = r.key /\ new.values = SetFields(done[n].values, r.values)
                /\ done[n].values \in Seq(Pair)
  <2>1. n # 0 => done[n] \in Row
    BY <1>2
  <2> HIDE DEF n
  <2> QED BY <1>2, <2>1 DEF Row
<1>6. r.values \in Seq(Pair)
  BY DEF Row
<1> HIDE DEF n, new, m
<1>7. CASE n = 0
  <2>1. /\ Len(m) = len + 1 /\ (\A i \in 1 .. len : m[i] = done[i]) /\ m[len + 1] = r
    BY <1>1, <1>7, AppendedAt
  <2>2. \A i \in 1 .. len + 1 : i \in 1 .. len \/ i = len + 1
    BY <1>4
  <2>6. len + 1 \in 1 .. len + 1 /\ \A i \in 1 .. len : i \in 1 .. len + 1
    BY <1>4
  <2>3. UniqueKeys(m)
    <3> SUFFICES ASSUME NEW i \in 1 .. len + 1, NEW j \in 1 .. len + 1, m[i].key = m[j].key
                 PROVE  i = j
      BY <2>1 DEF UniqueKeys
    <3>1. CASE i \in 1 .. len /\ j \in 1 .. len
      BY <2>1, <3>1 DEF UniqueKeys
    <3> HIDE DEF len
    <3>2. CASE i \notin 1 .. len \/ j \notin 1 .. len
      BY <1>3, <1>7, <2>1, <2>2, <3>2
    <3> QED BY <3>1, <3>2
  <2>4. ASSUME NEW k, NEW f
        PROVE  KeyTold(m, k, f)
                 = IF r.key = k /\ LastTold(r.values, f) # None THEN LastTold(r.values, f)
                   ELSE KeyTold(done, k, f)
    <3>1. CASE r.key = k
      <4>1. KeyPlace(m, k) = len + 1
        BY <1>4, <2>1, <2>3, <2>6, <3>1, KeyPlaceIs
      <4>2. KeyTold(m, k, f) = Told(r.values, f)
        <5>1. len + 1 # 0
          BY <1>4
        <5> QED BY <2>1, <4>1, <5>1 DEF KeyTold
      <4>3. Told(r.values, f) = LastTold(r.values, f)
        BY <1>6, FirstIsLast
      <4>4. KeyTold(done, k, f) = None
        BY <1>7, <3>1 DEF KeyTold, n
      <4> QED BY <3>1, <4>2, <4>3, <4>4
    <3>2. CASE r.key # k
      <4>1. KeyPlace(m, k) = KeyPlace(done, k)
        <5>1. CASE KeyPlace(done, k) = 0
          <6>1. \A i \in 1 .. len : done[i].key # k
            BY <5>1, KeyPlaceIs
          <6>2. \A i \in 1 .. Len(m) : m[i].key # k
            BY <2>1, <2>2, <3>2, <6>1
          <6> QED BY <1>4, <5>1, <6>2, KeyPlaceIs
        <5>2. CASE KeyPlace(done, k) # 0
          <6>1. KeyPlace(done, k) \in 1 .. len /\ done[KeyPlace(done, k)].key = k
            BY <5>2, KeyPlaceIs
          <6>2. KeyPlace(done, k) \in 1 .. Len(m) /\ m[KeyPlace(done, k)].key = k
            BY <2>1, <2>6, <6>1
          <6> QED BY <1>4, <2>3, <6>2, KeyPlaceIs
        <5> QED BY <5>1, <5>2
      <4>2. KeyPlace(done, k) # 0 => m[KeyPlace(done, k)] = done[KeyPlace(done, k)]
        BY <2>1, KeyPlaceIs
      <4> QED BY <3>2, <4>1, <4>2 DEF KeyTold
    <3> QED BY <3>1, <3>2
  <2> QED BY <2>3, <2>4 DEF m
<1>8. CASE n # 0
  <2>1. Len(m) = len /\ \A i \in 1 .. len : m[i] = IF i = n THEN new ELSE done[i]
    BY <1>2, <1>8, ReplacedAt
  <2>2. \A i \in 1 .. len : m[i].key = done[i].key
    BY <1>2, <1>5, <1>8, <2>1
  <2>3. UniqueKeys(m)
    BY <2>1, <2>2 DEF UniqueKeys
  <2>4. \A k : KeyPlace(m, k) = KeyPlace(done, k)
    <3> TAKE k
    <3>1. CASE KeyPlace(done, k) = 0
      <4>1. \A i \in 1 .. Len(m) : m[i].key # k
        BY <2>1, <2>2, <3>1, KeyPlaceIs
      <4> QED BY <1>4, <3>1, <4>1, KeyPlaceIs
    <3>2. CASE KeyPlace(done, k) # 0
      <4>1. KeyPlace(done, k) \in 1 .. len /\ done[KeyPlace(done, k)].key = k
        BY <3>2, KeyPlaceIs
      <4>2. KeyPlace(done, k) \in 1 .. Len(m) /\ m[KeyPlace(done, k)].key = k
        BY <2>1, <2>2, <4>1
      <4> QED BY <1>4, <2>3, <4>2, KeyPlaceIs
    <3> QED BY <3>1, <3>2
  <2>5. ASSUME NEW k, NEW f
        PROVE  KeyTold(m, k, f)
                 = IF r.key = k /\ LastTold(r.values, f) # None THEN LastTold(r.values, f)
                   ELSE KeyTold(done, k, f)
    <3>1. CASE r.key = k
      <4>1. KeyPlace(m, k) = n /\ KeyPlace(done, k) = n
        BY <2>4, <3>1 DEF n
      <4>2. m[n].values = SetFields(done[n].values, r.values)
        BY <1>2, <1>5, <1>8, <2>1
      <4>3. Told(SetFields(done[n].values, r.values), f)
               = IF LastTold(r.values, f) # None THEN LastTold(r.values, f)
                 ELSE Told(done[n].values, f)
        BY <1>5, <1>6, <1>8, ToldSetFields
      <4> QED BY <1>8, <3>1, <4>1, <4>2, <4>3 DEF KeyTold
    <3>2. CASE r.key # k
      <4>1. KeyPlace(done, k) # 0 =>
                KeyPlace(done, k) \in 1 .. len /\ done[KeyPlace(done, k)].key = k
        BY KeyPlaceIs
      <4>2. KeyPlace(done, k) # n
        BY <1>2, <1>8, <3>2, <4>1
      <4>3. KeyPlace(done, k) # 0 => m[KeyPlace(done, k)] = done[KeyPlace(done, k)]
        BY <2>1, <4>1, <4>2
      <4> QED BY <2>4, <3>2, <4>3 DEF KeyTold
    <3> QED BY <3>1, <3>2
  <2> QED BY <2>3, <2>5 DEF m
<1> QED BY <1>7, <1>8

LEMMA NoRows ==
    /\ <<>> \in Seq(Row) /\ NormalizeRows(<<>>) = <<>> /\ MergeRows(<<>>) = <<>> /\ Saying(<<>>) = <<>>
    /\ \A k : OneByOne(<<>>, k) = [f \in Columns |-> SqlNull]
    /\ \A k, f : KeyTold(<<>>, k, f) = None
<1>1. <<>> \in Seq(Row)
  BY EmptySeq
<1>2. NormalizeRows(<<>>) = <<>> /\ MergeRows(<<>>) = <<>> /\ Saying(<<>>) = <<>>
  BY <1>1, NormalizeRowsEquations, MergeRowsEquations, SayingEquations
<1>3. \A k : OneByOne(<<>>, k) = [f \in Columns |-> SqlNull]
  BY <1>1, OneByOneEquations
<1>4. ASSUME NEW k, NEW f PROVE KeyTold(<<>>, k, f) = None
  <2> DEFINE empty == <<>>
  <2>1. empty \in Seq(Row) /\ \A i \in 1 .. Len(empty) : empty[i].key # k
    BY <1>1
  <2> HIDE DEF empty
  <2>2. KeyPlace(empty, k) = 0
    BY <2>1, KeyPlaceIs
  <2>3. KeyTold(empty, k, f) = None
    BY <2>2 DEF KeyTold
  <2> QED BY <2>3 DEF empty
<1> QED BY <1>1, <1>2, <1>3, <1>4

LEMMA MergedSaysOneByOne ==
    ASSUME NEW rows \in Seq(Row)
    PROVE  /\ NormalizeBatchRows(rows) \in Seq(Row) /\ UniqueKeys(NormalizeBatchRows(rows))
           /\ \A k : OneByOne(rows, k)
                = [f \in Columns |-> OrNull(KeyTold(NormalizeBatchRows(rows), k, f))]
<1> DEFINE R == Row
           Says(x) == \A k : \A f \in Columns :
                        OneByOne(x, k)[f] = OrNull(KeyTold(NormalizeBatchRows(x), k, f))
           S == {x \in Seq(R) : UniqueKeys(NormalizeBatchRows(x)) /\ Says(x)}
<1>1. <<>> \in S
  <2>1. NormalizeBatchRows(<<>>) = <<>>
    BY NoRows DEF NormalizeBatchRows
  <2>2. Says(<<>>)
    BY <2>1, NoRows DEF OrNull
  <2>3. UniqueKeys(<<>>)
    BY DEF UniqueKeys
  <2> HIDE DEF Says
  <2> QED BY <2>1, <2>2, <2>3, NoRows
<1>2. ASSUME NEW x \in Seq(R), NEW row \in R, x \in S PROVE Append(x, row) \in S
  <2> DEFINE y == Append(x, row)
             normal == NormalizeRows(x)
             r == NormalRow(row)
             done == MergeRows(normal)
  <2>1. normal \in Seq(Row) /\ NormalizeRows(y) = KeepRow(normal, r)
    BY NormalizeRowsEquations
  <2>2. r \in Row /\ r.key = row.key
    BY NormalRowType
  <2>3. done \in Seq(Row) /\ MergeRows(Append(normal, r)) = MergeRow(done, r)
    <3> HIDE DEF normal, r
    <3> QED BY <2>1, <2>2, MergeRowsEquations
  <2>4. /\ NoRepetition(r.values) /\ (r.values = <<>> <=> row.values = <<>>)
        /\ \A f : LastTold(r.values, f) = LastTold(row.values, f)
    BY NormalRowSays
  <2>5. \A k : OneByOne(x, k) \in [Columns -> Nat] /\ OneByOne(y, k) = UpdatedBy(row, k, OneByOne(x, k))
    BY OneByOneEquations
  <2>6. UniqueKeys(done) /\ Says(x) /\ NormalizeBatchRows(x) = done
    BY <1>2 DEF NormalizeBatchRows
  <2>7. \A k, f : KeyTold(done, k, f) \in Nat \cup {None}
    <3> TAKE k, f
    <3>1. KeyPlace(done, k) # 0 => done[KeyPlace(done, k)] \in Row
      BY <2>3, KeyPlaceIs
    <3>2. KeyPlace(done, k) # 0 => done[KeyPlace(done, k)].values \in Seq(Pair)
      BY <3>1 DEF Row
    <3> HIDE DEF done
    <3> QED BY <3>2, ToldTypes DEF KeyTold
  <2>8. \A k : \A f \in Columns : OneByOne(y, k)[f]
          = IF row.key = k /\ LastTold(row.values, f) # None THEN LastTold(row.values, f)
            ELSE OneByOne(x, k)[f]
    BY <2>5, UpdatedBySays
  <2>9. y \in Seq(R)
    BY AppendProperties
  <2> HIDE DEF normal, r, done, y
  <2>10. CASE row.values = <<>>
    <3>1. NormalizeRows(y) = normal
      BY <2>1, <2>4, <2>10 DEF KeepRow
    <3>2. NormalizeBatchRows(y) = done
      BY <3>1 DEF NormalizeBatchRows, done
    <3>3. \A f : LastTold(row.values, f) = None
      BY <2>10, NothingTold
    <3>4. Says(y)
      BY <2>6, <2>8, <3>2, <3>3
    <3> HIDE DEF Says
    <3> QED BY <2>6, <2>9, <3>2, <3>4 DEF y
  <2>11. CASE row.values # <<>>
    <3>1. NormalizeRows(y) = Append(normal, r)
      BY <2>1, <2>4, <2>11 DEF KeepRow
    <3>2. NormalizeBatchRows(y) = MergeRow(done, r)
      BY <2>3, <3>1 DEF NormalizeBatchRows
    <3>3. /\ UniqueKeys(MergeRow(done, r))
          /\ \A k, f : KeyTold(MergeRow(done, r), k, f)
                 = IF r.key = k /\ LastTold(r.values, f) # None THEN LastTold(r.values, f)
                   ELSE KeyTold(done, k, f)
      BY <2>2, <2>3, <2>4, <2>6, MergeRowSays
    <3>4. ASSUME NEW k, NEW f \in Columns
          PROVE  OneByOne(y, k)[f] = OrNull(KeyTold(NormalizeBatchRows(y), k, f))
      <4>1. OneByOne(x, k)[f] = OrNull(KeyTold(done, k, f))
        BY <2>6
      <4>2. KeyTold(NormalizeBatchRows(y), k, f)
              = IF row.key = k /\ LastTold(row.values, f) # None THEN LastTold(row.values, f)
                ELSE KeyTold(done, k, f)
        BY <2>2, <2>4, <3>2, <3>3
      <4>3. OneByOne(y, k)[f]
              = IF row.key = k /\ LastTold(row.values, f) # None THEN LastTold(row.values, f)
                ELSE OneByOne(x, k)[f]
        BY <2>8
      <4> QED BY <4>1, <4>2, <4>3 DEF OrNull
    <3>5. Says(y)
      BY <3>4
    <3> HIDE DEF Says
    <3> QED BY <2>9, <3>2, <3>3, <3>5 DEF y
  <2> QED BY <2>10, <2>11
<1>3. Seq(R) \subseteq S
  <2> HIDE DEF S, R
  <2> QED BY <1>1, <1>2, InductionOnSeq
<1>4. UniqueKeys(NormalizeBatchRows(rows)) /\ Says(rows)
  BY <1>3
<1>5. NormalizeBatchRows(rows) \in Seq(Row)
  BY NormalizeRowsEquations, MergeRowsEquations DEF NormalizeBatchRows
<1>6. \A k : OneByOne(rows, k) = [f \in Columns |-> OneByOne(rows, k)[f]]
  <2>1. \A k : OneByOne(rows, k) \in [Columns -> Nat]
    BY OneByOneEquations
  <2> QED BY <2>1
<1>7. \A k : OneByOne(rows, k) = [f \in Columns |-> OrNull(KeyTold(NormalizeBatchRows(rows), k, f))]
  <2> TAKE k
  <2>1. \A f \in Columns : OneByOne(rows, k)[f] = OrNull(KeyTold(NormalizeBatchRows(rows), k, f))
    BY <1>4
  <2> QED BY <1>6, <2>1
<1> QED BY <1>4, <1>5, <1>7

-----------------------------------------------------------------------------
(* Inserts: the rows kept, their columns and their parameters *)

LEMMA KeptInStep ==
    ASSUME NEW rows \in Seq(Row)
    PROVE  /\ Saying(rows) \in Seq(Row) /\ NormalizeRows(rows) \in Seq(Row)
           /\ Len(NormalizeRows(rows)) = Len(Saying(rows))
           /\ \A i \in 1 .. Len(Saying(rows)) : NormalizeRows(rows)[i] = NormalRow(Saying(rows)[i])
<1> DEFINE R == Row
           S == {x \in Seq(R) :
                    /\ Len(NormalizeRows(x)) = Len(Saying(x))
                    /\ \A i \in 1 .. Len(Saying(x)) : NormalizeRows(x)[i] = NormalRow(Saying(x)[i])}
<1>1. <<>> \in S
  <2>1. NormalizeRows(<<>>) = <<>> /\ Saying(<<>>) = <<>> /\ <<>> \in Seq(R)
    BY NoRows
  <2>2. \A i \in 1 .. Len(<<>>) : FALSE
    OBVIOUS
  <2> QED BY <2>1, <2>2
<1>2. ASSUME NEW x \in Seq(R), NEW row \in R, x \in S PROVE Append(x, row) \in S
  <2> DEFINE n == NormalizeRows(x)
             s == Saying(x)
             r == NormalRow(row)
             y == Append(x, row)
  <2>1. n \in Seq(Row) /\ NormalizeRows(y) = KeepRow(n, r)
    BY NormalizeRowsEquations
  <2>2. s \in Seq(Row) /\ Saying(y) = KeepRow(s, row)
    BY SayingEquations
  <2>3. r \in Row /\ (r.values = <<>> <=> row.values = <<>>)
    BY NormalRowType, NormalRowSays
  <2>4. Len(n) = Len(s) /\ \A i \in 1 .. Len(s) : n[i] = NormalRow(s[i])
    BY <1>2
  <2>5. y \in Seq(R)
    BY AppendProperties
  <2> HIDE DEF n, s, r, y
  <2>6. CASE row.values = <<>>
    <3>1. NormalizeRows(y) = n /\ Saying(y) = s
      BY <2>1, <2>2, <2>3, <2>6 DEF KeepRow
    <3> QED BY <2>4, <2>5, <3>1 DEF y
  <2>7. CASE row.values # <<>>
    <3> DEFINE an == Append(n, r)
               as == Append(s, row)
    <3>1. NormalizeRows(y) = an /\ Saying(y) = as
      BY <2>1, <2>2, <2>3, <2>7 DEF KeepRow
    <3>2. Len(an) = Len(n) + 1 /\ (\A i \in 1 .. Len(n) : an[i] = n[i]) /\ an[Len(n) + 1] = r
      BY <2>1, <2>3, AppendedAt
    <3>3. Len(as) = Len(s) + 1 /\ (\A i \in 1 .. Len(s) : as[i] = s[i]) /\ as[Len(s) + 1] = row
          /\ Len(s) \in Nat
      BY <2>2, AppendedAt
    <3>4. \A i \in 1 .. Len(s) + 1 : i \in 1 .. Len(s) \/ i = Len(s) + 1
      BY <3>3
    <3> HIDE DEF an, as
    <3>5. ASSUME NEW i \in 1 .. Len(as) PROVE an[i] = NormalRow(as[i])
      <4>1. CASE i \in 1 .. Len(s)
        BY <2>4, <3>2, <3>3, <4>1
      <4>2. CASE i = Len(s) + 1
        BY <2>4, <3>2, <3>3, <4>2 DEF r
      <4> QED BY <3>3, <3>4, <4>1, <4>2
    <3>6. Len(an) = Len(as)
      BY <2>4, <3>2, <3>3
    <3> QED BY <2>5, <3>1, <3>5, <3>6 DEF y
  <2> QED BY <2>6, <2>7
<1>3. Seq(R) \subseteq S
  <2> HIDE DEF S, R
  <2> QED BY <1>1, <1>2, InductionOnSeq
<1> QED BY <1>3, SayingEquations, NormalizeRowsEquations

LEMMA DistinctHasAll ==
    ASSUME NEW names \in Seq(Columns)
    PROVE  ToSet(names) \subseteq ToSet(Distinct(names)) /\ Distinct(names) \in Seq(Columns)
<1> DEFINE C == Columns
           S == {x \in Seq(C) : ToSet(x) \subseteq ToSet(Distinct(x))}
<1>1. <<>> \in S
  <2>1. <<>> \in Seq(C) /\ ToSet(<<>>) = {}
    BY EmptySeq DEF ToSet
  <2> QED BY <2>1
<1>2. ASSUME NEW x \in Seq(C), NEW f \in C, x \in S PROVE Append(x, f) \in S
  <2> DEFINE d == Distinct(x)
             y == Append(x, f)
  <2>1. d \in Seq(Columns) /\ Distinct(y) = MeetField(d, f)
    BY DistinctEquations
  <2>2. ToSet(y) = ToSet(x) \cup {f} /\ ToSet(x) \subseteq ToSet(d)
    BY <1>2, ToSetAppend
  <2>3. y \in Seq(C)
    BY AppendProperties
  <2> HIDE DEF d, y
  <2>4. CASE Contains(d, f)
    <3>1. f \in ToSet(d)
      BY <2>1, <2>4 DEF Contains, ToSet
    <3>2. Distinct(y) = d
      BY <2>1, <2>4 DEF MeetField
    <3> QED BY <2>2, <2>3, <3>1, <3>2 DEF y
  <2>5. CASE ~Contains(d, f)
    <3>1. Distinct(y) = Append(d, f)
      BY <2>1, <2>5 DEF MeetField
    <3>2. ToSet(Append(d, f)) = ToSet(d) \cup {f}
      BY <2>1, ToSetAppend
    <3> QED BY <2>2, <2>3, <3>1, <3>2 DEF y
  <2> QED BY <2>4, <2>5
<1>3. Seq(C) \subseteq S
  <2> HIDE DEF S, C
  <2> QED BY <1>1, <1>2, InductionOnSeq
<1> QED BY <1>3, DistinctEquations

LEMMA ToSetConcat ==
    ASSUME NEW T, NEW a \in Seq(T), NEW b \in Seq(T)
    PROVE  ToSet(a) \subseteq ToSet(a \o b) /\ ToSet(b) \subseteq ToSet(a \o b)
<1> DEFINE c == a \o b
<1>1. /\ c \in Seq(T) /\ Len(c) = Len(a) + Len(b) /\ Len(a) \in Nat /\ Len(b) \in Nat
      /\ (\A i \in 1 .. Len(a) : c[i] = a[i]) /\ \A i \in 1 .. Len(b) : c[Len(a) + i] = b[i]
  BY ConcatAt
<1>2. DOMAIN a = 1 .. Len(a) /\ DOMAIN b = 1 .. Len(b) /\ DOMAIN c = 1 .. Len(a) + Len(b)
  BY <1>1
<1> HIDE DEF c
<1>3. \A i \in 1 .. Len(a) : i \in 1 .. Len(a) + Len(b)
  BY <1>1
<1>4. \A i \in 1 .. Len(b) : Len(a) + i \in 1 .. Len(a) + Len(b)
  BY <1>1
<1>5. ToSet(a) \subseteq ToSet(c)
  BY <1>1, <1>2, <1>3 DEF ToSet
<1>6. ToSet(b) \subseteq ToSet(c)
  BY <1>1, <1>2, <1>4 DEF ToSet
<1> QED BY <1>5, <1>6 DEF c

LEMMA FlattenHasAll ==
    ASSUME NEW T, NEW s \in Seq(Seq(T))
    PROVE  \A i \in 1 .. Len(s) : ToSet(s[i]) \subseteq ToSet(FlattenSeq(s))
<1> DEFINE Q == Seq(T)
           S == {x \in Seq(Q) : \A i \in 1 .. Len(x) : ToSet(x[i]) \subseteq ToSet(FlattenSeq(x))}
<1>1. <<>> \in S
  <2>1. <<>> \in Seq(Q) /\ \A i \in 1 .. Len(<<>>) : FALSE
    BY EmptySeq
  <2> QED BY <2>1
<1>2. ASSUME NEW x \in Seq(Q), NEW e \in Q, x \in S PROVE Append(x, e) \in S
  <2> DEFINE y == Append(x, e)
             fx == FlattenSeq(x)
             fy == FlattenSeq(y)
  <2>1. fx \in Seq(T) /\ fy = fx \o e
    BY FlattenEquations
  <2>2. ToSet(fx) \subseteq ToSet(fy) /\ ToSet(e) \subseteq ToSet(fy)
    BY <2>1, ToSetConcat
  <2>3. y \in Seq(Q) /\ Len(y) = Len(x) + 1 /\ (\A i \in 1 .. Len(x) : y[i] = x[i]) /\ y[Len(x) + 1] = e
        /\ Len(x) \in Nat
    BY AppendedAt
  <2>4. \A i \in 1 .. Len(x) : ToSet(x[i]) \subseteq ToSet(fx)
    BY <1>2
  <2> HIDE DEF y, fx, fy
  <2>5. ASSUME NEW i \in 1 .. Len(y) PROVE ToSet(y[i]) \subseteq ToSet(fy)
    <3>1. CASE i = Len(x) + 1
      BY <2>2, <2>3, <3>1
    <3>2. CASE i # Len(x) + 1
      <4>1. i \in 1 .. Len(x)
        BY <2>3, <3>2
      <4> QED BY <2>2, <2>3, <2>4, <4>1
    <3> QED BY <3>1, <3>2
  <2>6. \A i \in 1 .. Len(y) : ToSet(y[i]) \subseteq ToSet(FlattenSeq(y))
    BY <2>5 DEF fy
  <2> HIDE DEF Q
  <2> QED BY <2>3, <2>6 DEF y
<1>3. Seq(Q) \subseteq S
  <2> HIDE DEF S, Q
  <2> QED BY <1>1, <1>2, InductionOnSeq
<1> QED BY <1>3

(* The columns of a batch are those of all its rows. *)
Covers(columns, rows) ==
    \A i \in 1 .. Len(rows) : \A f : PlaceOf(rows[i].values, f) # 0 => f \in ToSet(columns)

LEMMA ColumnsOfAll ==
    ASSUME NEW rows \in Seq(Row)
    PROVE  CollectFields(rows) \in Seq(Columns) /\ Covers(CollectFields(rows), rows)
<1> DEFINE H == [row \in Row |-> FieldsOf(row)]
           all == [i \in DOMAIN rows |-> FieldsOf(rows[i])]
           names == FlattenSeq(all)
<1>1. ASSUME NEW row \in Row PROVE FieldsOf(row) \in Seq(Columns)
  <2> DEFINE v == row.values
  <2>1. v \in Seq(Pair)
    BY DEF Row
  <2>2. DOMAIN v = 1 .. Len(v) /\ Len(v) \in Nat /\ \A j \in 1 .. Len(v) : v[j].field \in Columns
    <3>1. \A j \in 1 .. Len(v) : v[j] \in Pair
      BY <2>1
    <3>2. DOMAIN v = 1 .. Len(v) /\ Len(v) \in Nat
      BY <2>1
    <3> HIDE DEF v
    <3> QED BY <3>1, <3>2 DEF Pair
  <2>3. FieldsOf(row) = [j \in DOMAIN v |-> v[j].field]
    BY DEF FieldsOf
  <2> HIDE DEF v
  <2> QED BY <2>2, <2>3
<1>2. all \in Seq(Seq(Columns)) /\ Len(all) = Len(rows)
      /\ \A i \in 1 .. Len(rows) : all[i] = FieldsOf(rows[i])
  <2>1. DOMAIN rows = 1 .. Len(rows) /\ Len(rows) \in Nat /\ \A i \in 1 .. Len(rows) : rows[i] \in Row
    OBVIOUS
  <2>2. \A i \in 1 .. Len(rows) : FieldsOf(rows[i]) \in Seq(Columns)
    BY <1>1, <2>1
  <2> DEFINE Q == Seq(Columns)
  <2> HIDE DEF Q
  <2>3. \A i \in 1 .. Len(rows) : FieldsOf(rows[i]) \in Q
    BY <2>2 DEF Q
  <2>4. all \in Seq(Q) /\ Len(all) = Len(rows) /\ \A i \in 1 .. Len(rows) : all[i] = FieldsOf(rows[i])
    BY <2>1, <2>3
  <2> QED BY <2>4 DEF Q
<1> HIDE DEF all
<1>3. names \in Seq(Columns) /\ \A i \in 1 .. Len(all) : ToSet(all[i]) \subseteq ToSet(names)
  BY <1>2, FlattenEquations, FlattenHasAll
<1>4. CollectFields(rows) = Distinct(names)
  BY DEF CollectFields, all
<1> HIDE DEF names
<1>5. Distinct(names) \in Seq(Columns) /\ ToSet(names) \subseteq ToSet(Distinct(names))
  BY <1>3, DistinctHasAll
<1>6. ASSUME NEW i \in 1 .. Len(rows), NEW f, PlaceOf(rows[i].values, f) # 0
      PROVE  f \in ToSet(all[i])
  <2> DEFINE v == rows[i].values
             n == PlaceOf(v, f)
  <2>1. v \in Seq(Pair)
    <3>1. rows[i] \in Row
      OBVIOUS
    <3> QED BY <3>1 DEF Row
  <2>2. IsFirstPlace(n, Len(v), PlacesOf(v, f))
    BY <2>1, PlaceOfFirst
  <2>3. n \in 1 .. Len(v) /\ v[n].field = f
    BY <1>6, <2>2 DEF IsFirstPlace, PlacesOf
  <2>4. DOMAIN v = 1 .. Len(v)
    BY <2>1
  <2>5. all[i] = [j \in DOMAIN v |-> v[j].field]
    BY <1>2 DEF FieldsOf
  <2> HIDE DEF v, n
  <2> QED BY <2>3, <2>4, <2>5 DEF ToSet
<1> QED BY <1>2, <1>3, <1>4, <1>5, <1>6 DEF Covers

(* Rows of one width: where the parameters of a row are. *)
HasWidth(rows, w) == \A i \in 1 .. Len(rows) : Len(rows[i]) = w
Aligned(flat, rows, w) ==
    \A i \in 1 .. Len(rows) : \A j \in 1 .. w : flat[(i - 1) * w + j] = rows[i][j]

LEMMA FlattenEqualWidths ==
    ASSUME NEW T, NEW w \in Nat, NEW s \in Seq(Seq(T)), HasWidth(s, w)
    PROVE  Aligned(FlattenSeq(s), s, w)
<1> DEFINE Q == Seq(T)
           Wide(x) == \A i \in 1 .. Len(x) : Len(x[i]) = w
           Placed(x) == /\ Len(FlattenSeq(x)) = Len(x) * w
                        /\ \A i \in 1 .. Len(x) : \A j \in 1 .. w :
                                FlattenSeq(x)[(i - 1) * w + j] = x[i][j]
           S == {x \in Seq(Q) : Wide(x) => Placed(x)}
<1>1. <<>> \in S
  <2>1. <<>> \in Seq(Q) /\ Len(<<>>) = 0 /\ \A i \in 1 .. Len(<<>>) : FALSE
    BY EmptySeq
  <2>2. FlattenSeq(<<>>) = <<>>
    BY <2>1, FlattenEquations
  <2>3. Len(FlattenSeq(<<>>)) = Len(<<>>) * w
    BY <2>1, <2>2
  <2> QED BY <2>1, <2>3
<1>2. ASSUME NEW x \in Seq(Q), NEW e \in Q, x \in S PROVE Append(x, e) \in S
  <2> DEFINE y == Append(x, e)
             fx == FlattenSeq(x)
             fy == FlattenSeq(y)
             n == Len(x)
  <2>1. fx \in Seq(T) /\ fy = fx \o e /\ e \in Seq(T)
    BY FlattenEquations
  <2>2. /\ y \in Seq(Q) /\ Len(y) = n + 1 /\ (\A i \in 1 .. n : y[i] = x[i]) /\ y[n + 1] = e
        /\ n \in Nat
    BY AppendedAt
  <2>3. Wide(x) => Placed(x)
    BY <1>2
  <2>4. /\ Len(fy) = Len(fx) + Len(e) /\ Len(fx) \in Nat
        /\ (\A i \in 1 .. Len(fx) : fy[i] = fx[i]) /\ \A i \in 1 .. Len(e) : fy[Len(fx) + i] = e[i]
    BY <2>1, ConcatAt
  <2> HIDE DEF y, fx, fy, n
  <2>5. SUFFICES ASSUME Wide(y) PROVE Placed(y)
    BY <2>2 DEF y
  <2>6. Len(e) = w /\ Wide(x)
    <3>1. n + 1 \in 1 .. n + 1 /\ \A i \in 1 .. n : i \in 1 .. n + 1
      BY <2>2
    <3> QED BY <2>2, <2>5, <3>1 DEF n
  <2>7. Len(fx) = n * w /\ \A i \in 1 .. n : \A j \in 1 .. w : fx[(i - 1) * w + j] = x[i][j]
    BY <2>3, <2>6 DEF fx, n
  <2>8. Len(fy) = (n + 1) * w
    <3>1. (n + 1) * w = n * w + w /\ n * w \in Nat
      BY <2>2
    <3> QED BY <2>4, <2>6, <2>7, <3>1
  <2>9. ASSUME NEW i \in 1 .. n + 1, NEW j \in 1 .. w PROVE fy[(i - 1) * w + j] = y[i][j]
    <3>1. CASE i = n + 1
      <4>1. (i - 1) * w + j = Len(fx) + j
        BY <2>2, <2>7, <3>1
      <4> QED BY <2>2, <2>4, <2>6, <3>1, <4>1
    <3>2. CASE i # n + 1
      <4>1. i \in 1 .. n
        BY <2>2, <3>2
      <4>2. (i - 1) * w + j \in 1 .. Len(fx)
        <5>1. i - 1 \in Nat /\ n - i \in Nat /\ j \in Nat /\ j >= 1 /\ w - j \in Nat
          BY <2>2, <4>1
        <5>2. (i - 1) * w \in Nat /\ (n - i) * w \in Nat
          BY <5>1
        <5>3. n * w = (i - 1) * w + w + (n - i) * w
          BY <2>2, <4>1
        <5> DEFINE a == (i - 1) * w
                   b == (n - i) * w
                   c == n * w
        <5>4. a + j >= 1 /\ a + j <= c
          <6>1. a \in Nat /\ b \in Nat /\ c = a + w + b /\ j \in Nat /\ j >= 1 /\ w - j \in Nat
            BY <5>1, <5>2, <5>3
          <6> HIDE DEF a, b, c
          <6> QED BY <6>1
        <5> QED BY <2>7, <5>1, <5>2, <5>4
      <4> QED BY <2>2, <2>4, <2>7, <4>1, <4>2
    <3> QED BY <3>1, <3>2
  <2> QED BY <2>2, <2>8, <2>9 DEF fy
<1>3. Seq(Q) \subseteq S
  <2> HIDE DEF S, Q
  <2> QED BY <1>1, <1>2, InductionOnSeq
<1>4. Wide(s) => Placed(s)
  BY <1>3
<1> QED BY <1>4 DEF HasWidth, Aligned

-----------------------------------------------------------------------------
(* What is left of a batch *)

Rest(all, d) == SubSeq(all, d + 1, Len(all))

LEMMA RestTypes ==
    ASSUME NEW S, NEW all \in Seq(S), NEW d \in 0 .. Len(all)
    PROVE  /\ Rest(all, d) \in Seq(S) /\ Len(Rest(all, d)) = Len(all) - d
           /\ Len(all) \in Nat /\ d \in Nat
           /\ \A i \in 1 .. Len(all) - d : d + i \in 1 .. Len(all) /\ Rest(all, d)[i] = all[d + i]
<1>1. Len(all) \in Nat /\ d \in Nat
  OBVIOUS
<1>2. Rest(all, d) \in Seq(S) /\ Len(Rest(all, d)) = Len(all) - d
  BY SubSeqProperties DEF Rest
<1>3. ASSUME NEW i \in 1 .. Len(all) - d PROVE d + i \in 1 .. Len(all) /\ Rest(all, d)[i] = all[d + i]
  <2>1. d + i \in 1 .. Len(all)
    BY <1>1
  <2>2. Rest(all, d)[i] = all[(d + 1) + i - 1]
    BY <1>1, <2>1 DEF Rest
  <2>3. (d + 1) + i - 1 = d + i
    BY <1>1
  <2> QED BY <2>1, <2>2, <2>3
<1> QED BY <1>1, <1>2, <1>3

LEMMA RestOfRest ==
    ASSUME NEW S, NEW all \in Seq(S), NEW d \in 0 .. Len(all), NEW c \in 0 .. Len(all) - d
    PROVE  d + c \in 0 .. Len(all) /\ Rest(Rest(all, d), c) = Rest(all, d + c)
<1> DEFINE r == Rest(all, d)
           a == Rest(r, c)
           b == Rest(all, d + c)
           n == Len(all)
<1>1. r \in Seq(S) /\ Len(r) = n - d /\ n \in Nat /\ d \in Nat
      /\ \A i \in 1 .. n - d : d + i \in 1 .. n /\ r[i] = all[d + i]
  BY RestTypes
<1> HIDE DEF r
<1>2. d + c \in 0 .. n /\ c \in 0 .. Len(r) /\ c \in Nat /\ Len(r) - c = n - (d + c)
  BY <1>1
<1>3. a \in Seq(S) /\ Len(a) = Len(r) - c /\ \A i \in 1 .. Len(r) - c : c + i \in 1 .. Len(r) /\ a[i] = r[c + i]
  BY <1>1, <1>2, RestTypes
<1>4. b \in Seq(S) /\ Len(b) = n - (d + c) /\ \A i \in 1 .. n - (d + c) : b[i] = all[(d + c) + i]
  BY <1>2, RestTypes
<1> HIDE DEF a, b, n
<1>5. ASSUME NEW i \in 1 .. n - (d + c) PROVE a[i] = b[i]
  <2>1. a[i] = r[c + i] /\ c + i \in 1 .. n - d
    BY <1>1, <1>2, <1>3
  <2>2. r[c + i] = all[d + (c + i)]
    BY <1>1, <2>1
  <2>3. d + (c + i) = (d + c) + i
    BY <1>1, <1>2
  <2> QED BY <1>4, <2>1, <2>2, <2>3
<1>6. a = b
  BY <1>2, <1>3, <1>4, <1>5, SeqEqual
<1> QED BY <1>2, <1>6 DEF a, b, r, n

LEMMA RestOfNone ==
    ASSUME NEW S, NEW all \in Seq(S)
    PROVE  Rest(all, 0) = all /\ 0 \in 0 .. Len(all)
<1>1. 0 \in 0 .. Len(all) /\ Len(all) \in Nat
  OBVIOUS
<1> DEFINE r == Rest(all, 0)
           n == Len(all)
<1>2. r \in Seq(S) /\ Len(r) = n - 0 /\ \A i \in 1 .. n - 0 : r[i] = all[0 + i]
  BY <1>1, RestTypes
<1> HIDE DEF r
<1>3. n - 0 = n /\ \A i \in 1 .. n : 0 + i = i
  BY <1>1
<1>4. r = all
  BY <1>2, <1>3, SeqEqual
<1> QED BY <1>1, <1>4 DEF r

-----------------------------------------------------------------------------
(* The invariant of a batch *)

Blank == [f \in Columns |-> SqlNull]
KeysOf(rows) == {row.key : row \in ToSet(rows)}
AllRows(k, rows) == IF k = "updates" THEN NormalizeBatchRows(rows)
                    ELSE IF k = "inserts" THEN NormalizeRows(rows) ELSE rows

BatchDone(k, j, t, ins, del) ==
    /\ k = "updates" => \A key \in RowKeys :
            t[key] = IF key \in KeysOf(j.rest) THEN Blank ELSE OneByOne(j.rows, key)
    /\ k = "inserts" =>
            ins = [i \in 1 .. Len(Saying(j.rows)) - Len(j.rest) |-> InsertedAs(Saying(j.rows)[i])]
    /\ k = "deletes" => KeysOf(j.rows) \ KeysOf(j.rest) \subseteq del /\ del \subseteq KeysOf(j.rows)

GoodJob(k, j) ==
    /\ j \in [rows : Seq(Row), rest : Seq(Row), columns : Seq(Columns), size : BatchSizes \cup {0}]
    /\ \E d \in 0 .. Len(AllRows(k, j.rows)) : j.rest = Rest(AllRows(k, j.rows), d)
    /\ k = "inserts" => Covers(j.columns, j.rest)

BatchInv ==
    /\ GoodJob(kind, job)
    /\ table \in [RowKeys -> [Columns -> Nat]] /\ inserted \in Seq([Columns -> Nat])
    /\ deleted \subseteq RowKeys
    /\ BatchDone(kind, job, table, inserted, deleted)

LEMMA AllRowsTypes ==
    ASSUME NEW k, NEW rows \in Seq(Row)
    PROVE  AllRows(k, rows) \in Seq(Row) /\ (k = "updates" => UniqueKeys(AllRows(k, rows)))
BY MergedSaysOneByOne, NormalizeRowsEquations DEF AllRows

LEMMA KeysOfIs ==
    ASSUME NEW rows \in Seq(Row), NEW k
    PROVE  /\ k \in KeysOf(rows) <=> \E i \in 1 .. Len(rows) : rows[i].key = k
           /\ KeysOf(rows) \subseteq RowKeys
<1>1. DOMAIN rows = 1 .. Len(rows)
  OBVIOUS
<1>2. k \in KeysOf(rows) <=> \E i \in 1 .. Len(rows) : rows[i].key = k
  BY <1>1 DEF KeysOf, ToSet
<1>3. KeysOf(rows) \subseteq RowKeys
  <2>1. \A i \in 1 .. Len(rows) : rows[i] \in Row
    OBVIOUS
  <2>2. \A i \in 1 .. Len(rows) : rows[i].key \in RowKeys
    BY <2>1 DEF Row
  <2> QED BY <1>1, <2>2 DEF KeysOf, ToSet
<1> QED BY <1>2, <1>3

LEMMA NoKeys == KeysOf(<<>>) = {}
BY DEF KeysOf, ToSet

(* Nothing is done before a batch begins. *)
LEMMA NothingDone ==
    ASSUME NEW k, NEW t, NEW ins, NEW del, BatchDone(k, NoJob, t, ins, del)
    PROVE  /\ k = "updates" => \A key \in RowKeys : t[key] = Blank
           /\ k = "inserts" => ins = <<>>
           /\ k = "deletes" => del = {}
<1>1. NoJob.rows = <<>> /\ NoJob.rest = <<>>
  BY DEF NoJob
<1>2. k = "updates" => \A key \in RowKeys : t[key] = Blank
  BY <1>1, NoRows DEF BatchDone, Blank
<1>3. k = "inserts" => ins = <<>>
  <2>1. Len(Saying(NoJob.rows)) - Len(NoJob.rest) = 0
    BY <1>1, NoRows
  <2>2. k = "inserts" => ins = [i \in 1 .. 0 |-> InsertedAs(Saying(NoJob.rows)[i])]
    BY <2>1 DEF BatchDone
  <2> QED BY <2>2
<1>4. k = "deletes" => del = {}
  BY <1>1, NoKeys DEF BatchDone
<1> QED BY <1>2, <1>3, <1>4

(* A batch that has just begun. *)
LEMMA BegunBatch ==
    ASSUME NEW k, NEW rows \in Seq(Row), NEW size \in BatchSizes, NEW t, NEW ins, NEW del,
           k = "updates" => \A key \in RowKeys : t[key] = Blank,
           k = "inserts" => ins = <<>>, k = "deletes" => del = {}
    PROVE  LET j == [rows |-> rows, rest |-> AllRows(k, rows),
                     columns |-> CollectFields(AllRows(k, rows)), size |-> size]
           IN  GoodJob(k, j) /\ BatchDone(k, j, t, ins, del)
<1> DEFINE all == AllRows(k, rows)
           cols == CollectFields(all)
           j == [rows |-> rows, rest |-> all, columns |-> cols, size |-> size]
<1>1. all \in Seq(Row) /\ (k = "updates" => UniqueKeys(all))
  BY AllRowsTypes
<1>2. cols \in Seq(Columns) /\ Covers(cols, all)
  BY <1>1, ColumnsOfAll
<1> HIDE DEF cols
<1>3. all = Rest(all, 0) /\ 0 \in 0 .. Len(all)
  BY <1>1, RestOfNone
<1>4. j.rows = rows /\ j.rest = all /\ j.columns = cols
  OBVIOUS
<1>5. j \in [rows : Seq(Row), rest : Seq(Row), columns : Seq(Columns), size : BatchSizes \cup {0}]
  BY <1>1, <1>2
<1> HIDE DEF j
<1>6. GoodJob(k, j)
  BY <1>2, <1>3, <1>4, <1>5 DEF GoodJob
<1>7. ASSUME k = "updates", NEW key \in RowKeys
      PROVE  t[key] = IF key \in KeysOf(all) THEN Blank ELSE OneByOne(rows, key)
  <2>1. all = NormalizeBatchRows(rows)
    BY <1>7 DEF AllRows
  <2>2. CASE key \notin KeysOf(all)
    <3>1. \A i \in 1 .. Len(all) : all[i].key # key
      BY <1>1, <2>2, KeysOfIs
    <3>2. KeyPlace(all, key) = 0
      BY <1>1, <3>1, KeyPlaceIs
    <3>3. \A f : OrNull(KeyTold(all, key, f)) = SqlNull
      BY <3>2 DEF KeyTold, OrNull
    <3>4. OneByOne(rows, key) = [f \in Columns |-> OrNull(KeyTold(all, key, f))]
      BY <2>1, MergedSaysOneByOne
    <3>5. OneByOne(rows, key) = Blank
      BY <3>3, <3>4 DEF Blank
    <3> QED BY <1>7, <2>2, <3>5
  <2> QED BY <1>7, <2>2
<1>8. ASSUME k = "inserts"
      PROVE  ins = [i \in 1 .. Len(Saying(rows)) - Len(all) |-> InsertedAs(Saying(rows)[i])]
  <2>1. all = NormalizeRows(rows)
    BY <1>8 DEF AllRows
  <2>2. Len(all) = Len(Saying(rows)) /\ Saying(rows) \in Seq(Row)
    BY <2>1, KeptInStep
  <2>3. Len(Saying(rows)) - Len(all) = 0
    BY <2>2
  <2> QED BY <1>8, <2>3
<1>9. k = "deletes" => all = rows
  BY DEF AllRows
<1>10. BatchDone(k, j, t, ins, del)
  BY <1>4, <1>7, <1>8, <1>9 DEF BatchDone
<1> QED BY <1>6, <1>10 DEF j, cols

(* The chunk of the next statement. *)
LEMMA ChunkTypes ==
    ASSUME GoodJob(kind, job)
    PROVE  /\ Chunk \in Seq(Row) /\ Len(Chunk) \in 0 .. Len(job.rest) /\ job.rest \in Seq(Row)
           /\ \A i \in 1 .. Len(Chunk) : i \in 1 .. Len(job.rest) /\ Chunk[i] = job.rest[i]
<1> DEFINE m == IF job.size < Len(job.rest) THEN job.size ELSE Len(job.rest)
           r == job.rest
<1>1. r \in Seq(Row) /\ job.size \in Nat
  <2>1. job \in [rows : Seq(Row), rest : Seq(Row), columns : Seq(Columns), size : BatchSizes \cup {0}]
    BY DEF GoodJob
  <2>2. r \in Seq(Row) /\ job.size \in BatchSizes \cup {0}
    BY <2>1
  <2>3. BatchSizes \subseteq Nat \ {0}
    BY SqlAssumption, Zenon DEF SqlAssumption
  <2>4. job.size \in Nat
    <3> DEFINE size == job.size
    <3>1. size \in BatchSizes \cup {0}
      BY <2>2
    <3> HIDE DEF size
    <3>2. size \in Nat
      BY <2>3, <3>1
    <3> QED BY <3>2 DEF size
  <2> QED BY <2>2, <2>4
<1>2. m \in Nat /\ m <= Len(r) /\ Len(r) \in Nat
  BY <1>1
<1>3. Chunk = SubSeq(r, 1, m)
  BY DEF Chunk
<1> HIDE DEF m, r
<1>4. \A i \in 1 .. m : i \in 1 .. Len(r)
  BY <1>2
<1>5. SubSeq(r, 1, m) \in Seq(Row) /\ Len(SubSeq(r, 1, m)) = m
      /\ \A i \in 1 .. m : SubSeq(r, 1, m)[i] = r[i]
  BY <1>1, <1>2, SubSeqProperties
<1> QED BY <1>1, <1>2, <1>3, <1>4, <1>5 DEF r

(* After a chunk the rest is shorter by it. *)
LEMMA RestAfterChunk ==
    ASSUME GoodJob(kind, job), NEW batch, ChunkGoes(batch)
    PROVE  /\ kind = batch /\ kind' = kind /\ GoodJob(kind, job')
           /\ job'.rows = job.rows /\ job'.rest = Rest(job.rest, Len(Chunk))
           /\ \E d \in 0 .. Len(AllRows(kind, job.rows)) :
                /\ job.rest = Rest(AllRows(kind, job.rows), d)
                /\ Len(Chunk) \in 0 .. Len(AllRows(kind, job.rows)) - d
                /\ d + Len(Chunk) \in 0 .. Len(AllRows(kind, job.rows))
                /\ job'.rest = Rest(AllRows(kind, job.rows), d + Len(Chunk))
<1> DEFINE all == AllRows(kind, job.rows)
           c == Len(Chunk)
           new == Rest(job.rest, c)
<1>1. /\ job \in [rows : Seq(Row), rest : Seq(Row), columns : Seq(Columns), size : BatchSizes \cup {0}]
      /\ job.rest \in Seq(Row) /\ c \in 0 .. Len(job.rest)
  BY ChunkTypes DEF GoodJob
<1>2. kind = batch /\ kind' = kind /\ job' = [job EXCEPT !.rest = new]
  BY DEF ChunkGoes, Rest
<1>3. all \in Seq(Row)
  BY <1>1, AllRowsTypes
<1>4. PICK d \in 0 .. Len(all) : job.rest = Rest(all, d)
  BY DEF GoodJob
<1> HIDE DEF c, all
<1>5. Len(job.rest) = Len(all) - d
  BY <1>3, <1>4, RestTypes
<1>6. d + c \in 0 .. Len(all) /\ new = Rest(all, d + c) /\ c \in 0 .. Len(all) - d
  BY <1>1, <1>3, <1>4, <1>5, RestOfRest
<1>7. new \in Seq(Row) /\ Len(new) = Len(job.rest) - c
      /\ \A i \in 1 .. Len(job.rest) - c : c + i \in 1 .. Len(job.rest) /\ new[i] = job.rest[c + i]
  BY <1>1, RestTypes
<1> HIDE DEF new
<1>8. job' \in [rows : Seq(Row), rest : Seq(Row), columns : Seq(Columns), size : BatchSizes \cup {0}]
      /\ job'.rows = job.rows /\ job'.rest = new /\ job'.columns = job.columns
  BY <1>1, <1>2, <1>7
<1>9. Covers(job.columns, job.rest) => Covers(job'.columns, job'.rest)
  <2>1. \A i \in 1 .. Len(new) : c + i \in 1 .. Len(job.rest) /\ new[i] = job.rest[c + i]
    BY <1>7
  <2>2. ASSUME Covers(job.columns, job.rest), NEW i \in 1 .. Len(new), NEW f,
               PlaceOf(new[i].values, f) # 0
        PROVE  f \in ToSet(job.columns)
    <3>1. c + i \in 1 .. Len(job.rest) /\ PlaceOf(job.rest[c + i].values, f) # 0
      BY <2>1, <2>2
    <3> QED BY <2>2, <3>1 DEF Covers
  <2>3. Covers(job.columns, job.rest) => Covers(job.columns, new)
    BY <2>2 DEF Covers
  <2> QED BY <1>8, <2>3
<1>10. GoodJob(kind, job')
  BY <1>6, <1>8, <1>9 DEF GoodJob, all
<1> QED BY <1>2, <1>4, <1>6, <1>8, <1>10 DEF all, c, new

-----------------------------------------------------------------------------
(* The keys of a chunk and of what it leaves *)

LEMMA UniqueRest ==
    ASSUME NEW all \in Seq(Row), NEW d \in 0 .. Len(all), UniqueKeys(all)
    PROVE  UniqueKeys(Rest(all, d))
<1> DEFINE r == Rest(all, d)
<1>1. /\ Len(r) = Len(all) - d /\ Len(all) \in Nat /\ d \in Nat
      /\ \A i \in 1 .. Len(all) - d : d + i \in 1 .. Len(all) /\ r[i] = all[d + i]
  BY RestTypes
<1> HIDE DEF r
<1>2. ASSUME NEW i \in 1 .. Len(r), NEW j \in 1 .. Len(r), r[i].key = r[j].key PROVE i = j
  <2>1. d + i = d + j
    BY <1>1, <1>2 DEF UniqueKeys
  <2> QED BY <1>1, <2>1
<1> QED BY <1>2 DEF UniqueKeys, r

LEMMA KeysOfRest ==
    ASSUME NEW all \in Seq(Row), NEW d \in 0 .. Len(all)
    PROVE  KeysOf(Rest(all, d)) \subseteq KeysOf(all)
<1>1. /\ Rest(all, d) \in Seq(Row) /\ Len(Rest(all, d)) = Len(all) - d
      /\ \A i \in 1 .. Len(all) - d : d + i \in 1 .. Len(all) /\ Rest(all, d)[i] = all[d + i]
  BY RestTypes
<1>2. ASSUME NEW k \in KeysOf(Rest(all, d)) PROVE k \in KeysOf(all)
  <2>1. PICK i \in 1 .. Len(all) - d : Rest(all, d)[i].key = k
    BY <1>1, <1>2, KeysOfIs
  <2>2. d + i \in 1 .. Len(all) /\ all[d + i].key = k
    BY <1>1, <2>1
  <2> QED BY <2>2, KeysOfIs
<1> QED BY <1>2

LEMMA KeysSplit ==
    ASSUME NEW rest \in Seq(Row), NEW chunk \in Seq(Row), Len(chunk) \in 0 .. Len(rest),
           \A i \in 1 .. Len(chunk) : i \in 1 .. Len(rest) /\ chunk[i] = rest[i]
    PROVE  /\ KeysOf(rest) = KeysOf(chunk) \cup KeysOf(Rest(rest, Len(chunk)))
           /\ UniqueKeys(rest) => /\ UniqueKeys(chunk)
                                  /\ KeysOf(chunk) \cap KeysOf(Rest(rest, Len(chunk))) = {}
<1> DEFINE c == Len(chunk)
           new == Rest(rest, c)
           n == Len(rest)
<1>1. /\ new \in Seq(Row) /\ Len(new) = n - c /\ n \in Nat /\ c \in Nat
      /\ \A i \in 1 .. n - c : c + i \in 1 .. n /\ new[i] = rest[c + i]
  BY RestTypes
<1>2. \A k : k \in KeysOf(new) <=> \E i \in 1 .. n - c : new[i].key = k
  BY <1>1, KeysOfIs
<1>3. \A k : k \in KeysOf(rest) <=> \E i \in 1 .. n : rest[i].key = k
  BY KeysOfIs
<1>4. \A k : k \in KeysOf(chunk) <=> \E i \in 1 .. c : chunk[i].key = k
  BY KeysOfIs
<1>5. \A i \in 1 .. c : i \in 1 .. n /\ chunk[i] = rest[i]
  OBVIOUS
<1> HIDE DEF c, new, n
<1>6. ASSUME NEW k \in KeysOf(rest), k \notin KeysOf(chunk) PROVE k \in KeysOf(new)
  <2>1. PICK i \in 1 .. n : rest[i].key = k
    BY <1>3, <1>6
  <2>2. i \notin 1 .. c
    BY <1>4, <1>5, <1>6, <2>1
  <2>3. i - c \in 1 .. n - c /\ c + (i - c) = i
    BY <1>1, <2>1, <2>2
  <2> QED BY <1>1, <1>2, <2>1, <2>3
<1>7. KeysOf(rest) = KeysOf(chunk) \cup KeysOf(new)
  <2>1. KeysOf(chunk) \subseteq KeysOf(rest)
    BY <1>3, <1>4, <1>5
  <2>2. KeysOf(new) \subseteq KeysOf(rest)
    BY <1>1, <1>2, <1>3
  <2> QED BY <1>6, <2>1, <2>2
<1>8. ASSUME UniqueKeys(rest), NEW k \in KeysOf(chunk), k \in KeysOf(new) PROVE FALSE
  <2>1. PICK i \in 1 .. c : chunk[i].key = k
    BY <1>4, <1>8
  <2>2. PICK j \in 1 .. n - c : new[j].key = k
    BY <1>2, <1>8
  <2>3. i \in 1 .. n /\ rest[i].key = k /\ c + j \in 1 .. n /\ rest[c + j].key = k
    BY <1>1, <1>5, <2>1, <2>2
  <2>4. i = c + j
    BY <1>8, <2>3 DEF UniqueKeys, n
  <2> QED BY <1>1, <2>4
<1>9. UniqueKeys(rest) => UniqueKeys(chunk)
  BY <1>5 DEF UniqueKeys, c, n
<1> QED BY <1>7, <1>8, <1>9 DEF c, new

-----------------------------------------------------------------------------
(* Updates *)

CaseOf(rows, k, f) == SelectInSeq(rows, LAMBDA r : r.key = k /\ PlaceOf(r.values, f) # 0)
ThenOf(row, f) == row.values[PlaceOf(row.values, f)].value

LEMMA CaseIs ==
    ASSUME NEW rows \in Seq(Row), NEW k, NEW f
    PROVE  /\ (\A i \in 1 .. Len(rows) : rows[i].key # k \/ PlaceOf(rows[i].values, f) = 0)
                => CaseOf(rows, k, f) = 0
           /\ CaseOf(rows, k, f) = 0 =>
                \A i \in 1 .. Len(rows) : rows[i].key # k \/ PlaceOf(rows[i].values, f) = 0
           /\ CaseOf(rows, k, f) # 0 =>
                /\ CaseOf(rows, k, f) \in 1 .. Len(rows) /\ rows[CaseOf(rows, k, f)].key = k
                /\ PlaceOf(rows[CaseOf(rows, k, f)].values, f) # 0
<1> DEFINE I == {i \in 1 .. Len(rows) : rows[i].key = k /\ PlaceOf(rows[i].values, f) # 0}
           n == CaseOf(rows, k, f)
<1>1. n = IF I # {} THEN Min(I) ELSE 0
  BY DEF CaseOf, SelectInSeq
<1>2. I \subseteq 1 .. Len(rows) /\ I \subseteq Nat /\ Len(rows) \in Nat
  OBVIOUS
<1>3. I = {i \in 1 .. Len(rows) : rows[i].key = k /\ PlaceOf(rows[i].values, f) # 0}
  OBVIOUS
<1> HIDE DEF I, n
<1>4. I # {} => Min(I) \in I
  BY <1>2, LeastPlace
<1>5. I = {} => n = 0
  BY <1>1
<1>6. I # {} => n \in I /\ n # 0
  BY <1>1, <1>2, <1>4
<1>7. (\A i \in 1 .. Len(rows) : rows[i].key # k \/ PlaceOf(rows[i].values, f) = 0) => I = {}
  BY <1>3
<1>8. n = 0 => \A i \in 1 .. Len(rows) : rows[i].key # k \/ PlaceOf(rows[i].values, f) = 0
  BY <1>3, <1>6
<1>9. n # 0 => n \in 1 .. Len(rows) /\ rows[n].key = k /\ PlaceOf(rows[n].values, f) # 0
  BY <1>3, <1>5, <1>6
<1> QED BY <1>5, <1>7, <1>8, <1>9 DEF n

UpdatedTable(t, chunk) == [k \in RowKeys |-> [f \in Columns |->
    IF CaseOf(chunk, k, f) = 0 THEN t[k][f] ELSE ThenOf(chunk[CaseOf(chunk, k, f)], f)]]

LEMMA UpdatedTypes ==
    ASSUME NEW t \in [RowKeys -> [Columns -> Nat]], NEW chunk \in Seq(Row)
    PROVE  UpdatedTable(t, chunk) \in [RowKeys -> [Columns -> Nat]]
<1>1. ASSUME NEW k \in RowKeys, NEW f \in Columns
      PROVE  (IF CaseOf(chunk, k, f) = 0 THEN t[k][f]
              ELSE ThenOf(chunk[CaseOf(chunk, k, f)], f)) \in Nat
  <2> DEFINE n == CaseOf(chunk, k, f)
             v == chunk[n].values
             p == PlaceOf(v, f)
  <2>1. n # 0 => n \in 1 .. Len(chunk) /\ p # 0
    BY CaseIs
  <2>2. n # 0 => chunk[n] \in Row
    BY <2>1
  <2>3. n # 0 => v \in Seq(Pair)
    BY <2>2 DEF Row
  <2>4. n # 0 => Told(v, f) \in Nat \cup {None} /\ Told(v, f) = v[p].value
    BY <2>1, <2>3, ToldTypes DEF Told
  <2>5. n # 0 => p \in 1 .. Len(v)
    BY <2>1, <2>3, PlaceOfFirst DEF IsFirstPlace, PlacesOf
  <2>6. n # 0 => v[p] \in Pair
    BY <2>3, <2>5
  <2>7. n # 0 => v[p].value \in Nat
    BY <2>6 DEF Pair
  <2>8. t[k][f] \in Nat
    OBVIOUS
  <2> HIDE DEF n
  <2>9. (IF n = 0 THEN t[k][f] ELSE ThenOf(chunk[n], f)) \in Nat
    BY <2>7, <2>8 DEF ThenOf
  <2> QED BY <2>9 DEF n
<1> QED BY <1>1 DEF UpdatedTable

(* The statement of a chunk gives its rows what all the rows given would. *)
LEMMA UpdatedAsGiven ==
    ASSUME NEW t \in [RowKeys -> [Columns -> Nat]], NEW chunk \in Seq(Row), UniqueKeys(chunk),
           NEW k \in RowKeys
    PROVE  /\ k \notin KeysOf(chunk) => UpdatedTable(t, chunk)[k] = t[k]
           /\ \A i \in 1 .. Len(chunk) : chunk[i].key = k /\ t[k] = Blank =>
                UpdatedTable(t, chunk)[k] = [f \in Columns |-> OrNull(Told(chunk[i].values, f))]
<1> DEFINE new == UpdatedTable(t, chunk)
<1>1. /\ new[k] = [f \in Columns |-> IF CaseOf(chunk, k, f) = 0 THEN t[k][f]
                                     ELSE ThenOf(chunk[CaseOf(chunk, k, f)], f)]
      /\ t[k] = [f \in Columns |-> t[k][f]]
  BY DEF UpdatedTable
<1> HIDE DEF new
<1>2. ASSUME k \notin KeysOf(chunk) PROVE new[k] = t[k]
  <2>1. \A i \in 1 .. Len(chunk) : chunk[i].key # k
    BY <1>2, KeysOfIs
  <2>2. \A f : CaseOf(chunk, k, f) = 0
    BY <2>1, CaseIs
  <2> QED BY <1>1, <2>2
<1>3. ASSUME NEW i \in 1 .. Len(chunk), chunk[i].key = k, t[k] = Blank, NEW f \in Columns
      PROVE  new[k][f] = OrNull(Told(chunk[i].values, f))
  <2> DEFINE v == chunk[i].values
             n == CaseOf(chunk, k, f)
  <2>1. v \in Seq(Pair)
    <3>1. chunk[i] \in Row
      OBVIOUS
    <3> QED BY <3>1 DEF Row
  <2>2. \A j \in 1 .. Len(chunk) : chunk[j].key = k => j = i
    BY <1>3 DEF UniqueKeys
  <2>3. Told(v, f) \in Nat \cup {None}
        /\ Told(v, f) = IF PlaceOf(v, f) = 0 THEN None ELSE v[PlaceOf(v, f)].value
    BY <2>1, ToldTypes DEF Told
  <2>4. new[k][f] = IF n = 0 THEN t[k][f] ELSE ThenOf(chunk[n], f)
    BY <1>1
  <2>5. t[k][f] = SqlNull
    BY <1>3 DEF Blank
  <2>6. n = 0 => PlaceOf(v, f) = 0
    BY <1>3, CaseIs
  <2>7. n # 0 => n = i /\ PlaceOf(v, f) # 0
    BY <1>3, <2>2, CaseIs
  <2> HIDE DEF n
  <2>8. CASE n = 0
    BY <2>3, <2>4, <2>5, <2>6, <2>8 DEF OrNull
  <2>9. CASE n # 0
    <3>1. PlaceOf(v, f) # 0 /\ new[k][f] = v[PlaceOf(v, f)].value
      BY <2>4, <2>7, <2>9 DEF ThenOf
    <3>2. v[PlaceOf(v, f)].value # None
      <4>1. PlaceOf(v, f) \in 1 .. Len(v)
        BY <2>1, <3>1, PlaceOfFirst DEF IsFirstPlace, PlacesOf
      <4>2. v[PlaceOf(v, f)] \in Pair
        BY <2>1, <4>1
      <4> QED BY <4>2 DEF Pair, None
    <3>3. Told(v, f) = new[k][f] /\ Told(v, f) # None
      BY <2>3, <3>1, <3>2
    <3> QED BY <3>3 DEF OrNull
  <2> QED BY <2>8, <2>9
<1>4. ASSUME NEW i \in 1 .. Len(chunk), chunk[i].key = k, t[k] = Blank
      PROVE  new[k] = [f \in Columns |-> OrNull(Told(chunk[i].values, f))]
  <2>1. new[k] = [f \in Columns |-> new[k][f]]
    BY <1>1
  <2> QED BY <1>3, <1>4, <2>1
<1> QED BY <1>2, <1>4 DEF new

LEMMA UpdateChunkDoes ==
    ASSUME BatchInv, UpdateChunk
    PROVE  /\ table' \in [RowKeys -> [Columns -> Nat]]
           /\ BatchDone(kind, job', table', inserted, deleted)
<1> DEFINE all == NormalizeBatchRows(job.rows)
           c == Len(Chunk)
           new == Rest(job.rest, c)
<1>1. ChunkGoes("updates") /\ GoodJob(kind, job) /\ table \in [RowKeys -> [Columns -> Nat]]
      /\ BatchDone(kind, job, table, inserted, deleted)
  BY DEF UpdateChunk, BatchInv
<1>2. kind = "updates" /\ job'.rows = job.rows /\ job'.rest = new /\ job.rows \in Seq(Row)
  BY <1>1, RestAfterChunk DEF GoodJob
<1>3. table' = UpdatedTable(table, Chunk)
  BY DEF UpdateChunk, UpdatedTable, CaseOf, ThenOf
<1>4. all \in Seq(Row) /\ UniqueKeys(all)
      /\ \A k : OneByOne(job.rows, k) = [f \in Columns |-> OrNull(KeyTold(all, k, f))]
  BY <1>2, MergedSaysOneByOne
<1>5. PICK d \in 0 .. Len(all) : job.rest = Rest(all, d)
  BY <1>1, <1>2 DEF GoodJob, AllRows
<1>6. /\ Chunk \in Seq(Row) /\ c \in 0 .. Len(job.rest) /\ job.rest \in Seq(Row)
      /\ \A i \in 1 .. c : i \in 1 .. Len(job.rest) /\ Chunk[i] = job.rest[i]
  BY <1>1, ChunkTypes
<1>7. UniqueKeys(job.rest)
  BY <1>4, <1>5, UniqueRest
<1>8. KeysOf(job.rest) = KeysOf(Chunk) \cup KeysOf(new) /\ UniqueKeys(Chunk)
      /\ KeysOf(Chunk) \cap KeysOf(new) = {}
  BY <1>6, <1>7, KeysSplit
<1>9. \A k \in RowKeys :
        table[k] = IF k \in KeysOf(job.rest) THEN Blank ELSE OneByOne(job.rows, k)
  BY <1>1, <1>2 DEF BatchDone
<1>10. ASSUME NEW k \in RowKeys
       PROVE  table'[k] = IF k \in KeysOf(new) THEN Blank ELSE OneByOne(job.rows, k)
  <2>1. CASE k \notin KeysOf(Chunk)
    <3>1. table'[k] = table[k]
      BY <1>1, <1>3, <1>6, <1>8, <2>1, UpdatedAsGiven
    <3> QED BY <1>8, <1>9, <2>1, <3>1
  <2>2. CASE k \in KeysOf(Chunk)
    <3>1. k \notin KeysOf(new) /\ table[k] = Blank
      BY <1>8, <1>9, <2>2
    <3>2. PICK i \in 1 .. c : Chunk[i].key = k
      BY <1>6, <2>2, KeysOfIs
    <3>3. table'[k] = [f \in Columns |-> OrNull(Told(Chunk[i].values, f))]
      BY <1>1, <1>3, <1>6, <1>8, <3>1, <3>2, UpdatedAsGiven
    <3>4. d + i \in 1 .. Len(all) /\ all[d + i] = Chunk[i]
      <4>1. Len(Rest(all, d)) = Len(all) - d
            /\ \A j \in 1 .. Len(all) - d : d + j \in 1 .. Len(all) /\ Rest(all, d)[j] = all[d + j]
        BY <1>4, RestTypes
      <4>2. i \in 1 .. Len(all) - d /\ Chunk[i] = Rest(all, d)[i]
        BY <1>5, <1>6, <4>1
      <4> QED BY <4>1, <4>2
    <3>5. KeyPlace(all, k) = d + i
      BY <1>4, <3>2, <3>4, KeyPlaceIs
    <3>6. d + i # 0
      BY <3>4
    <3>7. \A f : KeyTold(all, k, f) = Told(Chunk[i].values, f)
      BY <3>4, <3>5, <3>6 DEF KeyTold
    <3>8. OneByOne(job.rows, k) = [f \in Columns |-> OrNull(Told(Chunk[i].values, f))]
      BY <1>4, <3>7
    <3> QED BY <3>1, <3>3, <3>8
  <2> QED BY <2>1, <2>2
<1>11. table' \in [RowKeys -> [Columns -> Nat]]
  BY <1>1, <1>3, <1>6, UpdatedTypes
<1>12. kind # "inserts" /\ kind # "deletes"
  BY <1>2
<1> HIDE DEF all, new, c
<1> QED BY <1>2, <1>10, <1>11, <1>12 DEF BatchDone

-----------------------------------------------------------------------------
(* Inserts and deletes *)

Param(row, f) == IF PlaceOf(row.values, f) = 0 THEN SqlNull
                 ELSE row.values[PlaceOf(row.values, f)].value

LEMMA ParamIs ==
    ASSUME NEW row \in Row, NEW f
    PROVE  Param(row, f) = OrNull(Told(row.values, f)) /\ Param(row, f) \in Nat
<1> DEFINE v == row.values
           p == PlaceOf(v, f)
<1>1. v \in Seq(Pair)
  BY DEF Row
<1>2. p # 0 => p \in 1 .. Len(v)
  BY <1>1, PlaceOfFirst DEF IsFirstPlace, PlacesOf
<1>3. p # 0 => v[p] \in Pair
  BY <1>1, <1>2
<1>4. p # 0 => v[p].value \in Nat /\ v[p].value # None
  BY <1>3 DEF Pair, None
<1> HIDE DEF v, p
<1>5. Told(v, f) = IF p = 0 THEN None ELSE v[p].value
  BY DEF Told, p
<1>6. Param(row, f) = IF p = 0 THEN SqlNull ELSE v[p].value
  BY DEF Param, p, v
<1> QED BY <1>4, <1>5, <1>6 DEF OrNull, v, SqlNull

LEMMA InsertedAsIs ==
    ASSUME NEW row \in Row
    PROVE  InsertedAs(row) = [f \in Columns |-> OrNull(LastTold(row.values, f))]
<1>1. ASSUME NEW f \in Columns
      PROVE  (IF LastGiven(row, f) = 0 THEN SqlNull ELSE row.values[LastGiven(row, f)].value)
                = OrNull(LastTold(row.values, f))
  <2> DEFINE n == LastPlaceOf(row.values, f)
  <2>1. LastGiven(row, f) = n
    BY DEF LastGiven, LastPlaceOf
  <2>2. row.values \in Seq(Pair)
    BY DEF Row
  <2>3. n # 0 => n \in 1 .. Len(row.values)
    BY <2>2, LastPlaceOfLast DEF IsLast
  <2>4. n # 0 => row.values[n] \in Pair
    BY <2>2, <2>3
  <2>5. n # 0 => row.values[n].value # None
    BY <2>4 DEF Pair, None
  <2>6. LastTold(row.values, f) = IF n = 0 THEN None ELSE row.values[n].value
    BY DEF LastTold
  <2> HIDE DEF n
  <2> QED BY <2>1, <2>5, <2>6 DEF OrNull
<1> QED BY <1>1 DEF InsertedAs

ColumnPlace(columns, f) == SelectInSeq(columns, LAMBDA c : c = f)

LEMMA ColumnPlaceIs ==
    ASSUME NEW columns \in Seq(Columns), NEW f
    PROVE  /\ ColumnPlace(columns, f) = 0 => f \notin ToSet(columns)
           /\ ColumnPlace(columns, f) # 0 =>
                ColumnPlace(columns, f) \in 1 .. Len(columns) /\ columns[ColumnPlace(columns, f)] = f
<1> DEFINE I == {i \in 1 .. Len(columns) : columns[i] = f}
           n == ColumnPlace(columns, f)
<1>1. n = IF I # {} THEN Min(I) ELSE 0
  BY DEF ColumnPlace, SelectInSeq
<1>2. I \subseteq 1 .. Len(columns) /\ I \subseteq Nat /\ Len(columns) \in Nat
  OBVIOUS
<1>3. I = {i \in 1 .. Len(columns) : columns[i] = f} /\ DOMAIN columns = 1 .. Len(columns)
  OBVIOUS
<1> HIDE DEF I, n
<1>4. I # {} => Min(I) \in I
  BY <1>2, LeastPlace
<1>5. I # {} => n \in I /\ n # 0
  BY <1>1, <1>2, <1>4
<1>6. I = {} => f \notin ToSet(columns) /\ n = 0
  BY <1>1, <1>3 DEF ToSet
<1> QED BY <1>3, <1>5, <1>6 DEF n

ParametersOf(rows, columns) ==
    FlattenSeq([i \in DOMAIN rows |-> [j \in 1 .. Len(columns) |-> Param(rows[i], columns[j])]])
InsertedRow(rows, columns, i) == [f \in Columns |->
    LET j == ColumnPlace(columns, f)
    IN  IF j = 0 THEN SqlNull ELSE ParametersOf(rows, columns)[(i - 1) * Len(columns) + j]]

(* Each row gets the values that were its own. *)
LEMMA InsertedRowIs ==
    ASSUME NEW rows \in Seq(Row), NEW columns \in Seq(Columns), Covers(columns, rows),
           NEW i \in 1 .. Len(rows)
    PROVE  InsertedRow(rows, columns, i) = [f \in Columns |-> OrNull(Told(rows[i].values, f))]
<1> DEFINE w == Len(columns)
           of(row) == [j \in 1 .. w |-> Param(row, columns[j])]
           all == [n \in DOMAIN rows |-> of(rows[n])]
           N == Nat
           Q == Seq(N)
<1>1. w \in Nat /\ DOMAIN rows = 1 .. Len(rows) /\ Len(rows) \in Nat
      /\ \A n \in 1 .. Len(rows) : rows[n] \in Row
  OBVIOUS
<1>2. ASSUME NEW row \in Row
      PROVE  of(row) \in Q /\ Len(of(row)) = w /\ \A j \in 1 .. w : of(row)[j] = Param(row, columns[j])
  <2>1. \A j \in 1 .. w : Param(row, columns[j]) \in N
    BY ParamIs
  <2> HIDE DEF w, N
  <2> QED BY <1>1, <2>1
<1> HIDE DEF of, Q
<1>3. all \in Seq(Q) /\ Len(all) = Len(rows) /\ \A n \in 1 .. Len(rows) : all[n] = of(rows[n])
  BY <1>1, <1>2
<1> HIDE DEF all
<1>4. \A n \in 1 .. Len(rows) : Len(all[n]) = w
  BY <1>1, <1>2, <1>3
<1>5. \A j \in 1 .. w : FlattenSeq(all)[(i - 1) * w + j] = all[i][j]
  <2>1. all \in Seq(Seq(N)) /\ w \in Nat /\ HasWidth(all, w)
    BY <1>1, <1>3, <1>4 DEF Q, HasWidth
  <2> HIDE DEF w, N
  <2>2. Aligned(FlattenSeq(all), all, w)
    BY <2>1, FlattenEqualWidths
  <2> QED BY <1>3, <2>2 DEF Aligned
<1>6. ParametersOf(rows, columns) = FlattenSeq(all)
  BY DEF ParametersOf, all, of
<1>7. ASSUME NEW f \in Columns
      PROVE  InsertedRow(rows, columns, i)[f] = OrNull(Told(rows[i].values, f))
  <2> DEFINE j == ColumnPlace(columns, f)
             p == ParametersOf(rows, columns)
  <2>1. InsertedRow(rows, columns, i)[f] = IF j = 0 THEN SqlNull ELSE p[(i - 1) * w + j]
    BY DEF InsertedRow
  <2>2. j = 0 => f \notin ToSet(columns)
    BY ColumnPlaceIs
  <2>3. j # 0 => j \in 1 .. w /\ columns[j] = f
    BY ColumnPlaceIs
  <2>4. Param(rows[i], f) = OrNull(Told(rows[i].values, f))
    BY <1>1, ParamIs
  <2> HIDE DEF j, p, w
  <2>5. CASE j = 0
    <3>1. PlaceOf(rows[i].values, f) = 0
      BY <2>2, <2>5 DEF Covers
    <3> QED BY <2>1, <2>4, <2>5, <3>1 DEF Param
  <2>6. CASE j # 0
    <3>1. p[(i - 1) * w + j] = all[i][j]
      BY <1>5, <1>6, <2>3, <2>6 DEF p
    <3>2. all[i][j] = Param(rows[i], f)
      BY <1>1, <1>2, <1>3, <2>3, <2>6
    <3> QED BY <2>1, <2>4, <2>6, <3>1, <3>2
  <2> QED BY <2>5, <2>6
<1>8. InsertedRow(rows, columns, i) = [f \in Columns |-> InsertedRow(rows, columns, i)[f]]
  BY DEF InsertedRow
<1> HIDE DEF w
<1> QED BY <1>7, <1>8

(* The rows inserted so far, once the rows of a chunk are added. *)
FirstInserted(rows, d) == [i \in 1 .. d |-> InsertedAs(rows[i])]
NextInserted(rows, d, c) == [i \in 1 .. c |-> InsertedAs(rows[d + i])]

LEMMA MoreInserted ==
    ASSUME NEW saying \in Seq(Row), NEW d \in Nat, NEW c \in Nat, d + c <= Len(saying)
    PROVE  /\ FirstInserted(saying, d) \o NextInserted(saying, d, c) = FirstInserted(saying, d + c)
           /\ FirstInserted(saying, d + c) \in Seq([Columns -> Nat])
<1> DEFINE T == [Columns -> Nat]
           ins == FirstInserted(saying, d)
           new == NextInserted(saying, d, c)
           g(i) == InsertedAs(saying[i])
           m == Len(saying)
           goal == FirstInserted(saying, d + c)
<1>1. \A i \in 1 .. m : g(i) \in T
  <2>1. ASSUME NEW i \in 1 .. m, NEW f \in Columns
        PROVE  OrNull(LastTold(saying[i].values, f)) \in Nat
    <3>1. saying[i] \in Row
      OBVIOUS
    <3>2. saying[i].values \in Seq(Pair)
      BY <3>1 DEF Row
    <3> DEFINE x == LastTold(saying[i].values, f)
    <3>3. x \in Nat \cup {None}
      BY <3>2, ToldTypes
    <3> HIDE DEF x
    <3>4. OrNull(x) \in Nat
      BY <3>3 DEF OrNull, SqlNull
    <3> QED BY <3>4 DEF x
  <2>2. ASSUME NEW i \in 1 .. m
        PROVE  g(i) = [f \in Columns |-> OrNull(LastTold(saying[i].values, f))]
    <3>1. saying[i] \in Row
      OBVIOUS
    <3> QED BY <3>1, InsertedAsIs
  <2> QED BY <2>1, <2>2
<1>2. m \in Nat /\ d + c <= m
  OBVIOUS
<1>3. /\ ins = [i \in 1 .. d |-> g(i)] /\ new = [i \in 1 .. c |-> g(d + i)]
      /\ goal = [i \in 1 .. d + c |-> g(i)]
  BY DEF FirstInserted, NextInserted
<1> HIDE DEF T, g, m, ins, new, goal
<1>4. \A i \in 1 .. d : i \in 1 .. m
  BY <1>2
<1>5. \A i \in 1 .. c : d + i \in 1 .. m
  BY <1>2
<1>6. \A i \in 1 .. d + c : i \in 1 .. m
  BY <1>2
<1>7. ins \in Seq(T) /\ Len(ins) = d /\ \A i \in 1 .. d : ins[i] = g(i)
  BY <1>1, <1>3, <1>4
<1>8. new \in Seq(T) /\ Len(new) = c /\ \A i \in 1 .. c : new[i] = g(d + i)
  <2> DEFINE h(i) == g(d + i)
  <2>1. \A i \in 1 .. c : h(i) \in T
    BY <1>1, <1>5
  <2>2. new = [i \in 1 .. c |-> h(i)]
    BY <1>3
  <2> HIDE DEF h
  <2>3. new \in Seq(T) /\ Len(new) = c /\ \A i \in 1 .. c : new[i] = h(i)
    BY <2>1, <2>2
  <2> QED BY <2>3 DEF h
<1>9. d + c \in Nat
  OBVIOUS
<1>10. goal \in Seq(T) /\ Len(goal) = d + c /\ \A i \in 1 .. d + c : goal[i] = g(i)
  BY <1>1, <1>3, <1>6, <1>9
<1> DEFINE cat == ins \o new
<1>11. /\ cat \in Seq(T) /\ Len(cat) = d + c
       /\ (\A i \in 1 .. d : cat[i] = ins[i]) /\ \A i \in 1 .. c : cat[d + i] = new[i]
  <2>1. ins \in Seq(T) /\ new \in Seq(T)
    BY <1>7, <1>8
  <2>2. /\ cat \in Seq(T) /\ Len(cat) = Len(ins) + Len(new)
        /\ (\A i \in 1 .. Len(ins) : cat[i] = ins[i])
        /\ \A i \in 1 .. Len(new) : cat[Len(ins) + i] = new[i]
    BY <2>1, ConcatAt
  <2> HIDE DEF cat
  <2> QED BY <1>7, <1>8, <2>2
<1> HIDE DEF cat
<1>12. ASSUME NEW i \in 1 .. d + c PROVE cat[i] = goal[i]
  <2>1. CASE i \in 1 .. d
    BY <1>7, <1>10, <1>11, <2>1
  <2>2. CASE i \notin 1 .. d
    <3>1. i - d \in 1 .. c /\ d + (i - d) = i
      BY <2>2
    <3> QED BY <1>8, <1>10, <1>11, <3>1
  <2> QED BY <2>1, <2>2
<1>13. cat = goal
  BY <1>9, <1>10, <1>11, <1>12, SeqEqual
<1> QED BY <1>10, <1>13 DEF cat, goal, ins, new, T

LEMMA InsertChunkDoes ==
    ASSUME BatchInv, InsertChunk
    PROVE  /\ inserted' \in Seq([Columns -> Nat])
           /\ BatchDone(kind, job', table, inserted', deleted)
<1> DEFINE all == NormalizeRows(job.rows)
           saying == Saying(job.rows)
           c == Len(Chunk)
           new == Rest(job.rest, c)
           rows == [i \in DOMAIN Chunk |-> InsertedRow(Chunk, job.columns, i)]
<1>1. ChunkGoes("inserts") /\ GoodJob(kind, job) /\ BatchDone(kind, job, table, inserted, deleted)
  BY DEF InsertChunk, BatchInv
<1>2. kind = "inserts" /\ job'.rows = job.rows /\ job'.rest = new /\ job.rows \in Seq(Row)
      /\ job.columns \in Seq(Columns) /\ Covers(job.columns, job.rest)
  BY <1>1, RestAfterChunk DEF GoodJob
<1>3. inserted' = inserted \o rows
  BY DEF InsertChunk, InsertedRow, ParametersOf, ColumnPlace, Param
<1>4. /\ saying \in Seq(Row) /\ all \in Seq(Row) /\ Len(all) = Len(saying)
      /\ \A i \in 1 .. Len(saying) : all[i] = NormalRow(saying[i])
  BY <1>2, KeptInStep
<1>5. PICK d \in 0 .. Len(all) :
            /\ job.rest = Rest(all, d) /\ c \in 0 .. Len(all) - d
            /\ d + c \in 0 .. Len(all) /\ new = Rest(all, d + c)
  BY <1>1, <1>2, RestAfterChunk DEF AllRows
<1>6. /\ Chunk \in Seq(Row) /\ c \in 0 .. Len(job.rest) /\ job.rest \in Seq(Row)
      /\ \A i \in 1 .. c : i \in 1 .. Len(job.rest) /\ Chunk[i] = job.rest[i]
  BY <1>1, ChunkTypes
<1>7. inserted = [i \in 1 .. Len(saying) - Len(job.rest) |-> InsertedAs(saying[i])]
  BY <1>1, <1>2 DEF BatchDone
<1>8. /\ Len(job.rest) = Len(all) - d /\ d \in Nat /\ Len(all) \in Nat
      /\ \A i \in 1 .. Len(all) - d : d + i \in 1 .. Len(all) /\ job.rest[i] = all[d + i]
  BY <1>4, <1>5, RestTypes
<1>9. Len(new) = Len(all) - (d + c)
  BY <1>4, <1>5, RestTypes
<1>10. DOMAIN Chunk = 1 .. c
  BY <1>6
<1>11. Covers(job.columns, Chunk)
  <2>1. ASSUME NEW i \in 1 .. Len(Chunk), NEW f, PlaceOf(Chunk[i].values, f) # 0
        PROVE  f \in ToSet(job.columns)
    <3>1. i \in 1 .. Len(job.rest) /\ PlaceOf(job.rest[i].values, f) # 0
      BY <1>6, <2>1
    <3> QED BY <1>2, <3>1 DEF Covers
  <2> QED BY <2>1 DEF Covers
<1>12. ASSUME NEW i \in 1 .. c
       PROVE  InsertedRow(Chunk, job.columns, i) = InsertedAs(saying[d + i])
  <2>1. InsertedRow(Chunk, job.columns, i) = [f \in Columns |-> OrNull(Told(Chunk[i].values, f))]
    BY <1>2, <1>6, <1>11, InsertedRowIs
  <2>2. d + i \in 1 .. Len(saying) /\ Chunk[i] = NormalRow(saying[d + i])
    BY <1>4, <1>6, <1>8
  <2>3. saying[d + i] \in Row
    BY <1>4, <2>2
  <2>4. \A f : Told(Chunk[i].values, f) = LastTold(saying[d + i].values, f)
    BY <2>2, <2>3, NormalRowSays
  <2>5. InsertedAs(saying[d + i]) = [f \in Columns |-> OrNull(LastTold(saying[d + i].values, f))]
    BY <2>3, InsertedAsIs
  <2> QED BY <2>1, <2>4, <2>5
<1> HIDE DEF all, saying, c, new
<1>13. rows = NextInserted(saying, d, c)
  BY <1>10, <1>12 DEF NextInserted
<1>14. Len(saying) - Len(job.rest) = d /\ Len(saying) - Len(new) = d + c
       /\ c \in Nat /\ d + c <= Len(saying)
  BY <1>4, <1>5, <1>8, <1>9
<1> HIDE DEF rows
<1>15. inserted' = FirstInserted(saying, d + c) /\ inserted' \in Seq([Columns -> Nat])
  <2>1. inserted = FirstInserted(saying, d)
    BY <1>7, <1>14 DEF FirstInserted
  <2>2. /\ FirstInserted(saying, d) \o NextInserted(saying, d, c) = FirstInserted(saying, d + c)
        /\ FirstInserted(saying, d + c) \in Seq([Columns -> Nat])
    BY <1>4, <1>8, <1>14, MoreInserted
  <2> QED BY <1>3, <1>13, <2>1, <2>2
<1>16. kind # "updates" /\ kind # "deletes"
  BY <1>2
<1>17. inserted' = [i \in 1 .. Len(Saying(job'.rows)) - Len(job'.rest) |-> InsertedAs(Saying(job'.rows)[i])]
  BY <1>2, <1>14, <1>15 DEF saying, FirstInserted
<1> QED BY <1>15, <1>16, <1>17 DEF BatchDone

LEMMA DeleteChunkDoes ==
    ASSUME BatchInv, DeleteChunk
    PROVE  deleted' \subseteq RowKeys /\ BatchDone(kind, job', table, inserted, deleted')
<1> DEFINE c == Len(Chunk)
           new == Rest(job.rest, c)
<1>1. ChunkGoes("deletes") /\ GoodJob(kind, job) /\ BatchDone(kind, job, table, inserted, deleted)
      /\ deleted \subseteq RowKeys /\ deleted' = deleted \cup KeysOf(Chunk)
  BY DEF DeleteChunk, BatchInv, KeysOf
<1>2. kind = "deletes" /\ job'.rows = job.rows /\ job'.rest = new /\ job.rows \in Seq(Row)
  BY <1>1, RestAfterChunk DEF GoodJob
<1>3. PICK d \in 0 .. Len(job.rows) : job.rest = Rest(job.rows, d)
  BY <1>1, <1>2 DEF GoodJob, AllRows
<1>4. /\ Chunk \in Seq(Row) /\ c \in 0 .. Len(job.rest) /\ job.rest \in Seq(Row)
      /\ \A i \in 1 .. c : i \in 1 .. Len(job.rest) /\ Chunk[i] = job.rest[i]
  BY <1>1, ChunkTypes
<1>5. KeysOf(job.rest) = KeysOf(Chunk) \cup KeysOf(new)
  BY <1>4, KeysSplit
<1>6. KeysOf(job.rest) \subseteq KeysOf(job.rows) /\ KeysOf(Chunk) \subseteq RowKeys
  BY <1>2, <1>3, <1>4, KeysOfRest, KeysOfIs
<1>7. KeysOf(job.rows) \ KeysOf(job.rest) \subseteq deleted /\ deleted \subseteq KeysOf(job.rows)
  BY <1>1, <1>2 DEF BatchDone
<1>8. kind # "updates" /\ kind # "inserts"
  BY <1>2
<1> HIDE DEF new, c
<1>9. KeysOf(job.rows) \ KeysOf(new) \subseteq deleted' /\ deleted' \subseteq KeysOf(job.rows)
  BY <1>1, <1>5, <1>6, <1>7
<1> QED BY <1>1, <1>2, <1>6, <1>8, <1>9 DEF BatchDone

-----------------------------------------------------------------------------
(* Every step keeps the invariant *)

batchVars == <<kind, job, table, inserted, deleted>>

LEMMA BatchInitially ==
    ASSUME SqlInit
    PROVE  BatchInv
<1> DEFINE empty == <<>>
<1>1. /\ job = NoJob /\ table = [k \in RowKeys |-> Blank] /\ inserted = <<>> /\ deleted = {}
  BY DEF SqlInit, Blank
<1>2. job = [rows |-> empty, rest |-> empty, columns |-> empty, size |-> 0]
  BY <1>1 DEF NoJob
<1>3. \A S : empty \in Seq(S)
  BY EmptySeq
<1> HIDE DEF empty
<1>4. job \in [rows : Seq(Row), rest : Seq(Row), columns : Seq(Columns), size : BatchSizes \cup {0}]
      /\ job.rows = empty /\ job.rest = empty /\ job.columns = empty
  BY <1>2, <1>3
<1>5. AllRows(kind, empty) = empty
  BY NoRows DEF AllRows, NormalizeBatchRows, empty
<1>6. empty = Rest(empty, 0) /\ 0 \in 0 .. Len(empty)
  BY <1>3, RestOfNone
<1>7. Covers(empty, empty)
  BY DEF Covers, empty
<1>8. GoodJob(kind, job)
  BY <1>4, <1>5, <1>6, <1>7 DEF GoodJob
<1>9. table \in [RowKeys -> [Columns -> Nat]] /\ \A k \in RowKeys : table[k] = Blank
  BY <1>1 DEF Blank, SqlNull
<1>10. \A k : k \notin KeysOf(empty) /\ OneByOne(empty, k) = Blank
  BY NoKeys, NoRows DEF Blank, empty
<1>11. Len(Saying(empty)) - Len(empty) = 0
  BY NoRows DEF empty
<1>12. [i \in 1 .. 0 |-> InsertedAs(Saying(empty)[i])] = inserted
  BY <1>1
<1>13. BatchDone(kind, job, table, inserted, deleted)
  BY <1>1, <1>4, <1>9, <1>10, <1>11, <1>12 DEF BatchDone
<1>14. inserted \in Seq([Columns -> Nat]) /\ deleted \subseteq RowKeys
  BY <1>1, <1>3 DEF empty
<1> QED BY <1>8, <1>9, <1>13, <1>14 DEF BatchInv

LEMMA BatchUntouched ==
    ASSUME BatchInv, UNCHANGED batchVars
    PROVE  BatchInv'
BY DEF BatchInv, batchVars

(* The rows given to a batch. *)
LEMMA RowsGiven ==
    ASSUME NEW n \in Nat, NEW rows \in BoundedSeq([key : RowKeys, shape : RowShapes], n)
    PROVE  [i \in DOMAIN rows |-> GivenRow(rows[i], i)] \in Seq(Row)
<1> DEFINE G == [key : RowKeys, shape : RowShapes]
           R == Row
<1>1. PICK m \in 0 .. n : rows \in [1 .. m -> G]
  BY DEF BoundedSeq, SeqOf
<1>2. m \in Nat /\ DOMAIN rows = 1 .. m
  BY <1>1
<1>3. RowShapes \subseteq Seq(Columns)
  BY SqlAssumption, Zenon DEF SqlAssumption
<1>4. ASSUME NEW r \in G, NEW i \in Nat PROVE GivenRow(r, i) \in R
  <2> DEFINE s == r.shape
             v == [j \in DOMAIN s |-> [field |-> s[j], value |-> 10 * i + j]]
             P == Pair
  <2>1. s \in Seq(Columns) /\ r.key \in RowKeys
    BY <1>3
  <2>2. DOMAIN s = 1 .. Len(s) /\ Len(s) \in Nat /\ \A j \in 1 .. Len(s) : s[j] \in Columns
    BY <2>1
  <2> HIDE DEF s
  <2>3. \A j \in 1 .. Len(s) : [field |-> s[j], value |-> 10 * i + j] \in P
    BY <2>2 DEF Pair
  <2> HIDE DEF P
  <2>4. v \in Seq(P)
    BY <2>2, <2>3
  <2> HIDE DEF v
  <2>5. [key |-> r.key, values |-> v] \in R
    BY <2>1, <2>4 DEF P, Row
  <2>6. GivenRow(r, i) = [key |-> r.key, values |-> v]
    BY DEF GivenRow, v, s
  <2> QED BY <2>5, <2>6
<1> HIDE DEF R
<1>5. \A i \in 1 .. m : rows[i] \in G /\ i \in Nat
  BY <1>1
<1> HIDE DEF G
<1>6. [i \in 1 .. m |-> GivenRow(rows[i], i)] \in Seq(R)
  BY <1>2, <1>4, <1>5
<1> QED BY <1>2, <1>6 DEF R

LEMMA BatchKeeps ==
    ASSUME BatchInv, Batch
    PROVE  BatchInv'
<1>1. MaxRows \in Nat
  BY SqlAssumption, Zenon DEF SqlAssumption
<1>2. PICK rows \in BoundedSeq([key : RowKeys, shape : RowShapes], MaxRows), size \in BatchSizes :
        BatchBegins([i \in DOMAIN rows |-> GivenRow(rows[i], i)], size)
  BY DEF Batch
<1> DEFINE given_ == [i \in DOMAIN rows |-> GivenRow(rows[i], i)]
           all == AllRows(kind, given_)
           new == [rows |-> given_, rest |-> all, columns |-> CollectFields(all), size |-> size]
<1>3. given_ \in Seq(Row)
  BY <1>1, RowsGiven
<1> HIDE DEF given_
<1>4. job' = new /\ UNCHANGED <<kind, table, inserted, deleted>>
  BY <1>2 DEF BatchBegins, BatchRows, AllRows, given_
<1>5. /\ kind = "updates" => \A key \in RowKeys : table[key] = Blank
      /\ kind = "inserts" => inserted = <<>>
      /\ kind = "deletes" => deleted = {}
  <2>1. job = NoJob
    BY DEF Batch
  <2>2. BatchDone(kind, NoJob, table, inserted, deleted)
    BY <2>1 DEF BatchInv
  <2> QED BY <2>2, NothingDone
<1>6. GoodJob(kind, new) /\ BatchDone(kind, new, table, inserted, deleted)
  BY <1>3, <1>5, BegunBatch
<1> HIDE DEF new
<1> QED BY <1>4, <1>6 DEF BatchInv

LEMMA ChunkKeeps ==
    ASSUME BatchInv, UpdateChunk \/ InsertChunk \/ DeleteChunk
    PROVE  BatchInv'
<1>1. ASSUME NEW batch, ChunkGoes(batch) PROVE kind' = kind /\ GoodJob(kind, job')
  BY <1>1, RestAfterChunk DEF BatchInv
<1>2. CASE UpdateChunk
  <2>1. kind' = kind /\ GoodJob(kind, job') /\ UNCHANGED <<inserted, deleted>>
    BY <1>1, <1>2 DEF UpdateChunk
  <2>2. table' \in [RowKeys -> [Columns -> Nat]] /\ BatchDone(kind, job', table', inserted, deleted)
    BY <1>2, UpdateChunkDoes
  <2> QED BY <2>1, <2>2 DEF BatchInv
<1>3. CASE InsertChunk
  <2>1. kind' = kind /\ GoodJob(kind, job') /\ UNCHANGED <<table, deleted>>
    BY <1>1, <1>3 DEF InsertChunk
  <2>2. inserted' \in Seq([Columns -> Nat]) /\ BatchDone(kind, job', table, inserted', deleted)
    BY <1>3, InsertChunkDoes
  <2> QED BY <2>1, <2>2 DEF BatchInv
<1>4. CASE DeleteChunk
  <2>1. kind' = kind /\ GoodJob(kind, job') /\ UNCHANGED <<table, inserted>>
    BY <1>1, <1>4 DEF DeleteChunk
  <2>2. deleted' \subseteq RowKeys /\ BatchDone(kind, job', table, inserted, deleted')
    BY <1>4, DeleteChunkDoes
  <2> QED BY <2>1, <2>2 DEF BatchInv
<1> QED BY <1>2, <1>3, <1>4

LEMMA FailureKeeps ==
    ASSUME BatchInv, ChunkFails
    PROVE  BatchInv'
<1>1. job' = [job EXCEPT !.size = 0] /\ UNCHANGED <<kind, table, inserted, deleted>>
  BY DEF ChunkFails
<1>2. job \in [rows : Seq(Row), rest : Seq(Row), columns : Seq(Columns), size : BatchSizes \cup {0}]
      /\ GoodJob(kind, job)
  BY DEF BatchInv, GoodJob
<1>3. job' \in [rows : Seq(Row), rest : Seq(Row), columns : Seq(Columns), size : BatchSizes \cup {0}]
      /\ job'.rows = job.rows /\ job'.rest = job.rest /\ job'.columns = job.columns
  BY <1>1, <1>2
<1>4. GoodJob(kind, job')
  BY <1>2, <1>3 DEF GoodJob
<1>5. BatchDone(kind, job', table, inserted, deleted)
  BY <1>3 DEF BatchInv, BatchDone
<1> QED BY <1>1, <1>4, <1>5 DEF BatchInv

LEMMA BatchStep ==
    ASSUME BatchInv, [SqlNext]_sqlVars
    PROVE  BatchInv'
<1>1. ASSUME NEW text \in Conditions, WhereText(text) \/ Having(text) PROVE UNCHANGED batchVars
  BY <1>1 DEF WhereText, Having, SqlCall, batchVars
<1>2. ASSUME NEW n \in 0 .. 2, WhereIn(n) PROVE UNCHANGED batchVars
  BY <1>2 DEF WhereIn, SqlCall, batchVars
<1>3. ASSUME NEW f \in Columns, SetColumn(f) PROVE UNCHANGED batchVars
  BY <1>3 DEF SetColumn, SqlCall, batchVars
<1>4. CASE WhereNotInNothing \/ AllowFullTableDelete
  <2>1. UNCHANGED batchVars
    BY <1>4 DEF WhereNotInNothing, AllowFullTableDelete, SqlCall, batchVars
  <2> QED BY <2>1, BatchUntouched
<1>5. CASE ExecQuery \/ ExecUpdate \/ ExecInsert \/ ExecDelete \/ SoftDelete
  <2>1. UNCHANGED batchVars
    BY <1>5 DEF ExecQuery, ExecUpdate, ExecInsert, ExecDelete, SoftDelete, SqlCall, batchVars
  <2> QED BY <2>1, BatchUntouched
<1>6. CASE UNCHANGED sqlVars
  <2>1. UNCHANGED batchVars
    BY <1>6 DEF sqlVars, batchVars
  <2> QED BY <2>1, BatchUntouched
<1>7. CASE Batch \/ UpdateChunk \/ InsertChunk \/ DeleteChunk \/ ChunkFails
  BY <1>7, BatchKeeps, ChunkKeeps, FailureKeeps
<1> QED BY <1>1, <1>2, <1>3, <1>4, <1>5, <1>6, <1>7, BatchUntouched DEF SqlNext

-----------------------------------------------------------------------------
(* Theorems *)

(* Updates, inserts and deletes of many rows do what their rows would do one after the
   other, for any rows given and wherever the batch is cut or stops (SqlUpdate.h and
   SqlInsert.h normalise the rows, merge those with the same key and number the
   parameters). *)
THEOREM BatchesAsOneByOne == SqlSpec => []BatchAsOneByOne
<1>1. BatchInv => BatchAsOneByOne
  BY DEF BatchInv, BatchDone, BatchAsOneByOne, KeysOf, Blank
<1>2. SqlInit => BatchInv
  BY BatchInitially
<1>3. BatchInv /\ [SqlNext]_sqlVars => BatchInv'
  BY BatchStep
<1> QED BY <1>1, <1>2, <1>3, PTL DEF SqlSpec

LEMMA SetOfSeq ==
    ASSUME NEW S, NEW s \in Seq(S)
    PROVE  ToSet(s) \subseteq S
<1>1. DOMAIN s = 1 .. Len(s) /\ \A i \in 1 .. Len(s) : s[i] \in S
  OBVIOUS
<1> QED BY <1>1 DEF ToSet

(* The types of the builders and batches: the values in a statement's lists are values
   that were given, a table and the rows inserted have a value in each column. *)
THEOREM SqlTypesOK == SqlSpec => []SqlTypeOK
<1>1. BuilderInv /\ BatchInv => SqlTypeOK
  <2> SUFFICES ASSUME BuilderInv, BatchInv PROVE SqlTypeOK
    OBVIOUS
  <2>1. /\ kind \in Single \cup Batches /\ calls \in 0 .. MaxCalls /\ given \in Nat
        /\ builder.whereValues \in Seq(1 .. given) /\ builder.havingValues \in Seq(1 .. given)
    BY DEF BuilderInv, GoodBuilder
  <2>2. \A S, s : s \in Seq(S) => ToSet(s) \subseteq S
    BY SetOfSeq
  <2>3. \A list \in {builder.whereValues, builder.havingValues} : ToSet(list) \subseteq 1 .. given
    BY <2>1, <2>2
  <2>4. /\ job.columns \in Seq(Columns) /\ job.size \in BatchSizes \cup {0}
        /\ table \in [RowKeys -> [Columns -> Nat]] /\ inserted \in Seq([Columns -> Nat])
        /\ deleted \subseteq RowKeys
    BY DEF BatchInv, GoodJob
  <2> QED BY <2>1, <2>2, <2>3, <2>4 DEF SqlTypeOK
<1>2. SqlInit => BuilderInv /\ BatchInv
  BY BuilderInitially, BatchInitially
<1>3. BuilderInv /\ BatchInv /\ [SqlNext]_sqlVars => BuilderInv' /\ BatchInv'
  BY BuilderStep, BatchStep
<1> QED BY <1>1, <1>2, <1>3, PTL DEF SqlSpec
=============================================================================
