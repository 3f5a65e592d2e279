--------------------------- MODULE RoomTableProofs --------------------------
(***************************************************************************)
(* Theorems about the room table, for every number of rooms, clients,      *)
(* threads and messages and for every value of the limits: TypesKept,      *)
(* NobodyIsOrphaned, BooksOfJournalsBalance and BudgetIsRestored; and,     *)
(* from "What a name stands for across its rooms" on, about what outlives  *)
(* a room: JournalsStayUnbroken, HeardNumbersKeepRising and                *)
(* ReplaysAreHonest.                                                       *)
(*                                                                         *)
(* The inductive invariant of the first three is IInv.  That whoever is a  *)
(* member is in the room its name stands for is not inductive alone: it    *)
(* needs that an object is retired only without members, that between the  *)
(* two locks of the last leaver it is still the one in the table           *)
(* (ObjectsInv), and that the table has for a name only an object of that  *)
(* name (TableInv).  The books need that journalOrder_ mentions every      *)
(* retained journal once (Books).  BudgetInv is the invariant of a round   *)
(* of enforceJournalBudget; it counts entries object by object (Weight).   *)
(*                                                                         *)
(* A name has a last number and a journal whether there is a room or not   *)
(* (Last, Kept), and every step leaves both alone, gives the journal up or *)
(* logs the next message (NameSteps); so has every object ever made        *)
(* (ObjectSteps), which a publisher may still hold after the room is gone. *)
(* The invariant, RunsInv, says of both that the journal is an unbroken    *)
(* run up to the last number, and of a reader between its two locks that   *)
(* what it owes is in the journal of what it has found or gone from it.    *)
(* All of it needs that roomSeqWatermark_ is not cleared (MarksFit), which *)
(* is the case where there are no more names than watermarks.              *)
(***************************************************************************)
EXTENDS RoomTable, TLAPS, WellFoundedInduction, FiniteSetTheorems, SequenceTheorems

(***************************************************************************)
(* Operators of the model.                                                 *)
(***************************************************************************)

(* A nonempty set of naturals has a least element and Least chooses it: the
   first mention of a name in journalOrder_, the fewest evictions. *)
LEMMA LeastIs ==
    ASSUME NEW S \in SUBSET Nat, S # {}
    PROVE  /\ Least(S) \in S
           /\ \A k \in S : Least(S) <= k
<1> DEFINE R == {ss \in Nat \X Nat : ss[1] < ss[2]}
<1>1. IsWellFoundedOn(R, Nat)
  BY NatLessThanWellFounded DEF OpToRel
<1>2. \A x, y \in Nat : y < x => <<y, x>> \in R
  OBVIOUS
<1> HIDE DEF R
<1>3. PICK x \in S : \A y \in S : ~(<<y, x>> \in R)
  BY <1>1, WFMin
<1>4. ASSUME NEW y \in S PROVE x <= y
  <2>1. ~(y < x) BY <1>2, <1>3
  <2> QED BY <2>1
<1> QED BY <1>4 DEF Least

(* The tables of roomsMtx_ are partial functions of the room names. *)
LEMMA WithoutIs ==
    ASSUME NEW f, NEW n
    PROVE  /\ DOMAIN Without(f, n) = DOMAIN f \ {n}
           /\ \A m \in DOMAIN f \ {n} : Without(f, n)[m] = f[m]
  BY DEF Without, Restrict

(* A table restricted to some of its names. *)
LEMMA RestrictIs ==
    ASSUME NEW f, NEW D
    PROVE  /\ DOMAIN Restrict(f, D) = D
           /\ \A m \in D : Restrict(f, D)[m] = f[m]
  BY DEF Restrict

(* Writing to, taking from and restricting a table leave it a table. *)
LEMMA PartialIs ==
    ASSUME NEW f, NEW S, NEW T, IsPartial(f, S, T)
    PROVE  /\ \A n, v : n \in S /\ v \in T => IsPartial(With(f, n, v), S, T)
           /\ \A n : IsPartial(Without(f, n), S, T)
           /\ \A D : D \subseteq DOMAIN f => IsPartial(Restrict(f, D), S, T)
<1>1. ASSUME NEW n \in S, NEW v \in T PROVE IsPartial(With(f, n, v), S, T)
  BY DEF IsPartial, With
<1>2. ASSUME NEW D, D \subseteq DOMAIN f PROVE IsPartial(Restrict(f, D), S, T)
  BY <1>2 DEF IsPartial, Restrict
<1>3. ASSUME NEW n PROVE IsPartial(Without(f, n), S, T)
  BY <1>2 DEF Without
<1> QED BY <1>1, <1>2, <1>3

(* journalOrder_ mentions no name twice. *)
Distinct(ord) == \A i, j \in DOMAIN ord : ord[i] = ord[j] => i = j

(* Names that are mentioned once are as many as the mentions. *)
LEMMA MentionedOnce ==
    ASSUME NEW S, NEW ord \in Seq(S), Distinct(ord)
    PROVE  /\ IsFiniteSet(Range(ord)) /\ Cardinality(Range(ord)) = Len(ord)
           /\ Range(ord) \subseteq S
<1>1. ord \in [1 .. Len(ord) -> S] /\ DOMAIN ord = 1 .. Len(ord) /\ Len(ord) \in Nat
  OBVIOUS
<1>2. ord \in Bijection(1 .. Len(ord), Range(ord))
  BY <1>1 DEF Bijection, Injection, Surjection, IsInjective, Range, Distinct
<1>3. IsFiniteSet(1 .. Len(ord)) /\ Cardinality(1 .. Len(ord)) = Len(ord)
  <2>1. 1 \in Int /\ Len(ord) \in Int
    BY <1>1
  <2>2. /\ IsFiniteSet(1 .. Len(ord))
        /\ Cardinality(1 .. Len(ord)) = IF 1 > Len(ord) THEN 0 ELSE Len(ord) - 1 + 1
    BY <2>1, FS_Interval
  <2> QED BY <1>1, <2>2
<1>4. ExistsBijection(1 .. Len(ord), Range(ord))
  BY <1>2 DEF ExistsBijection
<1>5. IsFiniteSet(Range(ord)) /\ Cardinality(Range(ord)) = Len(ord)
  BY <1>3, <1>4, FS_Bijection
<1> QED BY <1>1, <1>5 DEF Range

(* forgetJournalOrderLocked: the one mention of a name goes and nothing else. *)
LEMMA ForgetIs ==
    ASSUME NEW S, NEW ord \in Seq(S), Distinct(ord), NEW n \in Range(ord)
    PROVE  /\ Forget(ord, n) \in Seq(S)
           /\ Distinct(Forget(ord, n))
           /\ Range(Forget(ord, n)) = Range(ord) \ {n}
<1> DEFINE k == Least({i \in DOMAIN ord : ord[i] = n})
           a == SubSeq(ord, 1, k - 1)
           b == SubSeq(ord, k + 1, Len(ord))
<1>1. ord \in [1 .. Len(ord) -> S] /\ DOMAIN ord = 1 .. Len(ord) /\ Len(ord) \in Nat
  OBVIOUS
<1>2. k \in 1 .. Len(ord) /\ ord[k] = n
  <2>1. {i \in DOMAIN ord : ord[i] = n} \in SUBSET Nat
    BY <1>1
  <2>2. {i \in DOMAIN ord : ord[i] = n} # {}
    BY DEF Range
  <2>3. k \in {i \in DOMAIN ord : ord[i] = n}
    BY <2>1, <2>2, LeastIs
  <2> QED BY <1>1, <2>3
<1>3. Forget(ord, n) = a \o b
  BY DEF Forget
<1> HIDE DEF k
<1>4. /\ a \in Seq(S) /\ Len(a) = k - 1 /\ \A i \in 1 .. k - 1 : a[i] = ord[i]
  <2>1. \A i \in 1 .. k - 1 : ord[i] \in S
    BY <1>1, <1>2
  <2>2. 1 \in Int /\ k - 1 \in Int
    BY <1>2
  <2> HIDE DEF a
  <2>3. /\ a \in Seq(S)
        /\ Len(a) = IF 1 <= k - 1 THEN (k - 1) - 1 + 1 ELSE 0
        /\ \A i \in 1 .. (k - 1) - 1 + 1 : a[i] = ord[1 + i - 1]
    BY <2>1, <2>2, SubSeqProperties DEF a
  <2> QED BY <1>2, <2>3
<1>5. /\ b \in Seq(S) /\ Len(b) = Len(ord) - k /\ \A i \in 1 .. Len(ord) - k : b[i] = ord[k + i]
  <2>1. \A i \in k + 1 .. Len(ord) : ord[i] \in S
    BY <1>1, <1>2
  <2>2. Len(ord) \in Int /\ k + 1 \in Int
    BY <1>1, <1>2
  <2> HIDE DEF b
  <2>3. /\ b \in Seq(S)
        /\ Len(b) = IF k + 1 <= Len(ord) THEN Len(ord) - (k + 1) + 1 ELSE 0
        /\ \A i \in 1 .. Len(ord) - (k + 1) + 1 : b[i] = ord[k + 1 + i - 1]
    BY <2>1, <2>2, SubSeqProperties DEF b
  <2>4. Len(b) = Len(ord) - k
    <3>1. CASE k + 1 <= Len(ord)
      <4>1. Len(b) = Len(ord) - (k + 1) + 1
        BY <2>3, <3>1
      <4> QED BY <1>1, <1>2, <4>1
    <3>2. CASE ~(k + 1 <= Len(ord))
      <4>1. Len(b) = 0
        BY <2>3, <3>2
      <4>2. k \in Int /\ k <= Len(ord) /\ Len(ord) \in Int
        BY <1>1, <1>2
      <4>3. \A x, y \in Int : y <= x /\ ~(y + 1 <= x) => x = y
        OBVIOUS
      <4>4. Len(ord) = k
        BY ONLY <3>2, <4>2, <4>3
      <4> QED BY <4>1, <4>2, <4>4
    <3> QED BY <3>1, <3>2
  <2>5. ASSUME NEW i \in 1 .. Len(ord) - k PROVE b[i] = ord[k + i]
    <3>1. i \in 1 .. Len(ord) - (k + 1) + 1 /\ k + 1 + i - 1 = k + i
      BY <1>1, <1>2
    <3>2. b[i] = ord[k + 1 + i - 1]
      BY <2>3, <3>1
    <3> QED BY <3>1, <3>2
  <2> QED BY <2>3, <2>4, <2>5
<1> HIDE DEF a, b
<1> DEFINE c == a \o b
<1>6. /\ c \in Seq(S) /\ Len(c) = Len(ord) - 1 /\ DOMAIN c = 1 .. Len(ord) - 1
      /\ \A i \in 1 .. Len(ord) - 1 : c[i] = IF i < k THEN ord[i] ELSE ord[i + 1]
  <2>1. /\ c \in Seq(S) /\ Len(c) = Len(a) + Len(b)
        /\ \A i \in 1 .. Len(a) + Len(b) : c[i] = IF i <= Len(a) THEN a[i] ELSE b[i - Len(a)]
    BY <1>4, <1>5, ConcatProperties
  <2>2. Len(c) = Len(ord) - 1
    BY <1>1, <1>2, <1>4, <1>5, <2>1
  <2>3. ASSUME NEW i \in 1 .. Len(ord) - 1 PROVE c[i] = IF i < k THEN ord[i] ELSE ord[i + 1]
    <3>1. CASE i < k
      <4>1. c[i] = a[i] /\ a[i] = ord[i]
        BY <1>1, <1>2, <1>4, <1>5, <2>1, <3>1
      <4> QED BY <3>1, <4>1
    <3>2. CASE ~(i < k)
      <4>1. c[i] = b[i - (k - 1)]
        BY <1>1, <1>2, <1>4, <1>5, <2>1, <3>2
      <4>2. i - (k - 1) \in 1 .. Len(ord) - k
        BY <1>1, <1>2, <3>2
      <4>3. c[i] = ord[k + (i - (k - 1))]
        BY <1>5, <4>1, <4>2
      <4>4. k + (i - (k - 1)) = i + 1
        BY <1>2
      <4> QED BY <3>2, <4>3, <4>4
    <3> QED BY <3>1, <3>2
  <2>4. DOMAIN c = 1 .. Len(c)
    BY <2>1, LenProperties
  <2> QED BY <2>1, <2>2, <2>3, <2>4
<1> HIDE DEF c
<1>7. Distinct(c)
  <2>1. SUFFICES ASSUME NEW i \in 1 .. Len(ord) - 1, NEW j \in 1 .. Len(ord) - 1, c[i] = c[j]
                 PROVE  i = j
    BY <1>6 DEF Distinct
  <2> DEFINE u(x) == IF x < k THEN x ELSE x + 1
  <2>2. c[i] = ord[u(i)] /\ c[j] = ord[u(j)]
    BY <1>6
  <2>3. u(i) \in DOMAIN ord /\ u(j) \in DOMAIN ord
    BY <1>1, <1>2
  <2>4. u(i) = u(j)
    BY <2>1, <2>2, <2>3 DEF Distinct
  <2> QED BY <1>2, <2>4
<1>8. Range(c) = Range(ord) \ {n}
  <2>1. ASSUME NEW i \in 1 .. Len(ord) - 1 PROVE c[i] \in Range(ord) \ {n}
    <3> DEFINE u == IF i < k THEN i ELSE i + 1
    <3>1. u \in DOMAIN ord /\ u # k /\ c[i] = ord[u]
      BY <1>1, <1>2, <1>6
    <3>2. ord[u] # n
      BY <1>1, <1>2, <3>1 DEF Distinct
    <3> QED BY <3>1, <3>2 DEF Range
  <2>2. ASSUME NEW i \in DOMAIN ord, ord[i] # n PROVE ord[i] \in Range(c)
    <3> DEFINE u == IF i < k THEN i ELSE i - 1
    <3>1. i # k
      BY <1>2, <2>2
    <3>2. u \in 1 .. Len(ord) - 1 /\ c[u] = ord[i]
      BY <1>1, <1>2, <1>6, <3>1
    <3> QED BY <1>6, <3>2 DEF Range
  <2> QED BY <1>6, <2>1, <2>2 DEF Range
<1> QED BY <1>3, <1>6, <1>7, <1>8 DEF c

(***************************************************************************)
(* The retained journals and their books.                                  *)
(***************************************************************************)

(* Journals that can be counted. *)
Shelf(js) ==
    /\ IsFiniteSet(DOMAIN js)
    /\ \A n \in DOMAIN js : js[n] \in Seq(Messages) /\ Len(js[n]) <= JournalCap

(* An entry is a journal of the shelf and a place in it. *)
LEMMA EntriesAre ==
    ASSUME NEW js
    PROVE  \A x : x \in Entries(js) <=> \E n \in DOMAIN js : \E i \in DOMAIN js[n] : x = <<n, i>>
  BY DEF Entries

(* A shelf has finitely many entries. *)
LEMMA ShelfIsFinite ==
    ASSUME NEW js, Shelf(js)
    PROVE  IsFiniteSet(Entries(js)) /\ EntriesOf(js) \in Nat
<1> DEFINE All == (DOMAIN js) \X (1 .. JournalCap)
<1>1. IsFiniteSet(1 .. JournalCap)
  BY TableAssumption, FS_Interval
<1>2. IsFiniteSet(All)
  <2>1. IsFiniteSet(DOMAIN js)
    BY DEF Shelf
  <2> QED BY <1>1, <2>1, FS_Product
<1>3. Entries(js) \subseteq All
  <2>1. ASSUME NEW n \in DOMAIN js, NEW i \in DOMAIN js[n] PROVE i \in 1 .. JournalCap
    <3>1. js[n] \in Seq(Messages) /\ Len(js[n]) <= JournalCap
      BY DEF Shelf
    <3>2. DOMAIN js[n] = 1 .. Len(js[n]) /\ Len(js[n]) \in Nat
      BY <3>1, LenProperties
    <3> QED BY <3>1, <3>2, TableAssumption
  <2>2. ASSUME NEW x \in Entries(js) PROVE x \in All
    <3>1. PICK n \in DOMAIN js : \E i \in DOMAIN js[n] : x = <<n, i>>
      BY EntriesAre
    <3>2. PICK i \in DOMAIN js[n] : x = <<n, i>>
      BY <3>1
    <3> QED BY <2>1, <3>2
  <2> QED BY <2>2
<1>4. IsFiniteSet(Entries(js))
  BY <1>2, <1>3, FS_Subset
<1> QED BY <1>4, FS_CardinalityType DEF EntriesOf

(* The entries of a shelf are those of some of its journals and of the others. *)
LEMMA EntriesSplit ==
    ASSUME NEW js, Shelf(js), NEW D \in SUBSET (DOMAIN js)
    PROVE  /\ Shelf(Restrict(js, D)) /\ Shelf(Restrict(js, DOMAIN js \ D))
           /\ EntriesOf(js) = EntriesOf(Restrict(js, D)) + EntriesOf(Restrict(js, DOMAIN js \ D))
<1> DEFINE E == DOMAIN js \ D
           f == Restrict(js, D)
           g == Restrict(js, E)
<1>1. /\ DOMAIN f = D /\ \A n \in D : f[n] = js[n]
      /\ DOMAIN g = E /\ \A n \in E : g[n] = js[n]
  BY RestrictIs
<1>2. IsFiniteSet(D) /\ IsFiniteSet(E)
  <2>1. IsFiniteSet(DOMAIN js)
    BY DEF Shelf
  <2> QED BY <2>1, FS_Subset
<1> HIDE DEF f, g
<1>3. Shelf(f) /\ Shelf(g)
  BY <1>1, <1>2 DEF Shelf
<1>4. Entries(js) = Entries(f) \cup Entries(g)
  <2>1. \A x : x \in Entries(js) <=> x \in Entries(f) \/ x \in Entries(g)
    BY <1>1, EntriesAre
  <2> QED BY <2>1
<1>5. Entries(f) \cap Entries(g) = {}
  BY <1>1, EntriesAre
<1>6. IsFiniteSet(Entries(f)) /\ IsFiniteSet(Entries(g))
  BY <1>3, ShelfIsFinite
<1>7. Cardinality(Entries(js)) = Cardinality(Entries(f)) + Cardinality(Entries(g)) - Cardinality({})
  BY <1>4, <1>5, <1>6, FS_Union
<1>8. Cardinality({}) = 0
  BY FS_EmptySet
<1>9. Cardinality(Entries(f)) \in Nat /\ Cardinality(Entries(g)) \in Nat
  BY <1>6, FS_CardinalityType
<1>10. EntriesOf(js) = EntriesOf(f) + EntriesOf(g)
  BY <1>7, <1>8, <1>9 DEF EntriesOf
<1> QED BY <1>3, <1>10 DEF f, g

(* The entries of one journal are its length. *)
LEMMA OneJournal ==
    ASSUME NEW js, Shelf(js), NEW n \in DOMAIN js
    PROVE  EntriesOf(Restrict(js, {n})) = Len(js[n]) /\ Len(js[n]) \in Nat
<1> DEFINE f == Restrict(js, {n})
           h == [i \in 1 .. Len(js[n]) |-> <<n, i>>]
<1>1. DOMAIN f = {n} /\ f[n] = js[n]
  BY RestrictIs
<1>2. DOMAIN js[n] = 1 .. Len(js[n]) /\ Len(js[n]) \in Nat
  BY LenProperties DEF Shelf
<1> HIDE DEF f
<1>3. \A x : x \in Entries(f) <=> \E i \in 1 .. Len(js[n]) : x = <<n, i>>
  BY <1>1, <1>2, EntriesAre
<1>4. h \in Bijection(1 .. Len(js[n]), Entries(f))
  <2>1. h \in [1 .. Len(js[n]) -> Entries(f)]
    BY <1>3
  <2>2. \A x \in Entries(f) : \E i \in 1 .. Len(js[n]) : h[i] = x
    BY <1>3
  <2>3. \A i, j \in 1 .. Len(js[n]) : h[i] = h[j] => i = j
    OBVIOUS
  <2> QED BY <2>1, <2>2, <2>3 DEF Bijection, Injection, Surjection, IsInjective
<1>5. IsFiniteSet(1 .. Len(js[n])) /\ Cardinality(1 .. Len(js[n])) = Len(js[n])
  <2>1. 1 \in Int /\ Len(js[n]) \in Int
    BY <1>2
  <2>2. /\ IsFiniteSet(1 .. Len(js[n]))
        /\ Cardinality(1 .. Len(js[n])) = IF 1 > Len(js[n]) THEN 0 ELSE Len(js[n]) - 1 + 1
    BY <2>1, FS_Interval
  <2> QED BY <1>2, <2>2
<1>6. ExistsBijection(1 .. Len(js[n]), Entries(f))
  BY <1>4 DEF ExistsBijection
<1>7. Cardinality(Entries(f)) = Len(js[n])
  BY <1>5, <1>6, FS_Bijection
<1> QED BY <1>2, <1>7 DEF EntriesOf, f

(* Taking a journal off the shelf, and putting one on it. *)
LEMMA TakenOff ==
    ASSUME NEW js, Shelf(js), NEW n
    PROVE  /\ Shelf(Without(js, n)) /\ EntriesOf(Without(js, n)) \in Nat
           /\ n \in DOMAIN js => EntriesOf(Without(js, n)) = EntriesOf(js) - Len(js[n])
           /\ n \notin DOMAIN js => EntriesOf(Without(js, n)) = EntriesOf(js)
<1>1. CASE n \in DOMAIN js
  <2>1. {n} \in SUBSET (DOMAIN js)
    BY <1>1
  <2>2. /\ Shelf(Restrict(js, DOMAIN js \ {n}))
        /\ EntriesOf(js) = EntriesOf(Restrict(js, {n})) + EntriesOf(Restrict(js, DOMAIN js \ {n}))
    BY <2>1, EntriesSplit
  <2>3. EntriesOf(Restrict(js, {n})) = Len(js[n]) /\ Len(js[n]) \in Nat
    BY <1>1, OneJournal
  <2>4. EntriesOf(Restrict(js, DOMAIN js \ {n})) \in Nat
    BY <2>2, ShelfIsFinite
  <2> QED BY <1>1, <2>2, <2>3, <2>4 DEF Without
<1>2. CASE n \notin DOMAIN js
  <2>1. DOMAIN Without(js, n) = DOMAIN js /\ \A m \in DOMAIN js : Without(js, n)[m] = js[m]
    BY <1>2, WithoutIs
  <2>2. Shelf(Without(js, n))
    BY <2>1 DEF Shelf
  <2>3. \A x : x \in Entries(Without(js, n)) <=> x \in Entries(js)
    BY <2>1, EntriesAre
  <2>4. Entries(Without(js, n)) = Entries(js)
    BY <2>3
  <2> QED BY <1>2, <2>2, <2>4, ShelfIsFinite DEF EntriesOf
<1> QED BY <1>1, <1>2

(* Putting a journal on the shelf, in place of the one of its name. *)
LEMMA PutOn ==
    ASSUME NEW js, Shelf(js), NEW n, NEW j \in Seq(Messages), Len(j) <= JournalCap
    PROVE  /\ Shelf(With(js, n, j))
           /\ EntriesOf(With(js, n, j))
                = EntriesOf(js) + Len(j) - (IF n \in DOMAIN js THEN Len(js[n]) ELSE 0)
<1> DEFINE w == With(js, n, j)
<1>1. DOMAIN w = DOMAIN js \cup {n} /\ w[n] = j /\ \A m \in DOMAIN js \ {n} : w[m] = js[m]
  BY DEF With
<1>2. IsFiniteSet(DOMAIN js \cup {n})
  BY FS_AddElement DEF Shelf
<1> HIDE DEF w
<1>3. Shelf(w)
  BY <1>1, <1>2 DEF Shelf
<1>4. Without(w, n) = Without(js, n)
  BY <1>1 DEF Without, Restrict
<1>5. EntriesOf(Without(js, n)) = EntriesOf(w) - Len(j)
  BY <1>1, <1>3, <1>4, TakenOff
<1>6. EntriesOf(w) \in Nat /\ EntriesOf(js) \in Nat /\ Len(j) \in Nat
  BY <1>3, ShelfIsFinite
<1>7. CASE n \in DOMAIN js
  <2>1. EntriesOf(Without(js, n)) = EntriesOf(js) - Len(js[n])
    BY <1>7, TakenOff
  <2>2. Len(js[n]) \in Nat
    BY <1>7 DEF Shelf
  <2> QED BY <1>3, <1>5, <1>6, <1>7, <2>1, <2>2 DEF w
<1>8. CASE n \notin DOMAIN js
  <2>1. EntriesOf(Without(js, n)) = EntriesOf(js)
    BY <1>8, TakenOff
  <2> QED BY <1>3, <1>5, <1>6, <1>8, <2>1 DEF w
<1> QED BY <1>7, <1>8

(* What retainJournalLocked and its callers keep: the counter is the number of
   entries on the shelf, and the order mentions every journal there once. *)
Books(ret, ord, count) ==
    /\ IsPartial(ret, Names, Seq(Messages)) /\ Shelf(ret)
    /\ count = EntriesOf(ret)
    /\ ord \in Seq(Names) /\ Distinct(ord) /\ Range(ord) = DOMAIN ret

(* evictOldestJournalLocked, k times over. *)
LEMMA EvictedKeepsBooks ==
    ASSUME NEW ret, NEW ord, NEW count, Books(ret, ord, count), NEW k \in 0 .. Len(ord)
    PROVE  LET e == Evicted(ret, ord, count, k)
           IN  /\ Books(e.ret, e.ord, e.count)
               /\ DOMAIN e.ret \subseteq DOMAIN ret
               /\ \A n \in DOMAIN e.ret : e.ret[n] = ret[n]
               /\ k = Len(ord) => WithinLimits(e)
<1> DEFINE gone == {ord[i] : i \in 1 .. k} \cap DOMAIN ret
           left == DOMAIN ret \ gone
           r == Restrict(ret, left)
           g == Restrict(ret, gone)
           t == SubSeq(ord, k + 1, Len(ord))
           e == Evicted(ret, ord, count, k)
<1>1. /\ ord \in Seq(Names) /\ ord \in [1 .. Len(ord) -> Names] /\ DOMAIN ord = 1 .. Len(ord)
      /\ Len(ord) \in Nat
  BY LenProperties DEF Books
<1>2. e.ret = r /\ e.ord = t /\ e.count = count - EntriesOf(g)
  BY DEF Evicted
<1>3. gone \in SUBSET (DOMAIN ret)
  OBVIOUS
<1>4. /\ Shelf(g) /\ Shelf(r)
      /\ EntriesOf(ret) = EntriesOf(g) + EntriesOf(r)
      /\ EntriesOf(g) \in Nat /\ EntriesOf(r) \in Nat
  <2>1. Shelf(ret)
    BY DEF Books
  <2> HIDE DEF gone
  <2>2. Shelf(g) /\ Shelf(r) /\ EntriesOf(ret) = EntriesOf(g) + EntriesOf(r)
    BY <1>3, <2>1, EntriesSplit
  <2> HIDE DEF g, r
  <2> QED BY <2>2, ShelfIsFinite
<1>5. /\ DOMAIN r = left /\ \A n \in left : r[n] = ret[n]
      /\ IsPartial(r, Names, Seq(Messages))
  <2>1. left \subseteq DOMAIN ret /\ IsPartial(ret, Names, Seq(Messages))
    BY DEF Books
  <2> HIDE DEF left
  <2> QED BY <2>1, RestrictIs, PartialIs
<1>6. /\ t \in Seq(Names) /\ Len(t) = Len(ord) - k /\ DOMAIN t = 1 .. Len(ord) - k
      /\ \A i \in 1 .. Len(ord) - k : t[i] = ord[k + i]
  <2>1. \A i \in k + 1 .. Len(ord) : ord[i] \in Names
    BY <1>1
  <2>2. Len(ord) \in Int /\ k + 1 \in Int /\ k \in Int
    BY <1>1
  <2> HIDE DEF t
  <2>3. /\ t \in Seq(Names)
        /\ Len(t) = IF k + 1 <= Len(ord) THEN Len(ord) - (k + 1) + 1 ELSE 0
        /\ \A i \in 1 .. Len(ord) - (k + 1) + 1 : t[i] = ord[k + 1 + i - 1]
    BY <2>1, <2>2, SubSeqProperties DEF t
  <2>4. Len(t) = Len(ord) - k
    <3>1. \A x, y \in Int : y <= x => (IF y + 1 <= x THEN x - (y + 1) + 1 ELSE 0) = x - y
      OBVIOUS
    <3>2. k <= Len(ord)
      BY <1>1
    <3> QED BY ONLY <2>2, <2>3, <3>1, <3>2
  <2>5. ASSUME NEW i \in 1 .. Len(ord) - k PROVE t[i] = ord[k + i]
    <3>1. i \in 1 .. Len(ord) - (k + 1) + 1 /\ k + 1 + i - 1 = k + i
      BY <2>2
    <3>2. t[i] = ord[k + 1 + i - 1]
      BY <2>3, <3>1
    <3> QED BY <3>1, <3>2
  <2>6. DOMAIN t = 1 .. Len(t)
    BY <2>3, LenProperties
  <2> QED BY <2>3, <2>4, <2>5, <2>6
<1>0. \A i \in 1 .. Len(ord) - k : k + i \in DOMAIN ord
  <2>1. \A l \in Nat : \A m \in 0 .. l : \A i \in 1 .. l - m : m + i \in 1 .. l
    OBVIOUS
  <2>2. Len(ord) \in Nat /\ DOMAIN ord = 1 .. Len(ord)
    BY <1>1
  <2> QED BY <2>1, <2>2
<1> HIDE DEF t
<1>7. Distinct(t)
  <2>1. SUFFICES ASSUME NEW i \in 1 .. Len(ord) - k, NEW j \in 1 .. Len(ord) - k, t[i] = t[j]
                 PROVE  i = j
    BY <1>6 DEF Distinct
  <2>2. ord[k + i] = ord[k + j] /\ k + i \in DOMAIN ord /\ k + j \in DOMAIN ord
    BY <1>0, <1>6, <2>1
  <2>3. k + i = k + j
    BY <2>2 DEF Books, Distinct
  <2> QED BY <2>3
<1>8. Range(t) = left
  <2>1. ASSUME NEW i \in 1 .. Len(ord) - k PROVE t[i] \in left
    <3>1. t[i] = ord[k + i] /\ k + i \in DOMAIN ord
      BY <1>0, <1>6
    <3>2. ASSUME NEW j \in 1 .. k PROVE ord[j] # ord[k + i]
      <4>1. j \in DOMAIN ord /\ j # k + i
        BY <1>1
      <4> QED BY <3>1, <4>1 DEF Books, Distinct
    <3>3. ord[k + i] \in DOMAIN ret
      BY <3>1 DEF Books, Range
    <3> QED BY <3>1, <3>2, <3>3
  <2>2. ASSUME NEW n \in left PROVE n \in Range(t)
    <3>1. PICK i \in DOMAIN ord : ord[i] = n
      BY DEF Books, Range
    <3>2. ~(i \in 1 .. k)
      BY <3>1
    <3>3. i - k \in 1 .. Len(ord) - k /\ k + (i - k) = i
      BY <1>1, <3>2
    <3>4. t[i - k] = n
      BY <1>6, <3>1, <3>3
    <3> QED BY <1>6, <3>3, <3>4 DEF Range
  <2>3. Range(t) \subseteq left
    BY <1>6, <2>1 DEF Range
  <2> QED BY <2>2, <2>3
<1>9. count - EntriesOf(g) = EntriesOf(r)
  BY <1>4 DEF Books
<1>10. k = Len(ord) => WithinLimits(e)
  <2>1. SUFFICES ASSUME k = Len(ord) PROVE WithinLimits(e)
    OBVIOUS
  <2>2. left = {}
    <3>1. ASSUME NEW n \in left PROVE FALSE
      <4>1. PICK i \in DOMAIN ord : ord[i] = n
        BY DEF Books, Range
      <4>2. i \in 1 .. k
        BY <1>1, <2>1
      <4> QED BY <4>1, <4>2
    <3> QED BY <3>1
  <2>3. Entries(r) = {}
    <3>1. DOMAIN r = {}
      BY <1>5, <2>2
    <3> HIDE DEF r
    <3> QED BY <3>1, EntriesAre
  <2>4. EntriesOf(r) = 0 /\ Cardinality(DOMAIN r) = 0
    BY <1>5, <2>2, <2>3, FS_EmptySet DEF EntriesOf
  <2>5. e.count = 0 /\ Cardinality(DOMAIN e.ret) = 0
    BY <1>2, <1>9, <2>4
  <2> HIDE DEF e
  <2>6. 0 <= MaxJournalRooms /\ 0 <= MaxJournalEntries
    BY TableAssumption
  <2> QED BY <2>5, <2>6 DEF WithinLimits
<1> HIDE DEF e, r, t, g, left
<1>11. Books(r, t, count - EntriesOf(g))
  BY <1>4, <1>5, <1>6, <1>7, <1>8, <1>9 DEF Books
<1>12. DOMAIN e.ret \subseteq DOMAIN ret /\ \A n \in DOMAIN e.ret : e.ret[n] = ret[n]
  BY <1>2, <1>5 DEF left
<1>13. Books(e.ret, e.ord, e.count)
  BY <1>2, <1>11
<1> QED BY <1>10, <1>12, <1>13 DEF e

(* The loop at the end of retainJournalLocked keeps the books and stops within
   both limits: with nothing left to evict they hold. *)
LEMMA EvictToLimitsIs ==
    ASSUME NEW ret, NEW ord, NEW count, Books(ret, ord, count)
    PROVE  LET e == EvictToLimits(ret, ord, count)
           IN  /\ Books(e.ret, e.ord, e.count)
               /\ DOMAIN e.ret \subseteq DOMAIN ret
               /\ \A n \in DOMAIN e.ret : e.ret[n] = ret[n]
               /\ WithinLimits(e)
<1> DEFINE enough == {k \in 0 .. Len(ord) :
                        k = Len(ord) \/ WithinLimits(Evicted(ret, ord, count, k))}
           k == Least(enough)
<1>1. Len(ord) \in Nat
  BY LenProperties DEF Books
<1>2. enough \in SUBSET Nat /\ Len(ord) \in enough
  BY <1>1
<1>3. k \in enough
  <2> HIDE DEF enough
  <2> QED BY <1>2, LeastIs
<1>4. k \in 0 .. Len(ord) /\ (k = Len(ord) \/ WithinLimits(Evicted(ret, ord, count, k)))
  BY <1>3
<1>5. EvictToLimits(ret, ord, count) = Evicted(ret, ord, count, k)
  BY DEF EvictToLimits
<1> HIDE DEF k
<1> QED BY <1>4, <1>5, EvictedKeepsBooks

(* A message is logged behind the others; the oldest one makes room for it. *)
LEMMA LoggedIs ==
    ASSUME NEW j \in Seq(Messages), Len(j) <= JournalCap, NEW m \in Messages
    PROVE  LET logged == LastEntries(Append(j, m))
           IN  /\ logged \in Seq(Messages) /\ Len(logged) <= JournalCap
               /\ Len(logged) \in Nat /\ Len(j) \in Nat
               /\ Len(logged) = Len(j) \/ Len(logged) = Len(j) + 1
               /\ \A i \in DOMAIN logged :
                    \/ i = Len(logged) /\ logged[i] = m
                    \/ /\ i < Len(logged) /\ i + (Len(j) + 1 - Len(logged)) \in DOMAIN j
                       /\ logged[i] = j[i + (Len(j) + 1 - Len(logged))]
<1> DEFINE a == Append(j, m)
           logged == LastEntries(a)
<1>1. /\ a \in Seq(Messages) /\ Len(a) = Len(j) + 1 /\ a # <<>>
      /\ \A i \in 1 .. Len(j) : a[i] = j[i]
      /\ a[Len(j) + 1] = m
  BY AppendProperties
<1>2. Len(j) \in Nat /\ DOMAIN j = 1 .. Len(j) /\ DOMAIN a = 1 .. Len(j) + 1
  BY <1>1, LenProperties
<1> HIDE DEF a
<1>3. CASE Len(a) > JournalCap
  <2>1. logged = Tail(a)
    BY <1>3 DEF LastEntries
  <2>2. /\ logged \in Seq(Messages) /\ Len(logged) = Len(a) - 1
        /\ \A i \in 1 .. Len(logged) : logged[i] = a[i + 1]
    BY <1>1, <2>1, HeadTailProperties
  <2>3. Len(logged) = Len(j) /\ DOMAIN logged = 1 .. Len(j)
    BY <1>1, <1>2, <2>2, LenProperties
  <2> HIDE DEF logged
  <2>4. ASSUME NEW i \in 1 .. Len(j)
        PROVE  \/ i = Len(logged) /\ logged[i] = m
               \/ /\ i < Len(logged) /\ i + (Len(j) + 1 - Len(logged)) \in DOMAIN j
                  /\ logged[i] = j[i + (Len(j) + 1 - Len(logged))]
    <3>1. logged[i] = a[i + 1]
      BY <2>2, <2>3
    <3>2. CASE i = Len(j)
      BY <1>1, <2>3, <3>1, <3>2
    <3>3. CASE i # Len(j)
      <4>1. i < Len(j) /\ i + 1 \in 1 .. Len(j)
        <5>1. \A l \in Nat : \A x \in 1 .. l : x # l => x < l /\ x + 1 \in 1 .. l
          OBVIOUS
        <5>2. Len(j) \in Nat /\ i \in 1 .. Len(j)
          BY <1>2
        <5> QED BY ONLY <3>3, <5>1, <5>2
      <4>2. logged[i] = j[i + 1]
        BY <1>1, <3>1, <4>1
      <4>3. i + (Len(j) + 1 - Len(logged)) = i + 1
        BY <1>2, <2>3
      <4> QED BY <1>2, <2>3, <4>1, <4>2, <4>3
    <3> QED BY <3>2, <3>3
  <2>5. Len(logged) <= JournalCap
    BY <2>3
  <2> QED BY <1>2, <2>2, <2>3, <2>4, <2>5 DEF logged, a
<1>4. CASE ~(Len(a) > JournalCap)
  <2>1. logged = a
    BY <1>4 DEF LastEntries
  <2>2. Len(a) <= JournalCap
    BY <1>1, <1>2, <1>4, TableAssumption
  <2>3. ASSUME NEW i \in 1 .. Len(j) + 1
        PROVE  \/ i = Len(a) /\ a[i] = m
               \/ /\ i < Len(a) /\ i + (Len(j) + 1 - Len(a)) \in DOMAIN j
                  /\ a[i] = j[i + (Len(j) + 1 - Len(a))]
    <3>1. i + (Len(j) + 1 - Len(a)) = i
      BY <1>1, <1>2
    <3>2. CASE i = Len(j) + 1
      BY <1>1, <3>2
    <3>3. CASE i # Len(j) + 1
      <4>1. i \in 1 .. Len(j) /\ i < Len(a)
        BY <1>1, <1>2, <3>3
      <4> QED BY <1>1, <1>2, <3>1, <4>1
    <3> QED BY <3>2, <3>3
  <2>4. Len(a) \in Nat
    BY <1>1, <1>2
  <2> QED BY <1>1, <1>2, <2>1, <2>2, <2>3, <2>4 DEF a
<1> QED BY <1>3, <1>4

(***************************************************************************)
(* The inductive invariant.                                                *)
(***************************************************************************)

Made == 1 .. made

(* An object not yet made is untouched.  A made one is what its name stands for
   until it is retired, which it is only without members; between the two locks
   of the last leaver (erasing) it is retired and still in the table. *)
ObjectsInv ==
    /\ \A o \in Objs \ Made : subs[o] = {} /\ ~retired[o]
    /\ \A o \in Made : nameOf[o] \in Names
    /\ \A o \in Made : ~retired[o] => rooms[nameOf[o]] = o
    /\ \A o \in Objs : retired[o] => subs[o] = {}
    /\ \A o \in Objs : o \in erasing <=> o \in Made /\ retired[o] /\ rooms[nameOf[o]] = o

TableInv == \A n \in Names : rooms[n] # None => rooms[n] \in Made /\ nameOf[rooms[n]] = n

(* What a thread has looked up has been made. *)
HandsInv ==
    /\ \A c \in Clients : joining[c] # None => joining[c] \in Made
    /\ \A p \in Publishers : publishing[p] # None => publishing[p] \in Made
    /\ \A r \in Readers : replaying[r].at = "found" => replaying[r].room \in Made

(* Numbers count messages, so that there are no more of them. *)
NumbersInv ==
    /\ \A o \in Objs : seq[o] <= msgs
    /\ \A n \in DOMAIN watermark : watermark[n] <= msgs

ShelfInv ==
    /\ Books(retained, order, retainedEntries)
    /\ WithinLimits([ret |-> retained, count |-> retainedEntries])
    /\ \A n \in DOMAIN retained : rooms[n] = None

IInv == TypeOK /\ ObjectsInv /\ TableInv /\ HandsInv /\ NumbersInv /\ ShelfInv

(* An object made is one of the model's. *)
LEMMA MadeAreObjects ==
    ASSUME TypeOK
    PROVE  /\ Made \subseteq Objs /\ None \notin Objs /\ None \notin Names
           /\ made < MaxObjs => made + 1 \in Objs /\ made + 1 \notin Made
  BY TableAssumption DEF TypeOK, Made, Objs

(* It holds before anything has happened. *)
LEMMA InitIInv == ASSUME Init PROVE IInv
<1> USE DEF Init
<1>0. MaxObjs \in Nat /\ MaxMsgs \in Nat /\ MaxScans \in Nat /\ JournalCap \in Nat
      /\ None \notin Objs
  BY TableAssumption
<1>1. <<>> \in Seq(Messages) /\ <<>> \in Seq(Names) /\ Len(<<>>) = 0 /\ DOMAIN <<>> = {}
  BY EmptySeq
<1>2. \A T : IsPartial(<<>>, Names, T)
  BY DEF IsPartial
<1>3. TypeOK
  <2>1. Idle \in Replays
    BY DEF Replays
  <2>2. \A o \in Objs : Len(journal[o]) <= JournalCap
    BY <1>0, <1>1
  <2> QED BY <1>0, <1>1, <1>2, <2>1, <2>2 DEF TypeOK
<1>4. Made = {}
  BY DEF Made
<1>5. ObjectsInv /\ TableInv
  BY <1>4 DEF ObjectsInv, TableInv
<1>6. HandsInv /\ NumbersInv
  BY <1>1 DEF HandsInv, NumbersInv, Idle
<1>7. ShelfInv
  <2>1. Entries(<<>>) = {}
    BY <1>1, EntriesAre
  <2>2. EntriesOf(<<>>) = 0 /\ IsFiniteSet({}) /\ Cardinality({}) = 0
    BY <2>1, FS_EmptySet DEF EntriesOf
  <2>3. Shelf(<<>>)
    BY <1>1, <2>2 DEF Shelf
  <2>4. Distinct(<<>>) /\ Range(<<>>) = {}
    BY <1>1 DEF Distinct, Range
  <2>5. WithinLimits([ret |-> <<>>, count |-> 0])
    BY <1>1, <2>2, TableAssumption DEF WithinLimits
  <2> QED BY <1>1, <1>2, <2>2, <2>3, <2>4, <2>5 DEF ShelfInv, Books
<1> QED BY <1>3, <1>5, <1>6, <1>7 DEF IInv

(***************************************************************************)
(* subscribe and unsubscribe.                                              *)
(***************************************************************************)

(* A step that changes hands only: who has looked up which object. *)
LEMMA TablesStay ==
    ASSUME IInv, UNCHANGED <<objVars, tableVars, histVars>>
    PROVE  ObjectsInv' /\ TableInv' /\ NumbersInv' /\ ShelfInv'
<1> USE DEF IInv, objVars, tableVars, histVars
<1>1. ObjectsInv' /\ TableInv'
  BY DEF ObjectsInv, TableInv, Made
<1>2. NumbersInv'
  BY DEF NumbersInv
<1>3. ShelfInv'
  BY DEF ShelfInv
<1> QED BY <1>1, <1>2, <1>3

(* subscribe and publish look the room up under roomsMtx_. *)
LEMMA LookUpStep ==
    ASSUME IInv,
           NEW n \in Names,
           \/ \E c \in Clients : SubscribeFind(c, n)
           \/ \E p \in Publishers : PublishFind(p, n)
    PROVE  IInv'
<1>1. rooms[n] # None => rooms[n] \in Made
  BY DEF IInv, TableInv
<1>2. rooms[n] # None => rooms[n] \in Objs
  BY DEF IInv, TypeOK
<1>3. UNCHANGED <<objVars, tableVars, histVars, replaying, budget, scans>>
  BY DEF SubscribeFind, PublishFind
<1>4. ObjectsInv' /\ TableInv' /\ NumbersInv' /\ ShelfInv'
  BY <1>3, TablesStay
<1>5. /\ joining' \in [Clients -> Objs \cup {None}]
      /\ publishing' \in [Publishers -> Objs \cup {None}]
  BY <1>2 DEF IInv, TypeOK, SubscribeFind, PublishFind
<1>6. TypeOK'
  BY <1>3, <1>5 DEF IInv, TypeOK, objVars, tableVars, histVars
<1>7. HandsInv'
  BY <1>1, <1>3 DEF IInv, TypeOK, HandsInv, SubscribeFind, PublishFind, objVars, Made
<1> QED BY <1>4, <1>6, <1>7 DEF IInv

(* subscribe goes back to the table. *)
LEMMA RetryStep ==
    ASSUME IInv, NEW c \in Clients, SubscribeRetry(c)
    PROVE  IInv'
<1>1. UNCHANGED <<objVars, tableVars, histVars, publishing, replaying, budget, scans>>
  BY DEF SubscribeRetry
<1>2. ObjectsInv' /\ TableInv' /\ NumbersInv' /\ ShelfInv'
  BY <1>1, TablesStay
<1>3. joining' \in [Clients -> Objs \cup {None}]
  BY DEF IInv, TypeOK, SubscribeRetry
<1>4. TypeOK'
  BY <1>1, <1>3 DEF IInv, TypeOK, objVars, tableVars, histVars
<1>5. HandsInv'
  BY <1>1 DEF IInv, TypeOK, HandsInv, SubscribeRetry, objVars, Made
<1> QED BY <1>2, <1>4, <1>5 DEF IInv

(* subscribe enters under pubMtx a room that is not retired, so that the room is
   still the one its name stands for. *)
LEMMA EnterStep ==
    ASSUME IInv, NEW c \in Clients, SubscribeEnter(c)
    PROVE  IInv'
<1> DEFINE o == joining[c]
<1>1. o \in Made /\ o \in Objs /\ ~retired[o]
  BY MadeAreObjects DEF IInv, HandsInv, SubscribeEnter
<1>2. /\ UNCHANGED <<made, nameOf, retired, seq, journal, lastPublish, erasing, tableVars,
                     publishing, replaying, budget, histVars, scans>>
      /\ subs' = [subs EXCEPT ![o] = @ \cup {c}]
      /\ joining' = [joining EXCEPT ![c] = None]
  BY DEF SubscribeEnter
<1>3. subs' \in [Objs -> SUBSET Clients] /\ joining' \in [Clients -> Objs \cup {None}]
  BY <1>1, <1>2 DEF IInv, TypeOK
<1>4. TypeOK'
  BY <1>2, <1>3 DEF IInv, TypeOK, tableVars, histVars
<1>5. ObjectsInv'
  <2>1. \A q \in Objs : q # o => subs'[q] = subs[q]
    BY <1>1, <1>2 DEF IInv, TypeOK
  <2> QED BY <1>1, <1>2, <2>1 DEF IInv, ObjectsInv, Made, tableVars
<1>6. TableInv' /\ NumbersInv' /\ ShelfInv'
  <2>1. TableInv'
    BY <1>2 DEF IInv, TableInv, Made, tableVars
  <2>2. NumbersInv'
    BY <1>2 DEF IInv, NumbersInv, histVars, tableVars
  <2>3. ShelfInv'
    BY <1>2 DEF IInv, ShelfInv, tableVars
  <2> QED BY <2>1, <2>2, <2>3
<1>7. HandsInv'
  BY <1>2 DEF IInv, TypeOK, HandsInv, Made
<1> QED BY <1>4, <1>5, <1>6, <1>7 DEF IInv

(* unsubscribe: the last one out retires the room, which stays in the table. *)
LEMMA UnsubscribeStep ==
    ASSUME IInv, NEW c \in Clients, Unsubscribe(c)
    PROVE  IInv'
<1>1. PICK o \in {rooms[n] : n \in Names} \ {None} :
        /\ c \in subs[o]
        /\ subs' = [subs EXCEPT ![o] = @ \ {c}]
        /\ retired' = [retired EXCEPT ![o] = (subs[o] = {c})]
        /\ erasing' = IF subs[o] = {c} THEN erasing \cup {o} ELSE erasing
        /\ UNCHANGED <<made, nameOf, seq, journal, lastPublish, tableVars, joining,
                       publishing, replaying, budget, histVars, scans>>
  BY DEF Unsubscribe
<1>2. o \in Made /\ o \in Objs /\ nameOf[o] \in Names /\ rooms[nameOf[o]] = o
  <2>1. PICK n \in Names : rooms[n] = o /\ o # None
    OBVIOUS
  <2> QED BY <2>1, MadeAreObjects DEF IInv, TableInv
<1>3. ~retired[o]
  BY <1>1, <1>2 DEF IInv, ObjectsInv
<1>4. /\ \A q \in Objs : q # o => subs'[q] = subs[q] /\ retired'[q] = retired[q]
      /\ subs'[o] = subs[o] \ {c} /\ retired'[o] = (subs[o] = {c})
  BY <1>1, <1>2 DEF IInv, TypeOK
<1>5. /\ subs' \in [Objs -> SUBSET Clients] /\ retired' \in [Objs -> BOOLEAN]
      /\ erasing' \subseteq Objs
  BY <1>1, <1>2 DEF IInv, TypeOK
<1>6. TypeOK'
  BY <1>1, <1>5 DEF IInv, TypeOK, tableVars, histVars
<1>7. ObjectsInv'
  <2>1. Made' = Made /\ rooms' = rooms /\ nameOf' = nameOf
    BY <1>1 DEF Made, tableVars
  <2>2. o \notin erasing
    BY <1>3, <1>2 DEF IInv, ObjectsInv
  <2>3. \A q \in Objs \ Made : subs'[q] = {} /\ ~retired'[q]
    BY <1>2, <1>4 DEF IInv, ObjectsInv
  <2>4. \A q \in Made : ~retired'[q] => rooms[nameOf[q]] = q
    BY <1>2, <1>4, MadeAreObjects DEF IInv, ObjectsInv
  <2>5. \A q \in Objs : retired'[q] => subs'[q] = {}
    BY <1>2, <1>4 DEF IInv, ObjectsInv
  <2>6. \A q \in Objs :
            q \in erasing' <=> (q \in Made /\ retired'[q] /\ rooms[nameOf[q]] = q)
    <3>1. SUFFICES ASSUME NEW q \in Objs
                   PROVE  q \in erasing'
                            <=> (q \in Made /\ retired'[q] /\ rooms[nameOf[q]] = q)
      OBVIOUS
    <3>2. q \in erasing <=> (q \in Made /\ retired[q] /\ rooms[nameOf[q]] = q)
      BY <3>1 DEF IInv, ObjectsInv
    <3>3. erasing' = IF subs[o] = {c} THEN erasing \cup {o} ELSE erasing
      BY <1>1
    <3>4. CASE q = o
      <4>1. o \in erasing' <=> subs[o] = {c}
        BY <3>3, <2>2
      <4> QED BY ONLY <3>4, <4>1, <1>4, <1>2
    <3>5. CASE q # o
      <4>1. q \in erasing' <=> q \in erasing
        BY <3>3, <3>5
      <4>2. retired'[q] = retired[q]
        BY <1>4, <3>1, <3>5
      <4> QED BY ONLY <3>2, <4>1, <4>2
    <3> QED BY <3>4, <3>5
  <2> QED BY <2>1, <2>3, <2>4, <2>5, <2>6 DEF IInv, ObjectsInv
<1>8. TableInv' /\ NumbersInv' /\ ShelfInv'
  <2>1. TableInv'
    BY <1>1 DEF IInv, TableInv, Made, tableVars
  <2>2. NumbersInv'
    BY <1>1 DEF IInv, NumbersInv, histVars, tableVars
  <2>3. ShelfInv'
    BY <1>1 DEF IInv, ShelfInv, tableVars
  <2> QED BY <2>1, <2>2, <2>3
<1>9. HandsInv'
  BY <1>1 DEF IInv, HandsInv, Made
<1> QED BY <1>6, <1>7, <1>8, <1>9 DEF IInv

(* A round goes on counting what arrives. *)
LEMMA RoundGrows ==
    ASSUME NEW b, IsRound(b), NEW k \in Nat
    PROVE  /\ IsRound([b EXCEPT !.added = @ + k])
           /\ b.at = "busy" /\ b.added \in Nat /\ b.total \in Nat
<1>1. b = [at |-> b.at, toMeasure |-> b.toMeasure, size |-> b.size, last |-> b.last,
           total |-> b.total, added |-> b.added]
  BY DEF IsRound
<1>2. b.at = "busy" /\ b.added \in Nat /\ b.total \in Nat
  BY DEF IsRound
<1>3. b.added + k \in Nat
  BY <1>2
<1>4. IsRound([b EXCEPT !.added = @ + k])
  BY <1>3 DEF IsRound
<1> QED BY <1>2, <1>4

(* getOrCreateRoom: the new object takes over what its name left behind, and
   the books are told. *)
LEMMA CreateStep ==
    ASSUME IInv, NEW c \in Clients, NEW n \in Names, SubscribeCreate(c, n)
    PROVE  IInv'
<1> DEFINE o == made + 1
           old == IF n \in DOMAIN retained THEN retained[n] ELSE <<>>
           mark == IF n \in DOMAIN watermark THEN watermark[n] ELSE 0
<1>1. /\ rooms[n] = None /\ made < MaxObjs
      /\ made' = o
      /\ nameOf' = [nameOf EXCEPT ![o] = n]
      /\ seq' = [seq EXCEPT ![o] = mark]
      /\ journal' = [journal EXCEPT ![o] = old]
      /\ rooms' = [rooms EXCEPT ![n] = o]
      /\ watermark' = Without(watermark, n)
      /\ retained' = Without(retained, n)
      /\ order' = IF n \in DOMAIN retained THEN Forget(order, n) ELSE order
      /\ retainedEntries' = retainedEntries - Len(old)
      /\ joining' = [joining EXCEPT ![c] = o]
      /\ budget' = IF budget.at = "idle" THEN budget
                   ELSE [budget EXCEPT !.added = @ + Len(old)]
      /\ UNCHANGED <<subs, retired, lastPublish, erasing, publishing, replaying, histVars, scans>>
  BY DEF SubscribeCreate
<1>2. /\ o \in Objs /\ o \notin Made /\ Made \subseteq Objs /\ Made' = Made \cup {o}
      /\ None \notin Objs /\ made \in Nat /\ made' \in 0 .. MaxObjs
  <2>1. made \in 0 .. MaxObjs /\ MaxObjs \in Nat
    BY TableAssumption DEF IInv, TypeOK
  <2>2. Made' = Made \cup {o}
    BY <1>1, <2>1 DEF Made
  <2> QED BY <1>1, <2>1, <2>2, MadeAreObjects DEF IInv
<1>3. /\ old \in Seq(Messages) /\ Len(old) <= JournalCap /\ Len(old) \in Nat
      /\ mark \in Nat /\ mark <= msgs
  <2> DEFINE J == old \in Seq(Messages) /\ Len(old) <= JournalCap /\ Len(old) \in Nat
  <2>1. ASSUME n \in DOMAIN retained PROVE J
    <3>1. old = retained[n]
      BY <2>1
    <3>2. retained[n] \in Seq(Messages) /\ Len(retained[n]) <= JournalCap
      BY <2>1 DEF IInv, ShelfInv, Books, Shelf
    <3> QED BY <3>1, <3>2, LenProperties
  <2>2. ASSUME n \notin DOMAIN retained PROVE J
    <3>1. old = <<>>
      BY <2>2
    <3>2. <<>> \in Seq(Messages) /\ Len(<<>>) = 0 /\ 0 <= JournalCap
      BY EmptySeq, TableAssumption
    <3> HIDE DEF old
    <3> QED BY <3>1, <3>2
  <2>3. mark \in Nat /\ mark <= msgs
    BY DEF IInv, TypeOK, IsPartial, NumbersInv
  <2>4. J
    BY <2>1, <2>2
  <2> QED BY <2>3, <2>4
<1> HIDE DEF o, old, mark
<1>4. /\ seq'[o] = mark /\ journal'[o] = old /\ nameOf'[o] = n /\ rooms'[n] = o
      /\ \A q \in Objs : q # o => /\ seq'[q] = seq[q] /\ journal'[q] = journal[q]
                                 /\ nameOf'[q] = nameOf[q]
      /\ \A m \in Names : m # n => rooms'[m] = rooms[m]
  BY <1>1, <1>2 DEF IInv, TypeOK
<1>5. ShelfInv' /\ retainedEntries' \in Nat
  <2>1. Shelf(retained) /\ IsPartial(retained, Names, Seq(Messages))
    BY DEF IInv, ShelfInv, Books
  <2>2. Shelf(retained') /\ EntriesOf(retained') \in Nat
        /\ IsPartial(retained', Names, Seq(Messages))
    BY <1>1, <2>1, TakenOff, PartialIs
  <2>3. DOMAIN retained' = DOMAIN retained \ {n}
    BY <1>1, WithoutIs
  <2>4. retainedEntries = EntriesOf(retained) /\ order \in Seq(Names) /\ Distinct(order)
        /\ Range(order) = DOMAIN retained
    BY DEF IInv, ShelfInv, Books
  <2> DEFINE Kept == Books(retained', order', retainedEntries') /\ retainedEntries' \in Nat
  <2>5. ASSUME n \in DOMAIN retained PROVE Kept
    <3>1. old = retained[n]
      BY <2>5 DEF old
    <3>2. EntriesOf(retained') = EntriesOf(retained) - Len(retained[n])
      BY <1>1, <2>1, <2>5, TakenOff
    <3>3. retainedEntries' = EntriesOf(retained')
      BY <1>1, <2>4, <3>1, <3>2
    <3>4. order' \in Seq(Names) /\ Distinct(order)' /\ Range(order') = DOMAIN retained'
      <4>1. /\ Forget(order, n) \in Seq(Names) /\ Distinct(Forget(order, n))
            /\ Range(Forget(order, n)) = Range(order) \ {n}
        BY <2>4, <2>5, ForgetIs
      <4>2. order' = Forget(order, n)
        BY <1>1, <2>5
      <4> QED BY <2>3, <2>4, <4>1, <4>2 DEF Distinct
    <3> QED BY <2>2, <3>3, <3>4 DEF Books, Distinct
  <2>6. ASSUME n \notin DOMAIN retained PROVE Kept
    <3>1. Len(old) = 0
      BY <2>6, EmptySeq DEF old
    <3>2. EntriesOf(retained') = EntriesOf(retained) /\ EntriesOf(retained) \in Nat
      BY <1>1, <2>1, <2>6, TakenOff, ShelfIsFinite
    <3>3. retainedEntries' = EntriesOf(retained')
      BY <1>1, <2>4, <3>1, <3>2
    <3>4. order' = order /\ DOMAIN retained' = DOMAIN retained
      BY <1>1, <2>3, <2>6
    <3> QED BY <2>2, <2>4, <3>3, <3>4 DEF Books
  <2>7. Kept
    BY <2>2, <2>5, <2>6
  <2>8. \A m \in DOMAIN retained' : rooms'[m] = None
    BY <1>4, <2>1, <2>3 DEF IInv, ShelfInv, IsPartial
  <2>9. WithinLimits([ret |-> retained', count |-> retainedEntries'])
    <3>1. /\ Cardinality(DOMAIN retained) <= MaxJournalRooms
          /\ retainedEntries <= MaxJournalEntries
      BY DEF IInv, ShelfInv, WithinLimits
    <3>2. IsFiniteSet(DOMAIN retained)
      BY <2>1 DEF Shelf
    <3>3. /\ Cardinality(DOMAIN retained') <= Cardinality(DOMAIN retained)
          /\ Cardinality(DOMAIN retained') \in Nat /\ Cardinality(DOMAIN retained) \in Nat
      BY <2>3, <3>2, FS_Subset, FS_CardinalityType
    <3>4. retainedEntries' <= retainedEntries
      BY <1>1, <1>3 DEF IInv, TypeOK
    <3>5. /\ Cardinality(DOMAIN retained') <= MaxJournalRooms
          /\ retainedEntries' <= MaxJournalEntries
      BY <2>7, <3>1, <3>3, <3>4, TableAssumption DEF IInv, TypeOK
    <3> QED BY <3>5 DEF WithinLimits
  <2> QED BY <2>7, <2>8, <2>9 DEF ShelfInv
<1>6. \A q \in Objs : Len(journal'[q]) <= JournalCap
  BY <1>3, <1>4 DEF IInv, TypeOK
<1>7. TypeOK'
  <2>1. made' \in 0 .. MaxObjs
    BY <1>2
  <2>2. nameOf' \in [Objs -> Names \cup {None}] /\ seq' \in [Objs -> Nat]
        /\ journal' \in [Objs -> Seq(Messages)]
    BY <1>1, <1>2, <1>3 DEF IInv, TypeOK
  <2>3. rooms' \in [Names -> Objs \cup {None}] /\ joining' \in [Clients -> Objs \cup {None}]
    BY <1>1, <1>2 DEF IInv, TypeOK
  <2>4. IsPartial(watermark', Names, Nat)
    BY <1>1, PartialIs DEF IInv, TypeOK
  <2>5. IsPartial(retained', Names, Seq(Messages)) /\ order' \in Seq(Names)
    BY <1>5 DEF ShelfInv, Books
  <2>6. budget' = Idle \/ IsRound(budget')
    BY <1>1, <1>3, RoundGrows DEF IInv, TypeOK, Idle
  <2> QED BY <1>1, <1>5, <1>6, <2>1, <2>2, <2>3, <2>4, <2>5, <2>6 DEF IInv, TypeOK, histVars
<1>8. ObjectsInv'
  <2>1. ~retired[o] /\ subs[o] = {} /\ o \notin erasing
    BY <1>2 DEF IInv, ObjectsInv
  <2>2. \A q \in Made : ~retired[q] => nameOf[q] # n
    BY <1>1, <1>2 DEF IInv, ObjectsInv
  <2>3. \A q \in Made : q # o /\ nameOf'[q] = nameOf[q] /\ nameOf[q] \in Names
    BY <1>2, <1>4 DEF IInv, ObjectsInv
  <2>4. \A q \in Made : rooms'[nameOf'[q]] = q <=> rooms[nameOf[q]] = q
    <3>1. SUFFICES ASSUME NEW q \in Made
                   PROVE  rooms'[nameOf[q]] = q <=> rooms[nameOf[q]] = q
      BY <2>3
    <3>2. CASE nameOf[q] = n
      BY <1>1, <1>2, <1>4, <2>3, <3>2
    <3>3. CASE nameOf[q] # n
      BY <1>4, <2>3, <3>3
    <3> QED BY <3>2, <3>3
  <2>5. \A q \in Objs \ Made' : subs'[q] = {} /\ ~retired'[q]
    BY <1>1, <1>2 DEF IInv, ObjectsInv
  <2>6. \A q \in Made' : nameOf'[q] \in Names /\ (~retired'[q] => rooms'[nameOf'[q]] = q)
    BY <1>1, <1>2, <1>4, <2>3, <2>4 DEF IInv, ObjectsInv
  <2>7. \A q \in Objs : retired'[q] => subs'[q] = {}
    BY <1>1 DEF IInv, ObjectsInv
  <2>8. \A q \in Objs :
            q \in erasing' <=> (q \in Made' /\ retired'[q] /\ rooms'[nameOf'[q]] = q)
    BY <1>1, <1>2, <2>1, <2>4 DEF IInv, ObjectsInv
  <2> QED BY <2>5, <2>6, <2>7, <2>8 DEF ObjectsInv
<1>9. TableInv'
  <2>1. SUFFICES ASSUME NEW m \in Names, rooms'[m] # None
                 PROVE  rooms'[m] \in Made' /\ nameOf'[rooms'[m]] = m
    BY DEF TableInv
  <2>2. CASE m = n
    BY <1>2, <1>4, <2>2
  <2>3. CASE m # n
    <3>1. rooms'[m] = rooms[m] /\ rooms[m] \in Made /\ nameOf[rooms[m]] = m
      BY <1>4, <2>1, <2>3 DEF IInv, TableInv
    <3> QED BY <1>2, <1>4, <3>1
  <2> QED BY <2>2, <2>3
<1>10. HandsInv'
  <2>1. \A d \in Clients : joining'[d] = IF d = c THEN o ELSE joining[d]
    BY <1>1 DEF IInv, TypeOK
  <2> QED BY <1>1, <1>2, <2>1 DEF IInv, HandsInv
<1>11. NumbersInv'
  <2>1. \A q \in Objs : seq'[q] <= msgs
    BY <1>3, <1>4 DEF IInv, NumbersInv
  <2>2. \A m \in DOMAIN watermark' : watermark'[m] <= msgs
    BY <1>1, WithoutIs DEF IInv, NumbersInv
  <2> QED BY <1>1, <2>1, <2>2 DEF NumbersInv, histVars
<1> QED BY <1>5, <1>7, <1>8, <1>9, <1>10, <1>11 DEF IInv

(* retainJournalLocked. *)
LEMMA RetainKeepsBooks ==
    ASSUME Books(retained, order, retainedEntries),
           NEW n \in Names, NEW j \in Seq(Messages), Len(j) <= JournalCap, Retain(n, j)
    PROVE  /\ Books(retained', order', retainedEntries')
           /\ WithinLimits([ret |-> retained', count |-> retainedEntries'])
           /\ DOMAIN retained' \subseteq DOMAIN retained \cup {n}
           /\ \A m \in DOMAIN retained' : retained'[m] = IF m = n THEN j ELSE retained[m]
           /\ retainedEntries' \in Nat
<1> DEFINE w == With(retained, n, j)
           ord == IF n \in DOMAIN retained THEN order ELSE Append(order, n)
           count == retainedEntries + Len(j)
                      - (IF n \in DOMAIN retained THEN Len(retained[n]) ELSE 0)
           e == EvictToLimits(w, ord, count)
<1>1. retained' = e.ret /\ order' = e.ord /\ retainedEntries' = e.count
  BY DEF Retain
<1>2. /\ IsPartial(retained, Names, Seq(Messages)) /\ Shelf(retained)
      /\ retainedEntries = EntriesOf(retained)
      /\ order \in Seq(Names) /\ Distinct(order) /\ Range(order) = DOMAIN retained
  BY DEF Books
<1>3. Shelf(w) /\ count = EntriesOf(w)
  BY <1>2, PutOn
<1>4. /\ IsPartial(w, Names, Seq(Messages)) /\ DOMAIN w = DOMAIN retained \cup {n}
      /\ \A m \in DOMAIN w : w[m] = IF m = n THEN j ELSE retained[m]
  <2>1. IsPartial(w, Names, Seq(Messages))
    BY <1>2, PartialIs
  <2> QED BY <2>1 DEF With
<1>5. ord \in Seq(Names) /\ Distinct(ord) /\ Range(ord) = DOMAIN retained \cup {n}
  <2>1. ASSUME n \in DOMAIN retained
        PROVE  ord \in Seq(Names) /\ Distinct(ord) /\ Range(ord) = DOMAIN retained \cup {n}
    BY <1>2, <2>1
  <2>2. ASSUME n \notin DOMAIN retained
        PROVE  ord \in Seq(Names) /\ Distinct(ord) /\ Range(ord) = DOMAIN retained \cup {n}
    <3> DEFINE a == Append(order, n)
    <3>1. /\ a \in Seq(Names) /\ Len(a) = Len(order) + 1 /\ Len(order) \in Nat
          /\ \A i \in 1 .. Len(order) : a[i] = order[i]
          /\ a[Len(order) + 1] = n
      BY <1>2, AppendProperties, LenProperties
    <3>2. DOMAIN order = 1 .. Len(order) /\ DOMAIN a = 1 .. Len(order) + 1
      BY <1>2, <3>1, LenProperties
    <3> HIDE DEF a
    <3>3. \A i \in DOMAIN a : (i \in DOMAIN order /\ a[i] = order[i]) \/ i = Len(order) + 1
      BY <3>1, <3>2
    <3>4. n \notin Range(order)
      BY <1>2, <2>2
    <3>5. \A i \in DOMAIN order : a[i] = order[i] /\ i \in DOMAIN a /\ order[i] # n
      BY <3>1, <3>2, <3>4 DEF Range
    <3>6. Distinct(a)
      BY <1>2, <3>1, <3>3, <3>5 DEF Distinct
    <3>7. Range(a) = Range(order) \cup {n}
      <4>1. Len(order) + 1 \in DOMAIN a
        BY <3>1, <3>2
      <4> QED BY <3>1, <3>3, <3>5, <4>1 DEF Range
    <3>8. ord = a
      BY <2>2 DEF a
    <3> HIDE DEF ord
    <3> QED BY <1>2, <3>1, <3>6, <3>7, <3>8
  <2> QED BY <2>1, <2>2
<1> HIDE DEF w, ord, count
<1>6. Books(w, ord, count)
  BY <1>3, <1>4, <1>5 DEF Books
<1>7. /\ Books(e.ret, e.ord, e.count) /\ WithinLimits(e)
      /\ DOMAIN e.ret \subseteq DOMAIN w /\ \A m \in DOMAIN e.ret : e.ret[m] = w[m]
  BY <1>6, EvictToLimitsIs
<1> HIDE DEF e
<1>8. EntriesOf(e.ret) \in Nat /\ e.count = EntriesOf(e.ret)
  BY <1>7, ShelfIsFinite DEF Books
<1> QED BY <1>1, <1>4, <1>7, <1>8 DEF WithinLimits

(* The last leaver takes the room out of the table. *)
LEMMA EraseFinds ==
    ASSUME IInv, NEW o \in Objs, Erase(o)
    PROVE  /\ o \in Made /\ retired[o] /\ nameOf[o] \in Names /\ rooms[nameOf[o]] = o
           /\ nameOf[o] \notin DOMAIN retained
           /\ rooms' = [rooms EXCEPT ![nameOf[o]] = None]
           /\ watermark' = With(IF Cardinality(DOMAIN watermark) >= MaxWatermarks
                                THEN <<>> ELSE watermark, nameOf[o], seq[o])
           /\ IF JournalCap # 0 /\ journal[o] # <<>>
              THEN /\ Retain(nameOf[o], journal[o])
                   /\ journal' = [journal EXCEPT ![o] = <<>>]
              ELSE UNCHANGED <<retained, order, retainedEntries, journal>>
           /\ erasing' = erasing \ {o}
           /\ UNCHANGED <<made, nameOf, subs, retired, seq, lastPublish, joining, publishing,
                          replaying, budget, histVars, scans>>
<1>1. o \in erasing
  BY DEF Erase
<1>2. o \in Made /\ retired[o] /\ rooms[nameOf[o]] = o /\ nameOf[o] \in Names
  BY <1>1 DEF IInv, ObjectsInv
<1>3. nameOf[o] \notin DOMAIN retained
  BY <1>2, MadeAreObjects DEF IInv, ShelfInv
<1> QED BY <1>2, <1>3 DEF Erase

(* ... and its number and its journal into theirs. *)
LEMMA EraseStep ==
    ASSUME IInv, NEW o \in Objs, Erase(o)
    PROVE  IInv'
<1> DEFINE n == nameOf[o]
           wm == IF Cardinality(DOMAIN watermark) >= MaxWatermarks THEN <<>> ELSE watermark
<1>1. /\ o \in Made /\ retired[o] /\ n \in Names /\ rooms[n] = o /\ n \notin DOMAIN retained
      /\ rooms' = [rooms EXCEPT ![n] = None]
      /\ watermark' = With(wm, n, seq[o])
      /\ IF JournalCap # 0 /\ journal[o] # <<>>
         THEN Retain(n, journal[o]) /\ journal' = [journal EXCEPT ![o] = <<>>]
         ELSE UNCHANGED <<retained, order, retainedEntries, journal>>
      /\ erasing' = erasing \ {o}
      /\ UNCHANGED <<made, nameOf, subs, retired, seq, lastPublish, joining, publishing,
                     replaying, budget, histVars, scans>>
  BY EraseFinds
<1>2. None \notin Objs
  BY TableAssumption
<1>3. rooms'[n] = None /\ \A m \in Names : m # n => rooms'[m] = rooms[m]
  BY <1>1 DEF IInv, TypeOK
<1>4. journal[o] \in Seq(Messages) /\ Len(journal[o]) <= JournalCap
  BY DEF IInv, TypeOK
<1>5. seq[o] \in Nat /\ seq[o] <= msgs
  BY DEF IInv, TypeOK, NumbersInv
<1>6. IsPartial(wm, Names, Nat) /\ \A m \in DOMAIN wm : wm[m] <= msgs
  <2>1. DOMAIN <<>> = {} /\ IsPartial(<<>>, Names, Nat)
    BY DEF IsPartial
  <2> QED BY <2>1 DEF IInv, TypeOK, NumbersInv
<1> HIDE DEF n, wm
<1>7. IsPartial(watermark', Names, Nat) /\ \A m \in DOMAIN watermark' : watermark'[m] <= msgs
  <2>1. /\ DOMAIN watermark' = DOMAIN wm \cup {n} /\ watermark'[n] = seq[o]
        /\ \A m \in DOMAIN wm \ {n} : watermark'[m] = wm[m]
    BY <1>1 DEF With
  <2> QED BY <1>1, <1>5, <1>6, <2>1, PartialIs
<1>8. ShelfInv' /\ retainedEntries' \in Nat
  <2>1. Books(retained, order, retainedEntries)
    BY DEF IInv, ShelfInv
  <2>2. CASE JournalCap # 0 /\ journal[o] # <<>>
    <3>1. Retain(n, journal[o])
      BY <1>1, <2>2
    <3>2. /\ Books(retained', order', retainedEntries')
          /\ WithinLimits([ret |-> retained', count |-> retainedEntries'])
          /\ DOMAIN retained' \subseteq DOMAIN retained \cup {n}
          /\ retainedEntries' \in Nat
      BY <1>1, <1>4, <2>1, <3>1, RetainKeepsBooks
    <3>3. \A m \in DOMAIN retained' : rooms'[m] = None
      <4>1. DOMAIN retained \subseteq Names
        BY <2>1 DEF Books, IsPartial
      <4> QED BY <1>3, <3>2, <4>1 DEF IInv, ShelfInv
    <3> QED BY <3>2, <3>3 DEF ShelfInv
  <2>3. CASE ~(JournalCap # 0 /\ journal[o] # <<>>)
    <3>1. UNCHANGED <<retained, order, retainedEntries>>
      BY <1>1, <2>3
    <3>2. \A m \in DOMAIN retained : rooms'[m] = None
      <4>1. DOMAIN retained \subseteq Names
        BY <2>1 DEF Books, IsPartial
      <4> QED BY <1>3, <4>1 DEF IInv, ShelfInv
    <3> QED BY <3>1, <3>2 DEF IInv, ShelfInv, TypeOK
  <2> QED BY <2>2, <2>3
<1>9. journal' \in [Objs -> Seq(Messages)] /\ \A q \in Objs : Len(journal'[q]) <= JournalCap
  <2>1. <<>> \in Seq(Messages) /\ Len(<<>>) <= JournalCap
    BY EmptySeq, TableAssumption
  <2> QED BY <1>1, <2>1 DEF IInv, TypeOK
<1>10. TypeOK'
  <2>1. rooms' \in [Names -> Objs \cup {None}]
    BY <1>1 DEF IInv, TypeOK
  <2>2. IsPartial(retained', Names, Seq(Messages)) /\ order' \in Seq(Names)
    BY <1>8 DEF ShelfInv, Books
  <2>3. erasing' \subseteq Objs
    BY <1>1 DEF IInv, TypeOK
  <2> QED BY <1>1, <1>7, <1>8, <1>9, <2>1, <2>2, <2>3 DEF IInv, TypeOK, histVars
<1>11. ObjectsInv'
  <2>1. Made' = Made /\ nameOf' = nameOf /\ retired' = retired /\ subs' = subs
    BY <1>1 DEF Made
  <2>2. \A q \in Made : rooms'[nameOf[q]] = q <=> q # o /\ rooms[nameOf[q]] = q
    <3>1. SUFFICES ASSUME NEW q \in Made
                   PROVE  rooms'[nameOf[q]] = q <=> q # o /\ rooms[nameOf[q]] = q
      OBVIOUS
    <3>2. q \in Objs /\ q # None /\ nameOf[q] \in Names
      BY <1>2, MadeAreObjects DEF IInv, ObjectsInv
    <3>3. CASE nameOf[q] = n
      BY <1>1, <1>3, <3>2, <3>3
    <3>4. CASE nameOf[q] # n
      <4>1. q # o
        BY <3>4 DEF n
      <4> QED BY <1>3, <3>2, <3>4, <4>1
    <3> QED BY <3>3, <3>4
  <2>3. \A q \in Made : ~retired[q] => q # o
    BY <1>1
  <2> QED BY <1>1, <2>1, <2>2, <2>3 DEF IInv, ObjectsInv
<1>12. TableInv'
  BY <1>1, <1>3 DEF IInv, TableInv, Made
<1>13. HandsInv'
  BY <1>1 DEF IInv, HandsInv, Made
<1>14. NumbersInv'
  BY <1>1, <1>7 DEF IInv, NumbersInv, histVars
<1> QED BY <1>8, <1>10, <1>11, <1>12, <1>13, <1>14 DEF IInv

(***************************************************************************)
(* publish, replay and the budget.                                         *)
(***************************************************************************)

LEMMA CommitStep ==
    ASSUME IInv, NEW p \in Publishers, PublishCommit(p)
    PROVE  IInv'
<1> DEFINE o == publishing[p]
           n == nameOf[o]
           m == [seq |-> seq[o] + 1, payload |-> msgs + 1]
           logged == LastEntries(Append(journal[o], m))
<1>1. /\ o # None /\ o \notin erasing /\ msgs < MaxMsgs
      /\ publishing' = [publishing EXCEPT ![p] = None]
      /\ seq' = [seq EXCEPT ![o] = m.seq]
      /\ journal' = [journal EXCEPT ![o] = logged]
      /\ lastPublish' = IF JournalCap = 0 THEN lastPublish
                        ELSE [lastPublish EXCEPT ![o] = m.payload]
      /\ spoke' = [spoke EXCEPT ![n] = m.payload]
      /\ heard' = IF subs[o] = {} THEN heard ELSE [heard EXCEPT ![n] = Append(@, m)]
      /\ msgs' = msgs + 1
      /\ budget' = IF budget.at = "idle" THEN budget
                   ELSE [budget EXCEPT !.added = @ + Len(logged) - Len(journal[o])]
      /\ UNCHANGED <<made, nameOf, subs, retired, erasing, tableVars, joining, replaying, scans>>
  BY DEF PublishCommit
<1>2. o \in Made /\ o \in Objs /\ n \in Names
  BY <1>1, MadeAreObjects DEF IInv, HandsInv, ObjectsInv
<1>3. /\ msgs \in 0 .. MaxMsgs /\ MaxMsgs \in Nat /\ seq[o] \in Nat /\ seq[o] <= msgs
      /\ seq \in [Objs -> Nat] /\ \A q \in Objs : seq[q] <= msgs
  BY <1>2, TableAssumption DEF IInv, TypeOK, NumbersInv
<1>4. m \in Messages /\ m.seq = seq[o] + 1 /\ m.payload = msgs + 1
  <2>1. seq[o] + 1 \in 1 .. MaxMsgs /\ msgs + 1 \in 1 .. MaxMsgs
    BY <1>1, <1>3
  <2> QED BY <2>1 DEF Messages, Seqs
<1>5. journal[o] \in Seq(Messages) /\ Len(journal[o]) <= JournalCap
  BY <1>2 DEF IInv, TypeOK
<1> HIDE DEF m
<1>6. /\ logged \in Seq(Messages) /\ Len(logged) <= JournalCap /\ Len(logged) \in Nat
      /\ Len(journal[o]) \in Nat
      /\ Len(logged) = Len(journal[o]) \/ Len(logged) = Len(journal[o]) + 1
  BY <1>4, <1>5, LoggedIs
<1> HIDE DEF logged, n, o
<1>7. msgs' \in 0 .. MaxMsgs /\ msgs' \in Nat
  BY <1>1, <1>3
<1>8. seq' \in [Objs -> Nat] /\ \A q \in Objs : seq'[q] <= msgs'
  BY <1>1, <1>2, <1>3, <1>4
<1>9. journal' \in [Objs -> Seq(Messages)] /\ \A q \in Objs : Len(journal'[q]) <= JournalCap
  BY <1>1, <1>2, <1>6 DEF IInv, TypeOK
<1>10. lastPublish' \in [Objs -> Nat] /\ spoke' \in [Names -> 0 .. MaxMsgs]
  <2>1. m.payload \in Nat /\ m.payload \in 0 .. MaxMsgs
    BY <1>1, <1>3, <1>4
  <2> QED BY <1>1, <1>2, <2>1 DEF IInv, TypeOK
<1>11. heard' \in [Names -> Seq(Messages)]
  <2>1. heard \in [Names -> Seq(Messages)]
    BY DEF IInv, TypeOK
  <2>2. Append(heard[n], m) \in Seq(Messages)
    BY <1>2, <1>4, <2>1, AppendProperties
  <2> QED BY <1>1, <1>2, <2>1, <2>2
<1>12. budget' = Idle \/ IsRound(budget')
  <2>1. budget = Idle \/ IsRound(budget)
    BY DEF IInv, TypeOK
  <2>2. CASE budget.at = "idle"
    BY <1>1, <2>1, <2>2
  <2>3. CASE budget.at # "idle"
    <3>1. IsRound(budget)
      BY <2>1, <2>3 DEF Idle
    <3> DEFINE k == Len(logged) - Len(journal[o])
    <3>2. k \in Nat
      BY <1>6
    <3>3. IsRound([budget EXCEPT !.added = @ + k]) /\ budget.added \in Nat
      BY <3>1, <3>2, RoundGrows
    <3>4. budget.added + Len(logged) - Len(journal[o]) = budget.added + k
      BY <1>6, <3>3
    <3> HIDE DEF k
    <3> QED BY <1>1, <2>3, <3>3, <3>4
  <2> QED BY <2>2, <2>3
<1>13. TypeOK'
  <2>1. publishing' \in [Publishers -> Objs \cup {None}]
    BY <1>1 DEF IInv, TypeOK
  <2> QED BY <1>1, <1>7, <1>8, <1>9, <1>10, <1>11, <1>12, <2>1 DEF IInv, TypeOK, tableVars
<1>14. ObjectsInv' /\ TableInv' /\ ShelfInv'
  BY <1>1 DEF IInv, ObjectsInv, TableInv, ShelfInv, Made, tableVars
<1>15. HandsInv'
  BY <1>1 DEF IInv, TypeOK, HandsInv, Made
<1>16. NumbersInv'
  <2>1. \A w \in DOMAIN watermark : watermark[w] <= msgs'
    <3>1. \A w \in DOMAIN watermark : watermark[w] \in Nat /\ watermark[w] <= msgs
      BY DEF IInv, TypeOK, IsPartial, NumbersInv
    <3> QED BY <1>1, <1>3, <3>1
  <2> QED BY <1>1, <1>8, <2>1 DEF NumbersInv, tableVars
<1> QED BY <1>13, <1>14, <1>15, <1>16 DEF IInv

(* An answer is one. *)
LEMMA AnswerIs ==
    ASSUME NEW j \in Seq(Messages), NEW max \in Nat, NEW since \in Nat
    PROVE  Answer(j, max, since) \in Answers
<1>1. Range(j) \subseteq Messages
  BY RangeOfSeq
<1>2. After(j, since) \subseteq Messages
  BY <1>1 DEF After
<1>3. (IF since = 0 \/ since > max THEN {} ELSE After(j, since)) \in SUBSET Messages
  BY <1>2
<1>4. (since # 0 /\ IF j = <<>> THEN since < max
                    ELSE since + 1 < j[1].seq \/ since > max) \in BOOLEAN
  OBVIOUS
<1> QED BY <1>3, <1>4 DEF Answer, Answers

(* replay writes only what its reader is at. *)
LEMMA ReplayStep ==
    ASSUME IInv, NEW r \in Readers,
           ReplayRead(r) \/ \E n \in Names, since \in 0 .. MaxMsgs : ReplayFind(r, n, since)
    PROVE  IInv'
<1>1. UNCHANGED <<objVars, tableVars, joining, publishing, budget, histVars, scans>>
  BY DEF ReplayRead, ReplayFind
<1>2. ObjectsInv' /\ TableInv' /\ NumbersInv' /\ ShelfInv'
  BY <1>1, TablesStay
<1>3. PICK a \in Replays : /\ replaying' = [replaying EXCEPT ![r] = a]
                           /\ a.at = "found" => a.room \in Made
  <2>1. ASSUME ReplayRead(r)
        PROVE  \E a \in Replays : /\ replaying' = [replaying EXCEPT ![r] = a]
                                  /\ a.at = "found" => a.room \in Made
    <3> DEFINE found == replaying[r]
               o == found.room
               answer == Answer(journal[o], seq[o], found.since)
               a == Done(found, answer)
    <3>1. found.at = "found" /\ replaying' = [replaying EXCEPT ![r] = a]
      BY <2>1 DEF ReplayRead
    <3>2. found \in Replays
      BY DEF IInv, TypeOK
    <3>3. found \in [at : {"found"}, room : Objs, since : Nat, due : SUBSET Messages]
      BY <3>1, <3>2 DEF Replays, Idle
    <3>4. o \in Objs /\ found.since \in Nat /\ found.due \in SUBSET Messages
      BY <3>3
    <3>5. journal[o] \in Seq(Messages) /\ seq[o] \in Nat
      BY <3>4 DEF IInv, TypeOK
    <3> HIDE DEF found, o
    <3>6. answer \in Answers
      BY <3>4, <3>5, AnswerIs
    <3> HIDE DEF answer
    <3>7. a = [at |-> "done", since |-> found.since, due |-> found.due, answer |-> answer]
      BY DEF Done
    <3>8. a \in Replays /\ a.at # "found"
      BY <3>4, <3>6, <3>7 DEF Replays
    <3> QED BY <3>1, <3>8
  <2>2. ASSUME NEW n \in Names, NEW since \in 0 .. MaxMsgs, ReplayFind(r, n, since)
        PROVE  \E a \in Replays : /\ replaying' = [replaying EXCEPT ![r] = a]
                                  /\ a.at = "found" => a.room \in Made
    <3> DEFINE due == Due(n, since)
    <3>1. since \in Nat
      BY TableAssumption
    <3>2. due \in SUBSET Messages
      <4>1. heard[n] \in Seq(Messages)
        BY DEF IInv, TypeOK
      <4>2. Range(heard[n]) \subseteq Messages
        BY <4>1, RangeOfSeq
      <4> QED BY <4>2 DEF Due, After
    <3>3. Found(n, since) = [at |-> "found", room |-> rooms[n], since |-> since, due |-> due]
      BY DEF Found
    <3> HIDE DEF due
    <3>4. CASE rooms[n] = None
      <4> DEFINE answer == AnswerRetained(n, since)
                 a == Done(Found(n, since), answer)
      <4>1. replaying' = [replaying EXCEPT ![r] = a]
        BY <2>2, <3>4 DEF ReplayFind
      <4>2. answer \in Answers
        <5>1. CASE n \notin DOMAIN retained
          <6>1. answer = [max |-> 0, entries |-> {}, reset |-> since # 0]
            BY <5>1 DEF AnswerRetained
          <6>2. (since # 0) \in BOOLEAN
            OBVIOUS
          <6> HIDE DEF answer
          <6> QED BY <6>1, <6>2 DEF Answers
        <5>2. CASE n \in DOMAIN retained
          <6> DEFINE j == retained[n]
                     last == IF j = <<>> THEN 0 ELSE j[Len(j)].seq
                     mark == IF n \in DOMAIN watermark THEN watermark[n] ELSE 0
                     max == IF mark > last THEN mark ELSE last
          <6>1. j \in Seq(Messages)
            BY <5>2 DEF IInv, TypeOK, IsPartial
          <6>2. last \in Nat
            <7>1. CASE j = <<>>
              BY <7>1
            <7>2. CASE j # <<>>
              <8>1. Len(j) \in 1 .. Len(j)
                BY <6>1, <7>2, EmptySeq
              <8>2. j[Len(j)] \in Messages
                BY <6>1, <8>1, ElementOfSeq
              <8>3. j[Len(j)].seq \in Nat
                BY <8>2 DEF Messages, Seqs
              <8> QED BY <7>2, <8>3
            <7> QED BY <7>1, <7>2
          <6>3. mark \in Nat
            BY DEF IInv, TypeOK, IsPartial
          <6>4. answer = Answer(j, max, since)
            BY <5>2 DEF AnswerRetained
          <6> HIDE DEF last, mark, j
          <6>5. max \in Nat
            BY <6>2, <6>3
          <6> HIDE DEF max, answer
          <6> QED BY <3>1, <6>1, <6>4, <6>5, AnswerIs
        <5> QED BY <5>1, <5>2
      <4> HIDE DEF answer
      <4>3. a = [at |-> "done", since |-> since, due |-> due, answer |-> answer]
        BY <3>3 DEF Done
      <4>4. a \in Replays /\ a.at # "found"
        BY <3>1, <3>2, <4>2, <4>3 DEF Replays
      <4> QED BY <4>1, <4>4
    <3>5. CASE rooms[n] # None
      <4> DEFINE a == Found(n, since)
      <4>1. replaying' = [replaying EXCEPT ![r] = a]
        BY <2>2, <3>5 DEF ReplayFind
      <4>2. rooms[n] \in Made /\ rooms[n] \in Objs
        BY <3>5, MadeAreObjects DEF IInv, TableInv
      <4>3. a \in Replays /\ a.room \in Made
        BY <3>1, <3>2, <3>3, <4>2 DEF Replays
      <4> QED BY <4>1, <4>3
    <3> QED BY <3>4, <3>5
  <2> QED BY <2>1, <2>2
<1>4. replaying' \in [Readers -> Replays]
  BY <1>3 DEF IInv, TypeOK
<1>5. TypeOK'
  BY <1>1, <1>4 DEF IInv, TypeOK, objVars, tableVars, histVars
<1>6. HandsInv'
  BY <1>1, <1>3 DEF IInv, TypeOK, HandsInv, objVars, Made
<1> QED BY <1>2, <1>5, <1>6 DEF IInv

(* enforceJournalBudget begins a round. *)
LEMMA ScanStep ==
    ASSUME IInv, BudgetScan
    PROVE  IInv'
<1>1. /\ UNCHANGED <<objVars, tableVars, joining, publishing, replaying, histVars>>
      /\ scans < MaxScans /\ scans' = scans + 1
      /\ budget' = [at |-> "busy", toMeasure |-> {rooms[n] : n \in Names} \ {None},
                    size |-> <<>>, last |-> <<>>, total |-> 0, added |-> 0]
  BY DEF BudgetScan
<1>2. ObjectsInv' /\ TableInv' /\ NumbersInv' /\ ShelfInv'
  BY <1>1, TablesStay
<1>3. IsRound(budget')
  <2>1. {rooms[n] : n \in Names} \ {None} \subseteq Objs
    BY DEF IInv, TypeOK
  <2>2. msgs \in Nat
    BY TableAssumption DEF IInv, TypeOK
  <2>3. IsPartial(<<>>, Objs, Nat)
    BY DEF IsPartial
  <2> QED BY <1>1, <2>1, <2>2, <2>3 DEF IsRound
<1>4. scans' \in 0 .. MaxScans
  BY <1>1, TableAssumption DEF IInv, TypeOK
<1>5. TypeOK'
  BY <1>1, <1>3, <1>4 DEF IInv, TypeOK, objVars, tableVars, histVars
<1>6. HandsInv'
  BY <1>1 DEF IInv, HandsInv, objVars, Made
<1> QED BY <1>2, <1>5, <1>6 DEF IInv

(* It measures a room, *)
LEMMA MeasureStep ==
    ASSUME IInv, NEW o \in Objs, BudgetMeasure(o)
    PROVE  IInv'
<1> DEFINE n == Len(journal[o])
           b == [budget EXCEPT !.toMeasure = @ \ {o}]
           c == [b EXCEPT !.size = With(@, o, n), !.total = @ + n,
                          !.last = With(@, o, lastPublish[o])]
<1>1. /\ UNCHANGED <<objVars, tableVars, joining, publishing, replaying, histVars, scans>>
      /\ budget.at = "busy"
      /\ budget' = IF n = 0 THEN b ELSE c
  BY DEF BudgetMeasure
<1>2. ObjectsInv' /\ TableInv' /\ NumbersInv' /\ ShelfInv'
  BY <1>1, TablesStay
<1>3. IsRound(budget)
  BY <1>1 DEF IInv, TypeOK, Idle
<1>4. n \in Nat /\ lastPublish[o] \in Nat
  BY DEF IInv, TypeOK
<1>5. IsPartial(With(budget.size, o, n), Objs, Nat)
      /\ IsPartial(With(budget.last, o, lastPublish[o]), Objs, Nat)
  BY <1>3, <1>4, PartialIs DEF IsRound
<1>6. b = [at |-> "busy", toMeasure |-> budget.toMeasure \ {o}, size |-> budget.size,
           last |-> budget.last, total |-> budget.total, added |-> budget.added]
  BY <1>3 DEF IsRound
<1> HIDE DEF b
<1>7. c = [at |-> "busy", toMeasure |-> budget.toMeasure \ {o},
           size |-> With(budget.size, o, n), last |-> With(budget.last, o, lastPublish[o]),
           total |-> budget.total + n, added |-> budget.added]
  <2>1. IsRound(b)
    BY <1>3, <1>6 DEF IsRound
  <2> DEFINE sz == With(b.size, o, n)
             la == With(b.last, o, lastPublish[o])
             to == b.total + n
  <2>2. c = [b EXCEPT !.size = sz, !.total = to, !.last = la]
    OBVIOUS
  <2> HIDE DEF c, sz, la, to
  <2>3. c = [at |-> b.at, toMeasure |-> b.toMeasure, size |-> sz, last |-> la,
             total |-> to, added |-> b.added]
    BY <2>1, <2>2 DEF IsRound
  <2> QED BY <1>6, <2>3 DEF sz, la, to
<1> HIDE DEF c, n
<1>8. IsRound(b) /\ IsRound(c)
  BY <1>3, <1>4, <1>5, <1>6, <1>7 DEF IsRound
<1>9. IsRound(budget')
  BY <1>1, <1>8
<1>10. TypeOK'
  BY <1>1, <1>9 DEF IInv, TypeOK, objVars, tableVars, histVars
<1>11. HandsInv'
  BY <1>1 DEF IInv, HandsInv, objVars, Made
<1> QED BY <1>2, <1>10, <1>11 DEF IInv

(* clears a journal, *)
LEMMA ClearStep ==
    ASSUME IInv, NEW o \in Objs, BudgetClear(o)
    PROVE  IInv'
<1> DEFINE total == IF journal[o] = <<>> THEN budget.total
                    ELSE IF budget.total > budget.size[o] THEN budget.total - budget.size[o]
                    ELSE 0
<1>1. /\ UNCHANGED <<made, nameOf, subs, retired, seq, lastPublish, erasing, tableVars,
                     joining, publishing, replaying, histVars, scans>>
      /\ budget.at = "busy" /\ o \in DOMAIN budget.size
      /\ budget' = [budget EXCEPT !.size = Without(@, o), !.last = Without(@, o),
                                  !.total = total]
      /\ journal' = [journal EXCEPT ![o] = <<>>]
  BY DEF BudgetClear, Measured
<1>2. ObjectsInv' /\ TableInv' /\ NumbersInv' /\ ShelfInv'
  <2>1. ObjectsInv' /\ TableInv'
    BY <1>1 DEF IInv, ObjectsInv, TableInv, Made, tableVars
  <2>2. NumbersInv' /\ ShelfInv'
    BY <1>1 DEF IInv, NumbersInv, ShelfInv, tableVars, histVars
  <2> QED BY <2>1, <2>2
<1>3. IsRound(budget)
  BY <1>1 DEF IInv, TypeOK, Idle
<1>4. total \in Nat
  <2>1. budget.total \in Nat /\ budget.size[o] \in Nat
    BY <1>1, <1>3 DEF IsRound, IsPartial
  <2> QED BY <2>1
<1>5. IsPartial(Without(budget.size, o), Objs, Nat) /\ IsPartial(Without(budget.last, o), Objs, Nat)
  BY <1>3, PartialIs DEF IsRound
<1> HIDE DEF total
<1>6. budget' = [at |-> "busy", toMeasure |-> budget.toMeasure,
                 size |-> Without(budget.size, o), last |-> Without(budget.last, o),
                 total |-> total, added |-> budget.added]
  BY <1>1, <1>3 DEF IsRound
<1>7. IsRound(budget')
  BY <1>3, <1>4, <1>5, <1>6 DEF IsRound
<1>8. journal' \in [Objs -> Seq(Messages)] /\ \A q \in Objs : Len(journal'[q]) <= JournalCap
  <2>1. <<>> \in Seq(Messages) /\ Len(<<>>) <= JournalCap
    BY EmptySeq, TableAssumption
  <2> QED BY <1>1, <2>1 DEF IInv, TypeOK
<1>9. TypeOK'
  BY <1>1, <1>7, <1>8 DEF IInv, TypeOK, tableVars, histVars
<1>10. HandsInv'
  BY <1>1 DEF IInv, HandsInv, Made
<1> QED BY <1>2, <1>9, <1>10 DEF IInv

(* and ends. *)
LEMMA EndStep ==
    ASSUME IInv, BudgetEnd
    PROVE  IInv'
<1>1. UNCHANGED <<objVars, tableVars, joining, publishing, replaying, histVars, scans>>
      /\ budget' = Idle
  BY DEF BudgetEnd
<1>2. ObjectsInv' /\ TableInv' /\ NumbersInv' /\ ShelfInv'
  BY <1>1, TablesStay
<1>3. TypeOK'
  BY <1>1 DEF IInv, TypeOK, objVars, tableVars, histVars
<1>4. HandsInv'
  BY <1>1 DEF IInv, HandsInv, objVars, Made
<1> QED BY <1>2, <1>3, <1>4 DEF IInv

(***************************************************************************)
(* Types, orphans and books.                                               *)
(***************************************************************************)

(* The disjuncts of the next-state relation, by name. *)
LEMMA Steps ==
    ASSUME Next
    PROVE  \/ \E c \in Clients, n \in Names : SubscribeFind(c, n) \/ SubscribeCreate(c, n)
           \/ \E c \in Clients : SubscribeRetry(c) \/ SubscribeEnter(c) \/ Unsubscribe(c)
           \/ \E o \in Objs : Erase(o) \/ BudgetMeasure(o) \/ BudgetClear(o)
           \/ \E p \in Publishers : PublishCommit(p)
           \/ \E p \in Publishers, n \in Names : PublishFind(p, n)
           \/ \E r \in Readers : \/ ReplayRead(r)
                                 \/ \E n \in Names, since \in 0 .. MaxMsgs : ReplayFind(r, n, since)
           \/ BudgetScan \/ BudgetEnd
  BY DEF Next

(* Every step keeps it. *)
LEMMA IInvStep == ASSUME IInv, [Next]_vars PROVE IInv'
<1>1. CASE UNCHANGED vars
  <2>1. UNCHANGED <<objVars, tableVars, histVars>> /\ UNCHANGED <<joining, publishing, replaying, budget, scans>>
    BY <1>1 DEF vars
  <2>2. ObjectsInv' /\ TableInv' /\ NumbersInv' /\ ShelfInv'
    BY <2>1, TablesStay
  <2>3. TypeOK' /\ HandsInv'
    BY <2>1 DEF IInv, TypeOK, HandsInv, Made, objVars, tableVars, histVars
  <2> QED BY <2>2, <2>3 DEF IInv
<1>2. CASE Next
  BY <1>2, Steps, LookUpStep, CreateStep, RetryStep, EnterStep, UnsubscribeStep, EraseStep,
     MeasureStep, ClearStep, CommitStep, ReplayStep, ScanStep, EndStep
<1> QED BY <1>1, <1>2

(* So it always holds. *)
LEMMA IInvHolds == Spec => []IInv
<1>1. Init => IInv
  BY InitIInv
<1>2. IInv /\ [Next]_vars => IInv'
  BY IInvStep
<1> QED BY <1>1, <1>2, PTL DEF Spec

(* The room table keeps its types for every number of rooms, clients, threads
   and messages and for every value of the limits. *)
THEOREM TypesKept == Spec => []TypeOK
<1>1. IInv => TypeOK
  BY DEF IInv
<1> QED BY <1>1, IInvHolds, PTL

(* Whoever has subscribed is in the room that its name stands for: subscribe
   looks at retired under pubMtx, the last leaver sets it there. *)
THEOREM NobodyIsOrphaned == Spec => []NoOrphanMembers
<1>1. ASSUME IInv PROVE NoOrphanMembers
  <2>1. SUFFICES ASSUME NEW o \in Objs, subs[o] # {}
                 PROVE  ~retired[o] /\ nameOf[o] # None /\ rooms[nameOf[o]] = o
    BY DEF NoOrphanMembers
  <2>2. o \in Made /\ ~retired[o]
    BY <1>1, <2>1 DEF IInv, ObjectsInv
  <2> QED BY <1>1, <2>2, MadeAreObjects DEF IInv, ObjectsInv
<1> QED BY <1>1, IInvHolds, PTL

(* The books of the retained journals balance through any number of
   retirements, evictions and re-creations (getOrCreateRoom,
   retainJournalLocked, evictOldestJournalLocked). *)
THEOREM BooksOfJournalsBalance == Spec => []RetainedExact
<1>1. ASSUME IInv PROVE RetainedExact
  <2>1. Books(retained, order, retainedEntries)
    BY <1>1 DEF IInv, ShelfInv
  <2>2. Len(order) = Cardinality(DOMAIN retained)
    BY <2>1, MentionedOnce DEF Books
  <2> QED BY <1>1, <2>1, <2>2 DEF IInv, ShelfInv, Books, RetainedExact
<1> QED BY <1>1, IInvHolds, PTL

(***************************************************************************)
(* The journal budget.                                                     *)
(***************************************************************************)

(* Numbers of entries by object, and how many they are in all. *)
Weights == [Objs -> 0 .. JournalCap]
Heap(f) == {x \in Objs \X (1 .. JournalCap) : x[2] <= f[x[1]]}
Weight(f) == Cardinality(Heap(f))

(* There are finitely many objects and journals are bounded. *)
LEMMA HeapIsFinite ==
    ASSUME NEW f
    PROVE  IsFiniteSet(Heap(f)) /\ Weight(f) \in Nat
<1>1. IsFiniteSet(Objs) /\ IsFiniteSet(1 .. JournalCap)
  <2>1. MaxObjs \in Int /\ JournalCap \in Int /\ 1 \in Int
    BY TableAssumption
  <2> QED BY <2>1, FS_Interval DEF Objs
<1>2. IsFiniteSet(Objs \X (1 .. JournalCap))
  BY <1>1, FS_Product
<1>3. IsFiniteSet(Heap(f))
  BY <1>2, FS_Subset DEF Heap
<1> QED BY <1>3, FS_CardinalityType DEF Weight

(* What is covered by two counts is no more than the two together: the entries
   measured and those that came after. *)
LEMMA CoveredBy ==
    ASSUME NEW y \in Weights, NEW f \in Weights, NEW g \in Weights,
           \A o \in Objs : y[o] <= f[o] + g[o]
    PROVE  Weight(y) <= Weight(f) + Weight(g)
<1> DEFINE C == Heap(y) \ Heap(f)
           h == [x \in C |-> <<x[1], x[2] - f[x[1]]>>]
<1>1. ASSUME NEW x \in C
      PROVE  /\ x = <<x[1], x[2]>> /\ x[1] \in Objs /\ x[2] \in 1 .. JournalCap
             /\ f[x[1]] < x[2] /\ x[2] <= y[x[1]]
             /\ f[x[1]] \in 0 .. JournalCap /\ h[x] \in Heap(g)
  <2>1. x = <<x[1], x[2]>> /\ x[1] \in Objs /\ x[2] \in 1 .. JournalCap
    BY DEF Heap
  <2>2. x[2] <= y[x[1]] /\ ~(x[2] <= f[x[1]])
    BY <2>1 DEF Heap
  <2>3. /\ f[x[1]] \in 0 .. JournalCap /\ g[x[1]] \in 0 .. JournalCap
        /\ y[x[1]] \in 0 .. JournalCap /\ y[x[1]] <= f[x[1]] + g[x[1]]
    BY <2>1 DEF Weights
  <2>4. x[2] - f[x[1]] \in 1 .. JournalCap /\ x[2] - f[x[1]] <= g[x[1]]
    BY <2>1, <2>2, <2>3, TableAssumption
  <2>5. h[x] \in Heap(g)
    BY <2>1, <2>4 DEF Heap
  <2> QED BY <2>1, <2>2, <2>3, <2>5
<1>2. h \in Injection(C, Heap(g))
  <2>1. h \in [C -> Heap(g)]
    BY <1>1
  <2>2. ASSUME NEW x \in C, NEW z \in C, h[x] = h[z] PROVE x = z
    <3>1. x[1] = z[1] /\ x[2] - f[x[1]] = z[2] - f[z[1]]
      BY <2>2
    <3>2. x[2] \in 1 .. JournalCap /\ z[2] \in 1 .. JournalCap
      BY <1>1
    <3>3. f[x[1]] \in 0 .. JournalCap
      BY <1>1
    <3>4. x[2] = z[2]
      <4>1. \A a, b, c \in Int : a - c = b - c => a = b
        OBVIOUS
      <4>2. x[2] \in Int /\ z[2] \in Int /\ f[x[1]] \in Int
        BY <3>2, <3>3, TableAssumption
      <4> QED BY <3>1, <4>1, <4>2
    <3> QED BY <1>1, <3>1, <3>4
  <2> HIDE DEF h
  <2> QED BY <2>1, <2>2 DEF Injection, IsInjective
<1> HIDE DEF h, C
<1>3. IsFiniteSet(C) /\ Cardinality(C) <= Weight(g)
  BY <1>2, HeapIsFinite, FS_Injection DEF Weight
<1>4. IsFiniteSet(Heap(f) \cup C)
      /\ Cardinality(Heap(f) \cup C) = Weight(f) + Cardinality(C) - Cardinality(Heap(f) \cap C)
  BY <1>3, HeapIsFinite, FS_Union DEF Weight
<1>5. Heap(f) \cap C = {} /\ Cardinality({}) = 0
  BY FS_EmptySet DEF C
<1>6. Heap(y) \in SUBSET (Heap(f) \cup C)
  BY DEF C
<1>7. Weight(y) <= Cardinality(Heap(f) \cup C)
  BY <1>4, <1>6, FS_Subset DEF Weight
<1>8. Cardinality(C) \in Nat /\ Weight(f) \in Nat /\ Weight(g) \in Nat /\ Weight(y) \in Nat
  BY <1>3, FS_CardinalityType, HeapIsFinite
<1>9. Cardinality(Heap(f) \cup C) = Weight(f) + Cardinality(C)
  <2>1. Cardinality(Heap(f) \cap C) = 0
    BY ONLY <1>5
  <2>2. \A a, b \in Nat : a + b - 0 = a + b
    OBVIOUS
  <2> QED BY <1>4, <1>8, <2>1, <2>2
<1> QED BY <1>3, <1>7, <1>8, <1>9

(* The share of one object. *)
LEMMA OneObject ==
    ASSUME NEW f \in Weights, NEW o \in Objs
    PROVE  /\ [f EXCEPT ![o] = 0] \in Weights
           /\ Weight(f) = Weight([f EXCEPT ![o] = 0]) + f[o]
<1> DEFINE g == [f EXCEPT ![o] = 0]
           C == Heap(f) \ Heap(g)
           k == f[o]
           h == [i \in 1 .. k |-> <<o, i>>]
<1>1. k \in 0 .. JournalCap /\ 0 \in 0 .. JournalCap /\ JournalCap \in Nat
  BY TableAssumption DEF Weights
<1>2. g \in Weights /\ g[o] = 0 /\ \A q \in Objs \ {o} : g[q] = f[q]
  BY <1>1 DEF Weights
<1> HIDE DEF g
<1>3. \A x : x \in C <=> \E i \in 1 .. k : x = <<o, i>>
  <2>1. ASSUME NEW x \in C PROVE \E i \in 1 .. k : x = <<o, i>>
    <3>1. x = <<x[1], x[2]>> /\ x[1] \in Objs /\ x[2] \in 1 .. JournalCap
      BY DEF Heap
    <3>2. x[2] <= f[x[1]] /\ ~(x[2] <= g[x[1]])
      BY <3>1 DEF Heap
    <3>3. x[1] = o
      BY <1>2, <3>1, <3>2
    <3> QED BY <1>1, <3>1, <3>2, <3>3
  <2>2. ASSUME NEW i \in 1 .. k PROVE <<o, i>> \in C
    <3>1. i \in 1 .. JournalCap /\ i <= f[o] /\ ~(i <= 0)
      BY <1>1
    <3> QED BY <1>2, <3>1 DEF Heap
  <2> HIDE DEF C
  <2> QED BY <2>1, <2>2
<1> HIDE DEF C
<1>4. h \in Bijection(1 .. k, C)
  <2>1. h \in [1 .. k -> C] /\ \A x \in C : \E i \in 1 .. k : h[i] = x
    BY <1>3
  <2>2. \A i, j \in 1 .. k : h[i] = h[j] => i = j
    OBVIOUS
  <2> QED BY <2>1, <2>2 DEF Bijection, Injection, Surjection, IsInjective
<1>5. IsFiniteSet(1 .. k) /\ Cardinality(1 .. k) = k
  <2>1. 1 \in Int /\ k \in Int
    BY <1>1
  <2> HIDE DEF k
  <2>2. IsFiniteSet(1 .. k) /\ Cardinality(1 .. k) = IF 1 > k THEN 0 ELSE k - 1 + 1
    BY <2>1, FS_Interval
  <2> QED BY <1>1, <2>2
<1>6. ExistsBijection(1 .. k, C)
  BY <1>4 DEF ExistsBijection
<1> HIDE DEF k
<1>7. IsFiniteSet(C) /\ Cardinality(C) = k
  BY <1>5, <1>6, FS_Bijection
<1>8. Heap(g) \cup C = Heap(f) /\ Heap(g) \cap C = {}
  <2>1. \A q \in Objs : g[q] = f[q] \/ (q = o /\ g[q] = 0)
    BY <1>2
  <2>2. \A x \in Heap(g) : x \in Heap(f)
    <3>1. SUFFICES ASSUME NEW x \in Heap(g) PROVE x \in Heap(f)
      OBVIOUS
    <3>2. x \in Objs \X (1 .. JournalCap) /\ x[1] \in Objs /\ x[2] \in 1 .. JournalCap
          /\ x[2] <= g[x[1]]
      BY DEF Heap
    <3>3. g[x[1]] = f[x[1]]
      BY <2>1, <3>2
    <3> QED BY <3>2, <3>3 DEF Heap
  <2> QED BY <2>2 DEF C
<1>9. Weight(f) = Weight(g) + k - Cardinality({})
  BY <1>7, <1>8, HeapIsFinite, FS_Union DEF Weight
<1>10. Cardinality({}) = 0 /\ Weight(g) \in Nat
  BY FS_EmptySet, HeapIsFinite
<1> QED BY <1>1, <1>2, <1>9, <1>10 DEF g, k

(* Counting one object anew. *)
LEMMA CountedAnew ==
    ASSUME NEW f \in Weights, NEW o \in Objs, NEW k \in 0 .. JournalCap
    PROVE  /\ [f EXCEPT ![o] = k] \in Weights
           /\ Weight([f EXCEPT ![o] = k]) = Weight(f) - f[o] + k
           /\ f[o] \in Nat /\ f[o] <= Weight(f)
<1> DEFINE g == [f EXCEPT ![o] = k]
           z == [f EXCEPT ![o] = 0]
<1>1. g \in Weights /\ g[o] = k /\ [g EXCEPT ![o] = 0] = z
  BY DEF Weights
<1> HIDE DEF g
<1>2. Weight(g) = Weight(z) + k
  BY <1>1, OneObject
<1>3. Weight(f) = Weight(z) + f[o]
  BY OneObject
<1> HIDE DEF z
<1>4. Weight(z) \in Nat /\ k \in Nat /\ f[o] \in Nat
  BY HeapIsFinite DEF Weights
<1> QED BY <1>1, <1>2, <1>3, <1>4 DEF g

(* Nothing counted. *)
LEMMA NothingCounted ==
    ASSUME NEW f, \A o \in Objs : f[o] = 0
    PROVE  Weight(f) = 0
<1>1. Heap(f) = {}
  <2>1. ASSUME NEW x \in Heap(f) PROVE FALSE
    <3>1. x[1] \in Objs /\ x[2] \in 1 .. JournalCap /\ x[2] <= f[x[1]]
      BY DEF Heap
    <3> QED BY <3>1
  <2> QED BY <2>1
<1> QED BY <1>1, FS_EmptySet DEF Weight

(***************************************************************************)
(* The inductive invariant of a round.                                     *)
(***************************************************************************)

(* What was measured of an object, and what its room has beyond that, once the
   round has passed it. *)
Live == {rooms[n] : n \in Names} \ {None}
Size0(o) == IF o \in DOMAIN budget.size THEN budget.size[o] ELSE 0
Beyond(o) ==
    IF o \in Live \ budget.toMeasure /\ Size0(o) < Len(journal[o])
    THEN Len(journal[o]) - Size0(o) ELSE 0
MeasuredOf == [o \in Objs |-> Size0(o)]
BeyondOf == [o \in Objs |-> Beyond(o)]

(* While a round runs, what the rooms have beyond the measurements has come
   since it began, and the total stands for the measurements still held. *)
BudgetInv ==
    budget.at = "busy" =>
        /\ MeasuredOf \in Weights /\ BeyondOf \in Weights
        /\ Weight(BeyondOf) <= budget.added
        /\ Weight(MeasuredOf) <= budget.total

(* The journals of the rooms there are, as a count. *)
LEMMA LiveEntriesAre ==
    ASSUME IInv, NEW y \in Weights,
           \A o \in Objs : y[o] = IF o \in Live THEN Len(journal[o]) ELSE 0
    PROVE  LiveEntries <= Weight(y) /\ LiveEntries \in Nat
<1> DEFINE js == [n \in LiveRooms |-> journal[rooms[n]]]
           h == [x \in Entries(js) |-> <<rooms[x[1]], x[2]>>]
<1>1. ASSUME NEW x \in Entries(js)
      PROVE  /\ x = <<x[1], x[2]>> /\ x[1] \in Names /\ nameOf[rooms[x[1]]] = x[1]
             /\ h[x] \in Heap(y)
  <2>1. PICK n \in DOMAIN js : \E i \in DOMAIN js[n] : x = <<n, i>>
    BY EntriesAre
  <2>2. PICK i \in DOMAIN js[n] : x = <<n, i>>
    BY <2>1
  <2>3. n \in Names /\ rooms[n] # None /\ js[n] = journal[rooms[n]]
    BY DEF LiveRooms
  <2>4. rooms[n] \in Objs /\ rooms[n] \in Live /\ nameOf[rooms[n]] = n
    BY <2>3 DEF Live, IInv, TypeOK, TableInv
  <2>5. /\ journal[rooms[n]] \in Seq(Messages) /\ Len(journal[rooms[n]]) <= JournalCap
        /\ y[rooms[n]] = Len(journal[rooms[n]])
    BY <2>4 DEF IInv, TypeOK
  <2>6. i \in 1 .. Len(journal[rooms[n]]) /\ Len(journal[rooms[n]]) \in Nat
    BY <2>3, <2>5, LenProperties
  <2>7. i \in 1 .. JournalCap /\ i <= y[rooms[n]]
    BY <2>5, <2>6, TableAssumption
  <2>8. x[1] = n /\ x[2] = i
    BY <2>2
  <2>9. h[x] \in Heap(y)
    BY <2>4, <2>7, <2>8 DEF Heap
  <2> QED BY <2>2, <2>3, <2>4, <2>8, <2>9
<1>2. h \in Injection(Entries(js), Heap(y))
  <2>1. h \in [Entries(js) -> Heap(y)]
    BY <1>1
  <2>2. ASSUME NEW x \in Entries(js), NEW z \in Entries(js), h[x] = h[z] PROVE x = z
    <3>1. rooms[x[1]] = rooms[z[1]] /\ x[2] = z[2]
      BY <2>2
    <3> QED BY <1>1, <3>1
  <2> HIDE DEF h, js
  <2> QED BY <2>1, <2>2 DEF Injection, IsInjective
<1> HIDE DEF h, js
<1>3. IsFiniteSet(Entries(js)) /\ Cardinality(Entries(js)) <= Weight(y)
  BY <1>2, HeapIsFinite, FS_Injection DEF Weight
<1>4. Cardinality(Entries(js)) \in Nat
  BY <1>3, FS_CardinalityType
<1> QED BY <1>3, <1>4 DEF LiveEntries, EntriesOf, js

(* What there is, is at most what was measured and what has come since. *)
LEMMA WithinTheRound ==
    ASSUME IInv, BudgetInv, budget.at = "busy", budget.toMeasure = {}
    PROVE  LiveEntries <= Weight(MeasuredOf) + budget.added /\ LiveEntries \in Nat
<1> DEFINE y == [o \in Objs |-> IF o \in Live THEN Len(journal[o]) ELSE 0]
<1>1. \A o \in Objs : Len(journal[o]) \in 0 .. JournalCap
  BY TableAssumption, LenProperties DEF IInv, TypeOK
<1>2. y \in Weights
  BY <1>1, TableAssumption DEF Weights
<1>3. \A o \in Objs : y[o] = IF o \in Live THEN Len(journal[o]) ELSE 0
  OBVIOUS
<1>4. LiveEntries <= Weight(y) /\ LiveEntries \in Nat
  <2> HIDE DEF y
  <2> QED BY <1>2, <1>3, LiveEntriesAre
<1>5. MeasuredOf \in Weights /\ BeyondOf \in Weights /\ Weight(BeyondOf) <= budget.added
  BY DEF BudgetInv
<1>6. ASSUME NEW o \in Objs PROVE y[o] <= MeasuredOf[o] + BeyondOf[o]
  <2>1. MeasuredOf[o] = Size0(o) /\ BeyondOf[o] = Beyond(o) /\ Size0(o) \in 0 .. JournalCap
    BY <1>5 DEF MeasuredOf, BeyondOf, Weights
  <2> DEFINE l == Len(journal[o])
             s == Size0(o)
  <2>2. l \in Nat /\ s \in Nat
    BY <1>1, <2>1, TableAssumption
  <2>3. Beyond(o) = IF o \in Live /\ s < l THEN l - s ELSE 0
    BY DEF Beyond
  <2>4. y[o] = IF o \in Live THEN l ELSE 0
    OBVIOUS
  <2> HIDE DEF l, s, y
  <2> QED BY <2>1, <2>2, <2>3, <2>4 DEF s
<1> HIDE DEF y
<1>7. Weight(y) <= Weight(MeasuredOf) + Weight(BeyondOf)
  BY <1>2, <1>5, <1>6, CoveredBy
<1>8. /\ Weight(y) \in Nat /\ Weight(MeasuredOf) \in Nat /\ Weight(BeyondOf) \in Nat
      /\ budget.added \in Nat
  BY HeapIsFinite DEF IInv, TypeOK, IsRound, Idle
<1> QED BY <1>4, <1>5, <1>7, <1>8

(***************************************************************************)
(* What the steps do to a round.                                           *)
(***************************************************************************)

(* Every object has beyond its measurement what it had, one of them at most k
   entries more. *)
LEMMA BeyondGrows ==
    ASSUME IInv, IInv', BudgetInv, budget.at = "busy", MeasuredOf' \in Weights,
           NEW o \in Objs, NEW k \in 0 .. JournalCap,
           \A q \in Objs : Beyond(q)' <= Beyond(q) + (IF q = o THEN k ELSE 0)
    PROVE  BeyondOf' \in Weights /\ Weight(BeyondOf') <= Weight(BeyondOf) + k
<1> DEFINE zero == [q \in Objs |-> 0]
           more == [zero EXCEPT ![o] = k]
<1>1. k \in Nat /\ JournalCap \in Nat
  BY TableAssumption
<1>2. zero \in Weights /\ Weight(zero) = 0 /\ zero[o] = 0
  BY <1>1, NothingCounted DEF Weights
<1>3. more \in Weights /\ \A q \in Objs : more[q] = IF q = o THEN k ELSE 0
  BY <1>1 DEF Weights
<1>4. Weight(more) = k
  <2> HIDE DEF zero
  <2>1. Weight(more) = Weight(zero) - zero[o] + k
    BY <1>2, CountedAnew
  <2> HIDE DEF more
  <2> QED BY <1>1, <1>2, <2>1
<1> HIDE DEF more, zero
<1>5. BeyondOf \in Weights
  BY DEF BudgetInv
<1>6. ASSUME NEW q \in Objs PROVE Beyond(q)' \in 0 .. JournalCap
  <2>1. Size0(q)' \in 0 .. JournalCap
    BY DEF MeasuredOf, Weights
  <2>2. Len(journal'[q]) \in Nat /\ Len(journal'[q]) <= JournalCap
    BY DEF IInv, TypeOK
  <2> DEFINE l == Len(journal'[q])
             s == Size0(q)'
  <2>3. Beyond(q)' = 0 \/ (s < l /\ Beyond(q)' = l - s)
    BY DEF Beyond
  <2> HIDE DEF l, s
  <2>4. l \in Nat /\ l <= JournalCap /\ s \in 0 .. JournalCap
    BY <2>1, <2>2 DEF l, s
  <2> QED BY <1>1, <2>3, <2>4
<1>7. BeyondOf' \in Weights /\ \A q \in Objs : BeyondOf'[q] = Beyond(q)' /\ BeyondOf[q] = Beyond(q)
  BY <1>6 DEF Weights, BeyondOf
<1>8. \A q \in Objs : BeyondOf'[q] <= BeyondOf[q] + more[q]
  BY <1>3, <1>7
<1>9. Weight(BeyondOf') <= Weight(BeyondOf) + Weight(more)
  BY <1>3, <1>5, <1>7, <1>8, CoveredBy
<1> QED BY <1>4, <1>7, <1>9

(* A round that measures nothing and forgets nothing, and is told what comes. *)
LEMMA RoundIsTold ==
    ASSUME IInv, IInv', BudgetInv, budget.at = "busy",
           budget'.size = budget.size, budget'.total = budget.total,
           NEW o \in Objs, NEW k \in 0 .. JournalCap, budget'.added = budget.added + k,
           \A q \in Objs : Beyond(q)' <= Beyond(q) + (IF q = o THEN k ELSE 0)
    PROVE  BudgetInv'
<1>1. MeasuredOf' = MeasuredOf
  BY DEF MeasuredOf, Size0
<1>2. /\ MeasuredOf \in Weights /\ Weight(MeasuredOf) <= budget.total
      /\ Weight(BeyondOf) <= budget.added
  BY DEF BudgetInv
<1>3. BeyondOf' \in Weights /\ Weight(BeyondOf') <= Weight(BeyondOf) + k
  BY <1>1, <1>2, BeyondGrows
<1>4. /\ Weight(BeyondOf) \in Nat /\ Weight(BeyondOf') \in Nat
      /\ budget.added \in Nat /\ k \in Nat
  <2>1. IsRound(budget)
    BY DEF IInv, TypeOK, Idle
  <2>2. budget.added \in Nat
    BY <2>1 DEF IsRound
  <2>3. k \in Nat
    BY TableAssumption
  <2> QED BY <2>2, <2>3, HeapIsFinite
<1>5. Weight(BeyondOf') <= budget.added + k
  BY <1>2, <1>3, <1>4
<1> QED BY <1>1, <1>2, <1>3, <1>5 DEF BudgetInv

(* A round as a record. *)
LEMMA RoundFields ==
    ASSUME NEW b, IsRound(b), NEW k \in Nat
    PROVE  LET c == [b EXCEPT !.added = @ + k]
           IN  /\ c.at = "busy" /\ c.size = b.size /\ c.total = b.total
               /\ c.toMeasure = b.toMeasure /\ c.added = b.added + k
<1> DEFINE a == b.added + k
           c == [b EXCEPT !.added = a]
<1>1. c = [at |-> b.at, toMeasure |-> b.toMeasure, size |-> b.size, last |-> b.last,
           total |-> b.total, added |-> a]
  <2> HIDE DEF a
  <2> QED BY DEF IsRound
<1>2. b.at = "busy"
  BY DEF IsRound
<1> HIDE DEF c
<1>3. /\ c.at = "busy" /\ c.size = b.size /\ c.total = b.total
      /\ c.toMeasure = b.toMeasure /\ c.added = b.added + k
  BY <1>1, <1>2
<1> QED BY <1>3 DEF c

(* getOrCreateRoom makes a room with a journal in the middle of a round. *)
LEMMA CreateInRound ==
    ASSUME IInv, IInv', BudgetInv, NEW c \in Clients, NEW n \in Names, SubscribeCreate(c, n)
    PROVE  BudgetInv' /\ budget'.at = budget.at
<1> DEFINE o == made + 1
           old == IF n \in DOMAIN retained THEN retained[n] ELSE <<>>
<1>1. /\ made < MaxObjs
      /\ journal' = [journal EXCEPT ![o] = old]
      /\ rooms' = [rooms EXCEPT ![n] = o]
      /\ budget' = IF budget.at = "idle" THEN budget
                   ELSE [budget EXCEPT !.added = @ + Len(old)]
  BY DEF SubscribeCreate
<1>2. o \in Objs /\ o \notin Made /\ None \notin Objs
  BY <1>1, MadeAreObjects DEF IInv
<1>3. journal'[o] = old /\ old \in Seq(Messages) /\ Len(old) <= JournalCap
  <2>1. journal'[o] = old
    BY <1>1, <1>2 DEF IInv, TypeOK
  <2>2. journal'[o] \in Seq(Messages) /\ Len(journal'[o]) <= JournalCap
    BY <1>2 DEF IInv, TypeOK
  <2> QED BY <2>1, <2>2
<1> HIDE DEF old, o
<1>4. CASE budget.at = "idle"
  BY <1>1, <1>4 DEF BudgetInv
<1>5. CASE budget.at # "idle"
  <2>1. IsRound(budget)
    BY <1>5 DEF IInv, TypeOK, Idle
  <2>2. Len(old) \in Nat /\ Len(old) \in 0 .. JournalCap
    BY <1>3, LenProperties, TableAssumption
  <2>3. /\ budget.at = "busy" /\ budget'.at = "busy"
        /\ budget'.size = budget.size /\ budget'.total = budget.total
        /\ budget'.toMeasure = budget.toMeasure /\ budget'.added = budget.added + Len(old)
    BY <1>1, <1>5, <2>1, <2>2, RoundFields, RoundGrows
  <2>4. ASSUME NEW q \in Objs
        PROVE  Beyond(q)' <= Beyond(q) + (IF q = o THEN Len(old) ELSE 0)
    <3>1. MeasuredOf \in Weights /\ BeyondOf \in Weights
      BY <2>3 DEF BudgetInv
    <3>2. Size0(q) \in Nat /\ Beyond(q) \in Nat /\ Size0(q)' = Size0(q)
      BY <2>3, <3>1, TableAssumption DEF MeasuredOf, BeyondOf, Weights, Size0
    <3>3. CASE q = o
      <4>1. Len(journal'[q]) = Len(old)
        BY <1>3, <3>3
      <4>2. Beyond(q)' = 0 \/ Beyond(q)' = Len(old) - Size0(q)
        BY <3>2, <4>1 DEF Beyond
      <4> QED BY <2>2, <3>2, <3>3, <4>2
    <3>4. CASE q # o
      <4>1. journal'[q] = journal[q]
        BY <1>1, <3>4 DEF IInv, TypeOK
      <4>2. q \in Live' => q \in Live
        BY <1>1, <3>4 DEF Live, IInv, TypeOK
      <4>3. Beyond(q)' = 0 \/ Beyond(q)' = Beyond(q)
        BY <2>3, <3>2, <4>1, <4>2 DEF Beyond
      <4> QED BY <3>2, <3>4, <4>3
    <3> QED BY <3>3, <3>4
  <2>5. BudgetInv'
    BY <1>2, <2>2, <2>3, <2>4, RoundIsTold
  <2> QED BY <2>3, <2>5
<1> QED BY <1>4, <1>5

(* publish logs in a room that may have been measured, or not. *)
LEMMA CommitInRound ==
    ASSUME IInv, IInv', BudgetInv, NEW p \in Publishers, PublishCommit(p)
    PROVE  BudgetInv' /\ budget'.at = budget.at
<1> DEFINE o == publishing[p]
           m == [seq |-> seq[o] + 1, payload |-> msgs + 1]
           logged == LastEntries(Append(journal[o], m))
<1>1. /\ o # None /\ msgs < MaxMsgs
      /\ journal' = [journal EXCEPT ![o] = logged]
      /\ rooms' = rooms
      /\ budget' = IF budget.at = "idle" THEN budget
                   ELSE [budget EXCEPT !.added = @ + Len(logged) - Len(journal[o])]
  BY DEF PublishCommit, tableVars
<1>2. o \in Objs
  BY <1>1, MadeAreObjects DEF IInv, HandsInv
<1>3. m \in Messages
  <2>1. msgs \in 0 .. MaxMsgs /\ MaxMsgs \in Nat /\ seq[o] \in Nat /\ seq[o] <= msgs
    BY <1>2, TableAssumption DEF IInv, TypeOK, NumbersInv
  <2>2. seq[o] + 1 \in 1 .. MaxMsgs /\ msgs + 1 \in 1 .. MaxMsgs
    BY <1>1, <2>1
  <2> QED BY <2>2 DEF Messages, Seqs
<1> HIDE DEF m
<1>4. /\ Len(logged) \in Nat /\ Len(journal[o]) \in Nat /\ Len(logged) <= JournalCap
      /\ Len(logged) = Len(journal[o]) \/ Len(logged) = Len(journal[o]) + 1
  BY <1>2, <1>3, LoggedIs DEF IInv, TypeOK
<1>5. journal'[o] = logged /\ \A q \in Objs \ {o} : journal'[q] = journal[q]
  BY <1>1, <1>2 DEF IInv, TypeOK
<1> DEFINE k == Len(logged) - Len(journal[o])
<1> HIDE DEF logged, o
<1>6. k \in Nat /\ k \in 0 .. JournalCap /\ Len(logged) = Len(journal[o]) + k
  BY <1>4, TableAssumption
<1>7. CASE budget.at = "idle"
  BY <1>1, <1>7 DEF BudgetInv
<1>8. CASE budget.at # "idle"
  <2>1. IsRound(budget)
    BY <1>8 DEF IInv, TypeOK, Idle
  <2>2. budget.added \in Nat /\ budget.at = "busy"
    BY <2>1, <1>6, RoundGrows
  <2>3. budget.added + Len(logged) - Len(journal[o]) = budget.added + k
    BY <1>4, <2>2
  <2> HIDE DEF k
  <2>4. /\ budget'.at = "busy" /\ budget'.size = budget.size /\ budget'.total = budget.total
        /\ budget'.toMeasure = budget.toMeasure /\ budget'.added = budget.added + k
    BY <1>1, <1>6, <1>8, <2>1, <2>3, RoundFields
  <2>5. ASSUME NEW q \in Objs PROVE Beyond(q)' <= Beyond(q) + (IF q = o THEN k ELSE 0)
    <3>1. MeasuredOf \in Weights /\ BeyondOf \in Weights
      BY <2>2 DEF BudgetInv
    <3>2. Size0(q) \in Nat /\ Beyond(q) \in Nat /\ Size0(q)' = Size0(q)
      BY <2>4, <3>1, TableAssumption DEF MeasuredOf, BeyondOf, Weights, Size0
    <3>3. Live' = Live
      BY <1>1 DEF Live
    <3>4. CASE q = o
      <4> DEFINE l == Len(journal[q])
                 l1 == Len(journal'[q])
                 s == Size0(q)
                 in == q \in Live \ budget.toMeasure
      <4>1. l1 = l + k /\ l \in Nat
        BY <1>4, <1>5, <1>6, <3>4
      <4>2. Beyond(q) = IF in /\ s < l THEN l - s ELSE 0
        BY DEF Beyond
      <4>3. Beyond(q)' = IF in /\ s < l1 THEN l1 - s ELSE 0
        BY <2>4, <3>2, <3>3 DEF Beyond
      <4>4. s \in Nat
        BY <3>2
      <4> HIDE DEF l, l1, s, in
      <4>5. Beyond(q)' <= Beyond(q) + k
        BY <1>6, <4>1, <4>2, <4>3, <4>4
      <4> QED BY <3>4, <4>5
    <3>5. CASE q # o
      <4>1. Beyond(q)' = Beyond(q)
        BY <1>5, <2>4, <3>2, <3>3, <3>5 DEF Beyond
      <4> QED BY <3>2, <3>5, <4>1
    <3> QED BY <3>4, <3>5
  <2>6. BudgetInv'
    BY <1>2, <1>6, <2>2, <2>4, <2>5, RoundIsTold
  <2> QED BY <2>2, <2>4, <2>6
<1> QED BY <1>7, <1>8

(* Steps after which no room has more beyond its measurement than before. *)
LEMMA NothingComes ==
    ASSUME IInv, IInv', BudgetInv, budget' = budget,
           \A q \in Objs : Beyond(q)' = Beyond(q) \/ Beyond(q)' = 0
    PROVE  BudgetInv'
<1>1. CASE budget.at # "busy"
  BY <1>1 DEF BudgetInv
<1>2. CASE budget.at = "busy"
  <2>1. IsRound(budget)
    BY <1>2 DEF IInv, TypeOK, Idle
  <2>2. budget.added \in Nat
    BY <2>1 DEF IsRound
  <2>3. CASE Objs = {}
    <3>1. MeasuredOf' = MeasuredOf /\ BeyondOf' = BeyondOf
      BY <2>3 DEF MeasuredOf, BeyondOf
    <3> QED BY <3>1 DEF BudgetInv
  <2>4. ASSUME NEW o \in Objs PROVE BudgetInv'
    <3>1. 0 \in 0 .. JournalCap /\ budget'.added = budget.added + 0
      BY <2>2, TableAssumption
    <3>2. ASSUME NEW q \in Objs PROVE Beyond(q)' <= Beyond(q) + (IF q = o THEN 0 ELSE 0)
      <4>1. BeyondOf \in Weights
        BY <1>2 DEF BudgetInv
      <4>2. Beyond(q) \in Nat
        BY <4>1, TableAssumption DEF BeyondOf, Weights
      <4> QED BY <4>2
    <3> QED BY <1>2, <3>1, <3>2, RoundIsTold
  <2> QED BY <2>3, <2>4
<1> QED BY <1>1, <1>2

(* A room that goes takes its entries along. *)
LEMMA EraseInRound ==
    ASSUME IInv, IInv', BudgetInv, NEW o \in Objs, Erase(o)
    PROVE  BudgetInv' /\ budget' = budget
<1>1. /\ o \in Made /\ nameOf[o] \in Names /\ rooms[nameOf[o]] = o
      /\ rooms' = [rooms EXCEPT ![nameOf[o]] = None]
      /\ journal' = journal \/ journal' = [journal EXCEPT ![o] = <<>>]
      /\ budget' = budget
  BY EraseFinds
<1>2. o \notin Live'
  <2>1. SUFFICES ASSUME NEW n \in Names, rooms'[n] = o, o # None PROVE FALSE
    BY DEF Live
  <2>2. n # nameOf[o] /\ rooms[n] = o
    BY <1>1, <2>1 DEF IInv, TypeOK
  <2> QED BY <2>1, <2>2 DEF IInv, TableInv
<1>3. \A q \in Objs \ {o} : journal'[q] = journal[q]
  BY <1>1 DEF IInv, TypeOK
<1>4. Live' \subseteq Live
  BY <1>1 DEF IInv, TypeOK, Live
<1>5. \A q \in Objs \ {o} : q \in Live => q \in Live'
  <2>1. SUFFICES ASSUME NEW q \in Objs \ {o}, NEW n \in Names, rooms[n] = q PROVE q \in Live'
    BY DEF Live
  <2>2. rooms'[n] = q
    BY <1>1, <2>1 DEF IInv, TypeOK
  <2>3. q # None
    BY TableAssumption
  <2> QED BY <2>2, <2>3 DEF Live
<1>6. ASSUME NEW q \in Objs PROVE Beyond(q)' = Beyond(q) \/ Beyond(q)' = 0
  <2>1. Size0(q)' = Size0(q)
    BY <1>1 DEF Size0
  <2>2. CASE q = o
    BY <1>2, <2>2 DEF Beyond
  <2>3. CASE q # o
    BY <1>1, <1>3, <1>4, <1>5, <2>1, <2>3 DEF Beyond
  <2> QED BY <2>2, <2>3
<1> QED BY <1>1, <1>6, NothingComes

(* A round begins with everything to be measured. *)
LEMMA ScanInRound ==
    ASSUME IInv, BudgetScan
    PROVE  BudgetInv' /\ budget.at = "idle"
<1>1. /\ budget' = [at |-> "busy", toMeasure |-> Live, size |-> <<>>, last |-> <<>>,
                    total |-> 0, added |-> 0]
      /\ budget.at = "idle" /\ rooms' = rooms
  BY DEF BudgetScan, Live, tableVars
<1>2. DOMAIN <<>> = {}
  OBVIOUS
<1>3. \A o \in Objs : MeasuredOf'[o] = 0 /\ BeyondOf'[o] = 0
  BY <1>1, <1>2 DEF MeasuredOf, BeyondOf, Beyond, Size0, Live
<1>4. MeasuredOf' \in Weights /\ BeyondOf' \in Weights
  <2>1. 0 \in 0 .. JournalCap
    BY TableAssumption
  <2>2. MeasuredOf' = [o \in Objs |-> MeasuredOf'[o]] /\ BeyondOf' = [o \in Objs |-> BeyondOf'[o]]
    BY DEF MeasuredOf, BeyondOf
  <2> QED BY <1>3, <2>1, <2>2 DEF Weights
<1>5. Weight(MeasuredOf') = 0 /\ Weight(BeyondOf') = 0
  BY <1>3, NothingCounted
<1>6. budget'.total = 0 /\ budget'.added = 0
  BY <1>1
<1> QED BY <1>1, <1>4, <1>5, <1>6 DEF BudgetInv

(* A measurement is added to the total, and nothing is beyond it. *)
LEMMA MeasureInRound ==
    ASSUME IInv, IInv', BudgetInv, NEW o \in Objs, BudgetMeasure(o)
    PROVE  BudgetInv' /\ budget'.at = "busy"
<1> DEFINE n == Len(journal[o])
           rest == budget.toMeasure \ {o}
           b == [budget EXCEPT !.toMeasure = rest]
           size == With(budget.size, o, n)
           last == With(budget.last, o, lastPublish[o])
           total == budget.total + n
           c == [b EXCEPT !.size = size, !.total = total, !.last = last]
<1>1. /\ budget.at = "busy" /\ o \in budget.toMeasure
      /\ journal' = journal /\ rooms' = rooms
  BY DEF BudgetMeasure, objVars, tableVars
<1>2. IsRound(budget)
  BY <1>1 DEF IInv, TypeOK, Idle
<1>3. /\ MeasuredOf \in Weights /\ BeyondOf \in Weights
      /\ Weight(BeyondOf) <= budget.added /\ Weight(MeasuredOf) <= budget.total
  BY <1>1 DEF BudgetInv
<1>4. n \in 0 .. JournalCap /\ n \in Nat
  <2>1. journal[o] \in Seq(Messages) /\ Len(journal[o]) <= JournalCap
    BY DEF IInv, TypeOK
  <2> QED BY <2>1, LenProperties, TableAssumption
<1>5. /\ IsRound(b) /\ b.at = "busy" /\ b.size = budget.size /\ b.total = budget.total
      /\ b.added = budget.added /\ b.toMeasure = rest /\ b.last = budget.last
  <2>1. rest \in SUBSET Objs
    BY <1>2 DEF IsRound
  <2> HIDE DEF rest
  <2>2. b = [at |-> budget.at, toMeasure |-> rest, size |-> budget.size, last |-> budget.last,
             total |-> budget.total, added |-> budget.added]
    BY <1>2 DEF IsRound
  <2> QED BY <1>2, <2>1, <2>2 DEF IsRound
<1> HIDE DEF b
<1>6. /\ c.at = "busy" /\ c.size = size /\ c.total = total
      /\ c.added = budget.added /\ c.toMeasure = rest
      /\ budget' = IF n = 0 THEN b ELSE c
  <2>1. budget' = IF n = 0 THEN b ELSE c
    <3>1. budget' = IF n = 0 THEN b
                    ELSE [b EXCEPT !.size = With(@, o, n), !.total = @ + n,
                                   !.last = With(@, o, lastPublish[o])]
      BY DEF BudgetMeasure, b
    <3>2. [b EXCEPT !.size = With(@, o, n), !.total = @ + n, !.last = With(@, o, lastPublish[o])]
            = [b EXCEPT !.size = With(b.size, o, n), !.total = b.total + n,
                        !.last = With(b.last, o, lastPublish[o])]
      OBVIOUS
    <3> QED BY <1>5, <3>1, <3>2
  <2>2. IsRound(b)
    BY <1>5
  <2>3. c = [b EXCEPT !.size = size, !.total = total, !.last = last]
    OBVIOUS
  <2> HIDE DEF c, rest, size, last, total, n
  <2>4. c = [at |-> b.at, toMeasure |-> b.toMeasure, size |-> size, last |-> last,
             total |-> total, added |-> b.added]
    BY <2>2, <2>3 DEF IsRound
  <2>5. /\ c.at = b.at /\ c.size = size /\ c.total = total
        /\ c.added = b.added /\ c.toMeasure = b.toMeasure
    BY <2>4
  <2> QED BY <1>5, <2>1, <2>5
<1> HIDE DEF c
<1>7. /\ budget'.at = "busy" /\ budget'.added = budget.added /\ budget'.toMeasure = rest
      /\ n = 0 => budget'.size = budget.size /\ budget'.total = budget.total
      /\ n # 0 => budget'.size = size /\ budget'.total = total
  BY <1>1, <1>5, <1>6
<1>8. budget.added \in Nat /\ budget.total \in Nat
  BY <1>2 DEF IsRound
<1>9. Size0(o)' \in Nat /\ n <= Size0(o)' /\ \A q \in Objs \ {o} : Size0(q)' = Size0(q)
  <2>1. CASE n = 0
    <3>1. \A q \in Objs : Size0(q)' = Size0(q)
      BY <1>7, <2>1 DEF Size0
    <3>2. Size0(o) \in Nat
      BY <1>3, TableAssumption DEF MeasuredOf, Weights
    <3> HIDE DEF n
    <3> QED BY <2>1, <3>1, <3>2
  <2>2. CASE n # 0
    <3>1. /\ DOMAIN size = DOMAIN budget.size \cup {o} /\ size[o] = n
          /\ \A q \in DOMAIN budget.size \ {o} : size[q] = budget.size[q]
      BY DEF With
    <3> HIDE DEF size, n
    <3>2. Size0(o)' = n /\ \A q \in Objs \ {o} : Size0(q)' = Size0(q)
      BY <1>7, <2>2, <3>1 DEF Size0
    <3> QED BY <1>4, <3>2
  <2> QED BY <2>1, <2>2
<1>10. MeasuredOf' \in Weights /\ Weight(MeasuredOf') <= budget'.total
  <2>1. CASE n = 0
    <3>1. MeasuredOf' = MeasuredOf
      BY <1>7, <2>1 DEF MeasuredOf, Size0
    <3> QED BY <1>3, <1>7, <2>1, <3>1
  <2>2. CASE n # 0
    <3>1. Size0(o)' = n
      BY <1>7, <2>2 DEF Size0, With
    <3>2. MeasuredOf' = [MeasuredOf EXCEPT ![o] = n]
      BY <1>9, <3>1 DEF MeasuredOf
    <3> HIDE DEF n
    <3>3. /\ MeasuredOf' \in Weights
          /\ Weight(MeasuredOf') = Weight(MeasuredOf) - MeasuredOf[o] + n
          /\ MeasuredOf[o] \in Nat
      BY <1>3, <1>4, <3>2, CountedAnew
    <3>4. Weight(MeasuredOf) \in Nat
      BY HeapIsFinite
    <3>5. Weight(MeasuredOf') <= total
      BY <1>3, <1>4, <1>8, <3>3, <3>4
    <3> QED BY <1>7, <2>2, <3>3, <3>5
  <2> QED BY <2>1, <2>2
<1>11. ASSUME NEW q \in Objs PROVE Beyond(q)' = Beyond(q)
  <2>1. CASE q = o
    <3>1. Beyond(o) = 0
      BY <1>1 DEF Beyond
    <3>2. ~(Size0(o)' < Len(journal'[o]))
      BY <1>1, <1>4, <1>9
    <3>3. Beyond(o)' = 0
      BY <3>2 DEF Beyond
    <3> QED BY <2>1, <3>1, <3>3
  <2>2. CASE q # o
    <3>1. Size0(q)' = Size0(q) /\ Live' = Live
      BY <1>1, <1>9, <2>2 DEF Live
    <3>2. q \in budget'.toMeasure <=> q \in budget.toMeasure
      BY <1>7, <2>2
    <3> QED BY <1>1, <3>1, <3>2 DEF Beyond
  <2> QED BY <2>1, <2>2
<1>12. BeyondOf' = BeyondOf
  BY <1>11 DEF BeyondOf
<1> QED BY <1>3, <1>7, <1>10, <1>12 DEF BudgetInv

(* A journal that is cleared takes from the total no more than was measured. *)
LEMMA ClearInRound ==
    ASSUME IInv, IInv', BudgetInv, NEW o \in Objs, BudgetClear(o)
    PROVE  BudgetInv' /\ budget'.at = "busy"
<1> DEFINE total == IF journal[o] = <<>> THEN budget.total
                    ELSE IF budget.total > budget.size[o] THEN budget.total - budget.size[o]
                    ELSE 0
           size == Without(budget.size, o)
           last == Without(budget.last, o)
<1>1. /\ budget.at = "busy" /\ budget.toMeasure = {} /\ o \in DOMAIN budget.size
      /\ budget' = [budget EXCEPT !.size = size, !.last = last, !.total = total]
      /\ journal' = [journal EXCEPT ![o] = <<>>] /\ rooms' = rooms
  BY DEF BudgetClear, Measured, tableVars
<1>2. IsRound(budget)
  BY <1>1 DEF IInv, TypeOK, Idle
<1>3. /\ MeasuredOf \in Weights /\ BeyondOf \in Weights
      /\ Weight(BeyondOf) <= budget.added /\ Weight(MeasuredOf) <= budget.total
  BY <1>1 DEF BudgetInv
<1>4. /\ budget'.at = "busy" /\ budget'.size = size /\ budget'.total = total
      /\ budget'.added = budget.added /\ budget'.toMeasure = budget.toMeasure
  <2> HIDE DEF total, size, last
  <2>1. budget' = [at |-> budget.at, toMeasure |-> budget.toMeasure, size |-> size,
                   last |-> last, total |-> total, added |-> budget.added]
    BY <1>1, <1>2 DEF IsRound
  <2> QED BY <1>1, <2>1
<1>5. budget.added \in Nat /\ budget.total \in Nat
  BY <1>2 DEF IsRound
<1>6. Size0(o)' = 0 /\ \A q \in Objs \ {o} : Size0(q)' = Size0(q)
  <2>1. /\ DOMAIN size = DOMAIN budget.size \ {o}
        /\ \A q \in DOMAIN size : size[q] = budget.size[q]
    BY DEF Without, Restrict
  <2> HIDE DEF size
  <2> QED BY <1>4, <2>1 DEF Size0
<1>7. MeasuredOf' = [MeasuredOf EXCEPT ![o] = 0]
  BY <1>6 DEF MeasuredOf
<1>8. 0 \in 0 .. JournalCap
  BY TableAssumption
<1>9. /\ MeasuredOf' \in Weights
      /\ Weight(MeasuredOf') = Weight(MeasuredOf) - MeasuredOf[o] + 0
      /\ MeasuredOf[o] \in Nat /\ MeasuredOf[o] <= Weight(MeasuredOf)
  BY <1>3, <1>7, <1>8, CountedAnew
<1>10. Weight(MeasuredOf') <= total
  <2>1. MeasuredOf[o] = budget.size[o]
    BY <1>1 DEF MeasuredOf, Size0
  <2>2. Weight(MeasuredOf) \in Nat
    BY HeapIsFinite
  <2> DEFINE w == Weight(MeasuredOf)
             s == MeasuredOf[o]
             t == budget.total
  <2>3. total = t \/ total = (IF t > s THEN t - s ELSE 0)
    BY <2>1
  <2>4. w \in Nat /\ s \in Nat /\ t \in Nat /\ s <= w /\ w <= t
    BY <1>3, <1>5, <1>9, <2>2
  <2>5. Weight(MeasuredOf') = w - s
    <3>1. \A x, y \in Nat : x - y + 0 = x - y
      OBVIOUS
    <3> QED BY <1>9, <2>2, <3>1
  <2> HIDE DEF w, s, t, total
  <2> QED BY <2>3, <2>4, <2>5
<1>11. ASSUME NEW q \in Objs PROVE Beyond(q)' <= Beyond(q) + (IF q = o THEN 0 ELSE 0)
  <2>1. Beyond(q) \in Nat
    BY <1>3, TableAssumption DEF BeyondOf, Weights
  <2>2. CASE q = o
    <3>1. Len(journal'[q]) = 0
      BY <1>1, <2>2, EmptySeq DEF IInv, TypeOK
    <3>2. Beyond(q)' = 0
      BY <1>6, <2>2, <3>1 DEF Beyond
    <3> QED BY <2>1, <3>2
  <2>3. CASE q # o
    <3>1. journal'[q] = journal[q] /\ Size0(q)' = Size0(q) /\ Live' = Live
      BY <1>1, <1>6, <2>3 DEF IInv, TypeOK, Live
    <3>2. Beyond(q)' = Beyond(q)
      BY <1>4, <3>1 DEF Beyond
    <3> QED BY <2>1, <3>2
  <2> QED BY <2>2, <2>3
<1>12. BeyondOf' \in Weights /\ Weight(BeyondOf') <= Weight(BeyondOf) + 0
  BY <1>1, <1>8, <1>9, <1>11, BeyondGrows
<1>13. Weight(BeyondOf') <= budget.added
  <2>1. Weight(BeyondOf) \in Nat /\ Weight(BeyondOf') \in Nat
    BY HeapIsFinite
  <2> QED BY <1>3, <1>5, <1>12, <2>1
<1> QED BY <1>4, <1>9, <1>10, <1>12, <1>13 DEF BudgetInv

(* All other steps leave the round, the rooms and their journals alone, or end
   the round. *)
LEMMA OtherSteps ==
    ASSUME [Next]_vars
    PROVE  \/ UNCHANGED <<budget, rooms, journal>>
           \/ BudgetEnd /\ budget'.at = "idle"
           \/ BudgetScan
           \/ \E c \in Clients, n \in Names : SubscribeCreate(c, n)
           \/ \E o \in Objs : Erase(o) \/ BudgetMeasure(o) \/ BudgetClear(o)
           \/ \E p \in Publishers : PublishCommit(p)
<1> DEFINE Same == UNCHANGED <<budget, rooms, journal>>
<1> USE DEF objVars, tableVars
<1>1. UNCHANGED vars => Same
  BY DEF vars
<1>2. \A c \in Clients, n \in Names : SubscribeFind(c, n) => Same
  BY DEF SubscribeFind
<1>3. \A c \in Clients : SubscribeRetry(c) \/ SubscribeEnter(c) \/ Unsubscribe(c) => Same
  BY DEF SubscribeRetry, SubscribeEnter, Unsubscribe
<1>4. \A p \in Publishers, n \in Names : PublishFind(p, n) => Same
  BY DEF PublishFind
<1>5. \A r \in Readers : ReplayRead(r) => Same
  BY DEF ReplayRead
<1>6. \A r \in Readers, n \in Names, since \in 0 .. MaxMsgs : ReplayFind(r, n, since) => Same
  BY DEF ReplayFind
<1>7. BudgetEnd => budget'.at = "idle"
  BY DEF BudgetEnd, Idle
<1> HIDE DEF Same
<1>8. Next => \/ Same
              \/ BudgetEnd /\ budget'.at = "idle"
              \/ BudgetScan
              \/ \E c \in Clients, n \in Names : SubscribeCreate(c, n)
              \/ \E o \in Objs : Erase(o) \/ BudgetMeasure(o) \/ BudgetClear(o)
              \/ \E p \in Publishers : PublishCommit(p)
  BY <1>2, <1>3, <1>4, <1>5, <1>6, <1>7, Steps
<1> QED BY <1>1, <1>8 DEF Same

(* Every step keeps the invariant of a round, and only BudgetEnd ends one. *)
LEMMA BudgetStep ==
    ASSUME IInv, BudgetInv, [Next]_vars
    PROVE  BudgetInv' /\ (budget.at = "busy" /\ budget'.at = "idle" => BudgetEnd)
<1>1. IInv'
  BY IInvStep
<1>2. CASE UNCHANGED <<budget, rooms, journal>>
  <2>1. BudgetInv'
    BY <1>2 DEF BudgetInv, MeasuredOf, BeyondOf, Beyond, Size0, Live
  <2> QED BY <1>2, <2>1
<1>3. CASE BudgetEnd /\ budget'.at = "idle"
  BY <1>3 DEF BudgetInv
<1> QED BY <1>1, <1>2, <1>3, OtherSteps, ScanInRound, CreateInRound, EraseInRound,
           MeasureInRound, ClearInRound, CommitInRound

(* A round of enforceJournalBudget leaves the rooms with no more than the cap
   and what arrived while it ran, although journals grow, go and come back
   between its measurements and its clearing. *)
THEOREM BudgetIsRestored == Spec => BudgetRestored
<1>1. Init => BudgetInv
  BY DEF Init, BudgetInv, Idle
<1>2. IInv /\ BudgetInv /\ [Next]_vars => BudgetInv'
  BY BudgetStep
<1>3. ASSUME IInv, BudgetInv, [Next]_vars
      PROVE  budget.at = "busy" /\ budget'.at = "idle"
                => LiveEntries <= JournalActiveCap + budget.added
  <2>1. SUFFICES ASSUME budget.at = "busy", BudgetEnd
                 PROVE  LiveEntries <= JournalActiveCap + budget.added
    BY <1>3, BudgetStep
  <2>2. /\ budget.toMeasure = {}
        /\ budget.total <= JournalActiveCap \/ DOMAIN budget.size = {}
    BY <2>1 DEF BudgetEnd, Measured
  <2>3. LiveEntries <= Weight(MeasuredOf) + budget.added /\ LiveEntries \in Nat
    BY <1>3, <2>1, <2>2, WithinTheRound
  <2>4. JournalActiveCap \in Nat /\ budget.added \in Nat /\ budget.total \in Nat
        /\ Weight(MeasuredOf) \in Nat
    <3>1. IsRound(budget)
      BY <1>3, <2>1 DEF IInv, TypeOK, Idle
    <3>2. budget.added \in Nat /\ budget.total \in Nat
      BY <3>1 DEF IsRound
    <3> QED BY <3>2, HeapIsFinite, TableAssumption
  <2>5. Weight(MeasuredOf) <= JournalActiveCap
    <3>1. CASE budget.total <= JournalActiveCap
      <4>1. Weight(MeasuredOf) <= budget.total
        BY <1>3, <2>1 DEF BudgetInv
      <4> QED BY <2>4, <3>1, <4>1
    <3>2. CASE DOMAIN budget.size = {}
      <4>1. \A o \in Objs : MeasuredOf[o] = 0
        BY <3>2 DEF MeasuredOf, Size0
      <4>2. Weight(MeasuredOf) = 0
        BY <4>1, NothingCounted
      <4> QED BY <2>4, <4>2
    <3> QED BY <2>2, <3>1, <3>2
  <2> QED BY <2>3, <2>4, <2>5
<1> QED BY <1>1, <1>2, <1>3, IInvHolds, PTL DEF Spec, BudgetRestored


(***************************************************************************)
(* What a name stands for across its rooms.                                *)
(***************************************************************************)

(* roomSeqWatermark_ is cleared when it is full, and with it go the numbers of
   rooms that are gone (run table_watermark).  What follows holds as long as
   no room is retired while the table is full. *)
MarksFit == erasing # {} => ~(Cardinality(DOMAIN watermark) >= MaxWatermarks)

(* The last number issued under a name and the journal it has, whether there
   is a room at the moment or not. *)
Last(n) ==
    IF rooms[n] # None THEN seq[rooms[n]]
    ELSE IF n \in DOMAIN watermark THEN watermark[n] ELSE 0
Kept(n) ==
    IF rooms[n] # None THEN journal[rooms[n]]
    ELSE IF n \in DOMAIN retained THEN retained[n] ELSE <<>>

(* Where a journal and a set of messages have the same number, it is the same
   message. *)
Agree(j, S) == \A i \in DOMAIN j : \A e \in S : e.seq = j[i].seq => e = j[i]

Rising(h) == \A i, j \in DOMAIN h : i < j => h[i].seq < h[j].seq

(* What may happen to the numbers and the journal of a name or of an object: the
   journal stays or is given up, or the next message is logged. *)
Stays(l, j, l1, j1) == l1 = l /\ (j1 = j \/ j1 = <<>>)
Logs(l, j, l1, j1, m) == m.seq = l + 1 /\ l1 = l + 1 /\ j1 = LastEntries(Append(j, m))

(* An empty journal breaks nothing. *)
LEMMA EmptyIsUnbroken ==
    ASSUME NEW l, NEW S
    PROVE  UnbrokenUpTo(<<>>, l) /\ Agree(<<>>, S)
  BY DEF UnbrokenUpTo, Agree

(* Logging the next number keeps the run unbroken, and what is old agrees with
   the new journal as it did with the journal before. *)
LEMMA LoggingKeepsOn ==
    ASSUME NEW j \in Seq(Messages), Len(j) <= JournalCap, NEW l \in Nat, UnbrokenUpTo(j, l),
           NEW m \in Messages, m.seq = l + 1,
           NEW S \in SUBSET Messages, \A e \in S : e.seq <= l, Agree(j, S)
    PROVE  /\ UnbrokenUpTo(LastEntries(Append(j, m)), l + 1)
           /\ Agree(LastEntries(Append(j, m)), S \cup {m})
<1> DEFINE g == LastEntries(Append(j, m))
<1>1. /\ g \in Seq(Messages) /\ Len(g) \in Nat /\ Len(j) \in Nat
      /\ Len(g) = Len(j) \/ Len(g) = Len(j) + 1
      /\ \A i \in DOMAIN g :
           \/ i = Len(g) /\ g[i] = m
           \/ /\ i < Len(g) /\ i + (Len(j) + 1 - Len(g)) \in DOMAIN j
              /\ g[i] = j[i + (Len(j) + 1 - Len(g))]
  BY LoggedIs
<1> HIDE DEF g
<1>2. DOMAIN g = 1 .. Len(g) /\ DOMAIN j = 1 .. Len(j)
  BY <1>1, LenProperties
<1>3. ASSUME NEW i \in DOMAIN g PROVE g[i].seq = l + 1 - Len(g) + i
  <2>1. i \in Int
    BY <1>2
  <2>2. CASE i = Len(g) /\ g[i] = m
    <3>1. l + 1 - Len(g) + i = l + 1
      BY <1>1, <2>2
    <3> QED BY <2>2, <3>1
  <2>3. CASE /\ i < Len(g) /\ i + (Len(j) + 1 - Len(g)) \in DOMAIN j
             /\ g[i] = j[i + (Len(j) + 1 - Len(g))]
    <3> DEFINE k == i + (Len(j) + 1 - Len(g))
    <3>1. k \in DOMAIN j /\ g[i] = j[k]
      BY <2>3
    <3>2. j[k].seq = l - Len(j) + k
      BY <3>1 DEF UnbrokenUpTo
    <3>3. l - Len(j) + k = l + 1 - Len(g) + i
      BY <1>1, <2>1
    <3> QED BY <3>1, <3>2, <3>3
  <2> QED BY <1>1, <2>2, <2>3
<1>4. ASSUME NEW i \in DOMAIN g, NEW e \in S \cup {m}, e.seq = g[i].seq PROVE e = g[i]
  <2>1. i \in 1 .. Len(g)
    BY <1>2
  <2>2. CASE i = Len(g) /\ g[i] = m
    <3>1. ASSUME e \in S PROVE FALSE
      <4>1. e.seq <= l /\ e.seq = l + 1
        BY <1>4, <2>2, <3>1
      <4> QED BY <4>1
    <3> QED BY <2>2, <3>1
  <2>3. CASE /\ i < Len(g) /\ i + (Len(j) + 1 - Len(g)) \in DOMAIN j
             /\ g[i] = j[i + (Len(j) + 1 - Len(g))]
    <3>1. g[i].seq = l + 1 - Len(g) + i
      BY <1>3
    <3>2. g[i].seq # l + 1
      BY <1>1, <2>1, <2>3, <3>1
    <3>3. e \in S
      BY <1>4, <3>2
    <3> QED BY <1>4, <2>3, <3>3 DEF Agree
  <2> QED BY <1>1, <2>2, <2>3
<1> QED BY <1>3, <1>4 DEF UnbrokenUpTo, Agree, g

(* An answer that does not say reset has all there is beyond the cursor. *)
LEMMA AnswerIsComplete ==
    ASSUME NEW j \in Seq(Messages), NEW max \in Nat, NEW since \in Nat,
           UnbrokenUpTo(j, max),
           NEW S \in SUBSET Messages, \A e \in S : since < e.seq /\ e.seq <= max,
           Agree(j, S),
           since # 0, ~Answer(j, max, since).reset
    PROVE  S \subseteq Answer(j, max, since).entries
<1> SUFFICES ASSUME NEW e \in S PROVE e \in Answer(j, max, since).entries
  OBVIOUS
<1>1. since < e.seq /\ e.seq <= max /\ e.seq \in Nat
  BY DEF Messages, Seqs
<1>2. ~IF j = <<>> THEN since < max ELSE since + 1 < j[1].seq \/ since > max
  BY DEF Answer
<1>3. j # <<>>
  BY <1>1, <1>2
<1>4. ~(since + 1 < j[1].seq) /\ ~(since > max)
  BY <1>2, <1>3
<1>5. Len(j) \in Nat \ {0} /\ DOMAIN j = 1 .. Len(j)
  BY <1>3, EmptySeq, LenProperties
<1>6. j[1].seq = max - Len(j) + 1
  BY <1>5 DEF UnbrokenUpTo
<1> DEFINE i == e.seq - (max - Len(j))
<1>7. i \in 1 .. Len(j)
  BY <1>1, <1>4, <1>5, <1>6
<1>8. j[i].seq = max - Len(j) + i
  BY <1>5, <1>7 DEF UnbrokenUpTo
<1>9. max - Len(j) + i = e.seq
  BY <1>1, <1>5
<1>10. e = j[i]
  BY <1>5, <1>7, <1>8, <1>9 DEF Agree
<1>11. e \in After(j, since)
  BY <1>1, <1>5, <1>7, <1>10 DEF After, Range
<1> QED BY <1>4, <1>11 DEF Answer

(***************************************************************************)
(* What the steps do to a name and to an object.                           *)
(***************************************************************************)

(* The steps that leave numbers, journals and what has been heard alone. *)
LEMMA QuietSteps ==
    ASSUME [Next]_vars
    PROVE  \/ UNCHANGED <<made, seq, journal, rooms, watermark, retained, heard>>
           \/ \E c \in Clients, n \in Names : SubscribeCreate(c, n)
           \/ \E o \in Objs : Erase(o) \/ BudgetClear(o)
           \/ \E p \in Publishers : PublishCommit(p)
<1> DEFINE Quiet0 == UNCHANGED <<made, seq, journal, rooms, watermark, retained, heard>>
<1> USE DEF objVars, tableVars, histVars
<1>1. UNCHANGED vars => Quiet0
  BY DEF vars
<1>2. \A c \in Clients, n \in Names : SubscribeFind(c, n) => Quiet0
  BY DEF SubscribeFind
<1>3. \A c \in Clients : SubscribeRetry(c) \/ SubscribeEnter(c) \/ Unsubscribe(c) => Quiet0
  BY DEF SubscribeRetry, SubscribeEnter, Unsubscribe
<1>4. \A o \in Objs : BudgetMeasure(o) => Quiet0
  BY DEF BudgetMeasure
<1>5. \A p \in Publishers, n \in Names : PublishFind(p, n) => Quiet0
  BY DEF PublishFind
<1>6. \A r \in Readers : ReplayRead(r) => Quiet0
  BY DEF ReplayRead
<1>7. \A r \in Readers, n \in Names, since \in 0 .. MaxMsgs : ReplayFind(r, n, since) => Quiet0
  BY DEF ReplayFind
<1>8. BudgetScan \/ BudgetEnd => Quiet0
  BY DEF BudgetScan, BudgetEnd
<1> HIDE DEF Quiet0
<1>9. Next => \/ Quiet0
              \/ \E c \in Clients, n \in Names : SubscribeCreate(c, n)
              \/ \E o \in Objs : Erase(o) \/ BudgetClear(o)
              \/ \E p \in Publishers : PublishCommit(p)
  BY <1>2, <1>3, <1>4, <1>5, <1>6, <1>7, <1>8, Steps
<1> QED BY <1>1, <1>9 DEF Quiet0

(* The number a message gets is one of the model's. *)
LEMMA CommitMessage ==
    ASSUME IInv, NEW p \in Publishers, PublishCommit(p)
    PROVE  [seq |-> seq[publishing[p]] + 1, payload |-> msgs + 1] \in Messages
<1> DEFINE o == publishing[p]
<1>1. o # None /\ msgs < MaxMsgs
  BY DEF PublishCommit
<1>2. o \in Objs
  BY <1>1, MadeAreObjects DEF IInv, HandsInv
<1>3. msgs \in 0 .. MaxMsgs /\ MaxMsgs \in Nat /\ seq[o] \in Nat /\ seq[o] <= msgs
  BY <1>2, TableAssumption DEF IInv, TypeOK, NumbersInv
<1>4. seq[o] + 1 \in 1 .. MaxMsgs /\ msgs + 1 \in 1 .. MaxMsgs
  BY <1>1, <1>3
<1> QED BY <1>4 DEF Messages, Seqs

(* The numbers and journal of an object that has been made. *)
ObjectKeepsOn(o) ==
    \/ Stays(seq[o], journal[o], seq'[o], journal'[o])
    \/ \E m \in Messages : Logs(seq[o], journal[o], seq'[o], journal'[o], m)

(* Every step keeps an object on. *)
LEMMA ObjectSteps ==
    ASSUME IInv, [Next]_vars, NEW o \in Made
    PROVE  ObjectKeepsOn(o)
<1>1. o \in Objs /\ seq \in [Objs -> Nat] /\ journal \in [Objs -> Seq(Messages)]
  BY MadeAreObjects DEF IInv, TypeOK
<1>2. CASE UNCHANGED <<made, seq, journal, rooms, watermark, retained, heard>>
  BY <1>2 DEF ObjectKeepsOn, Stays
<1>3. ASSUME NEW c \in Clients, NEW n \in Names, SubscribeCreate(c, n) PROVE ObjectKeepsOn(o)
  <2>1. o # made + 1
    <3>1. made < MaxObjs
      BY <1>3 DEF SubscribeCreate
    <3> QED BY <3>1, MadeAreObjects DEF IInv
  <2>2. seq'[o] = seq[o] /\ journal'[o] = journal[o]
    BY <1>1, <1>3, <2>1 DEF SubscribeCreate
  <2> QED BY <2>2 DEF ObjectKeepsOn, Stays
<1>4. ASSUME NEW q \in Objs, Erase(q) PROVE ObjectKeepsOn(o)
  <2>1. seq' = seq /\ (journal' = journal \/ journal' = [journal EXCEPT ![q] = <<>>])
    BY <1>4, EraseFinds
  <2> QED BY <1>1, <2>1 DEF ObjectKeepsOn, Stays
<1>5. ASSUME NEW q \in Objs, BudgetClear(q) PROVE ObjectKeepsOn(o)
  <2>1. seq' = seq /\ journal' = [journal EXCEPT ![q] = <<>>]
    BY <1>5 DEF BudgetClear
  <2> QED BY <1>1, <2>1 DEF ObjectKeepsOn, Stays
<1>6. ASSUME NEW p \in Publishers, PublishCommit(p) PROVE ObjectKeepsOn(o)
  <2> DEFINE q == publishing[p]
             m == [seq |-> seq[q] + 1, payload |-> msgs + 1]
  <2>1. /\ seq' = [seq EXCEPT ![q] = m.seq]
        /\ journal' = [journal EXCEPT ![q] = LastEntries(Append(journal[q], m))]
        /\ q # None
    BY <1>6 DEF PublishCommit
  <2>2. m \in Messages
    BY <1>6, CommitMessage
  <2>3. m.seq = seq[q] + 1
    OBVIOUS
  <2> HIDE DEF m, q
  <2>4. CASE o = q
    BY <1>1, <2>1, <2>2, <2>3, <2>4 DEF ObjectKeepsOn, Logs
  <2>5. CASE o # q
    <3>1. seq'[o] = seq[o] /\ journal'[o] = journal[o]
      BY <1>1, <2>1, <2>5
    <3> QED BY <3>1 DEF ObjectKeepsOn, Stays
  <2> QED BY <2>4, <2>5
<1> QED BY <1>2, <1>3, <1>4, <1>5, <1>6, QuietSteps

(* The numbers, the journal and what has been heard under a name. *)
NameKeepsOn(n) ==
    \/ Stays(Last(n), Kept(n), Last(n)', Kept(n)') /\ heard'[n] = heard[n]
    \/ \E m \in Messages : /\ Logs(Last(n), Kept(n), Last(n)', Kept(n)', m)
                           /\ heard'[n] = heard[n] \/ heard'[n] = Append(heard[n], m)

(* getOrCreateRoom: what the name had is what the new object starts with. *)
LEMMA CreateTakesOver ==
    ASSUME IInv, NEW c \in Clients, NEW x \in Names, SubscribeCreate(c, x), NEW n \in Names
    PROVE  NameKeepsOn(n)
<1>1. /\ rooms[x] = None /\ made < MaxObjs
      /\ seq' = [seq EXCEPT ![made + 1] = IF x \in DOMAIN watermark THEN watermark[x] ELSE 0]
      /\ journal' = [journal EXCEPT ![made + 1] = IF x \in DOMAIN retained THEN retained[x]
                                                  ELSE <<>>]
      /\ rooms' = [rooms EXCEPT ![x] = made + 1]
      /\ watermark' = Without(watermark, x) /\ retained' = Without(retained, x)
      /\ heard' = heard
  BY DEF SubscribeCreate, histVars
<1>2. made + 1 \in Objs /\ made + 1 \notin Made /\ None \notin Objs
  BY <1>1, MadeAreObjects DEF IInv
<1>3. rooms[n] # None => rooms[n] \in Objs /\ rooms[n] # made + 1
  BY <1>2, MadeAreObjects DEF IInv, TableInv
<1>4. Last(n)' = Last(n) /\ Kept(n)' = Kept(n)
  <2>1. CASE n = x
    <3>1. rooms'[n] = made + 1 /\ rooms'[n] # None
      BY <1>1, <1>2, <2>1 DEF IInv, TypeOK
    <3>2. /\ seq'[made + 1] = IF n \in DOMAIN watermark THEN watermark[n] ELSE 0
          /\ journal'[made + 1] = IF n \in DOMAIN retained THEN retained[n] ELSE <<>>
      BY <1>1, <1>2, <2>1 DEF IInv, TypeOK
    <3> QED BY <1>1, <2>1, <3>1, <3>2 DEF Last, Kept
  <2>2. CASE n # x
    <3>1. rooms'[n] = rooms[n]
      BY <1>1, <2>2 DEF IInv, TypeOK
    <3>2. CASE rooms[n] # None
      <4>1. seq'[rooms[n]] = seq[rooms[n]] /\ journal'[rooms[n]] = journal[rooms[n]]
        BY <1>1, <1>3, <3>2 DEF IInv, TypeOK
      <4> QED BY <3>1, <3>2, <4>1 DEF Last, Kept
    <3>3. CASE rooms[n] = None
      <4>1. n \in DOMAIN watermark' <=> n \in DOMAIN watermark
        BY <1>1, <2>2 DEF Without, Restrict
      <4>2. n \in DOMAIN watermark => watermark'[n] = watermark[n]
        BY <1>1, <2>2 DEF Without, Restrict
      <4>3. n \in DOMAIN retained' <=> n \in DOMAIN retained
        BY <1>1, <2>2 DEF Without, Restrict
      <4>4. n \in DOMAIN retained => retained'[n] = retained[n]
        BY <1>1, <2>2 DEF Without, Restrict
      <4> QED BY <3>1, <3>3, <4>1, <4>2, <4>3, <4>4 DEF Last, Kept
    <3> QED BY <3>2, <3>3
  <2> QED BY <2>1, <2>2
<1> QED BY <1>1, <1>4 DEF NameKeepsOn, Stays

(* The last leaver: what the object had is what the name keeps. *)
LEMMA EraseLeavesBehind ==
    ASSUME IInv, MarksFit, NEW o \in Objs, Erase(o), NEW n \in Names
    PROVE  NameKeepsOn(n) /\ DOMAIN watermark' = DOMAIN watermark \cup {nameOf[o]}
           /\ DOMAIN retained' \subseteq DOMAIN retained \cup {nameOf[o]}
<1> DEFINE x == nameOf[o]
<1>1. /\ o \in Made /\ x \in Names /\ rooms[x] = o /\ x \notin DOMAIN retained
      /\ rooms' = [rooms EXCEPT ![x] = None]
      /\ watermark' = With(IF Cardinality(DOMAIN watermark) >= MaxWatermarks
                           THEN <<>> ELSE watermark, x, seq[o])
      /\ IF JournalCap # 0 /\ journal[o] # <<>>
         THEN Retain(x, journal[o]) /\ journal' = [journal EXCEPT ![o] = <<>>]
         ELSE UNCHANGED <<retained, order, retainedEntries, journal>>
      /\ seq' = seq /\ heard' = heard
  BY EraseFinds DEF histVars
<1>2. o \in Objs /\ o # None
  BY <1>1, MadeAreObjects DEF IInv
<1>3. watermark' = With(watermark, x, seq[o])
  <2>1. o \in erasing
    BY DEF Erase
  <2>2. ~(Cardinality(DOMAIN watermark) >= MaxWatermarks)
    BY <2>1 DEF MarksFit
  <2> QED BY <1>1, <2>2
<1>4. /\ DOMAIN watermark' = DOMAIN watermark \cup {x} /\ watermark'[x] = seq[o]
      /\ \A y \in DOMAIN watermark \ {x} : watermark'[y] = watermark[y]
  BY <1>3 DEF With
<1>5. /\ rooms'[x] = None
      /\ \A y \in Names \ {x} : rooms'[y] = rooms[y]
  BY <1>1 DEF IInv, TypeOK
<1>6. journal[o] \in Seq(Messages) /\ Len(journal[o]) <= JournalCap
      /\ Books(retained, order, retainedEntries)
  BY <1>2 DEF IInv, TypeOK, ShelfInv
<1>7. \/ /\ Retain(x, journal[o]) /\ journal' = [journal EXCEPT ![o] = <<>>]
      \/ retained' = retained /\ journal' = journal /\ journal[o] = <<>>
  <2>1. CASE JournalCap # 0 /\ journal[o] # <<>>
    BY <1>1, <2>1
  <2>2. CASE journal[o] = <<>>
    BY <1>1, <2>2
  <2>3. CASE JournalCap = 0 /\ journal[o] # <<>>
    <3>1. Len(journal[o]) \in Nat \ {0}
      BY <1>6, <2>3, EmptySeq
    <3> QED BY <1>6, <2>3, <3>1
  <2> QED BY <2>1, <2>2, <2>3
<1>8. /\ DOMAIN retained' \subseteq DOMAIN retained \cup {x}
      /\ \A y \in DOMAIN retained' : retained'[y] = IF y = x THEN journal[o] ELSE retained[y]
  <2>1. CASE Retain(x, journal[o])
    <3> HIDE DEF x
    <3> QED BY <1>1, <1>6, <2>1, RetainKeepsBooks
  <2>2. CASE retained' = retained
    BY <1>1, <2>2
  <2> QED BY <1>7, <2>1, <2>2
<1>9. \A q \in Objs \ {o} : journal'[q] = journal[q]
  BY <1>7 DEF IInv, TypeOK
<1> HIDE DEF x
<1>10. Last(n)' = Last(n)
  <2>1. CASE n = x
    BY <1>1, <1>2, <1>4, <1>5, <2>1 DEF Last
  <2>2. CASE n # x
    BY <1>1, <1>4, <1>5, <2>2 DEF Last
  <2> QED BY <2>1, <2>2
<1>11. Kept(n)' = Kept(n) \/ Kept(n)' = <<>>
  <2>1. CASE n = x
    <3>1. Kept(n) = journal[o] /\ rooms'[n] = None
      BY <1>1, <1>2, <1>5, <2>1 DEF Kept
    <3>2. n \in DOMAIN retained' => retained'[n] = journal[o]
      BY <1>8, <2>1
    <3> QED BY <3>1, <3>2 DEF Kept
  <2>2. CASE n # x
    <3>1. rooms'[n] = rooms[n]
      BY <1>5, <2>2
    <3>2. CASE rooms[n] # None
      <4>1. rooms[n] \in Objs /\ rooms[n] # o
        <5>1. nameOf[rooms[n]] = n /\ rooms[n] \in Made
          BY <3>2 DEF IInv, TableInv
        <5> QED BY <2>2, <5>1, MadeAreObjects DEF IInv, x
      <4>2. journal'[rooms[n]] = journal[rooms[n]]
        BY <1>9, <4>1
      <4> QED BY <3>1, <3>2, <4>2 DEF Kept
    <3>3. CASE rooms[n] = None
      <4>1. n \in DOMAIN retained' => n \in DOMAIN retained /\ retained'[n] = retained[n]
        BY <1>8, <2>2
      <4> QED BY <3>1, <3>3, <4>1 DEF Kept
    <3> QED BY <3>2, <3>3
  <2> QED BY <2>1, <2>2
<1>12. NameKeepsOn(n)
  BY <1>1, <1>10, <1>11 DEF NameKeepsOn, Stays
<1> QED BY <1>4, <1>8, <1>12 DEF x

(* publish gives the next number, or the next one of an object that is gone. *)
LEMMA CommitNumbers ==
    ASSUME IInv, NEW p \in Publishers, PublishCommit(p), NEW n \in Names
    PROVE  NameKeepsOn(n)
<1> DEFINE o == publishing[p]
           m == [seq |-> seq[o] + 1, payload |-> msgs + 1]
<1>1. /\ o # None
      /\ seq' = [seq EXCEPT ![o] = m.seq]
      /\ journal' = [journal EXCEPT ![o] = LastEntries(Append(journal[o], m))]
      /\ heard' = IF subs[o] = {} THEN heard
                  ELSE [heard EXCEPT ![nameOf[o]] = Append(@, m)]
      /\ rooms' = rooms /\ watermark' = watermark /\ retained' = retained
  BY DEF PublishCommit, tableVars
<1>2. o \in Made /\ o \in Objs /\ nameOf[o] \in Names /\ m \in Messages
  BY <1>1, CommitMessage, MadeAreObjects DEF IInv, HandsInv, ObjectsInv
<1>3. m.seq = seq[o] + 1
  OBVIOUS
<1> HIDE DEF m, o
<1>4. /\ seq'[o] = seq[o] + 1 /\ journal'[o] = LastEntries(Append(journal[o], m))
      /\ \A q \in Objs \ {o} : seq'[q] = seq[q] /\ journal'[q] = journal[q]
  BY <1>1, <1>2, <1>3 DEF IInv, TypeOK
<1>5. CASE rooms[n] = o
  <2>1. Last(n) = seq[o] /\ Kept(n) = journal[o]
    BY <1>1, <1>5 DEF Last, Kept
  <2>2. Last(n)' = seq[o] + 1 /\ Kept(n)' = LastEntries(Append(journal[o], m))
    BY <1>1, <1>4, <1>5 DEF Last, Kept
  <2>3. heard'[n] = heard[n] \/ heard'[n] = Append(heard[n], m)
    BY <1>1 DEF IInv, TypeOK
  <2> QED BY <1>2, <1>3, <2>1, <2>2, <2>3 DEF NameKeepsOn, Logs
<1>6. CASE rooms[n] # o
  <2>1. heard'[n] = heard[n]
    <3>1. CASE subs[o] = {}
      BY <1>1, <3>1
    <3>2. CASE subs[o] # {}
      <4>1. rooms[nameOf[o]] = o
        BY <1>2, <3>2 DEF IInv, ObjectsInv
      <4>2. n # nameOf[o]
        BY <1>6, <4>1
      <4> QED BY <1>1, <4>2 DEF IInv, TypeOK
    <3> QED BY <3>1, <3>2
  <2>2. Last(n)' = Last(n) /\ Kept(n)' = Kept(n)
    <3>1. CASE rooms[n] # None
      <4>1. rooms[n] \in Objs \ {o}
        BY <1>6, <3>1 DEF IInv, TypeOK
      <4> QED BY <1>1, <1>4, <3>1, <4>1 DEF Last, Kept
    <3>2. CASE rooms[n] = None
      BY <1>1, <3>2 DEF Last, Kept
    <3> QED BY <3>1, <3>2
  <2> QED BY <2>1, <2>2 DEF NameKeepsOn, Stays
<1> QED BY <1>5, <1>6

(* The budget gives a journal up and never a number. *)
LEMMA ClearGivesUp ==
    ASSUME IInv, NEW o \in Objs, BudgetClear(o), NEW n \in Names
    PROVE  NameKeepsOn(n)
<1>1. /\ journal' = [journal EXCEPT ![o] = <<>>]
      /\ seq' = seq /\ rooms' = rooms /\ watermark' = watermark /\ retained' = retained
      /\ heard' = heard
  BY DEF BudgetClear, tableVars, histVars
<1>2. Last(n)' = Last(n)
  BY <1>1 DEF Last
<1>3. Kept(n)' = Kept(n) \/ Kept(n)' = <<>>
  <2>1. \A q \in Objs : journal'[q] = journal[q] \/ journal'[q] = <<>>
    BY <1>1 DEF IInv, TypeOK
  <2> QED BY <1>1, <2>1 DEF Kept, IInv, TypeOK
<1> QED BY <1>1, <1>2, <1>3 DEF NameKeepsOn, Stays

(* Every step keeps a name on, across its rooms. *)
LEMMA NameSteps ==
    ASSUME IInv, MarksFit, [Next]_vars, NEW n \in Names
    PROVE  NameKeepsOn(n)
<1>1. CASE UNCHANGED <<made, seq, journal, rooms, watermark, retained, heard>>
  <2>1. Last(n)' = Last(n) /\ Kept(n)' = Kept(n) /\ heard'[n] = heard[n]
    BY <1>1 DEF Last, Kept
  <2> QED BY <2>1 DEF NameKeepsOn, Stays
<1> QED BY <1>1, QuietSteps, CreateTakesOver, EraseLeavesBehind, CommitNumbers, ClearGivesUp

(***************************************************************************)
(* Journals, numbers and answers.                                          *)
(***************************************************************************)

LEMMA NameTypes ==
    ASSUME IInv, NEW n \in Names
    PROVE  /\ Last(n) \in Nat /\ Kept(n) \in Seq(Messages) /\ Len(Kept(n)) <= JournalCap
           /\ heard[n] \in Seq(Messages) /\ Range(heard[n]) \in SUBSET Messages
<1>1. Last(n) \in Nat
  BY DEF Last, IInv, TypeOK, IsPartial
<1>2. Kept(n) \in Seq(Messages) /\ Len(Kept(n)) <= JournalCap
  <2>1. CASE rooms[n] # None
    <3>1. Kept(n) = journal[rooms[n]] /\ rooms[n] \in Objs
      BY <2>1 DEF Kept, IInv, TypeOK
    <3> QED BY <3>1 DEF IInv, TypeOK
  <2>2. CASE rooms[n] = None /\ n \in DOMAIN retained
    <3>1. Kept(n) = retained[n]
      BY <2>2 DEF Kept
    <3> QED BY <2>2, <3>1 DEF IInv, ShelfInv, Books, Shelf
  <2>3. CASE rooms[n] = None /\ n \notin DOMAIN retained
    <3>1. Kept(n) = <<>>
      BY <2>3 DEF Kept
    <3>2. <<>> \in Seq(Messages) /\ Len(<<>>) = 0 /\ 0 <= JournalCap
      BY EmptySeq, TableAssumption
    <3> QED BY <3>1, <3>2
  <2> QED BY <2>1, <2>2, <2>3
<1>3. heard[n] \in Seq(Messages)
  BY DEF IInv, TypeOK
<1>4. Range(heard[n]) \subseteq Messages
  BY <1>3, RangeOfSeq
<1> QED BY <1>1, <1>2, <1>3, <1>4

(* The journal of every object is an unbroken run up to its last number. *)
ObjectRuns == \A o \in Made : UnbrokenUpTo(journal[o], seq[o])

(* So is the journal of every name, over all its rooms; what members got has
   numbers up to the last one, rising, and agrees with the journal. *)
NameRuns ==
    \A n \in Names :
        /\ UnbrokenUpTo(Kept(n), Last(n)) /\ Agree(Kept(n), Range(heard[n]))
        /\ \A e \in Range(heard[n]) : e.seq <= Last(n)
        /\ Rising(heard[n])

(* A retained journal has its number with it. *)
Marked == DOMAIN retained \subseteq DOMAIN watermark

(* What a replay owes is not newer than the object it has found, and is in its
   journal under its number or not at all, although the object may have gone
   from the table and be published to by those who found it before. *)
FoundInv ==
    \A r \in Readers : replaying[r].at = "found" =>
        /\ \A e \in replaying[r].due :
                replaying[r].since < e.seq /\ e.seq <= seq[replaying[r].room]
        /\ Agree(journal[replaying[r].room], replaying[r].due)

RunsInv == ObjectRuns /\ NameRuns /\ Marked /\ FoundInv /\ ReplayHonest

(* The runs of the names stay unbroken. *)
LEMMA NameRunsStep ==
    ASSUME IInv, MarksFit, RunsInv, [Next]_vars
    PROVE  NameRuns'
<1> SUFFICES ASSUME NEW n \in Names
             PROVE  /\ UnbrokenUpTo(Kept(n)', Last(n)') /\ Agree(Kept(n)', Range(heard'[n]))
                    /\ \A e \in Range(heard'[n]) : e.seq <= Last(n)'
                    /\ Rising(heard'[n])
  BY DEF NameRuns, UnbrokenUpTo, Agree, Rising
<1> DEFINE l == Last(n)
           j == Kept(n)
           h == heard[n]
           l1 == Last(n)'
           j1 == Kept(n)'
           h1 == heard'[n]
<1>1. /\ l \in Nat /\ j \in Seq(Messages) /\ Len(j) <= JournalCap
      /\ h \in Seq(Messages) /\ Range(h) \in SUBSET Messages
  BY NameTypes
<1>2. /\ UnbrokenUpTo(j, l) /\ Agree(j, Range(h)) /\ \A e \in Range(h) : e.seq <= l
      /\ Rising(h)
  BY DEF RunsInv, NameRuns
<1>3. \/ Stays(l, j, l1, j1) /\ h1 = h
      \/ \E m \in Messages : Logs(l, j, l1, j1, m) /\ (h1 = h \/ h1 = Append(h, m))
  BY NameSteps DEF NameKeepsOn
<1> HIDE DEF l, j, h, l1, j1, h1
<1>4. CASE Stays(l, j, l1, j1) /\ h1 = h
  <2>1. l1 = l /\ (j1 = j \/ j1 = <<>>)
    BY <1>4 DEF Stays
  <2>2. UnbrokenUpTo(j1, l1) /\ Agree(j1, Range(h1))
    BY <1>2, <1>4, <2>1, EmptyIsUnbroken
  <2> QED BY <1>2, <1>4, <2>1, <2>2 DEF l1, j1, h1
<1>5. ASSUME NEW m \in Messages, Logs(l, j, l1, j1, m), h1 = h \/ h1 = Append(h, m)
      PROVE  /\ UnbrokenUpTo(j1, l1) /\ Agree(j1, Range(h1))
             /\ \A e \in Range(h1) : e.seq <= l1
             /\ Rising(h1)
  <2>1. m.seq = l + 1 /\ l1 = l + 1 /\ j1 = LastEntries(Append(j, m))
    BY <1>5 DEF Logs
  <2>2. UnbrokenUpTo(j1, l1) /\ Agree(j1, Range(h) \cup {m})
    BY <1>1, <1>2, <2>1, LoggingKeepsOn
  <2>3. \A e \in Range(h) : e.seq < m.seq /\ e.seq <= l1
    <3>1. \A e \in Range(h) : e.seq \in Nat
      BY <1>1 DEF Messages, Seqs
    <3> QED BY <1>1, <1>2, <2>1, <3>1
  <2>4. CASE h1 = h
    BY <1>2, <2>2, <2>3, <2>4 DEF Agree
  <2>5. CASE h1 = Append(h, m)
    <3>1. /\ h1 \in Seq(Messages) /\ Len(h1) = Len(h) + 1 /\ Len(h) \in Nat
          /\ \A i \in 1 .. Len(h) : h1[i] = h[i]
          /\ h1[Len(h) + 1] = m
      BY <1>1, <2>5, AppendProperties, LenProperties
    <3>2. DOMAIN h = 1 .. Len(h) /\ DOMAIN h1 = 1 .. Len(h) + 1
      BY <1>1, <3>1, LenProperties
    <3>3. \A i \in DOMAIN h1 : (i \in DOMAIN h /\ h1[i] = h[i]) \/ i = Len(h) + 1
      BY <3>1, <3>2
    <3>4. \A i \in DOMAIN h : h[i] \in Range(h)
      BY DEF Range
    <3>5. Range(h1) \subseteq Range(h) \cup {m}
      BY <3>1, <3>3, <3>4 DEF Range
    <3>6. Rising(h1)
      <4>1. SUFFICES ASSUME NEW i \in DOMAIN h1, NEW k \in DOMAIN h1, i < k
                     PROVE  h1[i].seq < h1[k].seq
        BY DEF Rising
      <4>2. i \in DOMAIN h /\ h1[i] = h[i]
        BY <3>1, <3>2, <4>1
      <4>3. CASE k = Len(h) + 1
        BY <2>3, <3>1, <3>4, <4>2, <4>3
      <4>4. CASE k # Len(h) + 1
        <5>1. k \in DOMAIN h /\ h1[k] = h[k]
          BY <3>3, <4>4
        <5> QED BY <1>2, <4>1, <4>2, <5>1 DEF Rising
      <4> QED BY <4>3, <4>4
    <3>7. Agree(j1, Range(h1))
      BY <2>2, <3>5 DEF Agree
    <3>8. \A e \in Range(h1) : e.seq <= l1
      BY <1>1, <2>1, <2>3, <3>5
    <3> QED BY <2>2, <3>6, <3>7, <3>8
  <2> QED BY <1>5, <2>4, <2>5
<1> QED BY <1>3, <1>4, <1>5 DEF l1, j1, h1

(* Journals are retained with their numbers. *)
LEMMA MarkedStep ==
    ASSUME IInv, MarksFit, RunsInv, [Next]_vars
    PROVE  Marked'
<1> USE DEF RunsInv, Marked
<1>1. ASSUME NEW c \in Clients, NEW n \in Names, SubscribeCreate(c, n) PROVE Marked'
  BY <1>1 DEF SubscribeCreate, Without, Restrict
<1>2. ASSUME NEW o \in Objs, Erase(o) PROVE Marked'
  <2>1. nameOf[o] \in Names
    BY <1>2, EraseFinds
  <2> QED BY <1>2, <2>1, EraseLeavesBehind
<1>3. ASSUME NEW p \in Publishers, PublishCommit(p) PROVE Marked'
  BY <1>3 DEF PublishCommit, tableVars
<1>4. ASSUME NEW o \in Objs, BudgetClear(o) PROVE Marked'
  BY <1>4 DEF BudgetClear, tableVars
<1> QED BY <1>1, <1>2, <1>3, <1>4, QuietSteps

(* The runs of the objects stay unbroken, that of a new one included. *)
LEMMA ObjectRunsStep ==
    ASSUME IInv, IInv', NameRuns', RunsInv, [Next]_vars
    PROVE  ObjectRuns'
<1> SUFFICES ASSUME NEW o \in Made' PROVE UnbrokenUpTo(journal'[o], seq'[o])
  BY DEF ObjectRuns, UnbrokenUpTo
<1>1. CASE o \in Made
  <2>1. o \in Objs /\ seq[o] \in Nat /\ journal[o] \in Seq(Messages) /\ Len(journal[o]) <= JournalCap
    BY <1>1, MadeAreObjects DEF IInv, TypeOK
  <2>2. UnbrokenUpTo(journal[o], seq[o])
    BY <1>1 DEF RunsInv, ObjectRuns
  <2>3. CASE Stays(seq[o], journal[o], seq'[o], journal'[o])
    <3>1. seq'[o] = seq[o] /\ (journal'[o] = journal[o] \/ journal'[o] = <<>>)
      BY <2>3 DEF Stays
    <3> QED BY <2>2, <3>1, EmptyIsUnbroken
  <2>4. ASSUME NEW m \in Messages, Logs(seq[o], journal[o], seq'[o], journal'[o], m)
        PROVE  UnbrokenUpTo(journal'[o], seq'[o])
    <3>1. /\ m.seq = seq[o] + 1 /\ seq'[o] = seq[o] + 1
          /\ journal'[o] = LastEntries(Append(journal[o], m))
      BY <2>4 DEF Logs
    <3>2. /\ Agree(journal[o], {}) /\ {} \in SUBSET Messages
          /\ \A e \in {} : e.seq <= seq[o]
      BY DEF Agree
    <3>3. UnbrokenUpTo(LastEntries(Append(journal[o], m)), seq[o] + 1)
      BY <2>1, <2>2, <3>1, <3>2, LoggingKeepsOn
    <3> QED BY <3>1, <3>3
  <2> QED BY <1>1, <2>3, <2>4, ObjectSteps DEF ObjectKeepsOn
<1>2. CASE o \notin Made
  <2>1. PICK c \in Clients, n \in Names : SubscribeCreate(c, n)
    <3>1. Made' # Made
      BY <1>2
    <3>2. ASSUME NEW q \in Objs, Erase(q) \/ BudgetClear(q) PROVE made' = made
      BY <3>2 DEF Erase, BudgetClear
    <3>3. ASSUME NEW p \in Publishers, PublishCommit(p) PROVE made' = made
      BY <3>3 DEF PublishCommit
    <3>4. made' # made
      BY <3>1 DEF Made
    <3> QED BY <3>2, <3>3, <3>4, QuietSteps
  <2>2. made' = made + 1 /\ rooms' = [rooms EXCEPT ![n] = made + 1] /\ made < MaxObjs
    BY <2>1 DEF SubscribeCreate
  <2>3. o = made + 1
    <3>1. made \in Nat
      BY TableAssumption DEF IInv, TypeOK
    <3> QED BY <1>2, <2>2, <3>1 DEF Made
  <2>4. rooms'[n] = o /\ o # None
    <3>1. o \in Objs /\ None \notin Objs
      BY <2>2, <2>3, MadeAreObjects DEF IInv
    <3> QED BY <2>2, <2>3, <3>1 DEF IInv, TypeOK
  <2>5. Kept(n)' = journal'[o] /\ Last(n)' = seq'[o]
    BY <2>4 DEF Kept, Last
  <2>6. UnbrokenUpTo(Kept(n)', Last(n)')
    BY DEF NameRuns, UnbrokenUpTo
  <2> QED BY <2>5, <2>6
<1> QED BY <1>1, <1>2

(* Only replay writes what a reader is at, and it writes nothing else. *)
LEMMA WhoReplays ==
    ASSUME [Next]_vars
    PROVE  \/ UNCHANGED replaying
           \/ \E r \in Readers :
                /\ \/ ReplayRead(r)
                   \/ \E n \in Names, since \in 0 .. MaxMsgs : ReplayFind(r, n, since)
                /\ UNCHANGED <<objVars, tableVars, histVars>>
<1> DEFINE Same == UNCHANGED replaying
<1>1. UNCHANGED vars => Same
  BY DEF vars
<1>2. \A c \in Clients, n \in Names : SubscribeFind(c, n) \/ SubscribeCreate(c, n) => Same
  BY DEF SubscribeFind, SubscribeCreate
<1>3. \A c \in Clients : SubscribeRetry(c) \/ SubscribeEnter(c) \/ Unsubscribe(c) => Same
  BY DEF SubscribeRetry, SubscribeEnter, Unsubscribe
<1>4. \A o \in Objs : Erase(o) \/ BudgetMeasure(o) \/ BudgetClear(o) => Same
  BY DEF Erase, BudgetMeasure, BudgetClear
<1>5. \A p \in Publishers : PublishCommit(p) => Same
  BY DEF PublishCommit
<1>6. \A p \in Publishers, n \in Names : PublishFind(p, n) => Same
  BY DEF PublishFind
<1>7. BudgetScan \/ BudgetEnd => Same
  BY DEF BudgetScan, BudgetEnd
<1>8. \A r \in Readers : ReplayRead(r) => UNCHANGED <<objVars, tableVars, histVars>>
  BY DEF ReplayRead
<1>9. \A r \in Readers, n \in Names, since \in 0 .. MaxMsgs :
        ReplayFind(r, n, since) => UNCHANGED <<objVars, tableVars, histVars>>
  BY DEF ReplayFind
<1> HIDE DEF Same
<1>10. Next => \/ Same
               \/ \E r \in Readers :
                    /\ \/ ReplayRead(r)
                       \/ \E n \in Names, since \in 0 .. MaxMsgs : ReplayFind(r, n, since)
                    /\ UNCHANGED <<objVars, tableVars, histVars>>
  BY <1>2, <1>3, <1>4, <1>5, <1>6, <1>7, <1>8, <1>9, Steps
<1> QED BY <1>1, <1>10 DEF Same

(* What a reader has found stays true of the object, whatever becomes of it. *)
LEMMA OwedStays ==
    ASSUME IInv, RunsInv, [Next]_vars, NEW r \in Readers, replaying[r].at = "found",
           NEW f, f = replaying[r]
    PROVE  /\ \A e \in f.due : f.since < e.seq /\ e.seq <= seq'[f.room]
           /\ Agree(journal'[f.room], f.due)
<1> DEFINE o == f.room
           due == f.due
<1>1. f \in [at : {"found"}, room : Objs, since : Nat, due : SUBSET Messages]
  <2>1. f \in Replays /\ f.at = "found"
    BY DEF IInv, TypeOK
  <2> QED BY <2>1 DEF Replays, Idle
<1>2. o \in Made /\ o \in Objs /\ due \in SUBSET Messages
  BY <1>1, MadeAreObjects DEF IInv, HandsInv
<1>3. /\ \A e \in due : f.since < e.seq /\ e.seq <= seq[o]
      /\ Agree(journal[o], due)
  BY DEF RunsInv, FoundInv
<1>4. seq[o] \in Nat /\ journal[o] \in Seq(Messages) /\ Len(journal[o]) <= JournalCap
  BY <1>2 DEF IInv, TypeOK
<1>5. UnbrokenUpTo(journal[o], seq[o])
  BY <1>2 DEF RunsInv, ObjectRuns
<1> HIDE DEF o, due
<1>6. CASE Stays(seq[o], journal[o], seq'[o], journal'[o])
  <2>1. seq'[o] = seq[o] /\ (journal'[o] = journal[o] \/ journal'[o] = <<>>)
    BY <1>6 DEF Stays
  <2> QED BY <1>3, <2>1, EmptyIsUnbroken DEF o, due
<1>7. ASSUME NEW m \in Messages, Logs(seq[o], journal[o], seq'[o], journal'[o], m)
      PROVE  /\ \A e \in due : f.since < e.seq /\ e.seq <= seq'[o]
             /\ Agree(journal'[o], due)
  <2>1. /\ m.seq = seq[o] + 1 /\ seq'[o] = seq[o] + 1
        /\ journal'[o] = LastEntries(Append(journal[o], m))
    BY <1>7 DEF Logs
  <2>2. \A e \in due : e.seq <= seq[o]
    BY <1>3
  <2>3. Agree(LastEntries(Append(journal[o], m)), due \cup {m})
    BY <1>2, <1>3, <1>4, <1>5, <2>1, <2>2, LoggingKeepsOn
  <2>4. Agree(journal'[o], due)
    BY <2>1, <2>3 DEF Agree
  <2>5. \A e \in due : e.seq \in Nat
    BY <1>2 DEF Messages, Seqs
  <2>6. \A e \in due : e.seq <= seq'[o]
    BY <1>4, <2>1, <2>2, <2>5
  <2> QED BY <1>3, <2>4, <2>6
<1> QED BY <1>2, <1>6, <1>7, ObjectSteps DEF ObjectKeepsOn, o, due

(* What a reader at a says, and what it has found. *)
Honest(a) == a.at = "done" /\ a.since # 0 /\ ~a.answer.reset => a.due \subseteq a.answer.entries
WellFound(a) ==
    a.at = "found" => /\ \A e \in a.due : a.since < e.seq /\ e.seq <= seq[a.room]
                      /\ Agree(journal[a.room], a.due)

(* replay, in one step or in two. *)
LEMMA ReplayIsHonest ==
    ASSUME IInv, RunsInv, NEW r \in Readers,
           ReplayRead(r) \/ \E n \in Names, since \in 0 .. MaxMsgs : ReplayFind(r, n, since)
    PROVE  \E a : /\ replaying' = [replaying EXCEPT ![r] = a]
                  /\ Honest(a) /\ WellFound(a)
<1>1. ASSUME ReplayRead(r)
      PROVE  \E a : /\ replaying' = [replaying EXCEPT ![r] = a]
                    /\ Honest(a) /\ WellFound(a)
  <2> DEFINE found == replaying[r]
             o == found.room
             answer == Answer(journal[o], seq[o], found.since)
             a == Done(found, answer)
  <2>1. found.at = "found" /\ replaying' = [replaying EXCEPT ![r] = a]
    BY <1>1 DEF ReplayRead
  <2>2. found \in [at : {"found"}, room : Objs, since : Nat, due : SUBSET Messages]
    BY <2>1 DEF IInv, TypeOK, Replays, Idle
  <2>3. /\ o \in Made /\ o \in Objs
        /\ \A e \in found.due : found.since < e.seq /\ e.seq <= seq[o]
        /\ Agree(journal[o], found.due)
    BY <2>1, <2>2 DEF IInv, HandsInv, RunsInv, FoundInv
  <2>4. seq[o] \in Nat /\ journal[o] \in Seq(Messages) /\ UnbrokenUpTo(journal[o], seq[o])
    BY <2>3 DEF IInv, TypeOK, RunsInv, ObjectRuns
  <2>5. found.since \in Nat /\ found.due \in SUBSET Messages
    BY <2>2
  <2>6. /\ a.at = "done" /\ a.since = found.since /\ a.due = found.due /\ a.answer = answer
    BY DEF Done
  <2> HIDE DEF found, o
  <2>7. found.since # 0 /\ ~answer.reset => found.due \subseteq answer.entries
    BY <2>3, <2>4, <2>5, AnswerIsComplete
  <2> HIDE DEF a, answer
  <2>8. Honest(a) /\ WellFound(a)
    BY <2>6, <2>7 DEF Honest, WellFound
  <2> QED BY <2>1, <2>8
<1>2. ASSUME NEW n \in Names, NEW since \in 0 .. MaxMsgs, ReplayFind(r, n, since)
      PROVE  \E a : /\ replaying' = [replaying EXCEPT ![r] = a]
                    /\ Honest(a) /\ WellFound(a)
  <2> DEFINE due == Due(n, since)
  <2>1. since \in Nat
    BY TableAssumption
  <2>2. /\ UnbrokenUpTo(Kept(n), Last(n)) /\ Agree(Kept(n), Range(heard[n]))
        /\ \A e \in Range(heard[n]) : e.seq <= Last(n)
    BY DEF RunsInv, NameRuns
  <2>3. due \in SUBSET Messages /\ \A e \in due : since < e.seq /\ e.seq <= Last(n)
    <3>1. Range(heard[n]) \in SUBSET Messages
      BY NameTypes
    <3>2. \A e \in Range(heard[n]) : e.seq \in Nat
      BY <3>1 DEF Messages, Seqs
    <3> QED BY <2>1, <2>2, <3>1, <3>2 DEF Due, After
  <2>4. Agree(Kept(n), due)
    BY <2>2 DEF Due, After, Agree
  <2>5. Found(n, since) = [at |-> "found", room |-> rooms[n], since |-> since, due |-> due]
    BY DEF Found
  <2> HIDE DEF due
  <2>6. CASE rooms[n] = None
    <3> DEFINE answer == AnswerRetained(n, since)
               a == Done(Found(n, since), answer)
    <3>1. replaying' = [replaying EXCEPT ![r] = a]
      BY <1>2, <2>6 DEF ReplayFind
    <3>2. since # 0 /\ ~answer.reset => due \subseteq answer.entries
      <4>1. SUFFICES ASSUME since # 0, ~answer.reset PROVE due \subseteq answer.entries
        OBVIOUS
      <4>2. n \in DOMAIN retained
        BY <4>1 DEF AnswerRetained
      <4> DEFINE j == retained[n]
                 last == IF j = <<>> THEN 0 ELSE j[Len(j)].seq
                 mark == IF n \in DOMAIN watermark THEN watermark[n] ELSE 0
                 max == IF mark > last THEN mark ELSE last
      <4>3. answer = Answer(j, max, since)
        BY <4>2 DEF AnswerRetained
      <4>4. Kept(n) = j /\ Last(n) = mark /\ j \in Seq(Messages) /\ mark \in Nat
        <5>1. n \in DOMAIN watermark
          BY <4>2 DEF RunsInv, Marked
        <5>2. Kept(n) = j /\ Last(n) = mark
          BY <2>6, <4>2, <5>1 DEF Kept, Last
        <5> HIDE DEF j, mark
        <5> QED BY <5>2, NameTypes
      <4>5. last <= mark /\ last \in Nat
        <5>1. CASE j = <<>>
          <6>1. last = 0
            BY <5>1
          <6> HIDE DEF last, mark
          <6> QED BY <4>4, <6>1
        <5>2. CASE j # <<>>
          <6>1. Len(j) \in Nat \ {0} /\ DOMAIN j = 1 .. Len(j)
            BY <4>4, <5>2, EmptySeq, LenProperties
          <6>2. j[Len(j)].seq = mark - Len(j) + Len(j)
            <7>1. Len(j) \in DOMAIN j
              BY <6>1
            <7> HIDE DEF j, mark
            <7> QED BY <2>2, <4>4, <7>1 DEF UnbrokenUpTo
          <6>3. last = j[Len(j)].seq
            BY <5>2
          <6> HIDE DEF last, mark, j
          <6> QED BY <4>4, <6>1, <6>2, <6>3
        <5> QED BY <5>1, <5>2
      <4> HIDE DEF j, last, mark
      <4>6. max = mark
        BY <4>4, <4>5
      <4> HIDE DEF max, answer
      <4> QED BY <2>1, <2>2, <2>3, <2>4, <4>1, <4>3, <4>4, <4>6, AnswerIsComplete
    <3> HIDE DEF answer
    <3>3. a.at = "done" /\ a.since = since /\ a.due = due /\ a.answer = answer
      BY <2>5 DEF Done
    <3> HIDE DEF a
    <3>4. Honest(a) /\ WellFound(a)
      BY <3>2, <3>3 DEF Honest, WellFound
    <3> QED BY <3>1, <3>4
  <2>7. CASE rooms[n] # None
    <3> DEFINE a == Found(n, since)
    <3>1. replaying' = [replaying EXCEPT ![r] = a]
      BY <1>2, <2>7 DEF ReplayFind
    <3>2. Kept(n) = journal[rooms[n]] /\ Last(n) = seq[rooms[n]]
      BY <2>7 DEF Kept, Last
    <3>3. a.at = "found" /\ a.since = since /\ a.due = due /\ a.room = rooms[n]
      BY <2>5
    <3> HIDE DEF a
    <3>4. Honest(a) /\ WellFound(a)
      BY <2>3, <2>4, <3>2, <3>3 DEF Honest, WellFound
    <3> QED BY <3>1, <3>4
  <2> QED BY <2>6, <2>7
<1> QED BY <1>1, <1>2

(* What readers have found and what they have answered stays true. *)
LEMMA RepliesStep ==
    ASSUME IInv, RunsInv, [Next]_vars
    PROVE  FoundInv' /\ ReplayHonest'
<1>1. CASE UNCHANGED replaying
  <2>1. ReplayHonest'
    BY <1>1 DEF RunsInv, ReplayHonest
  <2>2. FoundInv'
    BY <1>1, OwedStays DEF FoundInv, Agree
  <2> QED BY <2>1, <2>2
<1>2. ASSUME NEW r \in Readers,
             ReplayRead(r) \/ \E n \in Names, since \in 0 .. MaxMsgs : ReplayFind(r, n, since),
             UNCHANGED <<objVars, tableVars, histVars>>
      PROVE  FoundInv' /\ ReplayHonest'
  <2>1. PICK a : replaying' = [replaying EXCEPT ![r] = a] /\ Honest(a) /\ WellFound(a)
    BY <1>2, ReplayIsHonest
  <2>2. \A q \in Readers : replaying'[q] = IF q = r THEN a ELSE replaying[q]
    BY <2>1 DEF IInv, TypeOK
  <2>3. seq' = seq /\ journal' = journal
    BY <1>2 DEF objVars
  <2>4. \A q \in Readers : Honest(replaying[q]) /\ WellFound(replaying[q])
    BY DEF RunsInv, ReplayHonest, FoundInv, Honest, WellFound
  <2>5. \A q \in Readers : Honest(replaying'[q]) /\ WellFound(replaying'[q])
    BY <2>1, <2>2, <2>4
  <2>6. ReplayHonest'
    BY <2>5 DEF ReplayHonest, Honest
  <2>7. FoundInv'
    BY <2>3, <2>5 DEF FoundInv, WellFound, Agree
  <2> QED BY <2>6, <2>7
<1> QED BY <1>1, <1>2, WhoReplays

(* No messages, no journals. *)
LEMMA InitRuns == ASSUME Init PROVE RunsInv
<1> USE DEF Init
<1>1. DOMAIN <<>> = {} /\ Range(<<>>) = {} /\ made = 0
  BY EmptySeq DEF Range
<1>2. ObjectRuns
  BY <1>1, EmptyIsUnbroken DEF ObjectRuns, Made
<1>3. NameRuns
  <2>1. \A n \in Names : Kept(n) = <<>> /\ heard[n] = <<>>
    BY <1>1 DEF Kept
  <2>2. Rising(<<>>)
    BY <1>1 DEF Rising
  <2> QED BY <1>1, <2>1, <2>2, EmptyIsUnbroken DEF NameRuns
<1>4. Marked
  BY <1>1 DEF Marked
<1>5. FoundInv /\ ReplayHonest
  BY DEF FoundInv, ReplayHonest, Idle
<1> QED BY <1>2, <1>3, <1>4, <1>5 DEF RunsInv

(* Every step keeps the runs, *)
LEMMA RunsInvStep ==
    ASSUME IInv, MarksFit, RunsInv, [Next]_vars
    PROVE  RunsInv'
<1>1. IInv'
  BY IInvStep
<1>2. NameRuns'
  BY NameRunsStep
<1>3. ObjectRuns'
  BY <1>1, <1>2, ObjectRunsStep
<1>4. Marked' /\ FoundInv' /\ ReplayHonest'
  BY MarkedStep, RepliesStep
<1> QED BY <1>2, <1>3, <1>4 DEF RunsInv

(* so that they hold as long as the watermarks do. *)
LEMMA RunsHold == Spec /\ []MarksFit => []RunsInv
<1>1. Init => RunsInv
  BY InitRuns
<1>2. IInv /\ MarksFit /\ RunsInv /\ [Next]_vars => RunsInv'
  BY RunsInvStep
<1> QED BY <1>1, <1>2, IInvHolds, PTL DEF Spec

(***************************************************************************)
(* Enough watermarks.                                                      *)
(***************************************************************************)

(* A name with a room has no watermark: getOrCreateRoom takes it, and only the
   erasing last leaver puts it back. *)
MarksOfTheGone == \A n \in DOMAIN watermark : rooms[n] = None

(* Every step leaves watermarks to the names without a room. *)
LEMMA MarksStep ==
    ASSUME IInv, MarksOfTheGone, [Next]_vars
    PROVE  MarksOfTheGone'
<1>1. CASE UNCHANGED <<made, seq, journal, rooms, watermark, retained, heard>>
  BY <1>1 DEF MarksOfTheGone
<1>2. ASSUME NEW c \in Clients, NEW n \in Names, SubscribeCreate(c, n) PROVE MarksOfTheGone'
  <2>1. rooms' = [rooms EXCEPT ![n] = made + 1] /\ DOMAIN watermark' = DOMAIN watermark \ {n}
    BY <1>2 DEF SubscribeCreate, Without, Restrict
  <2> QED BY <2>1 DEF IInv, TypeOK, MarksOfTheGone
<1>3. ASSUME NEW o \in Objs, Erase(o) PROVE MarksOfTheGone'
  <2>1. /\ rooms' = [rooms EXCEPT ![nameOf[o]] = None] /\ nameOf[o] \in Names
        /\ watermark' = With(IF Cardinality(DOMAIN watermark) >= MaxWatermarks
                             THEN <<>> ELSE watermark, nameOf[o], seq[o])
    BY <1>3, EraseFinds
  <2>2. DOMAIN watermark' \subseteq DOMAIN watermark \cup {nameOf[o]}
    BY <2>1 DEF With
  <2>3. DOMAIN watermark \subseteq Names
    BY DEF IInv, TypeOK, IsPartial
  <2> QED BY <2>1, <2>2, <2>3 DEF IInv, TypeOK, MarksOfTheGone
<1>4. ASSUME NEW o \in Objs, BudgetClear(o) PROVE MarksOfTheGone'
  BY <1>4 DEF BudgetClear, MarksOfTheGone, tableVars
<1>5. ASSUME NEW p \in Publishers, PublishCommit(p) PROVE MarksOfTheGone'
  BY <1>5 DEF PublishCommit, MarksOfTheGone, tableVars
<1> QED BY <1>1, <1>2, <1>3, <1>4, <1>5, QuietSteps

(* No more names than watermarks. *)
EnoughMarks == IsFiniteSet(Names) /\ Cardinality(Names) <= MaxWatermarks

(* With a watermark for every name roomSeqWatermark_ is never cleared: the name
   that is about to be erased has none yet. *)
LEMMA EnoughMarksFit == ASSUME EnoughMarks PROVE Spec => []MarksFit
<1>1. Init => MarksOfTheGone
  BY DEF Init, MarksOfTheGone
<1>2. IInv /\ MarksOfTheGone /\ [Next]_vars => MarksOfTheGone'
  BY MarksStep
<1>3. IInv /\ MarksOfTheGone => MarksFit
  <2>1. SUFFICES ASSUME IInv, MarksOfTheGone, NEW o \in erasing
                 PROVE  ~(Cardinality(DOMAIN watermark) >= MaxWatermarks)
    BY DEF MarksFit
  <2>2. nameOf[o] \in Names /\ rooms[nameOf[o]] = o /\ o # None
    BY <2>1, MadeAreObjects DEF IInv, TypeOK, ObjectsInv
  <2>3. DOMAIN watermark \subseteq Names \ {nameOf[o]}
    BY <2>1, <2>2 DEF IInv, TypeOK, IsPartial, MarksOfTheGone
  <2>4. /\ IsFiniteSet(Names \ {nameOf[o]})
        /\ Cardinality(Names \ {nameOf[o]}) = Cardinality(Names) - 1
    BY <2>2, FS_RemoveElement DEF EnoughMarks
  <2>5. Cardinality(DOMAIN watermark) <= Cardinality(Names \ {nameOf[o]})
        /\ IsFiniteSet(DOMAIN watermark)
    BY <2>3, <2>4, FS_Subset
  <2>6. Cardinality(DOMAIN watermark) \in Nat /\ Cardinality(Names) \in Nat
    BY <2>5, FS_CardinalityType DEF EnoughMarks
  <2>7. MaxWatermarks \in Nat
    BY TableAssumption
  <2> QED BY <2>4, <2>5, <2>6, <2>7 DEF EnoughMarks
<1> QED BY <1>1, <1>2, <1>3, IInvHolds, PTL DEF Spec

(***************************************************************************)
(* Theorems.                                                               *)
(***************************************************************************)

(* What replay relies on: the journal a name has is an unbroken run up to the
   last number issued, and what is retained has its number with it. *)
THEOREM JournalsStayUnbroken == Spec /\ []MarksFit => []JournalsUnbroken
<1>1. ASSUME IInv, RunsInv PROVE JournalsUnbroken
  <2>1. ASSUME NEW n \in Names, rooms[n] # None
        PROVE  UnbrokenUpTo(journal[rooms[n]], seq[rooms[n]])
    <3>1. Kept(n) = journal[rooms[n]] /\ Last(n) = seq[rooms[n]]
      BY <2>1 DEF Kept, Last
    <3>2. UnbrokenUpTo(Kept(n), Last(n))
      BY <1>1 DEF RunsInv, NameRuns
    <3> QED BY <3>1, <3>2
  <2>2. ASSUME NEW n \in DOMAIN retained
        PROVE  n \in DOMAIN watermark /\ UnbrokenUpTo(retained[n], watermark[n])
    <3>1. n \in Names /\ rooms[n] = None /\ n \in DOMAIN watermark
      BY <1>1 DEF IInv, TypeOK, IsPartial, ShelfInv, RunsInv, Marked
    <3>2. Kept(n) = retained[n] /\ Last(n) = watermark[n]
      BY <3>1 DEF Kept, Last
    <3>3. UnbrokenUpTo(Kept(n), Last(n))
      BY <1>1, <3>1 DEF RunsInv, NameRuns
    <3> QED BY <3>1, <3>2, <3>3
  <2> QED BY <2>1, <2>2 DEF JournalsUnbroken
<1> QED BY <1>1, IInvHolds, RunsHold, PTL

(* The numbers members get under a name keep rising across its rooms: clients
   keep the number as their cursor and throw away what is not newer. *)
THEOREM HeardNumbersKeepRising == Spec /\ []MarksFit => []HeardNumbersRise
<1>1. ASSUME RunsInv PROVE HeardNumbersRise
  BY <1>1 DEF RunsInv, NameRuns, Rising, HeardNumbersRise
<1> QED BY <1>1, RunsHold, PTL

(* replay never answers with a false success, whatever is published, retired,
   made again or cleared between its two locks. *)
THEOREM ReplaysAreHonest == Spec /\ []MarksFit => []ReplayHonest
<1>1. RunsInv => ReplayHonest
  BY DEF RunsInv
<1> QED BY <1>1, RunsHold, PTL

(* All three hold outright where there are no more names than watermarks. *)
THEOREM EnoughMarksSuffice ==
    ASSUME EnoughMarks
    PROVE  Spec => [](JournalsUnbroken /\ HeardNumbersRise /\ ReplayHonest)
  BY EnoughMarksFit, JournalsStayUnbroken, HeardNumbersKeepRising, ReplaysAreHonest, PTL

=============================================================================
