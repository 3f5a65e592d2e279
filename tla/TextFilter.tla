----------------------------- MODULE TextFilter -----------------------------
(***************************************************************************)
(* The word filter (service/TrieService.h, service/impl/TrieServiceImpl.cpp*)
(* and the character folding of SbcConvertService.cpp).  Characters are    *)
(* model values; Fold is charConvert (full width to half width, upper case *)
(* to lower).  isStopCharacter casts its argument to a byte and compares   *)
(* it with code points above 0x2000: it never holds, and a character is    *)
(* skipped only if it is one of the stop words loaded.                     *)
(***************************************************************************)
EXTENDS Integers, Sequences, FiniteSets, SequencesExt, FiniteSetsExt

CONSTANTS
    Chars, Fold,
    WordLists,          \* the word files considered: sets of words
    StopChars,          \* the stop word file
    Mask,               \* what a masked character becomes
    MaxText             \* bound: characters of a text

\* No character of a word is a stop character, whether as loaded or folded.
ASSUME FilterAssumption ==
    /\ Fold \in [Chars -> Chars] /\ \A c \in Chars : Fold[Fold[c]] = Fold[c]
    /\ StopChars \subseteq Chars /\ Mask \notin Chars
    /\ \A words \in WordLists : words \subseteq Seq(Chars)
    /\ \A words \in WordLists : \A w \in words : \A i \in DOMAIN w : Fold[w[i]] \notin StopChars
    /\ MaxText \in Nat

VARIABLES
    toLoad,         \* words of the file not yet loaded
    loadedWords,    \* history: those that are
    trie,           \* the paths from the root to each node
    wordEnds,       \* those with the end flag
    stopWords,      \* stop_words_
    checked         \* the last text and what came back

filterVars == <<toLoad, loadedWords, trie, wordEnds, stopWords, checked>>

NoText == [text |-> <<>>, masked |-> <<>>]

FilterInit ==
    /\ toLoad \in WordLists
    /\ loadedWords = {} /\ trie = {<<>>} /\ wordEnds = {} /\ stopWords = {}
    /\ checked = NoText

Folded(w) == [i \in DOMAIN w |-> Fold[w[i]]]

\* insert
LoadWord(w) ==
    /\ w \in toLoad
    /\ toLoad' = toLoad \ {w}
    /\ loadedWords' = loadedWords \cup {w}
    /\ trie' = trie \cup {SubSeq(Folded(w), 1, n) : n \in 0 .. Len(w)}
    /\ wordEnds' = wordEnds \cup {Folded(w)}
    /\ UNCHANGED <<stopWords, checked>>

\* loadStopWordFromFile: as they are, not folded.
LoadStopWords ==
    /\ toLoad = {} /\ stopWords # StopChars
    /\ stopWords' = StopChars
    /\ UNCHANGED <<toLoad, loadedWords, trie, wordEnds, checked>>

-----------------------------------------------------------------------------
(* Search *)

\* The loop of getSensitiveLength: where the shortest word ends that is reached from
\* a node when the text goes on at p, with stop words skipped on the way, or 0.
WordEnd(text) ==
    LET walk[p \in 1 .. Len(text) + 1] == [node \in trie |->
            IF p > Len(text) THEN 0
            ELSE LET next == Append(node, Fold[text[p]])
                 IN  IF next \in wordEnds THEN p
                     ELSE IF next \in trie THEN walk[p + 1][next]
                     ELSE IF Fold[text[p]] \in stopWords THEN walk[p + 1][node]
                     ELSE 0]
    IN  walk

\* getSensitiveLength: from start, stop words in front of the first character included,
\* to the end of the shortest word that begins there, or 0.
SensitiveLength(text, start) ==
    LET end == WordEnd(text)[start][<<>>]
    IN  IF end = 0 THEN 0 ELSE end - start + 1

SensitiveSkipsOne(text) ==              \* mutant: the loop's own ++i is forgotten
    LET from[i \in 1 .. Len(text) + 2] ==
            IF i > Len(text) THEN {}
            ELSE LET n == SensitiveLength(text, i)
                 IN  IF n > 0 THEN {<<i, n>>} \cup from[i + n + 1] ELSE from[i + 1]
    IN  from[1]

\* getSensitive: hits from left to right that do not overlap.
Sensitive(text) ==
    LET from[i \in 1 .. Len(text) + 1] ==
            IF i > Len(text) THEN {}
            ELSE LET n == SensitiveLength(text, i)
                 IN  IF n > 0 THEN {<<i, n>>} \cup from[i + n] ELSE from[i + 1]
    IN  from[1]

ReplaceSensitive(text) ==
    LET hits == Sensitive(text)
    IN  [i \in DOMAIN text |->
            IF \E h \in hits : i \in h[1] .. h[1] + h[2] - 1 THEN Mask ELSE text[i]]

Check(text) ==
    /\ toLoad = {} /\ stopWords = StopChars /\ checked = NoText
    /\ checked' = [text |-> text, masked |-> ReplaceSensitive(text)]
    /\ UNCHANGED <<toLoad, loadedWords, trie, wordEnds, stopWords>>

FilterNext ==
    \/ \E w \in toLoad : LoadWord(w)
    \/ LoadStopWords
    \/ \E text \in BoundedSeq(Chars, MaxText) : Check(text)

FilterSpec == FilterInit /\ [][FilterNext]_filterVars

-----------------------------------------------------------------------------
(* Properties *)

FilterTypeOK ==
    /\ wordEnds \subseteq trie /\ stopWords \subseteq Chars
    /\ Len(checked.text) = Len(checked.masked)

\* The characters of a word of the list stand in a stretch of text in their order,
\* and what is between, before and behind them are stop characters.  (An empty line
\* of the file is no word.)
Spells(stretch) ==
    /\ \A i \in DOMAIN stretch : stretch[i] # Mask
    /\ \E w \in loadedWords \ {<<>>} : \E at \in [DOMAIN w -> DOMAIN stretch] :
        /\ \A m, n \in DOMAIN w : m < n => at[m] < at[n]
        /\ \A n \in DOMAIN w : Fold[stretch[at[n]]] = Fold[w[n]]
        /\ \A i \in DOMAIN stretch : Fold[stretch[i]] \in StopChars \/ \E n \in DOMAIN w : at[n] = i

\* What comes back spells no word of the list any more, in spite of words that
\* overlap, contain each other or share beginnings, and every masked character
\* belonged to a stretch that spelled one.  (insert, getSensitiveLength,
\* getSensitive, replaceSensitive)
CensorExact ==
    LET text == checked.text
        masked == checked.masked
        Stretch(s, i, j) == Spells(SubSeq(s, i, j))
    IN  /\ \A i, j \in DOMAIN masked : i <= j => ~Stretch(masked, i, j)
        /\ \A k \in DOMAIN masked : masked[k] = Mask =>
            \E i, j \in DOMAIN text : i <= k /\ k <= j /\ Stretch(text, i, j)
=============================================================================
