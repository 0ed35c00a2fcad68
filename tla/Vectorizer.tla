------------------------------ MODULE Vectorizer ------------------------------
(***************************************************************************)
(* The encoder of annotations: the terms of an image's tags and comments,  *)
(* how often each is counted, and which of them make up its vector.  A     *)
(* text is the sequence of its characters, and a term the characters of    *)
(* its key.  A vector maps its terms to their frequencies: the weights,    *)
(* log1p of each, divided by the norm, follow from these.                  *)
(***************************************************************************)
EXTENDS Naturals, Sequences, SequencesExt

CONSTANTS
    Alphabet,  \* the characters, in the order of their bytes
    Letters,   \* letters and digits among them
    LowerCase, \* of each character
    Width,     \* the bytes of each character
    StopWords,
    TagWeight, \* 2 unless the environment says otherwise
    MaxKept,   \* terms of a vector: 128 in the source
    MaxBytes   \* of a word or phrase that counts: 128 in the source

Characters == ToSet(Alphabet)
Space == " "

\* UTF-8 takes up to four bytes for a character, and one for those of ASCII.
ASSUME AlphabetAssumption ==
    /\ Alphabet \in Seq(Characters)
    /\ {Space, ":", "t", "w"} \subseteq Characters
    /\ LowerCase \in [Characters -> Characters]
    /\ Width \in [Characters -> 1 .. 4] /\ Width[Space] = 1

ASSUME VectorAssumption == MaxKept \in Nat \ {0} /\ TagWeight \in Nat \ {0} /\ MaxBytes \in Nat

Rank(c) == CHOOSE i \in DOMAIN Alphabet : Alphabet[i] = c
Lowered(text) == [i \in DOMAIN text |-> LowerCase[text[i]]]
Bytes(text) == Cardinality({p \in (DOMAIN text) \X (1 .. 4) : p[2] <= Width[text[p[1]]]})

\* The elements of a set of numbers, the lowest first.
Ascending(S) ==
    CHOOSE s \in [1 .. Cardinality(S) -> S] : \A i, j \in DOMAIN s : i < j => s[i] < s[j]

\* words: the runs of letters of a text, in order.
WordsOf(text) ==
    LET low == Lowered(text)
        letter(i) == i \in DOMAIN low /\ low[i] \in Letters
        starts == {i \in DOMAIN low : letter(i) /\ ~ letter(i - 1)}
        word(i) == SubSeq(low, i, Min({j \in i .. Len(low) : ~ letter(j + 1)}))
    IN  [k \in DOMAIN Ascending(starts) |-> word(Ascending(starts)[k])]

Joined(words) ==
    FoldLeft(LAMBDA text, word : IF text = <<>> THEN word ELSE text \o <<Space>> \o word,
             <<>>, words)

Word(word) == <<"w", ":">> \o word
Phrase(phrase) == <<"t", ":">> \o phrase

\* The words and phrases that are counted.
Counts(word) == Len(word) >= 2 /\ Bytes(word) <= MaxBytes /\ word \notin StopWords
PhraseCounts(phrase) == phrase # <<>> /\ Bytes(phrase) <= MaxBytes

\* A map of Go gives 0 for a key that it does not have, and has it once it is added to.
Value(frequencies, term) == IF term \in DOMAIN frequencies THEN frequencies[term] ELSE 0
Add(frequencies, term, weight) ==
    [t \in DOMAIN frequencies \cup {term} |->
        Value(frequencies, t) + IF t = term THEN weight ELSE 0]

\* addWords, and what a tag adds.
AddWords(frequencies, text, weight) ==
    FoldLeft(LAMBDA f, word : IF Counts(word) THEN Add(f, Word(word), weight) ELSE f,
             frequencies, WordsOf(text))
AddTag(frequencies, tag) ==
    LET phrase == Joined(WordsOf(tag))
        added == AddWords(frequencies, tag, TagWeight)
    IN  IF PhraseCounts(phrase) THEN Add(added, Phrase(phrase), TagWeight) ELSE added

Frequencies(tags, comments) ==
    FoldLeft(LAMBDA f, comment : AddWords(f, comment, 1),
             FoldLeft(AddTag, [t \in {} |-> 0], tags), comments)

\* Go's order of strings.
Precedes(s, t) ==
    \E n \in 0 .. Len(s) :
        /\ n < Len(t) /\ SubSeq(s, 1, n) = SubSeq(t, 1, n)
        /\ n = Len(s) \/ Rank(s[n + 1]) < Rank(t[n + 1])

\* Bug: terms of the same frequency come in any order.
HeavierAlone(frequencies, s, t) == frequencies[s] > frequencies[t]

\* The order of sort.Slice; log1p keeps the order of frequencies.
Heavier(frequencies, s, t) ==
    \/ frequencies[s] > frequencies[t]
    \/ frequencies[s] = frequencies[t] /\ Precedes(s, t)

\* What sort.Slice can make of the terms, in whatever order the map yields them.
Sorts(frequencies) ==
    {terms \in SetToSeqs(DOMAIN frequencies) :
        \A i, j \in DOMAIN terms : i < j => ~ Heavier(frequencies, terms[j], terms[i])}

\* Vectorize, for one of them.
Vectorize(frequencies, sorted) ==
    [t \in ToSet(SubSeq(sorted, 1, Min({MaxKept, Len(sorted)}))) |-> frequencies[t]]

Vectors(frequencies) == {Vectorize(frequencies, sorted) : sorted \in Sorts(frequencies)}
===============================================================================
