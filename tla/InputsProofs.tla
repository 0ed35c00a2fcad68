----------------------------- MODULE InputsProofs -----------------------------
(***************************************************************************)
(* Proofs about roots, paths and URLs of any length, and about the vector  *)
(* of any tags and comments.                                               *)
(*                                                                         *)
(* What LIKE's pattern matches is found from its end to its beginning      *)
(* (LikeFrom).  A pattern without wildcards but the last one matches the   *)
(* texts that begin with what stands before it (BeginsLike, LikeBegins).   *)
(*                                                                         *)
(* A URL is escaped and read back one character at a time (EscapeOneMore,  *)
(* UnescapeOneMore).  What follows a complete escape does not change what  *)
(* was read before it, so that the whole text comes back                   *)
(* (UnescapeEscaped); what is cut off it begins where it was appended      *)
(* (BeforeQuery, BeforeSize).                                              *)
(*                                                                         *)
(* Terms are ordered strictly, all of them (HeavierOrders), because the    *)
(* order of texts decides between equal frequencies (PrecedesOrders), and  *)
(* the elements of a finite set have only one sequence that follows such   *)
(* an order (OneFollows).                                                  *)
(*                                                                         *)
(* The folds that count terms go from one value to the next (FoldSteps).   *)
(* A text adds the same bag to whatever it is added to (TextAdds), so that *)
(* a term has as many units as the comments have for it (SumsCount),       *)
(* which no order of theirs changes (UnitsReordered, CommentsReordered).   *)
(* The words of a tag are runs of letters with something between them      *)
(* (WordsAreRuns), so that the phrase of a tag has no more bytes than the  *)
(* tag in lower case (BytesConcat, PhraseFits).                            *)
(***************************************************************************)
EXTENDS Inputs, FiniteSetTheorems, SequenceTheorems, WellFoundedInduction, TLAPS

------------------------------------------------------------------------------
\* Induction and recursion over numbers.

\* A set of natural numbers has a least element.
LEMMA LeastNumber ==
    ASSUME NEW T, T \subseteq Nat, T # {}
    PROVE  \E n \in T : \A k \in T : n <= k
<1> DEFINE Below == {s \in Nat \X Nat : s[1] < s[2]}
<1>1. IsWellFoundedOn(Below, Nat)
  BY NatLessThanWellFounded DEF OpToRel
<1>2. PICK n \in T : \A k \in T : ~ (<<k, n>> \in Below)
  <2> HIDE DEF Below
  <2> QED
    BY <1>1, WFMin
<1>3. \A k \in T : ~ (k < n)
  BY <1>2
<1> QED
  BY <1>3

\* A set that has 0 and, with a number below m, the next one, has all up to m.
LEMMA Upwards ==
    ASSUME NEW m \in Nat, NEW T, 0 \in T, \A k \in 0 .. m - 1 : k \in T => k + 1 \in T
    PROVE  \A k \in 0 .. m : k \in T
<1> DEFINE U == {k \in 0 .. m : k \notin T}
<1>1. SUFFICES ASSUME U # {} PROVE FALSE
  OBVIOUS
<1>2. PICK k \in U : \A l \in U : k <= l
  <2>1. U \subseteq Nat
    OBVIOUS
  <2> HIDE DEF U
  <2> QED
    BY <1>1, <2>1, LeastNumber
<1>3. k \in 1 .. m /\ k - 1 \in 0 .. m - 1
  OBVIOUS
<1>4. k - 1 \notin T
  BY <1>3
<1>5. k - 1 \in U
  BY <1>3, <1>4
<1> QED
  BY <1>2, <1>3, <1>5

\* A set that has n and, with a number up to n, the one before, has all from m on.
LEMMA Downwards ==
    ASSUME NEW n \in Nat, NEW m \in Nat, NEW T, n \in T,
           \A k \in m .. n - 1 : k + 1 \in T => k \in T
    PROVE  \A k \in m .. n : k \in T
<1> DEFINE U == {k \in Nat : k <= n /\ n - k \in T}
           V == {k \in 0 .. n - m : n - k \in T}
<1>1. SUFFICES ASSUME m <= n PROVE \A k \in m .. n : k \in T
  OBVIOUS
<1>2. \A k \in 0 .. n - m : k \in V
  <2>1. n - m \in Nat /\ 0 \in V
    BY <1>1
  <2>2. ASSUME NEW k \in 0 .. (n - m) - 1, k \in V PROVE k + 1 \in V
    <3>1. n - (k + 1) \in m .. n - 1 /\ (n - (k + 1)) + 1 = n - k /\ k + 1 \in 0 .. n - m
      BY <1>1
    <3> QED
      BY <2>2, <3>1
  <2> HIDE DEF V
  <2> QED
    BY <2>1, <2>2, Upwards
<1>3. ASSUME NEW k \in m .. n PROVE k \in T
  <2>1. n - k \in 0 .. n - m /\ n - (n - k) = k
    BY <1>1
  <2> QED
    BY <1>2, <2>1
<1> QED
  BY <1>3

\* f is given for m + 1, and for each number from k to m by its value for the next one.
Backward(f, k, m, z, G) ==
    f = [i \in k .. m + 1 |-> IF i > m THEN z ELSE G[<<i, f[i + 1]>>]]

\* There is such a function.
LEMMA BackwardFunction ==
    ASSUME NEW m \in Nat, NEW S, NEW z \in S, NEW G \in [(1 .. m) \X S -> S]
    PROVE  \E f \in [1 .. m + 1 -> S] : Backward(f, 1, m, z, G)
<1> DEFINE T == {k \in 1 .. m + 1 : \E f \in [k .. m + 1 -> S] : Backward(f, k, m, z, G)}
<1>1. m + 1 \in T
  <2> DEFINE f == [i \in m + 1 .. m + 1 |-> z]
  <2>1. f \in [m + 1 .. m + 1 -> S] /\ Backward(f, m + 1, m, z, G)
    BY DEF Backward
  <2>2. m + 1 \in 1 .. m + 1
    OBVIOUS
  <2> HIDE DEF f
  <2> QED
    BY <2>1, <2>2
<1>2. ASSUME NEW k \in 1 .. (m + 1) - 1, k + 1 \in T PROVE k \in T
  <2>1. PICK f \in [k + 1 .. m + 1 -> S] : Backward(f, k + 1, m, z, G)
    BY <1>2
  <2> DEFINE g == [i \in k .. m + 1 |-> IF i = k THEN G[<<k, f[k + 1]>>] ELSE f[i]]
  <2>2. f[k + 1] \in S /\ <<k, f[k + 1]>> \in (1 .. m) \X S
    OBVIOUS
  <2>3. g \in [k .. m + 1 -> S]
    <3>1. G[<<k, f[k + 1]>>] \in S
      BY <2>2
    <3>2. \A i \in k .. m + 1 : i # k => i \in k + 1 .. m + 1
      OBVIOUS
    <3> QED
      BY <3>1, <3>2
  <2>4. ASSUME NEW i \in k .. m + 1
        PROVE  g[i] = IF i > m THEN z ELSE G[<<i, g[i + 1]>>]
    <3>1. CASE i = k
      BY <3>1
    <3>2. CASE i # k
      <4>1. i \in k + 1 .. m + 1 /\ (~ (i > m) => i + 1 \in k + 1 .. m + 1 /\ i + 1 # k /\ i + 1 \in k .. m + 1)
        BY <3>2
      <4>2. f[i] = IF i > m THEN z ELSE G[<<i, f[i + 1]>>]
        BY <2>1, <4>1 DEF Backward
      <4>3. g[i] = f[i] /\ (~ (i > m) => g[i + 1] = f[i + 1])
        BY <3>2, <4>1
      <4> HIDE DEF g
      <4> QED
        BY <4>2, <4>3
    <3> QED
      BY <3>1, <3>2
  <2>5. Backward(g, k, m, z, G)
    <3> HIDE DEF g
    <3> QED
      BY <2>3, <2>4 DEF Backward
  <2>6. k \in 1 .. m + 1
    OBVIOUS
  <2> HIDE DEF g
  <2> QED
    BY <2>3, <2>5, <2>6
<1>3. 1 \in T
  <2> HIDE DEF T
  <2>1. m + 1 \in Nat /\ 1 \in 1 .. m + 1
    OBVIOUS
  <2> QED
    BY <1>1, <1>2, <2>1, Downwards
<1> QED
  BY <1>3

------------------------------------------------------------------------------
\* LIKE.

\* The set of places from which the pattern from i on matches, given that for i + 1.
Places(text, pattern, i, next) ==
    IF pattern[i] = "%" THEN UNION {1 .. j : j \in next}
    ELSE {j \in 1 .. Len(text) : pattern[i] \in {"_", text[j]} /\ j + 1 \in next}

\* from[i] is this set for each i.
LikeBy(from, text, pattern) ==
    /\ Like(text, pattern) <=> 1 \in from[1]
    /\ from[Len(pattern) + 1] = {Len(text) + 1}
    /\ \A i \in 1 .. Len(pattern) : from[i] = Places(text, pattern, i, from[i + 1])

\* LIKE compares a text with a pattern from its end on.
LEMMA LikeFrom ==
    ASSUME NEW S, NEW text \in Seq(S), NEW pattern \in Seq(S)
    PROVE  \E from : LikeBy(from, text, pattern)
<1> DEFINE n == Len(text)
           m == Len(pattern)
           D == SUBSET (1 .. n + 1)
           G == [p \in (1 .. m) \X D |-> Places(text, pattern, p[1], p[2])]
           Recurs(f) ==
               f = [i \in 1 .. m + 1 |->
                       IF i > m THEN {n + 1}
                       ELSE IF pattern[i] = "%" THEN UNION {1 .. j : j \in f[i + 1]}
                       ELSE {j \in 1 .. n : pattern[i] \in {"_", text[j]} /\ j + 1 \in f[i + 1]}]
<1>1. n \in Nat /\ m \in Nat
  OBVIOUS
<1>2. G \in [(1 .. m) \X D -> D]
  <2>1. ASSUME NEW i \in 1 .. m, NEW next \in D PROVE Places(text, pattern, i, next) \in D
    <3>1. UNION {1 .. j : j \in next} \in D
      <4>1. ASSUME NEW j \in next, NEW k \in 1 .. j PROVE k \in 1 .. n + 1
        BY <1>1
      <4> QED
        BY <4>1
    <3>2. {j \in 1 .. n : pattern[i] \in {"_", text[j]} /\ j + 1 \in next} \in D
      <4>1. \A j \in 1 .. n : j \in 1 .. n + 1
        BY <1>1
      <4> HIDE DEF n
      <4> QED
        BY <4>1
    <3> QED
      BY <3>1, <3>2 DEF Places
  <2> QED
    BY <2>1
<1>3. {n + 1} \in D
  BY <1>1
<1>4. PICK f \in [1 .. m + 1 -> D] : Backward(f, 1, m, {n + 1}, G)
  <2> HIDE DEF G, D, n, m
  <2> QED
    BY <1>1, <1>2, <1>3, BackwardFunction
<1>5. Recurs(f)
  <2>1. \A i \in 1 .. m : <<i, f[i + 1]>> \in (1 .. m) \X D /\ i + 1 \in 1 .. m + 1
    BY <1>1
  <2>2. f = [i \in 1 .. m + 1 |-> IF i > m THEN {n + 1} ELSE G[<<i, f[i + 1]>>]]
    BY <1>4 DEF Backward
  <2>3. \A i \in 1 .. m : G[<<i, f[i + 1]>>] = Places(text, pattern, i, f[i + 1])
    BY <2>1
  <2>4. \A i \in 1 .. m + 1 : ~ (i > m) => i \in 1 .. m
    BY <1>1
  <2> HIDE DEF G, D, n, m
  <2> QED
    BY <2>2, <2>3, <2>4 DEF Places, n
<1> DEFINE from == CHOOSE g : Recurs(g)
<1>6. Recurs(from)
  BY <1>5
<1>7. Like(text, pattern) <=> 1 \in from[1]
  BY DEF Like
<1>8. /\ from[m + 1] = {n + 1}
      /\ \A i \in 1 .. m : from[i] = Places(text, pattern, i, from[i + 1])
  <2> HIDE DEF from, n, m
  <2>1. m + 1 \in 1 .. m + 1 /\ m + 1 > m
    BY <1>1
  <2>2. \A i \in 1 .. m : i \in 1 .. m + 1 /\ ~ (i > m)
    BY <1>1
  <2> QED
    BY <1>6, <2>1, <2>2 DEF Places, n
<1> HIDE DEF from
<1> QED
  BY <1>7, <1>8 DEF LikeBy

\* A text that begins with the root and "$" is LIKE the root with "$%" behind it.
LEMMA BeginsLike ==
    ASSUME NEW S, NEW root \in Seq(S), NEW path \in Seq(S), IsPrefix(root \o <<"$">>, path)
    PROVE  Like(path, root \o <<"$", "%">>)
<1> DEFINE pattern == root \o <<"$", "%">>
           U == S \cup {"$", "%"}
           r == Len(root)
           n == Len(path)
<1>1. r \in Nat /\ n \in Nat /\ pattern \in Seq(U) /\ path \in Seq(U)
  OBVIOUS
<1>2. /\ Len(pattern) = r + 2 /\ pattern[r + 1] = "$" /\ pattern[r + 2] = "%"
      /\ \A i \in 1 .. r : pattern[i] = root[i]
  OBVIOUS
<1>3. r + 1 <= n /\ path[r + 1] = "$" /\ \A i \in 1 .. r : path[i] = root[i]
  <2>1. Len(root \o <<"$">>) = r + 1 /\ r + 1 <= n
    BY DEF IsPrefix
  <2>2. \A i \in 1 .. r + 1 : (root \o <<"$">>)[i] = path[i]
    <3>1. SubSeq(root \o <<"$">>, 1, r + 1) = SubSeq(path, 1, r + 1)
      BY <2>1 DEF IsPrefix
    <3>2. \A i \in 1 .. r + 1 : /\ SubSeq(root \o <<"$">>, 1, r + 1)[i] = (root \o <<"$">>)[i]
                                /\ SubSeq(path, 1, r + 1)[i] = path[i]
      BY <2>1
    <3> QED
      BY <3>1, <3>2
  <2> QED
    BY <2>1, <2>2
<1> HIDE DEF pattern, U, r, n
<1>4. PICK from :
        /\ Like(path, pattern) <=> 1 \in from[1]
        /\ from[r + 3] = {n + 1}
        /\ \A i \in 1 .. r + 2 : from[i] = Places(path, pattern, i, from[i + 1])
  <2>1. PICK from : LikeBy(from, path, pattern)
    BY <1>1, LikeFrom
  <2>2. (r + 2) + 1 = r + 3
    BY <1>1
  <2> QED
    BY <2>1, <2>2, <1>2 DEF n, LikeBy
<1>5. r + 2 \in from[r + 2]
  <2>1. r + 2 \in 1 .. n + 1 /\ r + 2 \in 1 .. r + 2 /\ (r + 2) + 1 = r + 3
    BY <1>1, <1>3
  <2>2. from[r + 2] = UNION {1 .. j : j \in {n + 1}}
    BY <2>1, <1>2, <1>4 DEF Places
  <2> QED
    BY <2>1, <2>2
<1>6. r + 1 \in from[r + 1]
  <2>1. r + 1 \in 1 .. r + 2 /\ (r + 1) + 1 = r + 2 /\ r + 1 \in 1 .. n
    BY <1>1, <1>3
  <2>2. from[r + 1] = Places(path, pattern, r + 1, from[r + 2])
    BY <2>1, <1>4
  <2>3. from[r + 1] = {j \in 1 .. n : "$" \in {"_", path[j]} /\ j + 1 \in from[r + 2]}
    BY <2>2, <1>2 DEF Places, n
  <2> QED
    BY <2>1, <2>3, <1>3, <1>5
<1> DEFINE T == {k \in Nat : k \in from[k]}
<1>7. ASSUME NEW k \in 1 .. (r + 1) - 1, k + 1 \in T PROVE k \in T
  <2>1. k \in 1 .. r /\ k \in 1 .. r + 2 /\ k \in 1 .. n /\ k \in Nat
    BY <1>1, <1>3
  <2>2. from[k] = Places(path, pattern, k, from[k + 1]) /\ k + 1 \in from[k + 1]
    BY <2>1, <1>4, <1>7
  <2>3. pattern[k] = path[k]
    BY <2>1, <1>2, <1>3
  <2>4. CASE pattern[k] = "%"
    <3>1. k \in 1 .. k + 1
      BY <2>1
    <3> QED
      BY <2>1, <2>2, <2>4, <3>1 DEF Places
  <2>5. CASE pattern[k] # "%"
    BY <2>1, <2>2, <2>3, <2>5 DEF Places, n
  <2> QED
    BY <2>4, <2>5
<1>8. 1 \in T
  <2>1. r + 1 \in Nat /\ r + 1 \in T /\ 1 \in 1 .. r + 1
    BY <1>1, <1>6
  <2> HIDE DEF T
  <2> QED
    BY <2>1, <1>7, Downwards
<1> QED
  BY <1>4, <1>8 DEF pattern

\* Without wildcards in the root these are all that are LIKE it.
LEMMA LikeBegins ==
    ASSUME NEW S, NEW root \in Seq(S), NEW path \in Seq(S), Plain(root),
           Like(path, root \o <<"$", "%">>)
    PROVE  IsPrefix(root \o <<"$">>, path)
<1> DEFINE pattern == root \o <<"$", "%">>
           U == S \cup {"$", "%"}
           r == Len(root)
           n == Len(path)
<1>1. r \in Nat /\ n \in Nat /\ pattern \in Seq(U) /\ path \in Seq(U)
  OBVIOUS
<1>2. /\ Len(pattern) = r + 2 /\ pattern[r + 1] = "$" /\ pattern[r + 2] = "%"
      /\ \A i \in 1 .. r : pattern[i] = root[i]
  OBVIOUS
<1>3. \A i \in 1 .. r + 1 : pattern[i] \notin {"%", "_"}
  <2>1. \A i \in 1 .. r : root[i] \notin {"%", "_"}
    <3>1. DOMAIN root = 1 .. r
      OBVIOUS
    <3> HIDE DEF r
    <3> QED
      BY <3>1 DEF Plain
  <2>2. \A i \in 1 .. r + 1 : i \in 1 .. r \/ i = r + 1
    BY <1>1
  <2> HIDE DEF pattern, r
  <2> QED
    BY <2>1, <2>2, <1>2
<1>4. Like(path, pattern)
  OBVIOUS
<1>5. \A i \in 1 .. r + 1 : (root \o <<"$">>)[i] = pattern[i]
  OBVIOUS
<1> HIDE DEF pattern, U, r, n
<1>6. PICK from :
        /\ 1 \in from[1]
        /\ \A i \in 1 .. r + 2 : from[i] = Places(path, pattern, i, from[i + 1])
  <2>1. PICK from : LikeBy(from, path, pattern)
    BY <1>1, LikeFrom
  <2> QED
    BY <2>1, <1>2, <1>4 DEF LikeBy
<1> DEFINE T == {k \in Nat : k + 1 \in from[k + 1]}
<1>7. ASSUME NEW k \in 1 .. r + 1, k \in from[k]
      PROVE  k \in 1 .. n /\ path[k] = pattern[k] /\ k + 1 \in from[k + 1]
  <2>1. k \in 1 .. r + 2
    BY <1>1
  <2>2. k \in Places(path, pattern, k, from[k + 1])
    BY <2>1, <1>6, <1>7
  <2> QED
    BY <2>2, <1>3 DEF Places, n
<1>8. \A k \in 0 .. r + 1 : k \in T
  <2>1. 0 \in T
    BY <1>6
  <2>2. ASSUME NEW k \in 0 .. (r + 1) - 1, k \in T PROVE k + 1 \in T
    <3>1. k + 1 \in 1 .. r + 1 /\ k + 1 \in from[k + 1] /\ k + 1 \in Nat
      BY <2>2, <1>1
    <3> QED
      BY <3>1, <1>7
  <2>3. r + 1 \in Nat
    BY <1>1
  <2> HIDE DEF T
  <2> QED
    BY <2>1, <2>2, <2>3, Upwards
<1>9. ASSUME NEW k \in 1 .. r + 1 PROVE k \in 1 .. n /\ path[k] = pattern[k]
  <2>1. k - 1 \in 0 .. r + 1 /\ (k - 1) + 1 = k
    BY <1>1
  <2>2. k \in from[k]
    BY <2>1, <1>8
  <2> QED
    BY <2>2, <1>7
<1>10. r + 1 <= n
  <2>1. r + 1 \in 1 .. r + 1
    BY <1>1
  <2> QED
    BY <2>1, <1>1, <1>9
<1>11. Len(root \o <<"$">>) = r + 1
  BY DEF r
<1>12. SubSeq(root \o <<"$">>, 1, r + 1) = SubSeq(path, 1, r + 1)
  <2>1. SubSeq(root \o <<"$">>, 1, r + 1) = [i \in 1 .. r + 1 |-> (root \o <<"$">>)[i]]
    BY <1>1, <1>11
  <2>2. SubSeq(path, 1, r + 1) = [i \in 1 .. r + 1 |-> path[i]]
    BY <1>1, <1>10 DEF n
  <2>3. \A i \in 1 .. r + 1 : (root \o <<"$">>)[i] = path[i]
    BY <1>5, <1>9
  <2> QED
    BY <2>1, <2>2, <2>3
<1> QED
  BY <1>10, <1>11, <1>12 DEF IsPrefix, n

\* The DELETE of a job selects every path of its root, and no other if the root has no
\* wildcards, however long and of whatever characters they are (staleDeleteQuery).
THEOREM Scopes ==
    ASSUME NEW S, input \in [root : Seq(S), path : Seq(S)]
    PROVE  ScopesHold
<1>1. input.root \in Seq(S) /\ input.path \in Seq(S)
  OBVIOUS
<1> DEFINE root == input.root
           path == input.path
<1>2. Inside(root, path) => Selected(root, path)
  <2> HIDE DEF root, path
  <2> QED
    BY <1>1, BeginsLike DEF Inside, Selected, root, path
<1>3. Plain(root) /\ Selected(root, path) => Inside(root, path)
  BY <1>1, LikeBegins DEF Inside, Selected
<1> QED
  BY <1>2, <1>3 DEF ScopesHold

------------------------------------------------------------------------------
\* Sequences of sequences.

\* A function on 1 .. n is a sequence.
LEMMA FunctionSeq ==
    ASSUME NEW n \in Nat, NEW S, NEW e \in [1 .. n -> S]
    PROVE  e \in Seq(S) /\ Len(e) = n
<1>1. e \in Seq(S)
  BY SeqDef
<1> QED
  BY <1>1, LenProperties

\* f[i] is the first i sequences of e, joined.
Joins(e, f, n) ==
    f = [i \in 1 .. n |-> IF i = 1 THEN e[i] ELSE f[i - 1] \o e[i]]

\* They can be joined, in one way.
LEMMA JoinsExist ==
    ASSUME NEW n \in Nat, NEW S, NEW e \in [1 .. n -> Seq(S)]
    PROVE  \E f \in [1 .. n -> Seq(S)] : Joins(e, f, n)
<1> DEFINE T == {k \in 0 .. n : \E f \in [1 .. k -> Seq(S)] : Joins(e, f, k)}
<1>1. 0 \in T
  <2> DEFINE f == [i \in 1 .. 0 |-> <<>>]
  <2>1. f \in [1 .. 0 -> Seq(S)] /\ Joins(e, f, 0)
    BY DEF Joins
  <2>2. 0 \in 0 .. n
    OBVIOUS
  <2> HIDE DEF f
  <2> QED
    BY <2>1, <2>2
<1>2. ASSUME NEW k \in 0 .. n - 1, k \in T PROVE k + 1 \in T
  <2>1. PICK f \in [1 .. k -> Seq(S)] : Joins(e, f, k)
    BY <1>2
  <2> DEFINE last == IF k = 0 THEN e[1] ELSE f[k] \o e[k + 1]
             g == [i \in 1 .. k + 1 |-> IF i = k + 1 THEN last ELSE f[i]]
  <2>2. last \in Seq(S)
    <3>1. e[1] \in Seq(S) /\ e[k + 1] \in Seq(S) /\ (k # 0 => f[k] \in Seq(S))
      OBVIOUS
    <3> QED
      BY <3>1, ConcatProperties
  <2> HIDE DEF last
  <2>3. g \in [1 .. k + 1 -> Seq(S)]
    BY <2>2
  <2>4. ASSUME NEW i \in 1 .. k + 1
        PROVE  g[i] = IF i = 1 THEN e[i] ELSE g[i - 1] \o e[i]
    <3>1. CASE i = k + 1
      <4>1. g[i] = last /\ (k # 0 => g[i - 1] = f[k])
        BY <3>1
      <4> HIDE DEF g
      <4> QED
        BY <4>1, <3>1 DEF last
    <3>2. CASE i # k + 1
      <4>1. i \in 1 .. k /\ g[i] = f[i] /\ (i # 1 => g[i - 1] = f[i - 1])
        BY <3>2
      <4>2. f[i] = IF i = 1 THEN e[i] ELSE f[i - 1] \o e[i]
        BY <2>1, <4>1 DEF Joins
      <4> HIDE DEF g
      <4> QED
        BY <4>1, <4>2
    <3> QED
      BY <3>1, <3>2
  <2>5. Joins(e, g, k + 1)
    <3> HIDE DEF g
    <3> QED
      BY <2>3, <2>4 DEF Joins
  <2>6. k + 1 \in 0 .. n
    OBVIOUS
  <2> HIDE DEF g
  <2> QED
    BY <2>3, <2>5, <2>6
<1>3. n \in T
  <2>1. n \in 0 .. n
    OBVIOUS
  <2> HIDE DEF T
  <2>2. \A k \in 0 .. n : k \in T
    BY <1>1, <1>2, Upwards
  <2> QED
    BY <2>1, <2>2
<1> QED
  BY <1>3

\* Up to k, the values of such a function do not depend on what follows.
JoinsUpTo(e, f, k) ==
    \A i \in 1 .. k : f[i] = IF i = 1 THEN e[i] ELSE f[i - 1] \o e[i]

\* They are determined by what is joined.
LEMMA JoinsAgree ==
    ASSUME NEW k \in Nat, NEW e, NEW f, NEW g, JoinsUpTo(e, f, k), JoinsUpTo(e, g, k)
    PROVE  \A i \in 1 .. k : f[i] = g[i]
<1> DEFINE T == {i \in Nat : i = 0 \/ f[i] = g[i]}
<1>1. 0 \in T
  OBVIOUS
<1>2. ASSUME NEW i \in 0 .. k - 1, i \in T PROVE i + 1 \in T
  <2>1. i + 1 \in 1 .. k /\ (i + 1) - 1 = i
    OBVIOUS
  <2>2. /\ f[i + 1] = IF i + 1 = 1 THEN e[i + 1] ELSE f[i] \o e[i + 1]
        /\ g[i + 1] = IF i + 1 = 1 THEN e[i + 1] ELSE g[i] \o e[i + 1]
    BY <2>1 DEF JoinsUpTo
  <2> QED
    BY <1>2, <2>1, <2>2
<1>3. \A i \in 0 .. k : i \in T
  <2> HIDE DEF T
  <2> QED
    BY <1>1, <1>2, Upwards
<1> QED
  BY <1>3

\* One sequence more is joined to the others.
LEMMA FlattenOneMore ==
    ASSUME NEW S, NEW e \in Seq(Seq(S)), NEW x \in Seq(S)
    PROVE  /\ FlattenSeq(<<>>) = <<>> /\ FlattenSeq(e) \in Seq(S)
           /\ FlattenSeq(e \o <<x>>) = FlattenSeq(e) \o x
<1> DEFINE n == Len(e)
           d == e \o <<x>>
           Join(s) == CHOOSE f : Joins(s, f, Len(s))
<1>1. /\ n \in Nat /\ e \in [1 .. n -> Seq(S)] /\ d \in Seq(Seq(S)) /\ Len(d) = n + 1
      /\ d \in [1 .. n + 1 -> Seq(S)] /\ d[n + 1] = x /\ \A i \in 1 .. n : d[i] = e[i]
  <2>1. n \in Nat /\ e \in [1 .. n -> Seq(S)]
    BY LenProperties
  <2>2. <<x>> \in Seq(Seq(S)) /\ Len(<<x>>) = 1 /\ <<x>>[1] = x
    OBVIOUS
  <2>3. /\ d \in Seq(Seq(S)) /\ Len(d) = n + 1
        /\ \A i \in 1 .. n + 1 : d[i] = IF i <= n THEN e[i] ELSE <<x>>[i - n]
    BY <2>2, ConcatProperties
  <2>4. d \in [1 .. n + 1 -> Seq(S)]
    BY <2>3, LenProperties
  <2> HIDE DEF n, d
  <2>5. n + 1 \in 1 .. n + 1 /\ ~ (n + 1 <= n) /\ (n + 1) - n = 1
    BY <2>1
  <2>6. \A i \in 1 .. n : i \in 1 .. n + 1 /\ i <= n
    BY <2>1
  <2> QED
    BY <2>1, <2>2, <2>3, <2>4, <2>5, <2>6
<1>2. FlattenSeq(<<>>) = <<>>
  BY DEF FlattenSeq
<1>3. ASSUME NEW s PROVE Len(s) # 0 => FlattenSeq(s) = Join(s)[Len(s)]
  BY DEF FlattenSeq, Joins
<1> HIDE DEF n, d
<1>4. PICK f \in [1 .. n -> Seq(S)] : Joins(e, f, n)
  BY <1>1, JoinsExist
<1>5. PICK g \in [1 .. n + 1 -> Seq(S)] : Joins(d, g, n + 1)
  <2>1. n + 1 \in Nat
    BY <1>1
  <2> QED
    BY <2>1, <1>1, JoinsExist
<1>6. PICK a : Joins(e, a, n) /\ (n # 0 => FlattenSeq(e) = a[n])
  <2>1. Joins(e, Join(e), n)
    BY <1>4 DEF n
  <2> HIDE DEF Join
  <2> QED
    BY <2>1, <1>3 DEF n
<1>7. PICK b : Joins(d, b, n + 1) /\ FlattenSeq(d) = b[n + 1]
  <2>1. Joins(d, Join(d), n + 1) /\ Len(d) # 0
    BY <1>1, <1>5
  <2> HIDE DEF Join
  <2> QED
    BY <2>1, <1>1, <1>3
<1> HIDE DEF Join
<1>8. \A i \in 1 .. n : a[i] = f[i] /\ b[i] = f[i]
  <2>1. n \in Nat
    BY <1>1
  <2>2. JoinsUpTo(e, f, n) /\ JoinsUpTo(e, a, n)
    BY <1>4, <1>6 DEF Joins, JoinsUpTo
  <2>3. JoinsUpTo(e, b, n)
    <3>1. \A i \in 1 .. n : i \in 1 .. n + 1 /\ d[i] = e[i]
      BY <1>1
    <3> QED
      BY <3>1, <1>7 DEF Joins, JoinsUpTo
  <2>4. \A i \in 1 .. n : f[i] = a[i]
    BY <2>1, <2>2, JoinsAgree, Z3
  <2>5. \A i \in 1 .. n : f[i] = b[i]
    BY <2>1, <2>2, <2>3, JoinsAgree
  <2> QED
    BY <2>4, <2>5
<1>9. FlattenSeq(d) = IF n = 0 THEN x ELSE f[n] \o x
  <2>1. n + 1 \in 1 .. n + 1 /\ (n + 1) - 1 = n /\ (n + 1 = 1 <=> n = 0)
    BY <1>1
  <2>2. b[n + 1] = IF n + 1 = 1 THEN d[n + 1] ELSE b[n] \o d[n + 1]
    BY <2>1, <1>7 DEF Joins
  <2>3. n # 0 => n \in 1 .. n
    BY <1>1
  <2> QED
    BY <2>1, <2>2, <2>3, <1>1, <1>7, <1>8
<1>10. CASE n = 0
  <2>1. e = <<>>
    BY <1>10 DEF n
  <2>2. <<>> \o x = x /\ <<>> \in Seq(S)
    OBVIOUS
  <2>3. FlattenSeq(e) = <<>> /\ FlattenSeq(d) = x
    BY <2>1, <1>2, <1>9, <1>10
  <2> QED
    BY <2>2, <2>3, <1>2 DEF d
<1>11. CASE n # 0
  <2>1. n \in 1 .. n /\ f[n] \in Seq(S)
    BY <1>1, <1>11
  <2>2. FlattenSeq(e) = f[n]
    BY <2>1, <1>6, <1>8, <1>11
  <2> QED
    BY <2>1, <2>2, <1>2, <1>9, <1>11 DEF d
<1> QED
  BY <1>10, <1>11

------------------------------------------------------------------------------
\* Escapes.

\* Escapes are a "%" and two digits, and each stands for one character.
LEMMA Escapes ==
    /\ DOMAIN Escape = {"%", "?", " "}
    /\ \A c \in DOMAIN Escape :
          /\ \E x, y \in {"2", "5", "3", "F", "0"} : Escape[c] = <<"%", x, y>>
          /\ Meaning(Escape[c]) = c
<1>1. DOMAIN Escape = {"%", "?", " "}
  BY DEF Escape
<1>2. /\ Escape["%"] = <<"%", "2", "5">> /\ Escape["?"] = <<"%", "3", "F">>
      /\ Escape[" "] = <<"%", "2", "0">>
  BY DEF Escape
<1>3. /\ <<"%", "2", "5">> # <<"%", "3", "F">> /\ <<"%", "2", "5">> # <<"%", "2", "0">>
      /\ <<"%", "3", "F">> # <<"%", "2", "0">>
  OBVIOUS
<1>4. ASSUME NEW c \in DOMAIN Escape, NEW d \in DOMAIN Escape, Escape[c] = Escape[d] PROVE c = d
  <2>1. (c = "%" \/ c = "?" \/ c = " ") /\ (d = "%" \/ d = "?" \/ d = " ")
    BY <1>1
  <2>2. CASE c = "%"
    BY <2>1, <2>2, <1>2, <1>3, <1>4, Zenon
  <2>3. CASE c = "?"
    BY <2>1, <2>3, <1>2, <1>3, <1>4, Zenon
  <2>4. CASE c = " "
    BY <2>1, <2>4, <1>2, <1>3, <1>4, Zenon
  <2> QED
    BY <2>1, <2>2, <2>3, <2>4
<1>5. \A c \in DOMAIN Escape : Meaning(Escape[c]) = c
  <2> HIDE DEF Escape
  <2> QED
    BY <1>4 DEF Meaning
<1>6. \A c \in DOMAIN Escape : \E x, y \in {"2", "5", "3", "F", "0"} : Escape[c] = <<"%", x, y>>
  <2>1. \A c \in DOMAIN Escape : c = "%" \/ c = "?" \/ c = " "
    BY <1>1
  <2> QED
    BY <2>1, <1>2
<1> QED
  BY <1>1, <1>5, <1>6

\* One character more is escaped and follows what the others gave.
LEMMA EscapeOneMore ==
    ASSUME NEW S, {"%", "2", "5", "3", "F", "0"} \subseteq S, NEW s \in Seq(S), NEW c \in S
    PROVE  /\ PathEscape(<<>>) = <<>> /\ PathEscape(s) \in Seq(S) /\ Escaped(c) \in Seq(S)
           /\ PathEscape(s \o <<c>>) = PathEscape(s) \o Escaped(c)
<1> DEFINE n == Len(s)
           t == s \o <<c>>
           e == [i \in 1 .. n |-> Escaped(s[i])]
           d == [i \in 1 .. n + 1 |-> Escaped(t[i])]
<1>1. /\ n \in Nat /\ DOMAIN s = 1 .. n /\ DOMAIN t = 1 .. n + 1 /\ t[n + 1] = c
      /\ \A i \in 1 .. n : t[i] = s[i] /\ s[i] \in S
  OBVIOUS
<1>2. \A x \in S : Escaped(x) \in Seq(S)
  <2>1. ASSUME NEW x \in DOMAIN Escape PROVE Escape[x] \in Seq(S)
    <3>1. PICK y, z \in {"2", "5", "3", "F", "0"} : Escape[x] = <<"%", y, z>>
      BY <2>1, Escapes
    <3>2. "%" \in S /\ y \in S /\ z \in S
      OBVIOUS
    <3> QED
      BY <3>1, <3>2
  <2>2. \A x \in S : <<x>> \in Seq(S)
    OBVIOUS
  <2> QED
    BY <2>1, <2>2 DEF Escaped
<1> HIDE DEF n, t
<1>3. /\ e \in Seq(Seq(S)) /\ Len(e) = n /\ d \in Seq(Seq(S)) /\ Len(d) = n + 1
      /\ <<Escaped(c)>> \in Seq(Seq(S)) /\ Len(<<Escaped(c)>>) = 1
  <2>1. e \in [1 .. n -> Seq(S)]
    BY <1>1, <1>2
  <2>2. \A i \in 1 .. n + 1 : t[i] \in S
    <3>1. \A i \in 1 .. n + 1 : i \in 1 .. n \/ i = n + 1
      BY <1>1
    <3> QED
      BY <1>1, <3>1
  <2>3. d \in [1 .. n + 1 -> Seq(S)]
    BY <1>2, <2>2
  <2>4. n + 1 \in Nat
    BY <1>1
  <2>5. Escaped(c) \in Seq(S)
    BY <1>2
  <2> HIDE DEF e, d
  <2> QED
    BY <1>1, <2>1, <2>3, <2>4, <2>5, FunctionSeq
<1>4. d = e \o <<Escaped(c)>>
  <2>1. /\ e \o <<Escaped(c)>> \in Seq(Seq(S)) /\ Len(e \o <<Escaped(c)>>) = n + 1
        /\ \A i \in 1 .. n + 1 :
              (e \o <<Escaped(c)>>)[i] = IF i <= n THEN e[i] ELSE <<Escaped(c)>>[i - n]
    <3> HIDE DEF e
    <3> QED
      BY <1>3, ConcatProperties
  <2>2. ASSUME NEW i \in 1 .. n + 1 PROVE d[i] = (e \o <<Escaped(c)>>)[i]
    <3>1. CASE i <= n
      <4>1. i \in 1 .. n
        BY <3>1, <1>1
      <4> QED
        BY <4>1, <3>1, <2>1, <1>1
    <3>2. CASE ~ (i <= n)
      <4>1. i = n + 1 /\ i - n = 1
        BY <3>2, <1>1
      <4> QED
        BY <4>1, <3>2, <2>1, <1>1
    <3> QED
      BY <3>1, <3>2
  <2> HIDE DEF d, e
  <2> QED
    BY <1>3, <2>1, <2>2, SeqEqual
<1>5. PathEscape(s) = FlattenSeq(e) /\ PathEscape(t) = FlattenSeq(d)
  BY <1>1 DEF PathEscape
<1>6. PathEscape(<<>>) = <<>>
  <2>1. [i \in DOMAIN <<>> |-> Escaped(<<>>[i])] = <<>>
    OBVIOUS
  <2>2. <<>> \in Seq(Seq(S)) /\ <<>> \in Seq(S)
    OBVIOUS
  <2> QED
    BY <2>1, <2>2, FlattenOneMore DEF PathEscape
<1> HIDE DEF d, e
<1> QED
  BY <1>2, <1>3, <1>4, <1>5, <1>6, FlattenOneMore DEF t

\* One character more adds what it gives, and changes nothing of what the others gave.
LEMMA UnescapeOneMore ==
    ASSUME NEW S, NEW s \in Seq(S), NEW c \in S
    PROVE  /\ PathUnescape(<<>>) = <<>>
           /\ PathUnescape(s \o <<c>>) = PathUnescape(s) \o Unescaped(s \o <<c>>, Len(s) + 1)
<1> DEFINE n == Len(s)
           t == s \o <<c>>
           V == S \cup {Meaning(SubSeq(t, i - 2, i)) : i \in 1 .. n + 1}
           e == [i \in 1 .. n |-> Unescaped(s, i)]
           d == [i \in 1 .. n + 1 |-> Unescaped(t, i)]
           x == Unescaped(t, n + 1)
<1>1. /\ n \in Nat /\ DOMAIN s = 1 .. n /\ DOMAIN t = 1 .. n + 1 /\ t[n + 1] = c
      /\ \A i \in 1 .. n : t[i] = s[i] /\ s[i] \in S
      /\ n + 1 \in 1 .. n + 1 /\ \A i \in 1 .. n + 1 : i \in 1 .. n \/ i = n + 1
  OBVIOUS
<1>2. \A i \in 1 .. n + 1 : Unescaped(t, i) \in Seq(V)
  <2> SUFFICES ASSUME NEW i \in 1 .. n + 1 PROVE Unescaped(t, i) \in Seq(V)
    OBVIOUS
  <2>1. t[i] \in V
    BY <1>1
  <2>2. Meaning(SubSeq(t, i - 2, i)) \in V
    OBVIOUS
  <2> HIDE DEF V
  <2> QED
    BY <2>1, <2>2 DEF Unescaped
<1> HIDE DEF V
<1>3. \A i \in 1 .. n : Unescaped(t, i) = Unescaped(s, i)
  <2> SUFFICES ASSUME NEW i \in 1 .. n PROVE Unescaped(t, i) = Unescaped(s, i)
    OBVIOUS
  <2>1. \A j \in {i, i - 1, i - 2} : Begins(t, j) <=> Begins(s, j)
    <3>1. \A j \in {i, i - 1, i - 2} : j \in 1 .. n <=> j \in 1 .. n + 1
      BY <1>1
    <3> HIDE DEF n, t
    <3> QED
      BY <3>1, <1>1 DEF Begins
  <2>2. Begins(s, i - 2) => SubSeq(t, i - 2, i) = SubSeq(s, i - 2, i)
    <3>1. SUFFICES ASSUME i - 2 \in 1 .. n PROVE SubSeq(t, i - 2, i) = SubSeq(s, i - 2, i)
      BY <1>1 DEF Begins
    <3>2. <<c>> \in Seq(S)
      OBVIOUS
    <3> QED
      BY <3>1, <3>2, SubSeqOfConcat1
  <2> HIDE DEF n, t
  <2> QED
    BY <2>1, <2>2, <1>1 DEF Unescaped
<1>4. PathUnescape(s) = FlattenSeq(e) /\ PathUnescape(t) = FlattenSeq(d)
  BY <1>1 DEF PathUnescape
<1>5. PathUnescape(<<>>) = <<>>
  <2>1. [i \in DOMAIN <<>> |-> Unescaped(<<>>, i)] = <<>>
    OBVIOUS
  <2>2. <<>> \in Seq(Seq(S)) /\ <<>> \in Seq(S)
    OBVIOUS
  <2> QED
    BY <2>1, <2>2, FlattenOneMore DEF PathUnescape
<1>6. e \in [1 .. n -> Seq(V)] /\ d \in [1 .. n + 1 -> Seq(V)] /\ x \in Seq(V) /\ n + 1 \in Nat
  BY <1>1, <1>2, <1>3
<1>7. /\ d[n + 1] = x /\ \A i \in 1 .. n : d[i] = e[i]
  BY <1>1, <1>3
<1>8. /\ e \in Seq(Seq(V)) /\ Len(e) = n /\ d \in Seq(Seq(V)) /\ Len(d) = n + 1
      /\ <<x>> \in Seq(Seq(V)) /\ Len(<<x>>) = 1 /\ <<x>>[1] = x
  <2> HIDE DEF e, d, n, x
  <2> QED
    BY <1>1, <1>6, FunctionSeq
<1> HIDE DEF e, d, x
<1>9. d = e \o <<x>>
  <2>1. /\ e \o <<x>> \in Seq(Seq(V)) /\ Len(e \o <<x>>) = n + 1
        /\ \A i \in 1 .. n + 1 : (e \o <<x>>)[i] = IF i <= n THEN e[i] ELSE <<x>>[i - n]
    <3> HIDE DEF n
    <3> QED
      BY <1>8, ConcatProperties
  <2> HIDE DEF n
  <2>2. ASSUME NEW i \in 1 .. n + 1 PROVE d[i] = (e \o <<x>>)[i]
    <3>1. CASE i \in 1 .. n
      BY <3>1, <2>1, <1>1, <1>7
    <3>2. CASE i = n + 1
      <4>1. i - n = 1 /\ ~ (i <= n)
        BY <3>2, <1>1
      <4> QED
        BY <4>1, <3>2, <2>1, <1>7, <1>8
    <3> QED
      BY <3>1, <3>2, <1>1
  <2> QED
    BY <1>8, <2>1, <2>2, SeqEqual
<1> QED
  BY <1>4, <1>5, <1>6, <1>8, <1>9, FlattenOneMore DEF x

\* A sequence of two elements.
LEMMA Pairs ==
    ASSUME NEW S, NEW x \in S, NEW y \in S
    PROVE  <<x>> \o <<y>> = <<x, y>>
<1> DEFINE s == <<x>> \o <<y>>
           t == <<x, y>>
<1>1. s \in Seq(S) /\ Len(s) = 2 /\ s[1] = x /\ s[2] = y
  OBVIOUS
<1>2. t \in Seq(S) /\ Len(t) = 2 /\ t[1] = x /\ t[2] = y
  OBVIOUS
<1> HIDE DEF s, t
<1>3. \A i \in 1 .. Len(s) : s[i] = t[i]
  <2>1. \A i \in 1 .. 2 : i = 1 \/ i = 2
    OBVIOUS
  <2> QED
    BY <2>1, <1>1, <1>2
<1>4. s = t
  BY <1>1, <1>2, <1>3, SeqEqual
<1> QED
  BY <1>4 DEF s, t

\* Sequences of three elements.
LEMMA Triples ==
    ASSUME NEW S, NEW x \in S, NEW y \in S, NEW z \in S
    PROVE  /\ <<x>> \o <<y>> \o <<z>> = <<x, y, z>>
           /\ \A s \in Seq(S) : Len(s) = 3 /\ s[1] = x /\ s[2] = y /\ s[3] = z => s = <<x, y, z>>
<1>1. <<x, y, z>> \in Seq(S) /\ Len(<<x, y, z>>) = 3
  OBVIOUS
<1>2. \A i \in 1 .. 3 : i = 1 \/ i = 2 \/ i = 3
  OBVIOUS
<1>3. <<x, y, z>>[1] = x /\ <<x, y, z>>[2] = y /\ <<x, y, z>>[3] = z
  OBVIOUS
<1>4. ASSUME NEW s \in Seq(S), Len(s) = 3, s[1] = x, s[2] = y, s[3] = z PROVE s = <<x, y, z>>
  <2> DEFINE t == <<x, y, z>>
  <2> HIDE DEF t
  <2>1. \A i \in 1 .. Len(s) : s[i] = t[i]
    BY <1>2, <1>3, <1>4 DEF t
  <2> QED
    BY <2>1, <1>1, <1>4, SeqEqual DEF t
<1>5. /\ <<x>> \o <<y>> \in Seq(S) /\ Len(<<x>> \o <<y>>) = 2
      /\ (<<x>> \o <<y>>)[1] = x /\ (<<x>> \o <<y>>)[2] = y
  OBVIOUS
<1>6. /\ (<<x>> \o <<y>>) \o <<z>> \in Seq(S) /\ Len((<<x>> \o <<y>>) \o <<z>>) = 3
      /\ ((<<x>> \o <<y>>) \o <<z>>)[1] = x /\ ((<<x>> \o <<y>>) \o <<z>>)[2] = y
      /\ ((<<x>> \o <<y>>) \o <<z>>)[3] = z
  <2> DEFINE t == <<x>> \o <<y>>
  <2> HIDE DEF t
  <2>1. t \in Seq(S) /\ Len(t) = 2 /\ t[1] = x /\ t[2] = y
    BY <1>5 DEF t
  <2>2. /\ t \o <<z>> \in Seq(S) /\ Len(t \o <<z>>) = 3
        /\ (t \o <<z>>)[1] = x /\ (t \o <<z>>)[2] = y /\ (t \o <<z>>)[3] = z
    <3>1. <<z>> \in Seq(S) /\ Len(<<z>>) = 1 /\ <<z>>[1] = z
      OBVIOUS
    <3>2. /\ t \o <<z>> \in Seq(S) /\ Len(t \o <<z>>) = 2 + 1
          /\ \A i \in 1 .. 2 + 1 : (t \o <<z>>)[i] = IF i <= 2 THEN t[i] ELSE <<z>>[i - 2]
      BY <2>1, <3>1, ConcatProperties
    <3>3. (t \o <<z>>)[1] = t[1] /\ (t \o <<z>>)[2] = t[2] /\ (t \o <<z>>)[3] = <<z>>[1]
      BY <3>2
    <3> QED
      BY <2>1, <3>1, <3>2, <3>3
  <2> QED
    BY <2>2 DEF t
<1>7. (<<x>> \o <<y>>) \o <<z>> = <<x, y, z>>
  BY <1>4, <1>6
<1> QED
  BY <1>4, <1>7

\* No escape has begun of which a part is still to come, and no query.
Complete(s) ==
    /\ \A i \in DOMAIN s : i >= Len(s) - 1 => s[i] # "%"
    /\ \A i \in DOMAIN s : s[i] # "?"

\* What a character is escaped to is read as that character.
LEMMA EscapedIsRead ==
    ASSUME NEW S, {"%", "2", "5", "3", "F", "0"} \subseteq S, NEW s \in Seq(S), NEW c \in S,
           Complete(s), PathUnescape(s) \in Seq(S)
    PROVE  /\ Complete(s \o Escaped(c))
           /\ PathUnescape(s \o Escaped(c)) = PathUnescape(s) \o <<c>>
<1> DEFINE n == Len(s)
<1>1. n \in Nat /\ DOMAIN s = 1 .. n
  OBVIOUS
<1>2. CASE c \notin DOMAIN Escape
  <2> DEFINE t == s \o <<c>>
  <2>1. Escaped(c) = <<c>> /\ c \notin {"%", "?"}
    BY <1>2, Escapes DEF Escaped
  <2>2. /\ t \in Seq(S) /\ Len(t) = n + 1 /\ DOMAIN t = 1 .. n + 1 /\ t[n + 1] = c
        /\ \A i \in 1 .. n : t[i] = s[i]
    OBVIOUS
  <2> HIDE DEF n
  <2>3. Complete(t)
    <3> HIDE DEF t
    <3>1. \A i \in 1 .. n + 1 : i = n + 1 \/ (i \in 1 .. n /\ (i >= (n + 1) - 1 => i >= n - 1))
      BY <1>1
    <3> QED
      BY <3>1, <2>1, <2>2, <1>1 DEF Complete, n
  <2>4. Unescaped(t, n + 1) = <<c>>
    <3> HIDE DEF t
    <3>1. ~ Begins(t, n + 1)
      BY <2>1, <2>2 DEF Begins
    <3>2. ~ Begins(t, (n + 1) - 1)
      <4>1. (n + 1) - 1 \in 1 .. n + 1 => n \in 1 .. n /\ n >= n - 1 /\ (n + 1) - 1 = n
        BY <1>1
      <4> QED
        BY <4>1, <2>2, <1>1 DEF Begins, Complete, n
    <3>3. ~ Begins(t, (n + 1) - 2)
      <4>1. (n + 1) - 2 \in 1 .. n + 1 => (n + 1) - 2 \in 1 .. n /\ (n + 1) - 2 >= n - 1
        BY <1>1
      <4> QED
        BY <4>1, <2>2, <1>1 DEF Begins, Complete, n
    <3> QED
      BY <3>1, <3>2, <3>3, <2>2 DEF Unescaped
  <2>5. PathUnescape(t) = PathUnescape(s) \o Unescaped(t, n + 1)
    BY UnescapeOneMore DEF n
  <2> HIDE DEF t
  <2> QED
    BY <2>1, <2>3, <2>4, <2>5 DEF t
<1>3. CASE c \in DOMAIN Escape
  <2>1. PICK x, y \in {"2", "5", "3", "F", "0"} : Escape[c] = <<"%", x, y>>
    BY <1>3, Escapes
  <2> DEFINE t1 == s \o <<"%">>
             t2 == t1 \o <<x>>
             t3 == t2 \o <<y>>
  <2>2. "%" \in S /\ x \in S /\ y \in S /\ x \notin {"%", "?"} /\ y \notin {"%", "?"}
    OBVIOUS
  <2>3. /\ t1 \in Seq(S) /\ Len(t1) = n + 1 /\ DOMAIN t1 = 1 .. n + 1 /\ t1[n + 1] = "%"
        /\ \A i \in 1 .. n : t1[i] = s[i]
    BY <2>2
  <2> HIDE DEF n, t1
  <2>4. /\ t2 \in Seq(S) /\ Len(t2) = n + 2 /\ DOMAIN t2 = 1 .. n + 2 /\ t2[n + 2] = x
        /\ \A i \in 1 .. n + 1 : t2[i] = t1[i]
    BY <2>2, <2>3, <1>1
  <2> HIDE DEF t2
  <2>5. /\ t3 \in Seq(S) /\ Len(t3) = n + 3 /\ DOMAIN t3 = 1 .. n + 3 /\ t3[n + 3] = y
        /\ \A i \in 1 .. n + 2 : t3[i] = t2[i]
    BY <2>2, <2>4, <1>1
  <2>6. t3 = s \o Escaped(c)
    <3>1. Escaped(c) = <<"%", x, y>>
      BY <2>1, <1>3 DEF Escaped
    <3>2. (s \o <<"%">>) \o <<x>> \o <<y>> = s \o <<"%", x, y>>
      <4>1. <<"%">> \in Seq(S) /\ <<x>> \in Seq(S) /\ <<y>> \in Seq(S) /\ <<"%">> \o <<x>> \in Seq(S)
        BY <2>2
      <4>2. (<<"%">> \o <<x>>) \o <<y>> = <<"%", x, y>>
        BY <2>2, Triples
      <4>3. (s \o <<"%">>) \o <<x>> = s \o (<<"%">> \o <<x>>)
        BY <4>1, ConcatAssociative
      <4>4. (s \o (<<"%">> \o <<x>>)) \o <<y>> = s \o ((<<"%">> \o <<x>>) \o <<y>>)
        BY <4>1, ConcatAssociative
      <4> QED
        BY <4>2, <4>3, <4>4
    <3> QED
      BY <3>1, <3>2 DEF t1, t2
  <2> HIDE DEF t3
  <2>7. /\ t3[n + 1] = "%" /\ t3[n + 2] = x /\ t3[n + 3] = y /\ t2[n + 1] = "%"
        /\ \A i \in 1 .. n : t3[i] = s[i]
    BY <2>3, <2>4, <2>5, <1>1
  <2>8. Complete(t3)
    <3>1. ASSUME NEW i \in 1 .. n + 3
          PROVE  (i >= (n + 3) - 1 => t3[i] # "%") /\ t3[i] # "?"
      <4>1. CASE i \in 1 .. n
        <5>1. ~ (i >= (n + 3) - 1)
          BY <4>1, <1>1
        <5> QED
          BY <5>1, <4>1, <2>7, <1>1 DEF Complete
      <4>2. CASE i = n + 1
        <5>1. ~ (i >= (n + 3) - 1)
          BY <4>2, <1>1
        <5> QED
          BY <5>1, <4>2, <2>7
      <4>3. CASE i = n + 2 \/ i = n + 3
        BY <4>3, <2>2, <2>7
      <4> QED
        BY <4>1, <4>2, <4>3, <1>1
    <3> QED
      BY <3>1, <2>5 DEF Complete
  <2>9. Unescaped(t1, n + 1) = <<>>
    <3>1. Begins(t1, n + 1)
      BY <2>3, <1>1 DEF Begins
    <3> QED
      BY <3>1 DEF Unescaped
  <2>10. Unescaped(t2, (n + 1) + 1) = <<>>
    <3>1. ((n + 1) + 1) - 1 = n + 1 /\ n + 1 \in 1 .. n + 2
      BY <1>1
    <3>2. Begins(t2, ((n + 1) + 1) - 1)
      BY <3>1, <2>4, <2>7 DEF Begins
    <3> QED
      BY <3>2 DEF Unescaped
  <2>11. Unescaped(t3, (n + 2) + 1) = <<c>>
    <3> DEFINE k == (n + 2) + 1
    <3>1. k = n + 3 /\ k - 1 = n + 2 /\ k - 2 = n + 1 /\ n + 1 \in 1 .. n + 3
      BY <1>1
    <3> HIDE DEF k
    <3>2. ~ Begins(t3, k) /\ ~ Begins(t3, k - 1) /\ Begins(t3, k - 2)
      BY <3>1, <2>2, <2>5, <2>7 DEF Begins
    <3>3. SubSeq(t3, n + 1, n + 3) = <<"%", x, y>>
      <4>1. /\ SubSeq(t3, n + 1, n + 3) \in Seq(S) /\ Len(SubSeq(t3, n + 1, n + 3)) = 3
            /\ SubSeq(t3, n + 1, n + 3)[1] = t3[n + 1] /\ SubSeq(t3, n + 1, n + 3)[2] = t3[n + 2]
            /\ SubSeq(t3, n + 1, n + 3)[3] = t3[n + 3]
        BY <2>5, <1>1
      <4>2. "%" \in S /\ x \in S /\ y \in S
        BY <2>2
      <4> DEFINE u == SubSeq(t3, n + 1, n + 3)
      <4>3. u \in Seq(S) /\ Len(u) = 3 /\ u[1] = "%" /\ u[2] = x /\ u[3] = y
        BY <4>1, <2>7
      <4> HIDE DEF u
      <4>4. u = <<"%", x, y>>
        BY <4>2, <4>3, Triples
      <4> QED
        BY <4>4 DEF u
    <3>4. Meaning(SubSeq(t3, k - 2, k)) = c
      BY <3>1, <3>3, <2>1, <1>3, Escapes
    <3>5. Unescaped(t3, k) = <<c>>
      BY <3>2, <3>4 DEF Unescaped
    <3> QED
      BY <3>5 DEF k
  <2>12. /\ PathUnescape(t1) = PathUnescape(s) \o Unescaped(t1, n + 1)
         /\ PathUnescape(t2) = PathUnescape(t1) \o Unescaped(t2, (n + 1) + 1)
         /\ PathUnescape(t3) = PathUnescape(t2) \o Unescaped(t3, (n + 2) + 1)
    <3>1. PathUnescape(t1) = PathUnescape(s) \o Unescaped(t1, n + 1)
      BY <2>2, UnescapeOneMore DEF t1, n
    <3>2. PathUnescape(t2) = PathUnescape(t1) \o Unescaped(t2, (n + 1) + 1)
      BY <2>2, <2>3, UnescapeOneMore DEF t2
    <3>3. PathUnescape(t3) = PathUnescape(t2) \o Unescaped(t3, (n + 2) + 1)
      BY <2>2, <2>4, UnescapeOneMore DEF t3
    <3> QED
      BY <3>1, <3>2, <3>3
  <2>13. PathUnescape(t3) = PathUnescape(s) \o <<c>>
    BY <2>9, <2>10, <2>11, <2>12, ConcatEmptySeq
  <2> QED
    BY <2>6, <2>8, <2>13
<1> QED
  BY <1>2, <1>3

\* Unescaping takes escaping back, and an escaped text has no "?".
LEMMA UnescapeEscaped ==
    ASSUME NEW S, {"%", "2", "5", "3", "F", "0"} \subseteq S, NEW s \in Seq(S)
    PROVE  PathUnescape(PathEscape(s)) = s /\ Complete(PathEscape(s))
<1> DEFINE n == Len(s)
           T == {k \in 0 .. n : /\ PathUnescape(PathEscape(SubSeq(s, 1, k))) = SubSeq(s, 1, k)
                                /\ Complete(PathEscape(SubSeq(s, 1, k)))}
<1>1. n \in Nat /\ \A i \in 1 .. n : s[i] \in S
  OBVIOUS
<1>2. SubSeq(s, 1, 0) = <<>> /\ <<>> \in Seq(S)
  OBVIOUS
<1>3. "2" \in S
  OBVIOUS
<1>4. 0 \in T
  <2>1. PathEscape(<<>>) = <<>>
    BY <1>2, <1>3, EscapeOneMore
  <2>2. PathUnescape(<<>>) = <<>>
    BY <1>2, <1>3, UnescapeOneMore
  <2>3. Complete(<<>>)
    BY DEF Complete
  <2>4. 0 \in 0 .. n
    BY <1>1
  <2> QED
    BY <2>1, <2>2, <2>3, <2>4, <1>2
<1>5. ASSUME NEW k \in 0 .. n - 1, k \in T PROVE k + 1 \in T
  <2> DEFINE t == SubSeq(s, 1, k)
             c == s[k + 1]
  <2>1. k + 1 \in 1 .. n /\ k + 1 \in 0 .. n /\ 1 \in 1 .. n /\ k + 1 \in 1 .. Len(s) /\ k \in Nat
    BY <1>1
  <2>2. t \in Seq(S) /\ c \in S
    <3>1. \A i \in 1 .. k : s[i] \in S
      BY <1>1, <2>1
    <3> QED
      BY <3>1, <2>1, <1>1, SubSeqProperties
  <2>3. SubSeq(s, 1, k + 1) = t \o <<c>>
    <3>1. SubSeq(s, 1, k + 1) = SubSeq(s, 1, (k + 1) - 1) \o <<s[k + 1]>>
      BY <2>1, SubSeqRecursiveSecond
    <3>2. (k + 1) - 1 = k
      BY <2>1
    <3> QED
      BY <3>1, <3>2
  <2>4. PathUnescape(PathEscape(t)) = t /\ Complete(PathEscape(t))
    BY <1>5
  <2> HIDE DEF t, c
  <2>5. PathEscape(t) \in Seq(S) /\ PathEscape(t \o <<c>>) = PathEscape(t) \o Escaped(c)
    BY <2>2, EscapeOneMore
  <2>6. /\ Complete(PathEscape(t) \o Escaped(c))
        /\ PathUnescape(PathEscape(t) \o Escaped(c)) = t \o <<c>>
    BY <2>2, <2>4, <2>5, EscapedIsRead
  <2> QED
    BY <2>1, <2>3, <2>5, <2>6
<1>6. n \in T
  <2>1. n \in 0 .. n
    BY <1>1
  <2> HIDE DEF T, n
  <2>2. \A k \in 0 .. n : k \in T
    BY <1>1, <1>4, <1>5, Upwards
  <2> QED
    BY <2>1, <2>2
<1>7. SubSeq(s, 1, n) = s
  BY SubSeqFull
<1> HIDE DEF n
<1> QED
  BY <1>6, <1>7

\* Two texts are escaped one after the other.
LEMMA EscapeConcat ==
    ASSUME NEW S, {"%", "2", "5", "3", "F", "0"} \subseteq S, NEW r \in Seq(S), NEW s \in Seq(S)
    PROVE  PathEscape(r \o s) = PathEscape(r) \o PathEscape(s)
<1> DEFINE n == Len(s)
           T == {k \in 0 .. n : PathEscape(r \o SubSeq(s, 1, k)) =
                                    PathEscape(r) \o PathEscape(SubSeq(s, 1, k))}
<1>1. n \in Nat /\ \A i \in 1 .. n : s[i] \in S
  OBVIOUS
<1>2. SubSeq(s, 1, 0) = <<>> /\ <<>> \in Seq(S)
  OBVIOUS
<1>3. "2" \in S
  OBVIOUS
<1>4. 0 \in T
  <2>1. PathEscape(<<>>) = <<>> /\ PathEscape(r) \in Seq(S)
    BY <1>2, <1>3, EscapeOneMore
  <2>2. r \o <<>> = r /\ PathEscape(r) \o <<>> = PathEscape(r)
    BY <2>1, ConcatEmptySeq
  <2>3. 0 \in 0 .. n
    BY <1>1
  <2> QED
    BY <2>1, <2>2, <2>3, <1>2
<1>5. ASSUME NEW k \in 0 .. n - 1, k \in T PROVE k + 1 \in T
  <2> DEFINE t == SubSeq(s, 1, k)
             c == s[k + 1]
  <2>1. k + 1 \in 1 .. n /\ k + 1 \in 0 .. n /\ 1 \in 1 .. n /\ k + 1 \in 1 .. Len(s) /\ k \in Nat
    BY <1>1
  <2>2. t \in Seq(S) /\ c \in S
    <3>1. \A i \in 1 .. k : s[i] \in S
      BY <1>1, <2>1
    <3> QED
      BY <3>1, <2>1, <1>1, SubSeqProperties
  <2>3. SubSeq(s, 1, k + 1) = t \o <<c>>
    <3>1. SubSeq(s, 1, k + 1) = SubSeq(s, 1, (k + 1) - 1) \o <<s[k + 1]>>
      BY <2>1, SubSeqRecursiveSecond
    <3>2. (k + 1) - 1 = k
      BY <2>1
    <3> QED
      BY <3>1, <3>2
  <2>4. PathEscape(r \o t) = PathEscape(r) \o PathEscape(t)
    BY <1>5
  <2> HIDE DEF t, c
  <2>5. <<c>> \in Seq(S) /\ r \o t \in Seq(S)
    BY <2>2
  <2>6. r \o (t \o <<c>>) = (r \o t) \o <<c>>
    BY <2>2, <2>5, ConcatAssociative
  <2>7. PathEscape((r \o t) \o <<c>>) = PathEscape(r \o t) \o Escaped(c)
    BY <2>2, <2>5, EscapeOneMore
  <2>8. /\ PathEscape(t) \in Seq(S) /\ PathEscape(t \o <<c>>) = PathEscape(t) \o Escaped(c)
        /\ Escaped(c) \in Seq(S) /\ PathEscape(r) \in Seq(S)
    BY <2>2, EscapeOneMore
  <2>9. (PathEscape(r) \o PathEscape(t)) \o Escaped(c) = PathEscape(r) \o (PathEscape(t) \o Escaped(c))
    BY <2>8, ConcatAssociative
  <2> QED
    BY <2>1, <2>3, <2>4, <2>6, <2>7, <2>8, <2>9
<1>6. n \in T
  <2>1. n \in 0 .. n
    BY <1>1
  <2> HIDE DEF T, n
  <2>2. \A k \in 0 .. n : k \in T
    BY <1>1, <1>4, <1>5, Upwards
  <2> QED
    BY <2>1, <2>2
<1>7. SubSeq(s, 1, n) = s
  BY SubSeqFull
<1> HIDE DEF n
<1> QED
  BY <1>6, <1>7

\* Texts without such characters are left as they are: two characters ...
LEMMA PlainPair ==
    ASSUME NEW S, {"%", "2", "5", "3", "F", "0"} \subseteq S,
           NEW x \in S, NEW y \in S, x \notin DOMAIN Escape, y \notin DOMAIN Escape
    PROVE  PathEscape(<<x, y>>) = <<x, y>>
<1>1. Escaped(x) = <<x>> /\ Escaped(y) = <<y>>
  BY DEF Escaped
<1>2. <<>> \in Seq(S) /\ <<x>> \in Seq(S)
  OBVIOUS
<1>3. PathEscape(<<x>>) = <<x>>
  <2>1. PathEscape(<<>>) = <<>> /\ PathEscape(<<>> \o <<x>>) = PathEscape(<<>>) \o Escaped(x)
    BY <1>2, EscapeOneMore
  <2>2. <<>> \o <<x>> = <<x>>
    OBVIOUS
  <2> QED
    BY <2>1, <2>2, <1>1
<1>4. PathEscape(<<x>> \o <<y>>) = PathEscape(<<x>>) \o Escaped(y)
  BY <1>2, EscapeOneMore
<1>5. <<x>> \o <<y>> = <<x, y>>
  BY Pairs
<1> QED
  BY <1>1, <1>3, <1>4, <1>5

\* ... and three.
LEMMA PlainTriple ==
    ASSUME NEW S, {"%", "2", "5", "3", "F", "0"} \subseteq S,
           NEW x \in S, NEW y \in S, NEW z \in S,
           x \notin DOMAIN Escape, y \notin DOMAIN Escape, z \notin DOMAIN Escape
    PROVE  PathEscape(<<x, y, z>>) = <<x, y, z>>
<1>1. Escaped(z) = <<z>>
  BY DEF Escaped
<1>2. <<x, y>> \in Seq(S)
  OBVIOUS
<1>3. PathEscape(<<x, y>>) = <<x, y>>
  BY PlainPair
<1>4. PathEscape(<<x, y>> \o <<z>>) = PathEscape(<<x, y>>) \o Escaped(z)
  BY <1>2, EscapeOneMore
<1>5. <<x, y>> \o <<z>> = <<x, y, z>>
  <2>1. (<<x>> \o <<y>>) \o <<z>> = <<x, y, z>>
    BY Triples
  <2>2. <<x>> \o <<y>> = <<x, y>>
    BY Pairs
  <2> QED
    BY <2>1, <2>2
<1> QED
  BY <1>1, <1>3, <1>4, <1>5

------------------------------------------------------------------------------
\* URLs.

\* What stands before a query.
LEMMA BeforeQuery ==
    ASSUME NEW S, NEW s \in Seq(S), NEW q \in Seq(S), \A i \in DOMAIN s : s[i] # "?",
           q = <<>> \/ q[1] = "?"
    PROVE  Before(s \o q, "?") = s
<1> DEFINE n == Len(s)
           t == s \o q
           At == {i \in DOMAIN t : t[i] = "?"} \cup {Len(t) + 1}
<1>1. /\ n \in Nat /\ Len(q) \in Nat /\ Len(t) = n + Len(q) /\ DOMAIN t = 1 .. n + Len(q)
      /\ DOMAIN s = 1 .. n /\ \A i \in 1 .. n : t[i] = s[i]
      /\ (Len(q) # 0 => t[n + 1] = q[1])
  <2>1. /\ n \in Nat /\ Len(q) \in Nat /\ t \in Seq(S) /\ Len(t) = n + Len(q)
        /\ \A i \in 1 .. n + Len(q) : t[i] = IF i <= n THEN s[i] ELSE q[i - n]
    BY ConcatProperties
  <2>2. DOMAIN t = 1 .. n + Len(q) /\ DOMAIN s = 1 .. n
    BY <2>1, LenProperties
  <2> HIDE DEF t, n
  <2> QED
    BY <2>1, <2>2
<1> HIDE DEF n, t
<1>2. n + 1 \in At
  <2>1. CASE q = <<>>
    <3>1. Len(q) = 0
      BY <2>1
    <3> QED
      BY <3>1, <1>1
  <2>2. CASE q # <<>>
    <3>1. Len(q) # 0
      BY <2>2
    <3> QED
      BY <3>1, <2>2, <1>1
  <2> QED
    BY <2>1, <2>2
<1>3. \A i \in At : n + 1 <= i
  BY <1>1
<1>4. Min(At) = n + 1
  <2>1. At \subseteq Nat /\ n + 1 \in Nat
    BY <1>1
  <2> HIDE DEF At
  <2>2. \A j \in At : (\A i \in At : j <= i) => j = n + 1
    BY <1>2, <1>3, <2>1
  <2> QED
    BY <1>2, <1>3, <2>2 DEF Min
<1>5. SubSeq(t, 1, n) = s
  <2>1. SubSeq(t, 1, n) = [i \in 1 .. n |-> t[i]]
    BY <1>1 DEF t
  <2>2. s = [i \in 1 .. n |-> s[i]]
    BY <1>1
  <2> QED
    BY <2>1, <2>2, <1>1
<1>6. Before(t, "?") = SubSeq(t, 1, Min(At) - 1)
  BY DEF Before
<1>7. (n + 1) - 1 = n
  BY <1>1
<1> QED
  BY <1>4, <1>5, <1>6, <1>7 DEF t

\* What stands before the size of a thumbnail.
LEMMA BeforeSize ==
    ASSUME NEW S, NEW s \in Seq(S)
    PROVE  BeforeLast(s \o Small, "/") = s
<1> DEFINE n == Len(s)
           t == s \o Small
           At == {i \in DOMAIN t : t[i] = "/"} \cup {1}
<1>1. /\ n \in Nat /\ DOMAIN s = 1 .. n /\ DOMAIN t = 1 .. n + 2
      /\ t[n + 1] = "/" /\ t[n + 2] = "s" /\ \A i \in 1 .. n : t[i] = s[i]
  BY DEF Small
<1>2. Len(t) = n + 2 /\ t \in Seq(S \cup {"/", "s"})
  BY DEF Small
<1> HIDE DEF n, t
<1>3. n + 1 \in At /\ \A i \in At : n + 1 >= i
  <2>1. n + 1 \in 1 .. n + 2
    BY <1>1
  <2>2. \A i \in 1 .. n + 2 : i # n + 2 => n + 1 >= i
    BY <1>1
  <2>3. n + 1 >= 1 /\ "s" # "/"
    BY <1>1
  <2> QED
    BY <2>1, <2>2, <2>3, <1>1
<1>4. Max(At) = n + 1
  <2>1. At \subseteq Nat /\ n + 1 \in Nat
    BY <1>1
  <2> HIDE DEF At
  <2>2. \A j \in At : (\A i \in At : j >= i) => j = n + 1
    BY <1>3, <2>1
  <2> QED
    BY <1>3, <2>2 DEF Max
<1>5. SubSeq(t, 1, n) = s
  <2>1. SubSeq(t, 1, n) = [i \in 1 .. n |-> t[i]]
    BY <1>1, <1>2
  <2>2. s = [i \in 1 .. n |-> s[i]]
    BY <1>1
  <2> QED
    BY <2>1, <2>2, <1>1
<1>6. BeforeLast(t, "/") = SubSeq(t, 1, Max(At) - 1)
  BY DEF BeforeLast
<1>7. (n + 1) - 1 = n
  BY <1>1
<1> QED
  BY <1>4, <1>5, <1>6, <1>7 DEF t

\* What follows a prefix of three characters.
LEMMA BehindPrefix ==
    ASSUME NEW S, NEW x \in S, NEW y \in S, NEW z \in S, NEW s \in Seq(S)
    PROVE  /\ IsPrefix(<<x, y, z>>, <<x, y, z>> \o s)
           /\ Without(<<x, y, z>>, <<x, y, z>> \o s) = s
           /\ (<<x, y, z>> \o s)[2] = y
<1> DEFINE n == Len(s)
           p == <<x, y, z>>
           t == p \o s
<1>1. p \in Seq(S) /\ Len(p) = 3 /\ n \in Nat /\ p[2] = y
  OBVIOUS
<1> HIDE DEF p
<1>2. /\ t \in Seq(S) /\ Len(t) = 3 + n
      /\ \A i \in 1 .. 3 + n : t[i] = IF i <= 3 THEN p[i] ELSE s[i - 3]
  <2>1. /\ t \in Seq(S) /\ Len(t) = Len(p) + n
        /\ \A i \in 1 .. Len(p) + n : t[i] = IF i <= Len(p) THEN p[i] ELSE s[i - Len(p)]
    BY <1>1, ConcatProperties
  <2> HIDE DEF t, n
  <2> QED
    BY <2>1, <1>1
<1> HIDE DEF t, n
<1>3. IsPrefix(p, t)
  <2>1. SubSeq(t, 1, 3) = [i \in 1 .. 3 |-> t[i]]
    BY <1>1, <1>2
  <2>2. SubSeq(p, 1, 3) = [i \in 1 .. 3 |-> p[i]]
    BY <1>1
  <2>3. \A i \in 1 .. 3 : t[i] = p[i]
    BY <1>1, <1>2
  <2>4. 3 <= 3 + n
    BY <1>1
  <2> QED
    BY <2>1, <2>2, <2>3, <2>4, <1>1, <1>2 DEF IsPrefix
<1>4. Without(p, t) = s
  <2>1. \A i \in 3 + 1 .. 3 + n : t[i] \in S
    BY <1>1, <1>2
  <2>2. /\ SubSeq(t, 3 + 1, 3 + n) \in Seq(S)
        /\ Len(SubSeq(t, 3 + 1, 3 + n)) = n
        /\ \A i \in 1 .. n : SubSeq(t, 3 + 1, 3 + n)[i] = t[3 + i]
    BY <2>1, <1>1
  <2>3. \A i \in 1 .. n : t[3 + i] = s[i]
    BY <1>1, <1>2
  <2>4. SubSeq(t, 3 + 1, 3 + n) = s
    BY <2>2, <2>3, SeqEqual DEF n
  <2> QED
    BY <2>4, <1>1, <1>2 DEF Without
<1>5. t[2] = y
  <2>1. 2 \in 1 .. 3 + n
    BY <1>1
  <2> QED
    BY <2>1, <1>1, <1>2
<1> QED
  BY <1>3, <1>4, <1>5 DEF p, t

\* The separators are taken back.
LEMMA ReplaceBack ==
    ASSUME NEW S, NEW s \in Seq(S), "/" \notin S
    PROVE  /\ Replace(s, "$", "/") \in Seq(S \cup {"/"})
           /\ Replace(Replace(s, "$", "/"), "/", "$") = s
<1> DEFINE n == Len(s)
           t == Replace(s, "$", "/")
<1>1. n \in Nat /\ s \in [1 .. n -> S] /\ DOMAIN s = 1 .. n
  BY LenProperties
<1> HIDE DEF n
<1>2. t = [i \in 1 .. n |-> IF s[i] = "$" THEN "/" ELSE s[i]]
  BY <1>1 DEF Replace
<1>3. t \in [1 .. n -> S \cup {"/"}]
  BY <1>1, <1>2
<1> HIDE DEF t
<1>4. t \in Seq(S \cup {"/"})
  BY <1>1, <1>3, FunctionSeq
<1>5. Replace(t, "/", "$") = [i \in 1 .. n |-> IF t[i] = "/" THEN "$" ELSE t[i]]
  BY <1>3 DEF Replace
<1>6. \A i \in 1 .. n : (IF t[i] = "/" THEN "$" ELSE t[i]) = s[i]
  BY <1>1, <1>2
<1>7. Replace(t, "/", "$") = s
  BY <1>1, <1>5, <1>6
<1> QED
  BY <1>4, <1>7 DEF t

\* Whatever the path of a file, the file that its URL and that of its thumbnail are taken for
\* is the file itself: neither escapes in names, nor "?", nor a query, nor a folder that is
\* named like a size leads to another one (encodedPath, authorizeMedia, parseThumbnailPath).
THEOREM Urls ==
    ASSUME input \in [url : Seq(UrlChars)]
    PROVE  UrlsNameTheirFile
<1> DEFINE path == input.url
           r == Replace(path, "$", "/")
           U == UrlChars \cup {"/", "m", "t", "s", "?", "%", "2", "5", "3", "F", "0"}
           Queries == {<<>>, <<"?">>, <<"?", "/", "s">>}
<1>1. path \in Seq(UrlChars)
  OBVIOUS
<1>2. r \in Seq(U) /\ Replace(r, "/", "$") = path
  <2>1. r \in Seq(UrlChars \cup {"/"}) /\ Replace(r, "/", "$") = path
    <3> HIDE DEF path
    <3> QED
      BY <1>1, ReplaceBack, UrlAssumption
  <2>2. UrlChars \cup {"/"} \subseteq U
    OBVIOUS
  <2> HIDE DEF r, U, path
  <2> QED
    BY <2>1, <2>2, SeqMonotonic
<1>3. /\ {"%", "2", "5", "3", "F", "0"} \subseteq U
      /\ "/" \in U /\ "m" \in U /\ "t" \in U /\ "s" \in U /\ "?" \in U
  OBVIOUS
<1>4. \A q \in Queries : q \in Seq(U) /\ (q = <<>> \/ q[1] = "?")
  <2>1. "?" \in U /\ "/" \in U /\ "s" \in U
    OBVIOUS
  <2> HIDE DEF U
  <2>2. <<>> \in Seq(U) /\ <<"?">> \in Seq(U) /\ <<"?", "/", "s">> \in Seq(U)
    BY <2>1
  <2>3. <<"?">>[1] = "?" /\ <<"?", "/", "s">>[1] = "?"
    OBVIOUS
  <2> QED
    BY <2>2, <2>3
<1>5. /\ Media = <<"/", "m", "/">> /\ Thumbnail = <<"/", "t", "/">> /\ Small = <<"/", "s">>
      /\ Media \in Seq(U) /\ Thumbnail \in Seq(U) /\ Small \in Seq(U)
  BY DEF Media, Thumbnail, Small
<1> DEFINE media == Media \o r
           small == Thumbnail \o (r \o Small)
<1> HIDE DEF path, r, U, Queries
<1>6. /\ PathEscape(Media) = Media /\ PathEscape(Thumbnail) = Thumbnail /\ PathEscape(Small) = Small
  <2>1. ("/" \notin DOMAIN Escape) /\ ("m" \notin DOMAIN Escape) /\ ("t" \notin DOMAIN Escape)
        /\ ("s" \notin DOMAIN Escape)
    BY Escapes
  <2>2. PathEscape(<<"/", "m", "/">>) = <<"/", "m", "/">>
    BY <2>1, <1>3, PlainTriple
  <2>3. PathEscape(<<"/", "t", "/">>) = <<"/", "t", "/">>
    BY <2>1, <1>3, PlainTriple
  <2>4. PathEscape(<<"/", "s">>) = <<"/", "s">>
    BY <2>1, <1>3, PlainPair
  <2> QED
    BY <2>2, <2>3, <2>4, <1>5
<1>7. r \o Small \in Seq(U) /\ media \in Seq(U) /\ small \in Seq(U)
  BY <1>2, <1>5
<1>8. MediaUrl(path) = PathEscape(media)
  BY <1>2, <1>3, <1>5, <1>6, EscapeConcat DEF MediaUrl, EncodedPath, r
<1>9. ThumbnailUrl(path) = PathEscape(small)
  <2>1. PathEscape(small) = Thumbnail \o PathEscape(r \o Small)
    BY <1>3, <1>5, <1>6, <1>7, EscapeConcat
  <2>2. PathEscape(r \o Small) = PathEscape(r) \o PathEscape(Small)
    <3>1. r \in Seq(U) /\ Small \in Seq(U)
      BY <1>2, <1>5
    <3> QED
      BY <3>1, <1>3, EscapeConcat
  <2>3. PathEscape(r) \in Seq(U)
    BY <1>2, <1>3, EscapeOneMore
  <2>4. (Thumbnail \o PathEscape(r)) \o Small = Thumbnail \o (PathEscape(r) \o Small)
    BY <2>3, <1>5, ConcatAssociative
  <2> QED
    BY <2>1, <2>2, <2>4, <1>6 DEF ThumbnailUrl, EncodedPath, r
<1>10. ASSUME NEW s \in Seq(U), NEW q \in Queries
       PROVE  Original(PathEscape(s) \o q) = s
  <2>1. PathEscape(s) \in Seq(U) /\ PathUnescape(PathEscape(s)) = s /\ Complete(PathEscape(s))
    BY <1>3, EscapeOneMore, UnescapeEscaped
  <2>2. Before(PathEscape(s) \o q, "?") = PathEscape(s)
    BY <2>1, <1>4, BeforeQuery DEF Complete
  <2> QED
    BY <2>1, <2>2 DEF Original
<1>11. IsPrefix(Media, media) /\ Without(Media, media) = r
  BY <1>2, <1>3, <1>5, BehindPrefix
<1>12. /\ IsPrefix(Thumbnail, small) /\ Without(Thumbnail, small) = r \o Small
       /\ BeforeLast(r \o Small, "/") = r
  <2>1. IsPrefix(Thumbnail, small) /\ Without(Thumbnail, small) = r \o Small
    <3> DEFINE s == r \o Small
    <3>1. s \in Seq(U)
      BY <1>7
    <3> HIDE DEF s
    <3>2. IsPrefix(Thumbnail, Thumbnail \o s) /\ Without(Thumbnail, Thumbnail \o s) = s
      BY <3>1, <1>3, <1>5, BehindPrefix
    <3> QED
      BY <3>2 DEF s
  <2>2. BeforeLast(r \o Small, "/") = r
    BY <1>2, BeforeSize
  <2> QED
    BY <2>1, <2>2
<1>13. ~ IsPrefix(Media, small) /\ ~ IsPrefix(Thumbnail, media)
  <2>1. media[2] = "m" /\ small[2] = "t"
    BY <1>2, <1>3, <1>5, <1>7, BehindPrefix
  <2>2. Media[2] = "m" /\ Thumbnail[2] = "t" /\ Len(Media) = 3 /\ Len(Thumbnail) = 3
    BY <1>5
  <2>3. ASSUME NEW p \in Seq(U), NEW t \in Seq(U), Len(p) = 3, IsPrefix(p, t) PROVE p[2] = t[2]
    <3>1. SubSeq(p, 1, 3) = SubSeq(t, 1, 3) /\ 3 <= Len(t)
      BY <2>3 DEF IsPrefix
    <3>2. SubSeq(p, 1, 3)[2] = p[2] /\ SubSeq(t, 1, 3)[2] = t[2]
      BY <2>3, <3>1
    <3> QED
      BY <3>1, <3>2
  <2>4. "m" # "t"
    OBVIOUS
  <2> HIDE DEF media, small
  <2> QED
    BY <2>1, <2>2, <2>3, <2>4, <1>5, <1>7
<1> HIDE DEF media, small
<1>14. ASSUME NEW q \in Queries
       PROVE  /\ AuthorizedPath(MediaUrl(path) \o q) = path
              /\ AuthorizedPath(ThumbnailUrl(path) \o q) = path
  <2>1. Original(MediaUrl(path) \o q) = media
    BY <1>7, <1>8, <1>10
  <2>2. Original(ThumbnailUrl(path) \o q) = small
    BY <1>7, <1>9, <1>10
  <2>3. AuthorizedPath(MediaUrl(path) \o q) = path
    BY <2>1, <1>2, <1>11, <1>13 DEF AuthorizedPath
  <2>4. AuthorizedPath(ThumbnailUrl(path) \o q) = path
    BY <2>2, <1>2, <1>12, <1>13 DEF AuthorizedPath
  <2> QED
    BY <2>3, <2>4
<1>15. ParseThumbnailPath(PathUnescape(ThumbnailUrl(path))) = path
  <2>1. PathUnescape(ThumbnailUrl(path)) = small
    BY <1>3, <1>7, <1>9, UnescapeEscaped
  <2> QED
    BY <2>1, <1>2, <1>12 DEF ParseThumbnailPath
<1> QED
  BY <1>14, <1>15 DEF UrlsNameTheirFile, path, Queries
------------------------------------------------------------------------------
\* Sequences in order, and the vectors made from them.

\* R orders the elements of T, strictly and all of them.
OrdersAll(R, T) ==
    /\ \A s \in T : <<s, s>> \notin R
    /\ \A s, t, u \in T : <<s, t>> \in R /\ <<t, u>> \in R => <<s, u>> \in R
    /\ \A s, t \in T : s # t => <<s, t>> \in R \/ <<t, s>> \in R

\* The place of each element in the order.
PlaceOf(R, T) == [t \in T |-> Cardinality({u \in T : <<u, t>> \in R}) + 1]

\* Places keep the order.
LEMMA PlacesAscend ==
    ASSUME NEW T, IsFiniteSet(T), NEW R, OrdersAll(R, T)
    PROVE  /\ PlaceOf(R, T) \in [T -> 1 .. Cardinality(T)]
           /\ \A s, t \in T : <<s, t>> \in R => PlaceOf(R, T)[s] < PlaceOf(R, T)[t]
<1> DEFINE Under(t) == {u \in T : <<u, t>> \in R}
           n == Cardinality(T)
<1>1. n \in Nat
  BY FS_CardinalityType
<1>2. ASSUME NEW t \in T
      PROVE  IsFiniteSet(Under(t)) /\ Cardinality(Under(t)) \in 0 .. n - 1
  <2>1. Under(t) \in SUBSET T /\ t \notin Under(t)
    BY DEF OrdersAll
  <2> HIDE DEF Under
  <2>2. IsFiniteSet(Under(t)) /\ Cardinality(Under(t)) <= n /\ (n = Cardinality(Under(t)) => T = Under(t))
    BY <2>1, FS_Subset
  <2>3. Cardinality(Under(t)) \in Nat
    BY <2>2, FS_CardinalityType
  <2> QED
    BY <1>1, <2>1, <2>2, <2>3
<1>3. ASSUME NEW s \in T, NEW t \in T, <<s, t>> \in R
      PROVE  Cardinality(Under(s)) < Cardinality(Under(t))
  <2>1. Under(s) \in SUBSET Under(t) /\ s \in Under(t) /\ s \notin Under(s)
    BY <1>3 DEF OrdersAll
  <2> HIDE DEF Under
  <2>2. /\ Cardinality(Under(s)) <= Cardinality(Under(t))
        /\ Cardinality(Under(t)) = Cardinality(Under(s)) => Under(t) = Under(s)
    BY <1>2, <2>1, FS_Subset
  <2>3. Cardinality(Under(s)) \in Nat /\ Cardinality(Under(t)) \in Nat
    BY <1>1, <1>2
  <2> QED
    BY <2>1, <2>2, <2>3
<1>4. \A t \in T : PlaceOf(R, T)[t] = Cardinality(Under(t)) + 1
  BY DEF PlaceOf
<1>5. PlaceOf(R, T) = [t \in T |-> Cardinality(Under(t)) + 1]
  BY DEF PlaceOf
<1> HIDE DEF Under, n
<1>6. \A t \in T : Cardinality(Under(t)) + 1 \in 1 .. n
  BY <1>1, <1>2
<1>7. \A t \in T : Cardinality(Under(t)) \in Nat
  BY <1>1, <1>2
<1> QED
  BY <1>3, <1>4, <1>5, <1>6, <1>7 DEF n

\* Numbers up to n that ascend n times are the numbers up to n.
LEMMA AscendingIsCounting ==
    ASSUME NEW n \in Nat, NEW q \in [1 .. n -> 1 .. n],
           \A i, j \in 1 .. n : i < j => q[i] < q[j]
    PROVE  \A i \in 1 .. n : q[i] = i
<1> DEFINE A == {i \in 0 .. n : i = 0 \/ q[i] >= i}
           B == {i \in 0 .. n : i = 0 \/ q[i] <= i}
<1>1. 0 \in A
  OBVIOUS
<1>2. ASSUME NEW k \in 0 .. n - 1, k \in A PROVE k + 1 \in A
  <2>1. CASE k = 0
    BY <2>1
  <2>2. CASE k # 0
    <3>1. k \in 1 .. n /\ k + 1 \in 1 .. n /\ k < k + 1
      BY <2>2
    <3>2. q[k] < q[k + 1] /\ q[k] >= k /\ q[k] \in 1 .. n /\ q[k + 1] \in 1 .. n
      BY <1>2, <3>1
    <3> QED
      BY <3>1, <3>2
  <2> QED
    BY <2>1, <2>2
<1>3. \A k \in 0 .. n : k \in A
  <2> HIDE DEF A
  <2> QED
    BY <1>1, <1>2, Upwards
<1>4. n \in B
  OBVIOUS
<1>5. ASSUME NEW k \in 0 .. n - 1, k + 1 \in B PROVE k \in B
  <2>1. CASE k = 0
    BY <2>1
  <2>2. CASE k # 0
    <3>1. k \in 1 .. n /\ k + 1 \in 1 .. n /\ k < k + 1
      BY <2>2
    <3>2. q[k] < q[k + 1] /\ q[k + 1] <= k + 1 /\ q[k] \in 1 .. n /\ q[k + 1] \in 1 .. n
      BY <1>5, <3>1
    <3> QED
      BY <3>1, <3>2
  <2> QED
    BY <2>1, <2>2
<1>6. \A k \in 0 .. n : k \in B
  <2> HIDE DEF B
  <2> QED
    BY <1>4, <1>5, Downwards
<1> QED
  BY <1>3, <1>6

\* A sequence of all the elements of a finite set, in the order.
Follows(s, R, T) ==
    /\ s \in [1 .. Cardinality(T) -> T]
    /\ \A i, j \in 1 .. Cardinality(T) : i < j => <<s[i], s[j]>> \in R

\* Any two sequences of the elements that follow the order are the same, and there is one.
LEMMA OneFollows ==
    ASSUME NEW T, IsFiniteSet(T), NEW R, OrdersAll(R, T)
    PROVE  /\ \E s : Follows(s, R, T)
           /\ \A s, t : Follows(s, R, T) /\ Follows(t, R, T) => s = t
<1> DEFINE n == Cardinality(T)
           place == PlaceOf(R, T)
<1>1. n \in Nat
  BY FS_CardinalityType
<1>2. /\ place \in [T -> 1 .. n]
      /\ \A s, t \in T : <<s, t>> \in R => place[s] < place[t]
  BY PlacesAscend
<1> HIDE DEF place
<1>3. \A s, t \in T : place[s] = place[t] => s = t
  <2> SUFFICES ASSUME NEW s \in T, NEW t \in T, place[s] = place[t], s # t PROVE FALSE
    OBVIOUS
  <2>1. <<s, t>> \in R \/ <<t, s>> \in R
    BY DEF OrdersAll
  <2>2. place[s] \in Nat /\ place[t] \in Nat
    BY <1>1, <1>2
  <2> QED
    BY <1>2, <2>1, <2>2
<1>4. \E s : Follows(s, R, T)
  <2>1. place \in Injection(T, 1 .. n)
    BY <1>2, <1>3 DEF Injection, IsInjective
  <2>2. IsFiniteSet(1 .. n) /\ Cardinality(1 .. n) = n
    BY <1>1, FS_Interval
  <2>3. place \in Surjection(T, 1 .. n)
    BY <2>1, <2>2, FS_Injection
  <2>4. \A i \in 1 .. n : \E t \in T : place[t] = i
    BY <2>3 DEF Surjection
  <2> DEFINE s == [i \in 1 .. n |-> CHOOSE t \in T : place[t] = i]
  <2>5. \A i \in 1 .. n : s[i] \in T /\ place[s[i]] = i
    BY <2>4
  <2>6. s \in [1 .. n -> T]
    BY <2>5
  <2> HIDE DEF s
  <2>7. ASSUME NEW i \in 1 .. n, NEW j \in 1 .. n, i < j PROVE <<s[i], s[j]>> \in R
    <3>1. s[i] # s[j] /\ s[i] \in T /\ s[j] \in T
      BY <2>5, <2>7
    <3>2. <<s[j], s[i]>> \notin R
      <4> SUFFICES ASSUME <<s[j], s[i]>> \in R PROVE FALSE
        OBVIOUS
      <4>1. place[s[j]] < place[s[i]]
        BY <1>2, <3>1
      <4> QED
        BY <4>1, <2>5, <2>7
    <3> QED
      BY <3>1, <3>2 DEF OrdersAll
  <2> QED
    BY <2>6, <2>7 DEF Follows
<1>5. ASSUME NEW s, Follows(s, R, T) PROVE \A i \in 1 .. n : s[i] \in T /\ place[s[i]] = i
  <2>1. s \in [1 .. n -> T] /\ \A i, j \in 1 .. n : i < j => <<s[i], s[j]>> \in R
    BY <1>5 DEF Follows
  <2> DEFINE q == [i \in 1 .. n |-> place[s[i]]]
  <2> HIDE DEF n
  <2>2. q \in [1 .. n -> 1 .. n]
    BY <1>2, <2>1
  <2>3. \A i, j \in 1 .. n : i < j => q[i] < q[j]
    BY <1>2, <2>1
  <2>4. \A i \in 1 .. n : q[i] = place[s[i]]
    OBVIOUS
  <2> HIDE DEF q
  <2>5. \A i \in 1 .. n : q[i] = i
    BY <1>1, <2>2, <2>3, AscendingIsCounting
  <2> QED
    BY <2>1, <2>4, <2>5
<1>6. ASSUME NEW s, NEW t, Follows(s, R, T), Follows(t, R, T) PROVE s = t
  <2>1. s \in [1 .. n -> T] /\ t \in [1 .. n -> T]
    BY <1>6 DEF Follows
  <2>2. \A i \in 1 .. n : s[i] \in T /\ place[s[i]] = i
    BY <1>5, <1>6
  <2>3. \A i \in 1 .. n : t[i] \in T /\ place[t[i]] = i
    BY <1>5, <1>6
  <2>4. \A i \in 1 .. n : s[i] = t[i]
    BY <1>3, <2>2, <2>3
  <2>5. s = [i \in 1 .. n |-> s[i]] /\ t = [i \in 1 .. n |-> t[i]]
    BY <2>1
  <2> HIDE DEF n
  <2> QED
    BY <2>4, <2>5
<1> QED
  BY <1>4, <1>6

------------------------------------------------------------------------------
\* Different characters have different ranks.
LEMMA Ranks ==
    ASSUME NEW c \in Characters
    PROVE  Rank(c) \in Nat /\ Alphabet[Rank(c)] = c
<1>1. DOMAIN Alphabet \subseteq Nat
  BY AlphabetAssumption
<1> QED
  BY <1>1 DEF Rank, Characters, ToSet

\* s comes before t: they differ from n + 1 on, where s ends or has the lower character.
DiffersAt(s, t, n) ==
    /\ n \in Nat /\ n <= Len(s) /\ n < Len(t)
    /\ \A i \in 1 .. n : s[i] = t[i]
    /\ n = Len(s) \/ Rank(s[n + 1]) < Rank(t[n + 1])

\* Go's order of strings looks at the first difference.
LEMMA PrecedesByCharacter ==
    ASSUME NEW s \in Seq(Characters), NEW t \in Seq(Characters)
    PROVE  Precedes(s, t) <=> \E n \in Nat : DiffersAt(s, t, n)
<1>1. ASSUME NEW n \in Nat, n <= Len(s), n < Len(t)
      PROVE  SubSeq(s, 1, n) = SubSeq(t, 1, n) <=> \A i \in 1 .. n : s[i] = t[i]
  <2> DEFINE C == Characters
  <2>1. \A i \in 1 .. n : s[i] \in C /\ t[i] \in C
    BY <1>1, LenProperties
  <2> HIDE DEF C
  <2>2. /\ SubSeq(s, 1, n) \in Seq(C) /\ Len(SubSeq(s, 1, n)) = n
        /\ \A i \in 1 .. n : SubSeq(s, 1, n)[i] = s[i]
    <3>1. /\ SubSeq(s, 1, n) \in Seq(C)
          /\ Len(SubSeq(s, 1, n)) = IF 1 <= n THEN n - 1 + 1 ELSE 0
          /\ \A i \in 1 .. n - 1 + 1 : SubSeq(s, 1, n)[i] = s[1 + i - 1]
      BY <2>1, SubSeqProperties
    <3> QED
      BY <3>1
  <2>3. /\ SubSeq(t, 1, n) \in Seq(C) /\ Len(SubSeq(t, 1, n)) = n
        /\ \A i \in 1 .. n : SubSeq(t, 1, n)[i] = t[i]
    <3>1. /\ SubSeq(t, 1, n) \in Seq(C)
          /\ Len(SubSeq(t, 1, n)) = IF 1 <= n THEN n - 1 + 1 ELSE 0
          /\ \A i \in 1 .. n - 1 + 1 : SubSeq(t, 1, n)[i] = t[1 + i - 1]
      BY <2>1, SubSeqProperties
    <3> QED
      BY <3>1
  <2> DEFINE u == SubSeq(s, 1, n)
             v == SubSeq(t, 1, n)
  <2> HIDE DEF u, v
  <2>4. (\A i \in 1 .. n : s[i] = t[i]) => u = v
    <3>1. u \in Seq(C) /\ v \in Seq(C) /\ Len(u) = n /\ Len(v) = n
      BY <2>2, <2>3 DEF u, v
    <3>2. (\A i \in 1 .. n : s[i] = t[i]) => \A i \in 1 .. n : u[i] = v[i]
      BY <2>2, <2>3 DEF u, v
    <3> QED
      BY <3>1, <3>2, SeqEqual
  <2>5. u = v => \A i \in 1 .. n : s[i] = t[i]
    BY <2>2, <2>3 DEF u, v
  <2> QED
    BY <2>4, <2>5 DEF u, v
<1>2. \A n : n \in 0 .. Len(s) <=> n \in Nat /\ n <= Len(s)
  BY LenProperties
<1> QED
  BY <1>1, <1>2 DEF Precedes, DiffersAt

\* It orders all terms.
LEMMA PrecedesOrders ==
    ASSUME NEW s \in Seq(Characters), NEW t \in Seq(Characters), NEW u \in Seq(Characters)
    PROVE  /\ ~ Precedes(s, s)
           /\ Precedes(s, t) /\ Precedes(t, u) => Precedes(s, u)
           /\ s # t => Precedes(s, t) \/ Precedes(t, s)
<1> DEFINE C == Characters
<1>1. /\ Len(s) \in Nat /\ Len(t) \in Nat /\ Len(u) \in Nat
      /\ \A i \in 1 .. Len(s) : s[i] \in C
      /\ \A i \in 1 .. Len(t) : t[i] \in C
      /\ \A i \in 1 .. Len(u) : u[i] \in C
  BY LenProperties
<1>2. \A c \in C : Rank(c) \in Nat
  BY Ranks
<1>3. \A c, d \in C : Rank(c) = Rank(d) => c = d
  BY Ranks
<1>4. ~ Precedes(s, s)
  <2> SUFFICES ASSUME NEW n \in Nat, DiffersAt(s, s, n) PROVE FALSE
    BY PrecedesByCharacter
  <2>1. n + 1 \in 1 .. Len(s) /\ Rank(s[n + 1]) < Rank(s[n + 1])
    BY <1>1 DEF DiffersAt
  <2> QED
    BY <1>1, <1>2, <2>1
<1>5. ASSUME Precedes(s, t), Precedes(t, u) PROVE Precedes(s, u)
  <2>1. PICK n \in Nat : DiffersAt(s, t, n)
    BY <1>5, PrecedesByCharacter
  <2>2. PICK m \in Nat : DiffersAt(t, u, m)
    BY <1>5, PrecedesByCharacter
  <2> SUFFICES \E k \in Nat : DiffersAt(s, u, k)
    BY PrecedesByCharacter
  <2>3. CASE n < m
    <3>1. \A i \in 1 .. n : s[i] = u[i]
      BY <2>1, <2>2, <2>3 DEF DiffersAt
    <3>2. n + 1 \in 1 .. m /\ t[n + 1] = u[n + 1] /\ n < Len(u)
      BY <1>1, <2>2, <2>3 DEF DiffersAt
    <3>3. DiffersAt(s, u, n)
      BY <2>1, <3>1, <3>2 DEF DiffersAt
    <3> QED
      BY <3>3
  <2>4. CASE n = m
    <3>1. \A i \in 1 .. n : s[i] = u[i]
      BY <2>1, <2>2, <2>4 DEF DiffersAt
    <3>2. n < Len(u) /\ n + 1 \in 1 .. Len(t) /\ n + 1 \in 1 .. Len(u)
          /\ Rank(t[n + 1]) < Rank(u[n + 1])
      BY <1>1, <2>1, <2>2, <2>4 DEF DiffersAt
    <3>3. n # Len(s) => Rank(s[n + 1]) < Rank(u[n + 1])
      <4> SUFFICES ASSUME n # Len(s) PROVE Rank(s[n + 1]) < Rank(u[n + 1])
        OBVIOUS
      <4>1. n + 1 \in 1 .. Len(s) /\ Rank(s[n + 1]) < Rank(t[n + 1])
        BY <1>1, <2>1 DEF DiffersAt
      <4>2. Rank(s[n + 1]) \in Nat /\ Rank(t[n + 1]) \in Nat /\ Rank(u[n + 1]) \in Nat
        BY <1>1, <1>2, <3>2, <4>1
      <4> QED
        BY <3>2, <4>1, <4>2
    <3>4. DiffersAt(s, u, n)
      BY <2>1, <3>1, <3>2, <3>3 DEF DiffersAt
    <3> QED
      BY <3>4
  <2>5. CASE m < n
    <3>1. \A i \in 1 .. m : s[i] = u[i]
      BY <2>1, <2>2, <2>5 DEF DiffersAt
    <3>2. m < Len(s) /\ m < Len(u) /\ m # Len(t) /\ s[m + 1] = t[m + 1]
      BY <1>1, <2>1, <2>2, <2>5 DEF DiffersAt
    <3>3. DiffersAt(s, u, m)
      BY <1>1, <2>2, <3>1, <3>2 DEF DiffersAt
    <3> QED
      BY <3>3
  <2> QED
    BY <2>3, <2>4, <2>5
<1>6. ASSUME s # t PROVE Precedes(s, t) \/ Precedes(t, s)
  <2> DEFINE D == {i \in 1 .. Len(s) : i <= Len(t) /\ s[i] # t[i]}
  <2>1. CASE D = {}
    <3>1. \A i \in 1 .. Len(s) : i <= Len(t) => s[i] = t[i]
      BY <2>1
    <3>2. Len(s) # Len(t)
      <4> SUFFICES ASSUME Len(s) = Len(t) PROVE FALSE
        OBVIOUS
      <4>1. \A i \in 1 .. Len(s) : s[i] = t[i]
        BY <1>1, <3>1
      <4> QED
        BY <1>6, <4>1, SeqEqual
    <3>3. CASE Len(s) < Len(t)
      <4>1. DiffersAt(s, t, Len(s))
        BY <1>1, <3>1, <3>3 DEF DiffersAt
      <4> QED
        BY <1>1, <4>1, PrecedesByCharacter
    <3>4. CASE Len(t) < Len(s)
      <4>1. DiffersAt(t, s, Len(t))
        BY <1>1, <3>1, <3>4 DEF DiffersAt
      <4> QED
        BY <1>1, <4>1, PrecedesByCharacter
    <3> QED
      BY <1>1, <3>2, <3>3, <3>4
  <2>2. CASE D # {}
    <3>1. PICK k \in D : \A i \in D : k <= i
      <4>1. D \subseteq Nat
        OBVIOUS
      <4> HIDE DEF D
      <4> QED
        BY <2>2, <4>1, LeastNumber
    <3>2. /\ k \in 1 .. Len(s) /\ k \in 1 .. Len(t) /\ s[k] # t[k]
          /\ \A i \in 1 .. k - 1 : s[i] = t[i]
      BY <1>1, <3>1
    <3>3. s[k] \in C /\ t[k] \in C
      BY <1>1, <3>2
    <3>4. Rank(s[k]) < Rank(t[k]) \/ Rank(t[k]) < Rank(s[k])
      <4>1. Rank(s[k]) \in Nat /\ Rank(t[k]) \in Nat /\ Rank(s[k]) # Rank(t[k])
        BY <1>2, <1>3, <3>2, <3>3
      <4> QED
        BY <4>1
    <3>5. k - 1 \in Nat /\ (k - 1) + 1 = k /\ k - 1 <= Len(s) /\ k - 1 < Len(t)
          /\ k - 1 <= Len(t) /\ k - 1 < Len(s)
      BY <1>1, <3>2
    <3>6. DiffersAt(s, t, k - 1) \/ DiffersAt(t, s, k - 1)
      BY <3>2, <3>4, <3>5 DEF DiffersAt
    <3> QED
      BY <3>5, <3>6, PrecedesByCharacter
  <2> QED
    BY <2>1, <2>2
<1> QED
  BY <1>4, <1>5, <1>6

------------------------------------------------------------------------------
\* The smaller of two numbers.
LEMMA Smaller ==
    ASSUME NEW m \in Nat, NEW n \in Nat
    PROVE  Min({m, n}) = IF m <= n THEN m ELSE n
<1>1. Min({m, n}) \in {m, n} /\ \A x \in {m, n} : Min({m, n}) <= x
  <2>1. \E x \in {m, n} : \A y \in {m, n} : x <= y
    OBVIOUS
  <2> QED
    BY <2>1 DEF Min
<1> QED
  BY <1>1

\* Heavier orders terms with their frequencies.
LEMMA HeavierOrders ==
    ASSUME NEW T \in SUBSET Seq(Characters), NEW f \in [T -> Nat]
    PROVE  OrdersAll({p \in T \X T : Heavier(f, p[1], p[2])}, T)
<1> DEFINE R == {p \in T \X T : Heavier(f, p[1], p[2])}
<1>1. \A s, t \in T : <<s, t>> \in R <=> f[s] > f[t] \/ (f[s] = f[t] /\ Precedes(s, t))
  BY DEF Heavier
<1>2. \A s \in T : f[s] \in Nat /\ s \in Seq(Characters)
  OBVIOUS
<1> HIDE DEF R
<1>3. \A s \in T : <<s, s>> \notin R
  BY <1>1, <1>2, PrecedesOrders
<1>4. ASSUME NEW s \in T, NEW t \in T, NEW u \in T, <<s, t>> \in R, <<t, u>> \in R
      PROVE  <<s, u>> \in R
  <2>1. f[s] \in Nat /\ f[t] \in Nat /\ f[u] \in Nat
    BY <1>2
  <2>2. Precedes(s, t) /\ Precedes(t, u) => Precedes(s, u)
    BY <1>2, PrecedesOrders
  <2> QED
    BY <1>1, <1>4, <2>1, <2>2
<1>5. ASSUME NEW s \in T, NEW t \in T, s # t
      PROVE  <<s, t>> \in R \/ <<t, s>> \in R
  <2>1. f[s] \in Nat /\ f[t] \in Nat
    BY <1>2
  <2>2. Precedes(s, t) \/ Precedes(t, s)
    BY <1>2, <1>5, PrecedesOrders
  <2> QED
    BY <1>1, <2>1, <2>2
<1> QED
  BY <1>3, <1>4, <1>5 DEF OrdersAll, R

\* However many terms an image has and whatever their frequencies: it has one vector, no
\* matter in which order the map yields the terms, of as many terms as are there or allowed,
\* and the terms that it leaves out count no more than those it keeps (Vectorize).
THEOREM Vector ==
    ASSUME NEW T \in SUBSET Seq(Characters), IsFiniteSet(T), NEW f \in [T -> Nat]
    PROVE  OneVector(f)
<1> DEFINE R == {p \in T \X T : Heavier(f, p[1], p[2])}
           n == Cardinality(T)
           k == Min({MaxKept, n})
<1>1. OrdersAll(R, T)
  BY HeavierOrders
<1>2. n \in Nat /\ DOMAIN f = T /\ \A t \in T : f[t] \in Nat
  BY FS_CardinalityType
<1>3. k \in 0 .. n
  BY <1>2, Smaller, VectorAssumption
<1>4. \A s, t \in T : <<s, t>> \in R <=> Heavier(f, s, t)
  OBVIOUS
<1>5. \A s, t \in T : <<s, t>> \in R => f[s] >= f[t]
  BY <1>2, <1>4 DEF Heavier
<1> HIDE DEF R, n, k
<1>6. \A s : s \in Sorts(f) <=> Follows(s, R, T)
  <2>1. ASSUME NEW s
        PROVE  s \in Sorts(f) <=>
                   /\ s \in [1 .. n -> T]
                   /\ \A i, j \in 1 .. n : i # j => s[i] # s[j]
                   /\ \A i, j \in 1 .. n : i < j => ~ Heavier(f, s[j], s[i])
    BY <1>2 DEF Sorts, SetToSeqs, n
  <2>2. ASSUME NEW s \in [1 .. n -> T], Follows(s, R, T),
               NEW i \in 1 .. n, NEW j \in 1 .. n
        PROVE  (i # j => s[i] # s[j]) /\ (i < j => ~ Heavier(f, s[j], s[i]))
    <3>1. s[i] \in T /\ s[j] \in T
      OBVIOUS
    <3>2. (i < j => <<s[i], s[j]>> \in R) /\ (j < i => <<s[j], s[i]>> \in R)
      BY <2>2 DEF Follows, n
    <3>3. i # j => i < j \/ j < i
      BY <1>2
    <3> QED
      BY <1>1, <1>4, <3>1, <3>2, <3>3 DEF OrdersAll
  <2>3. ASSUME NEW s \in [1 .. n -> T],
               \A i, j \in 1 .. n : i # j => s[i] # s[j],
               \A i, j \in 1 .. n : i < j => ~ Heavier(f, s[j], s[i])
        PROVE  Follows(s, R, T)
    <3>1. ASSUME NEW i \in 1 .. n, NEW j \in 1 .. n, i < j PROVE <<s[i], s[j]>> \in R
      <4>1. s[i] \in T /\ s[j] \in T /\ i # j
        BY <1>2, <3>1
      <4>2. s[i] # s[j] /\ ~ Heavier(f, s[j], s[i])
        BY <2>3, <3>1, <4>1
      <4> QED
        BY <1>1, <1>4, <4>1, <4>2 DEF OrdersAll
    <3> QED
      BY <3>1 DEF Follows, n
  <2>4. \A s : Follows(s, R, T) => s \in [1 .. n -> T]
    BY DEF Follows, n
  <2> QED
    BY <2>1, <2>2, <2>3, <2>4
<1>7. PICK s : Follows(s, R, T)
  BY <1>1, OneFollows
<1>8. Sorts(f) = {s}
  BY <1>1, <1>6, <1>7, OneFollows
<1> DEFINE v == Vectorize(f, s)
           K == {s[i] : i \in 1 .. k}
<1>9. Vectors(f) = {v}
  BY <1>8 DEF Vectors
<1>10. /\ s \in [1 .. n -> T] /\ s \in Seq(T) /\ Len(s) = n
       /\ \A i, j \in 1 .. n : i < j => <<s[i], s[j]>> \in R
       /\ \A i, j \in 1 .. n : i # j => s[i] # s[j]
  <2>1. s \in [1 .. n -> T] /\ \A i, j \in 1 .. n : i < j => <<s[i], s[j]>> \in R
    BY <1>7 DEF Follows, n
  <2>2. s \in Seq(T) /\ Len(s) = n
    BY <1>2, <2>1
  <2>3. ASSUME NEW i \in 1 .. n, NEW j \in 1 .. n, i # j PROVE s[i] # s[j]
    <3>1. s[i] \in T /\ s[j] \in T /\ (i < j \/ j < i)
      BY <1>2, <2>1, <2>3
    <3> QED
      BY <1>1, <2>1, <3>1 DEF OrdersAll
  <2> QED
    BY <2>1, <2>2, <2>3
<1>11. DOMAIN v = K
  <2>1. k = Min({MaxKept, Len(s)})
    BY <1>10 DEF k
  <2>2. \A i \in 1 .. k : s[i] \in T
    BY <1>2, <1>3, <1>10
  <2>3. /\ Len(SubSeq(s, 1, k)) = IF 1 <= k THEN k - 1 + 1 ELSE 0
        /\ \A i \in 1 .. k - 1 + 1 : SubSeq(s, 1, k)[i] = s[1 + i - 1]
        /\ SubSeq(s, 1, k) \in Seq(T)
    BY <1>2, <1>3, <2>2, SubSeqProperties
  <2>4. DOMAIN SubSeq(s, 1, k) = 1 .. k /\ \A i \in 1 .. k : SubSeq(s, 1, k)[i] = s[i]
    BY <1>2, <1>3, <2>3
  <2>5. ToSet(SubSeq(s, 1, k)) = K
    BY <2>4 DEF ToSet
  <2> HIDE DEF K
  <2> QED
    BY <2>1, <2>5 DEF Vectorize
<1>12. Cardinality(K) = k
  <2> DEFINE g == [i \in 1 .. k |-> s[i]]
  <2>1. \A i \in 1 .. k : i \in 1 .. n
    BY <1>2, <1>3
  <2>2. g \in [1 .. k -> K] /\ \A i, j \in 1 .. k : g[i] = g[j] => i = j
    BY <1>10, <2>1
  <2>3. \A t \in K : \E i \in 1 .. k : g[i] = t
    OBVIOUS
  <2> HIDE DEF g, K
  <2>4. g \in Bijection(1 .. k, K)
    BY <2>2, <2>3 DEF Bijection, Injection, Surjection, IsInjective
  <2>5. ExistsBijection(1 .. k, K) /\ k \in Nat
    BY <1>3, <2>4 DEF ExistsBijection
  <2> QED
    BY <2>5, FS_CountingElements
<1>13. \A t \in T : \E i \in 1 .. n : s[i] = t
  <2>1. s \in Injection(1 .. n, T)
    BY <1>10 DEF Injection, IsInjective
  <2>2. IsFiniteSet(1 .. n) /\ Cardinality(1 .. n) = n
    BY <1>2, FS_Interval
  <2>3. s \in Surjection(1 .. n, T)
    BY <2>1, <2>2, FS_Injection DEF n
  <2> QED
    BY <2>3 DEF Surjection
<1>14. ASSUME NEW x \in K, NEW t \in T \ K PROVE f[x] >= f[t]
  <2>1. PICK i \in 1 .. k : x = s[i]
    OBVIOUS
  <2>2. PICK j \in 1 .. n : t = s[j]
    BY <1>13
  <2>3. ~ (j \in 1 .. k)
    BY <2>2
  <2>4. i \in 1 .. n /\ i < j
    BY <1>2, <1>3, <2>3
  <2>5. <<x, t>> \in R /\ x \in T
    BY <1>10, <2>1, <2>2, <2>4
  <2> QED
    BY <1>5, <2>5
<1> HIDE DEF v, K
<1>15. Cardinality(Vectors(f)) = 1
  BY <1>9, FS_Singleton
<1>16. Cardinality(DOMAIN v) = Min({MaxKept, Cardinality(DOMAIN f)})
  BY <1>2, <1>11, <1>12 DEF k, n
<1> QED
  BY <1>2, <1>9, <1>11, <1>14, <1>15, <1>16 DEF OneVector

------------------------------------------------------------------------------
\* Folds.

\* A set of numbers up to n has a greatest one.
LEMMA GreatestNumber ==
    ASSUME NEW n \in Nat, NEW T \in SUBSET (1 .. n), T # {}
    PROVE  Max(T) \in T /\ \A k \in T : k <= Max(T)
<1> DEFINE U == {n - k : k \in T}
<1>1. U \subseteq Nat /\ U # {}
  <2>1. \A k \in T : k \in 1 .. n
    OBVIOUS
  <2>2. \A k \in T : n - k \in Nat
    BY <2>1
  <2> QED
    BY <2>2
<1>2. PICK l \in U : \A k \in U : l <= k
  <2> HIDE DEF U
  <2> QED
    BY <1>1, LeastNumber
<1>3. PICK m \in T : l = n - m
  OBVIOUS
<1>4. \A k \in T : k <= m
  <2> SUFFICES ASSUME NEW k \in T PROVE k <= m
    OBVIOUS
  <2>1. n - m <= n - k /\ k \in 1 .. n /\ m \in 1 .. n
    BY <1>2, <1>3
  <2> QED
    BY <2>1
<1>5. \E m2 \in T : \A k \in T : m2 >= k
  BY <1>4
<1>6. Max(T) \in T /\ \A k \in T : Max(T) >= k
  BY <1>5 DEF Max
<1> HIDE DEF U
<1>7. SUFFICES ASSUME NEW k \in T PROVE k <= Max(T)
  BY <1>6
<1>8. k \in 1 .. n /\ Max(T) \in 1 .. n /\ Max(T) >= k
  BY <1>6
<1> QED
  BY <1>8

\* g is given for the empty set, and for another one by its greatest number and its value
\* for the rest of them: how the folds over sequences are defined.
SubsetFold(g, m, z, G) ==
    g = [T \in SUBSET (1 .. m) |-> IF T = {} THEN z ELSE G[<<g[T \ {Max(T)}], Max(T)>>]]

\* There is such a function.
LEMMA FoldExists ==
    ASSUME NEW m \in Nat, NEW S, NEW z \in S, NEW G \in [S \X (1 .. m) -> S]
    PROVE  \E g \in [SUBSET (1 .. m) -> S] : SubsetFold(g, m, z, G)
<1> DEFINE N == {k \in 0 .. m : \E g \in [SUBSET (1 .. k) -> S] : SubsetFold(g, k, z, G)}
<1>1. 0 \in N
  <2> DEFINE g == [T \in SUBSET (1 .. 0) |-> z]
  <2>1. 1 .. 0 = {}
    OBVIOUS
  <2>2. g \in [SUBSET (1 .. 0) -> S] /\ SubsetFold(g, 0, z, G)
    BY <2>1 DEF SubsetFold
  <2> QED
    BY <2>2
<1>2. ASSUME NEW k \in 0 .. m - 1, k \in N PROVE k + 1 \in N
  <2>1. PICK g \in [SUBSET (1 .. k) -> S] : SubsetFold(g, k, z, G)
    BY <1>2
  <2> DEFINE h == [T \in SUBSET (1 .. k + 1) |->
                      IF k + 1 \in T THEN G[<<g[T \ {k + 1}], k + 1>>] ELSE g[T]]
  <2>2. \A T \in SUBSET (1 .. k + 1) :
           /\ T \ {k + 1} \in SUBSET (1 .. k)
           /\ k + 1 \notin T => T \in SUBSET (1 .. k)
    OBVIOUS
  <2>3. h \in [SUBSET (1 .. k + 1) -> S]
    <3> SUFFICES ASSUME NEW T \in SUBSET (1 .. k + 1)
                 PROVE  (IF k + 1 \in T THEN G[<<g[T \ {k + 1}], k + 1>>] ELSE g[T]) \in S
      OBVIOUS
    <3>1. k + 1 \in 1 .. m
      OBVIOUS
    <3>2. g[T \ {k + 1}] \in S /\ (k + 1 \notin T => g[T] \in S)
      BY <2>2
    <3> QED
      BY <3>1, <3>2
  <2>4. ASSUME NEW T \in SUBSET (1 .. k + 1)
        PROVE  h[T] = IF T = {} THEN z ELSE G[<<h[T \ {Max(T)}], Max(T)>>]
    <3>1. CASE T = {}
      <4>1. h[T] = g[T] /\ {} \in SUBSET (1 .. k)
        BY <3>1
      <4> QED
        BY <2>1, <3>1, <4>1 DEF SubsetFold
    <3>2. CASE k + 1 \in T
      <4>1. Max(T) \in T /\ \A i \in T : i <= Max(T)
        <5>1. k + 1 \in Nat /\ T # {}
          BY <3>2
        <5> QED
          BY <5>1, GreatestNumber
      <4>2. Max(T) = k + 1
        <5>1. Max(T) \in 1 .. k + 1 /\ k + 1 <= Max(T)
          BY <3>2, <4>1
        <5> QED
          BY <5>1
      <4>3. T \ {k + 1} \in SUBSET (1 .. k + 1) /\ k + 1 \notin T \ {k + 1}
        OBVIOUS
      <4>4. h[T \ {k + 1}] = g[T \ {k + 1}]
        BY <4>3
      <4> QED
        BY <3>2, <4>2, <4>4
    <3>3. CASE T # {} /\ k + 1 \notin T
      <4>1. T \in SUBSET (1 .. k)
        BY <2>2, <3>3
      <4>2. Max(T) \in T
        <5>1. k \in Nat
          OBVIOUS
        <5> QED
          BY <3>3, <4>1, <5>1, GreatestNumber
      <4>3. T \ {Max(T)} \in SUBSET (1 .. k) /\ T \ {Max(T)} \in SUBSET (1 .. k + 1)
            /\ k + 1 \notin T \ {Max(T)}
        BY <3>3, <4>1
      <4>4. h[T] = g[T] /\ h[T \ {Max(T)}] = g[T \ {Max(T)}]
        BY <3>3, <4>3
      <4>5. g[T] = IF T = {} THEN z ELSE G[<<g[T \ {Max(T)}], Max(T)>>]
        BY <2>1, <4>1 DEF SubsetFold
      <4> QED
        BY <4>4, <4>5
    <3> QED
      BY <3>1, <3>2, <3>3
  <2>5. h = [T \in SUBSET (1 .. k + 1) |-> h[T]]
    OBVIOUS
  <2> HIDE DEF h
  <2>6. SubsetFold(h, k + 1, z, G)
    BY <2>4, <2>5 DEF SubsetFold
  <2>7. k + 1 \in 0 .. m
    OBVIOUS
  <2> QED
    BY <2>3, <2>6, <2>7
<1>3. m \in N
  <2>1. m \in 0 .. m
    OBVIOUS
  <2> HIDE DEF N
  <2>2. \A k \in 0 .. m : k \in N
    BY <1>1, <1>2, Upwards
  <2> QED
    BY <2>1, <2>2
<1> QED
  BY <1>3

\* The first numbers: their greatest, and the others.
LEMMA FirstNumbers ==
    ASSUME NEW m \in Nat, NEW k \in 1 .. m
    PROVE  /\ 1 .. k \in SUBSET (1 .. m) /\ 1 .. k # {}
           /\ Max(1 .. k) = k /\ (1 .. k) \ {k} = 1 .. k - 1
<1>1. 1 .. k \in SUBSET (1 .. k) /\ k \in 1 .. k
  OBVIOUS
<1>2. Max(1 .. k) \in 1 .. k /\ \A i \in 1 .. k : i <= Max(1 .. k)
  <2> DEFINE T == 1 .. k
  <2>1. k \in Nat /\ T \in SUBSET (1 .. k) /\ T # {}
    BY <1>1
  <2> HIDE DEF T
  <2>2. Max(T) \in T /\ \A i \in T : i <= Max(T)
    BY <2>1, GreatestNumber
  <2> QED
    BY <2>2 DEF T
<1>3. Max(1 .. k) = k
  BY <1>1, <1>2
<1> QED
  BY <1>1, <1>3

\* A function that is like this as far as its values are in S.
FoldsIn(g, m, S, z, G) ==
    /\ m \in Nat /\ z \in S /\ G \in [S \X (1 .. m) -> S]
    /\ g[{}] = z
    /\ \A T \in SUBSET (1 .. m) : T # {} /\ g[T \ {Max(T)}] \in S =>
           g[T] = G[<<g[T \ {Max(T)}], Max(T)>>]

\* h goes on from one number to the next.
StepsTo(h, m, S, z, G, result) ==
    /\ h \in [0 .. m -> S] /\ h[0] = z /\ result = h[m]
    /\ \A k \in 1 .. m : h[k] = G[<<h[k - 1], k>>]

\* Applied to the first numbers, it goes on from one to the next.
LEMMA FoldSteps ==
    ASSUME NEW m, NEW S, NEW z, NEW G, NEW g, FoldsIn(g, m, S, z, G)
    PROVE  \E h : StepsTo(h, m, S, z, G, g[1 .. m])
<1> DEFINE N == {k \in 0 .. m : g[1 .. k] \in S}
           h == [k \in 0 .. m |-> g[1 .. k]]
<1>0. m \in Nat /\ z \in S /\ G \in [S \X (1 .. m) -> S]
  BY DEF FoldsIn
<1>1. g[1 .. 0] = z
  <2>1. 1 .. 0 = {}
    OBVIOUS
  <2> QED
    BY <2>1 DEF FoldsIn
<1>2. ASSUME NEW k \in 1 .. m, g[1 .. k - 1] \in S
      PROVE  g[1 .. k] = G[<<g[1 .. k - 1], k>>]
  <2>1. /\ 1 .. k \in SUBSET (1 .. m) /\ 1 .. k # {}
        /\ Max(1 .. k) = k /\ (1 .. k) \ {k} = 1 .. k - 1
    BY <1>0, FirstNumbers
  <2> DEFINE T == 1 .. k
  <2>2. g[T \ {Max(T)}] \in S => g[T] = G[<<g[T \ {Max(T)}], Max(T)>>]
    BY <2>1 DEF FoldsIn
  <2> QED
    BY <1>2, <2>1, <2>2
<1>3. \A k \in 0 .. m : k \in N
  <2>1. 0 \in N
    BY <1>0, <1>1
  <2>2. ASSUME NEW k \in 0 .. m - 1, k \in N PROVE k + 1 \in N
    <3>1. k + 1 \in 1 .. m /\ (k + 1) - 1 = k /\ g[1 .. k] \in S /\ k + 1 \in 0 .. m
      BY <1>0, <2>2
    <3>2. g[1 .. k + 1] = G[<<g[1 .. k], k + 1>>]
      BY <1>2, <3>1
    <3>3. g[1 .. k + 1] \in S
      BY <1>0, <3>1, <3>2
    <3> QED
      BY <3>1, <3>3
  <2> HIDE DEF N
  <2> QED
    BY <1>0, <2>1, <2>2, Upwards
<1>4. h \in [0 .. m -> S]
  BY <1>3
<1>5. h[0] = z /\ g[1 .. m] = h[m]
  BY <1>0, <1>1
<1>6. ASSUME NEW k \in 1 .. m PROVE h[k] = G[<<h[k - 1], k>>]
  <2>1. k \in 0 .. m /\ k - 1 \in 0 .. m
    BY <1>0
  <2>2. h[k] = g[1 .. k] /\ h[k - 1] = g[1 .. k - 1] /\ g[1 .. k - 1] \in S
    BY <1>3, <2>1
  <2> HIDE DEF h
  <2> QED
    BY <1>2, <2>2
<1> HIDE DEF h
<1> QED
  BY <1>4, <1>5, <1>6 DEF StepsTo

------------------------------------------------------------------------------
\* The folds of a vector: the words of a text and of a phrase, the tags and the comments.

\* TermBags of terms.
TermBags == UNION {[T -> Nat] : T \in {T \in SUBSET Seq(Characters) : IsFiniteSet(T)}}

\* These are the functions that give a number for each of finitely many terms.
LEMMA BagOf ==
    ASSUME NEW f
    PROVE  f \in TermBags <=> /\ DOMAIN f \in SUBSET Seq(Characters) /\ IsFiniteSet(DOMAIN f)
                          /\ f \in [DOMAIN f -> Nat]
  BY DEF TermBags

\* What a word adds to the frequencies.
WordAdded(f, word, weight) == IF Counts(word) THEN Add(f, Word(word), weight) ELSE f

\* What is folded, and the values on the way.
TextFrom(f, text, weight, n) ==
    /\ f \in TermBags /\ n \in Nat /\ DOMAIN WordsOf(text) = 1 .. n
    /\ \A s \in TermBags : \A k \in 1 .. n : WordAdded(s, WordsOf(text)[k], weight) \in TermBags
TextSteps(h, f, text, weight, n) ==
    /\ h \in [0 .. n -> TermBags] /\ h[0] = f /\ AddWords(f, text, weight) = h[n]
    /\ \A k \in 1 .. n : h[k] = WordAdded(h[k - 1], WordsOf(text)[k], weight)

\* A text adds one word after the other.
LEMMA TextFold ==
    ASSUME NEW f, NEW text, NEW weight, NEW n, TextFrom(f, text, weight, n)
    PROVE  \E h : TextSteps(h, f, text, weight, n)
<1>0. /\ f \in TermBags /\ n \in Nat /\ DOMAIN WordsOf(text) = 1 .. n
      /\ \A s \in TermBags : \A k \in 1 .. n : WordAdded(s, WordsOf(text)[k], weight) \in TermBags
  BY DEF TextFrom
<1> DEFINE Sums(g) == g = [T \in SUBSET (1 .. n) |->
                              IF T = {} THEN f
                              ELSE WordAdded(g[T \ {Max(T)}], WordsOf(text)[Max(T)], weight)]
           G == [p \in TermBags \X (1 .. n) |-> WordAdded(p[1], WordsOf(text)[p[2]], weight)]
           iter == CHOOSE g : Sums(g)
<1>1. AddWords(f, text, weight) = iter[1 .. n]
  BY <1>0 DEF AddWords, WordAdded, FoldLeft, MapThenFoldSet
<1>2. G \in [TermBags \X (1 .. n) -> TermBags]
  BY <1>0
<1>3. \A s \in TermBags, k \in 1 .. n : G[<<s, k>>] = WordAdded(s, WordsOf(text)[k], weight)
  OBVIOUS
<1> HIDE DEF G
<1>4. \E g : Sums(g)
  <2>1. PICK g \in [SUBSET (1 .. n) -> TermBags] : SubsetFold(g, n, f, G)
    <3>1. f \in TermBags
      BY <1>0
    <3> HIDE DEF Sums
    <3> QED
      BY <1>0, <1>2, <3>1, FoldExists
  <2>2. ASSUME NEW T \in SUBSET (1 .. n), T # {}
        PROVE  G[<<g[T \ {Max(T)}], Max(T)>>] = WordAdded(g[T \ {Max(T)}], WordsOf(text)[Max(T)], weight)
    <3>1. Max(T) \in 1 .. n /\ T \ {Max(T)} \in SUBSET (1 .. n)
      BY <1>0, <2>2, GreatestNumber
    <3>2. g[T \ {Max(T)}] \in TermBags
      BY <3>1
    <3> QED
      BY <1>3, <3>1, <3>2
  <2>3. Sums(g)
    BY <2>1, <2>2 DEF SubsetFold
  <2> QED
    BY <2>3
<1>5. Sums(iter)
  <2> HIDE DEF Sums
  <2> QED
    BY <1>4
<1> HIDE DEF iter
<1>6. iter[{}] = f
  BY <1>5
<1>7. ASSUME NEW T \in SUBSET (1 .. n), T # {}, iter[T \ {Max(T)}] \in TermBags
      PROVE  iter[T] = G[<<iter[T \ {Max(T)}], Max(T)>>]
  <2>1. Max(T) \in 1 .. n
    BY <1>0, <1>7, GreatestNumber
  <2>2. iter[T] = WordAdded(iter[T \ {Max(T)}], WordsOf(text)[Max(T)], weight)
    BY <1>5, <1>7
  <2> QED
    BY <1>3, <1>7, <2>1, <2>2
<1>8. PICK h : StepsTo(h, n, TermBags, f, G, iter[1 .. n])
  <2>1. f \in TermBags
    BY <1>0
  <2> HIDE DEF Sums
  <2>2. FoldsIn(iter, n, TermBags, f, G)
    BY <1>0, <1>2, <1>6, <1>7, <2>1 DEF FoldsIn
  <2> QED
    BY <2>2, FoldSteps
<1>9. h \in [0 .. n -> TermBags] /\ h[0] = f /\ AddWords(f, text, weight) = h[n]
  BY <1>1, <1>8 DEF StepsTo
<1>10. ASSUME NEW k \in 1 .. n PROVE h[k] = WordAdded(h[k - 1], WordsOf(text)[k], weight)
  <2>1. h[k] = G[<<h[k - 1], k>>]
    BY <1>8 DEF StepsTo
  <2>2. h[k - 1] \in TermBags
    BY <1>0, <1>9
  <2> QED
    BY <1>3, <2>1, <2>2
<1> QED
  BY <1>9, <1>10 DEF TextSteps

\* A word behind a phrase.
WordJoined(text, word) == IF text = <<>> THEN word ELSE text \o <<Space>> \o word

\* What is folded, and the values on the way.
PhraseFrom(words, n) ==
    /\ n \in Nat /\ DOMAIN words = 1 .. n
    /\ \A s \in Seq(Characters) : \A k \in 1 .. n : WordJoined(s, words[k]) \in Seq(Characters)
PhraseSteps(h, words, n) ==
    /\ h \in [0 .. n -> Seq(Characters)] /\ h[0] = <<>> /\ Joined(words) = h[n]
    /\ \A k \in 1 .. n : h[k] = WordJoined(h[k - 1], words[k])

\* A phrase is made of one word after the other.
LEMMA PhraseFold ==
    ASSUME NEW words, NEW n, PhraseFrom(words, n)
    PROVE  \E h : PhraseSteps(h, words, n)
<1>0. /\ n \in Nat /\ DOMAIN words = 1 .. n
      /\ \A s \in Seq(Characters) : \A k \in 1 .. n : WordJoined(s, words[k]) \in Seq(Characters)
  BY DEF PhraseFrom
<1> DEFINE Sums(g) == g = [T \in SUBSET (1 .. n) |->
                              IF T = {} THEN <<>>
                              ELSE WordJoined(g[T \ {Max(T)}], words[Max(T)])]
           G == [p \in Seq(Characters) \X (1 .. n) |-> WordJoined(p[1], words[p[2]])]
           iter == CHOOSE g : Sums(g)
<1>1. Joined(words) = iter[1 .. n]
  BY <1>0 DEF Joined, WordJoined, FoldLeft, MapThenFoldSet
<1>2. G \in [Seq(Characters) \X (1 .. n) -> Seq(Characters)]
  BY <1>0
<1>3. \A s \in Seq(Characters), k \in 1 .. n : G[<<s, k>>] = WordJoined(s, words[k])
  OBVIOUS
<1> HIDE DEF G
<1>4. \E g : Sums(g)
  <2>1. PICK g \in [SUBSET (1 .. n) -> Seq(Characters)] : SubsetFold(g, n, <<>>, G)
    <3>1. <<>> \in Seq(Characters)
      BY <1>0
    <3> HIDE DEF Sums
    <3> QED
      BY <1>0, <1>2, <3>1, FoldExists
  <2>2. ASSUME NEW T \in SUBSET (1 .. n), T # {}
        PROVE  G[<<g[T \ {Max(T)}], Max(T)>>] = WordJoined(g[T \ {Max(T)}], words[Max(T)])
    <3>1. Max(T) \in 1 .. n /\ T \ {Max(T)} \in SUBSET (1 .. n)
      BY <1>0, <2>2, GreatestNumber
    <3>2. g[T \ {Max(T)}] \in Seq(Characters)
      BY <3>1
    <3> QED
      BY <1>3, <3>1, <3>2
  <2>3. Sums(g)
    BY <2>1, <2>2 DEF SubsetFold
  <2> QED
    BY <2>3
<1>5. Sums(iter)
  <2> HIDE DEF Sums
  <2> QED
    BY <1>4
<1> HIDE DEF iter
<1>6. iter[{}] = <<>>
  BY <1>5
<1>7. ASSUME NEW T \in SUBSET (1 .. n), T # {}, iter[T \ {Max(T)}] \in Seq(Characters)
      PROVE  iter[T] = G[<<iter[T \ {Max(T)}], Max(T)>>]
  <2>1. Max(T) \in 1 .. n
    BY <1>0, <1>7, GreatestNumber
  <2>2. iter[T] = WordJoined(iter[T \ {Max(T)}], words[Max(T)])
    BY <1>5, <1>7
  <2> QED
    BY <1>3, <1>7, <2>1, <2>2
<1>8. PICK h : StepsTo(h, n, Seq(Characters), <<>>, G, iter[1 .. n])
  <2>1. <<>> \in Seq(Characters)
    BY <1>0
  <2> HIDE DEF Sums
  <2>2. FoldsIn(iter, n, Seq(Characters), <<>>, G)
    BY <1>0, <1>2, <1>6, <1>7, <2>1 DEF FoldsIn
  <2> QED
    BY <2>2, FoldSteps
<1>9. h \in [0 .. n -> Seq(Characters)] /\ h[0] = <<>> /\ Joined(words) = h[n]
  BY <1>1, <1>8 DEF StepsTo
<1>10. ASSUME NEW k \in 1 .. n PROVE h[k] = WordJoined(h[k - 1], words[k])
  <2>1. h[k] = G[<<h[k - 1], k>>]
    BY <1>8 DEF StepsTo
  <2>2. h[k - 1] \in Seq(Characters)
    BY <1>0, <1>9
  <2> QED
    BY <1>3, <2>1, <2>2
<1> QED
  BY <1>9, <1>10 DEF PhraseSteps

\* What the tags and the comments add to the frequencies.
TagsAdded(f, tags) == FoldLeft(AddTag, f, tags)
CommentsAdded(f, comments) == FoldLeft(LAMBDA g, comment : AddWords(g, comment, 1), f, comments)

\* What is folded, and the values on the way.
TagsFrom(f, tags, n) ==
    /\ f \in TermBags /\ n \in Nat /\ DOMAIN tags = 1 .. n
    /\ \A s \in TermBags : \A k \in 1 .. n : AddTag(s, tags[k]) \in TermBags
TagsSteps(h, f, tags, n) ==
    /\ h \in [0 .. n -> TermBags] /\ h[0] = f /\ TagsAdded(f, tags) = h[n]
    /\ \A k \in 1 .. n : h[k] = AddTag(h[k - 1], tags[k])

\* The tags are added one after the other.
LEMMA TagsFold ==
    ASSUME NEW f, NEW tags, NEW n, TagsFrom(f, tags, n)
    PROVE  \E h : TagsSteps(h, f, tags, n)
<1>0. /\ f \in TermBags /\ n \in Nat /\ DOMAIN tags = 1 .. n
      /\ \A s \in TermBags : \A k \in 1 .. n : AddTag(s, tags[k]) \in TermBags
  BY DEF TagsFrom
<1> DEFINE Sums(g) == g = [T \in SUBSET (1 .. n) |->
                              IF T = {} THEN f
                              ELSE AddTag(g[T \ {Max(T)}], tags[Max(T)])]
           G == [p \in TermBags \X (1 .. n) |-> AddTag(p[1], tags[p[2]])]
           iter == CHOOSE g : Sums(g)
<1>1. TagsAdded(f, tags) = iter[1 .. n]
  BY <1>0 DEF TagsAdded, FoldLeft, MapThenFoldSet
<1>2. G \in [TermBags \X (1 .. n) -> TermBags]
  BY <1>0
<1>3. \A s \in TermBags, k \in 1 .. n : G[<<s, k>>] = AddTag(s, tags[k])
  OBVIOUS
<1> HIDE DEF G
<1>4. \E g : Sums(g)
  <2>1. PICK g \in [SUBSET (1 .. n) -> TermBags] : SubsetFold(g, n, f, G)
    <3>1. f \in TermBags
      BY <1>0
    <3> HIDE DEF Sums
    <3> QED
      BY <1>0, <1>2, <3>1, FoldExists
  <2>2. ASSUME NEW T \in SUBSET (1 .. n), T # {}
        PROVE  G[<<g[T \ {Max(T)}], Max(T)>>] = AddTag(g[T \ {Max(T)}], tags[Max(T)])
    <3>1. Max(T) \in 1 .. n /\ T \ {Max(T)} \in SUBSET (1 .. n)
      BY <1>0, <2>2, GreatestNumber
    <3>2. g[T \ {Max(T)}] \in TermBags
      BY <3>1
    <3> QED
      BY <1>3, <3>1, <3>2
  <2>3. Sums(g)
    BY <2>1, <2>2 DEF SubsetFold
  <2> QED
    BY <2>3
<1>5. Sums(iter)
  <2> HIDE DEF Sums
  <2> QED
    BY <1>4
<1> HIDE DEF iter
<1>6. iter[{}] = f
  BY <1>5
<1>7. ASSUME NEW T \in SUBSET (1 .. n), T # {}, iter[T \ {Max(T)}] \in TermBags
      PROVE  iter[T] = G[<<iter[T \ {Max(T)}], Max(T)>>]
  <2>1. Max(T) \in 1 .. n
    BY <1>0, <1>7, GreatestNumber
  <2>2. iter[T] = AddTag(iter[T \ {Max(T)}], tags[Max(T)])
    BY <1>5, <1>7
  <2> QED
    BY <1>3, <1>7, <2>1, <2>2
<1>8. PICK h : StepsTo(h, n, TermBags, f, G, iter[1 .. n])
  <2>1. f \in TermBags
    BY <1>0
  <2> HIDE DEF Sums
  <2>2. FoldsIn(iter, n, TermBags, f, G)
    BY <1>0, <1>2, <1>6, <1>7, <2>1 DEF FoldsIn
  <2> QED
    BY <2>2, FoldSteps
<1>9. h \in [0 .. n -> TermBags] /\ h[0] = f /\ TagsAdded(f, tags) = h[n]
  BY <1>1, <1>8 DEF StepsTo
<1>10. ASSUME NEW k \in 1 .. n PROVE h[k] = AddTag(h[k - 1], tags[k])
  <2>1. h[k] = G[<<h[k - 1], k>>]
    BY <1>8 DEF StepsTo
  <2>2. h[k - 1] \in TermBags
    BY <1>0, <1>9
  <2> QED
    BY <1>3, <2>1, <2>2
<1> QED
  BY <1>9, <1>10 DEF TagsSteps

\* What is folded, and the values on the way.
CommentsFrom(f, comments, n) ==
    /\ f \in TermBags /\ n \in Nat /\ DOMAIN comments = 1 .. n
    /\ \A s \in TermBags : \A k \in 1 .. n : AddWords(s, comments[k], 1) \in TermBags
CommentsSteps(h, f, comments, n) ==
    /\ h \in [0 .. n -> TermBags] /\ h[0] = f /\ CommentsAdded(f, comments) = h[n]
    /\ \A k \in 1 .. n : h[k] = AddWords(h[k - 1], comments[k], 1)

\* The comments are added one after the other.
LEMMA CommentsFold ==
    ASSUME NEW f, NEW comments, NEW n, CommentsFrom(f, comments, n)
    PROVE  \E h : CommentsSteps(h, f, comments, n)
<1>0. /\ f \in TermBags /\ n \in Nat /\ DOMAIN comments = 1 .. n
      /\ \A s \in TermBags : \A k \in 1 .. n : AddWords(s, comments[k], 1) \in TermBags
  BY DEF CommentsFrom
<1> DEFINE Sums(g) == g = [T \in SUBSET (1 .. n) |->
                              IF T = {} THEN f
                              ELSE AddWords(g[T \ {Max(T)}], comments[Max(T)], 1)]
           G == [p \in TermBags \X (1 .. n) |-> AddWords(p[1], comments[p[2]], 1)]
           iter == CHOOSE g : Sums(g)
<1>1. CommentsAdded(f, comments) = iter[1 .. n]
  BY <1>0 DEF CommentsAdded, FoldLeft, MapThenFoldSet
<1>2. G \in [TermBags \X (1 .. n) -> TermBags]
  BY <1>0
<1>3. \A s \in TermBags, k \in 1 .. n : G[<<s, k>>] = AddWords(s, comments[k], 1)
  OBVIOUS
<1> HIDE DEF G
<1>4. \E g : Sums(g)
  <2>1. PICK g \in [SUBSET (1 .. n) -> TermBags] : SubsetFold(g, n, f, G)
    <3>1. f \in TermBags
      BY <1>0
    <3> HIDE DEF Sums
    <3> QED
      BY <1>0, <1>2, <3>1, FoldExists
  <2>2. ASSUME NEW T \in SUBSET (1 .. n), T # {}
        PROVE  G[<<g[T \ {Max(T)}], Max(T)>>] = AddWords(g[T \ {Max(T)}], comments[Max(T)], 1)
    <3>1. Max(T) \in 1 .. n /\ T \ {Max(T)} \in SUBSET (1 .. n)
      BY <1>0, <2>2, GreatestNumber
    <3>2. g[T \ {Max(T)}] \in TermBags
      BY <3>1
    <3> QED
      BY <1>3, <3>1, <3>2
  <2>3. Sums(g)
    BY <2>1, <2>2 DEF SubsetFold
  <2> QED
    BY <2>3
<1>5. Sums(iter)
  <2> HIDE DEF Sums
  <2> QED
    BY <1>4
<1> HIDE DEF iter
<1>6. iter[{}] = f
  BY <1>5
<1>7. ASSUME NEW T \in SUBSET (1 .. n), T # {}, iter[T \ {Max(T)}] \in TermBags
      PROVE  iter[T] = G[<<iter[T \ {Max(T)}], Max(T)>>]
  <2>1. Max(T) \in 1 .. n
    BY <1>0, <1>7, GreatestNumber
  <2>2. iter[T] = AddWords(iter[T \ {Max(T)}], comments[Max(T)], 1)
    BY <1>5, <1>7
  <2> QED
    BY <1>3, <1>7, <2>1, <2>2
<1>8. PICK h : StepsTo(h, n, TermBags, f, G, iter[1 .. n])
  <2>1. f \in TermBags
    BY <1>0
  <2> HIDE DEF Sums
  <2>2. FoldsIn(iter, n, TermBags, f, G)
    BY <1>0, <1>2, <1>6, <1>7, <2>1 DEF FoldsIn
  <2> QED
    BY <2>2, FoldSteps
<1>9. h \in [0 .. n -> TermBags] /\ h[0] = f /\ CommentsAdded(f, comments) = h[n]
  BY <1>1, <1>8 DEF StepsTo
<1>10. ASSUME NEW k \in 1 .. n PROVE h[k] = AddWords(h[k - 1], comments[k], 1)
  <2>1. h[k] = G[<<h[k - 1], k>>]
    BY <1>8 DEF StepsTo
  <2>2. h[k - 1] \in TermBags
    BY <1>0, <1>9
  <2> QED
    BY <1>3, <2>1, <2>2
<1> QED
  BY <1>9, <1>10 DEF CommentsSteps

------------------------------------------------------------------------------
\* Words.

\* The least of a set of numbers.
LEMMA Least ==
    ASSUME NEW T \in SUBSET Nat, T # {}
    PROVE  Min(T) \in T /\ \A k \in T : Min(T) <= k
<1>1. \E n \in T : \A k \in T : n <= k
  BY LeastNumber
<1> QED
  BY <1>1 DEF Min

\* The numbers of a set in their order.
LEMMA Ascends ==
    ASSUME NEW m \in Nat, NEW S \in SUBSET (1 .. m)
    PROVE  /\ Cardinality(S) \in Nat
           /\ Ascending(S) \in [1 .. Cardinality(S) -> S]
           /\ \A i, j \in 1 .. Cardinality(S) : i < j => Ascending(S)[i] < Ascending(S)[j]
<1> DEFINE R == {p \in S \X S : p[1] < p[2]}
           Rising(s) == \A i, j \in DOMAIN s : i < j => s[i] < s[j]
<1>1. IsFiniteSet(S) /\ Cardinality(S) \in Nat
  <2>1. IsFiniteSet(1 .. m)
    BY FS_Interval
  <2> QED
    BY <2>1, FS_Subset, FS_CardinalityType
<1>2. \A i \in S : i \in Nat
  OBVIOUS
<1>3. \A i, j \in S : <<i, j>> \in R <=> i < j
  OBVIOUS
<1> HIDE DEF R
<1>4. OrdersAll(R, S)
  BY <1>2, <1>3 DEF OrdersAll
<1>5. PICK s : Follows(s, R, S)
  BY <1>1, <1>4, OneFollows
<1>6. s \in [1 .. Cardinality(S) -> S] /\ Rising(s)
  <2>1. /\ s \in [1 .. Cardinality(S) -> S]
        /\ \A i, j \in 1 .. Cardinality(S) : i < j => <<s[i], s[j]>> \in R
    BY <1>5 DEF Follows
  <2>2. ASSUME NEW i \in 1 .. Cardinality(S), NEW j \in 1 .. Cardinality(S), i < j
        PROVE  s[i] < s[j]
    BY <1>3, <2>1, <2>2
  <2> QED
    BY <2>1, <2>2
<1>7. Ascending(S) \in [1 .. Cardinality(S) -> S] /\ Rising(Ascending(S))
  BY <1>6 DEF Ascending
<1> QED
  BY <1>1, <1>7

\* A text in lower case is a text of the same length.
LEMMA LowerIs ==
    ASSUME NEW text \in Seq(Characters)
    PROVE  Lowered(text) \in Seq(Characters) /\ Len(Lowered(text)) = Len(text)
<1>1. \A c \in Characters : LowerCase[c] \in Characters
  BY AlphabetAssumption
<1> QED
  BY <1>1 DEF Lowered

\* The words of a text stand from first to last, with something in between.
Runs(text, n, first, last) ==
    /\ n \in Nat
    /\ first \in [1 .. n -> 1 .. Len(text)] /\ last \in [1 .. n -> 1 .. Len(text)]
    /\ WordsOf(text) = [k \in 1 .. n |-> SubSeq(Lowered(text), first[k], last[k])]
    /\ \A k \in 1 .. n : first[k] <= last[k]
    /\ \A k \in 1 .. n - 1 : last[k] + 2 <= first[k + 1]

\* Words are the runs of letters.
LEMMA WordsAreRuns ==
    ASSUME NEW text \in Seq(Characters)
    PROVE  \E n, first, last : Runs(text, n, first, last)
<1> DEFINE low == Lowered(text)
           letter(i) == i \in DOMAIN low /\ low[i] \in Letters
           starts == {i \in DOMAIN low : letter(i) /\ ~ letter(i - 1)}
           ends(i) == {j \in i .. Len(low) : ~ letter(j + 1)}
           word(i) == SubSeq(low, i, Min(ends(i)))
           n == Cardinality(starts)
           first == Ascending(starts)
           last == [k \in 1 .. n |-> Min(ends(first[k]))]
           m == Len(text)
<1>1. WordsOf(text) = [k \in DOMAIN first |-> word(first[k])]
  BY DEF WordsOf, Lowered
<1>2. m \in Nat /\ Len(low) = m /\ DOMAIN low = 1 .. m
  BY LowerIs
<1> HIDE DEF low, m
<1>3. starts \in SUBSET (1 .. m) /\ \A i \in starts : letter(i) /\ ~ letter(i - 1)
  BY <1>2
<1>4. \A i : letter(i) => i \in 1 .. m
  BY <1>2
<1> HIDE DEF letter
<1> HIDE DEF starts
<1>5. /\ n \in Nat /\ first \in [1 .. n -> starts]
      /\ \A i, j \in 1 .. n : i < j => first[i] < first[j]
  BY <1>2, <1>3, Ascends
<1> HIDE DEF first, n
<1>6. ASSUME NEW k \in 1 .. n
      PROVE  /\ first[k] \in 1 .. m /\ last[k] \in first[k] .. m /\ ~ letter(last[k] + 1)
             /\ \A j \in first[k] .. last[k] : letter(j)
  <2> DEFINE i == first[k]
             l == Min(ends(i))
  <2>1. i \in 1 .. m /\ letter(i)
    BY <1>3, <1>5
  <2>2. last[k] = l
    OBVIOUS
  <2> HIDE DEF i
  <2>3. ends(i) \in SUBSET Nat /\ m \in ends(i)
    <3>1. ~ letter(m + 1)
      BY <1>2, <1>4
    <3> QED
      BY <1>2, <2>1, <3>1
  <2>4. l \in ends(i) /\ \A j \in ends(i) : l <= j
    <3> HIDE DEF ends
    <3> QED
      BY <2>3, Least
  <2> HIDE DEF l
  <2>5. l \in i .. m /\ ~ letter(l + 1)
    BY <1>2, <2>4
  <2>6. ASSUME NEW j \in i .. l PROVE letter(j)
    <3>1. CASE j = i
      BY <2>1, <3>1
    <3>2. CASE j # i
      <4>1. j - 1 \in i .. m /\ ~ (l <= j - 1) /\ (j - 1) + 1 = j
        <5>1. i \in Nat /\ l \in Nat /\ m \in Nat /\ l <= m /\ j \in i .. l
          BY <1>2, <2>1, <2>5
        <5> QED
          BY <3>2, <5>1
      <4>2. j - 1 \notin ends(i)
        BY <2>4, <4>1
      <4> QED
        BY <1>2, <4>1, <4>2
    <3> QED
      BY <3>1, <3>2
  <2> HIDE DEF last
  <2> QED
    BY <2>1, <2>2, <2>5, <2>6 DEF i
<1>7. first \in [1 .. n -> 1 .. m] /\ last \in [1 .. n -> 1 .. m]
  <2>1. \A k \in 1 .. n : first[k] \in 1 .. m /\ last[k] \in 1 .. m
    BY <1>2, <1>6
  <2>2. first = [k \in 1 .. n |-> first[k]]
    BY <1>5
  <2>3. last = [k \in 1 .. n |-> last[k]]
    OBVIOUS
  <2> HIDE DEF last
  <2> QED
    BY <2>1, <2>2, <2>3
<1>8. WordsOf(text) = [k \in 1 .. n |-> SubSeq(low, first[k], last[k])]
  BY <1>1, <1>5
<1> HIDE DEF last, ends
<1>9. ASSUME NEW k \in 1 .. n - 1 PROVE last[k] + 2 <= first[k + 1]
  <2>1. k \in 1 .. n /\ k + 1 \in 1 .. n /\ k < k + 1
    BY <1>5
  <2>2. /\ first[k] < first[k + 1] /\ letter(first[k + 1]) /\ ~ letter(first[k + 1] - 1)
    BY <1>3, <1>5, <2>1
  <2>3. /\ first[k] \in 1 .. m /\ last[k] \in first[k] .. m /\ first[k + 1] \in 1 .. m
    BY <1>6, <2>1
  <2>4. first[k + 1] # last[k] + 1
    BY <1>6, <2>1, <2>2
  <2>5. ~ (first[k + 1] <= last[k])
    <3> SUFFICES ASSUME first[k + 1] <= last[k] PROVE FALSE
      OBVIOUS
    <3>1. first[k + 1] - 1 \in first[k] .. last[k]
      BY <1>2, <2>2, <2>3
    <3> QED
      BY <1>6, <2>1, <2>2, <3>1
  <2> QED
    BY <1>2, <2>3, <2>4, <2>5
<1>10. \A k \in 1 .. n : first[k] <= last[k]
  <2> SUFFICES ASSUME NEW k \in 1 .. n PROVE first[k] <= last[k]
    OBVIOUS
  <2> QED
    BY <1>2, <1>6
<1>11. Runs(text, n, first, last)
  BY <1>5, <1>7, <1>8, <1>9, <1>10 DEF Runs, m, low
<1> QED
  BY <1>11

\* They are texts, and none of them is empty.
LEMMA WordsAre ==
    ASSUME NEW text \in Seq(Characters)
    PROVE  /\ WordsOf(text) \in Seq(Seq(Characters))
           /\ \A k \in DOMAIN WordsOf(text) : WordsOf(text)[k] # <<>>
<1>1. PICK n, first, last : Runs(text, n, first, last)
  BY WordsAreRuns
<1> DEFINE low == Lowered(text)
           w == WordsOf(text)
<1>2. low \in Seq(Characters) /\ Len(low) = Len(text) /\ Len(text) \in Nat
  BY LowerIs
<1>3. n \in Nat /\ w = [k \in 1 .. n |-> SubSeq(low, first[k], last[k])]
  BY <1>1 DEF Runs
<1>4. ASSUME NEW k \in 1 .. n
      PROVE  first[k] \in 1 .. Len(low) /\ last[k] \in 1 .. Len(low) /\ first[k] <= last[k]
  BY <1>1, <1>2 DEF Runs
<1> HIDE DEF low, w
<1>5. ASSUME NEW k \in 1 .. n
      PROVE  SubSeq(low, first[k], last[k]) \in Seq(Characters)
             /\ SubSeq(low, first[k], last[k]) # <<>>
  <2> DEFINE i == first[k]
             l == last[k]
  <2>1. i \in 1 .. Len(low) /\ l \in 1 .. Len(low) /\ i <= l
    BY <1>4
  <2> HIDE DEF i, l
  <2>2. \A j \in i .. l : low[j] \in Characters
    BY <1>2, <2>1
  <2>3. SubSeq(low, i, l) \in Seq(Characters) /\ Len(SubSeq(low, i, l)) = l - i + 1
    BY <1>2, <2>1, <2>2, SubSeqProperties
  <2>4. Len(SubSeq(low, i, l)) # 0 /\ Len(<<>>) = 0
    BY <1>2, <2>1, <2>3
  <2>5. SubSeq(low, i, l) # <<>>
    BY <2>4
  <2> QED
    BY <2>3, <2>5 DEF i, l
<1> QED
  BY <1>3, <1>5 DEF w

------------------------------------------------------------------------------
\* What the words of a text add.

\* Words and phrases have terms.
LEMMA TermsAre ==
    ASSUME NEW word \in Seq(Characters)
    PROVE  Word(word) \in Seq(Characters) /\ Phrase(word) \in Seq(Characters)
<1>1. {"w", "t", ":"} \subseteq Characters
  BY AlphabetAssumption
<1>2. <<"w", ":">> \in Seq(Characters) /\ <<"t", ":">> \in Seq(Characters)
  BY <1>1
<1> QED
  BY <1>2 DEF Word, Phrase

\* A value is a number.
LEMMA ValueIs ==
    ASSUME NEW f \in TermBags, NEW t
    PROVE  Value(f, t) \in Nat
  BY BagOf DEF Value

\* What a term adds.
LEMMA Adds ==
    ASSUME NEW f \in TermBags, NEW term \in Seq(Characters), NEW weight \in Nat
    PROVE  /\ Add(f, term, weight) \in TermBags
           /\ DOMAIN Add(f, term, weight) = DOMAIN f \cup {term}
           /\ \A t : Value(Add(f, term, weight), t) =
                         Value(f, t) + IF t = term THEN weight ELSE 0
<1> DEFINE g == Add(f, term, weight)
<1>1. DOMAIN f \in SUBSET Seq(Characters) /\ IsFiniteSet(DOMAIN f)
  BY BagOf
<1>2. \A t : Value(f, t) \in Nat
  BY ValueIs
<1>3. DOMAIN g = DOMAIN f \cup {term}
  BY DEF Add
<1>4. \A t \in DOMAIN g : g[t] = Value(f, t) + IF t = term THEN weight ELSE 0
  BY DEF Add
<1>5. g = [t \in DOMAIN g |-> g[t]]
  BY DEF Add
<1>6. IsFiniteSet(DOMAIN g)
  BY <1>1, <1>3, FS_AddElement
<1> HIDE DEF g
<1>7. \A t \in DOMAIN g : g[t] \in Nat
  BY <1>2, <1>4
<1>8. g \in TermBags
  <2>1. g \in [DOMAIN g -> Nat]
    BY <1>5, <1>7
  <2>2. DOMAIN g \in SUBSET Seq(Characters)
    BY <1>1, <1>3
  <2> QED
    BY <1>6, <2>1, <2>2, BagOf
<1>9. ASSUME NEW t PROVE Value(g, t) = Value(f, t) + IF t = term THEN weight ELSE 0
  <2>1. CASE t \in DOMAIN g
    BY <1>4, <2>1 DEF Value
  <2>2. CASE t \notin DOMAIN g
    BY <1>3, <2>2 DEF Value
  <2> QED
    BY <2>1, <2>2
<1> QED
  BY <1>3, <1>8, <1>9 DEF g

\* What a word adds.
LEMMA WordAdds ==
    ASSUME NEW f \in TermBags, NEW word \in Seq(Characters), NEW weight \in Nat
    PROVE  /\ WordAdded(f, word, weight) \in TermBags
           /\ DOMAIN WordAdded(f, word, weight) =
                  DOMAIN f \cup IF Counts(word) THEN {Word(word)} ELSE {}
           /\ \A t : Value(WordAdded(f, word, weight), t) =
                  Value(f, t) + IF Counts(word) /\ t = Word(word) THEN weight ELSE 0
<1>1. Word(word) \in Seq(Characters)
  BY TermsAre
<1>2. \A t : Value(f, t) \in Nat
  BY ValueIs
<1>3. CASE Counts(word)
  <2> DEFINE term == Word(word)
             g == Add(f, term, weight)
  <2>1. WordAdded(f, word, weight) = g
    BY <1>3 DEF WordAdded
  <2>2. /\ g \in TermBags /\ DOMAIN g = DOMAIN f \cup {term}
        /\ \A t : Value(g, t) = Value(f, t) + IF t = term THEN weight ELSE 0
    <3> HIDE DEF term
    <3> QED
      BY <1>1, Adds DEF term
  <2> HIDE DEF g, term
  <2> QED
    BY <1>3, <2>1, <2>2 DEF term
<1>4. CASE ~ Counts(word)
  <2>1. WordAdded(f, word, weight) = f
    BY <1>4 DEF WordAdded
  <2> QED
    BY <1>2, <1>4, <2>1
<1> QED
  BY <1>3, <1>4

\* A vector begins with no terms.
Nothing == [t \in {} |-> 0]

\* It is a bag in which every term counts 0.
LEMMA NothingIs == Nothing \in TermBags /\ DOMAIN Nothing = {} /\ \A t : Value(Nothing, t) = 0
<1>1. IsFiniteSet({}) /\ DOMAIN Nothing = {} /\ Nothing \in [{} -> Nat]
  BY FS_EmptySet DEF Nothing
<1> QED
  BY <1>1, BagOf DEF Value

\* The terms of the words of a text that count.
Terms(text) ==
    LET w == WordsOf(text) IN {Word(w[k]) : k \in {k \in DOMAIN w : Counts(w[k])}}

\* What the words of a text add: a bag, the same one whatever it is added to.
LEMMA TextAdds ==
    ASSUME NEW f \in TermBags, NEW text \in Seq(Characters), NEW weight \in Nat
    PROVE  /\ AddWords(f, text, weight) \in TermBags
           /\ DOMAIN AddWords(f, text, weight) = DOMAIN f \cup Terms(text)
           /\ \A t : Value(AddWords(f, text, weight), t) =
                         Value(f, t) + Value(AddWords(Nothing, text, weight), t)
<1> DEFINE w == WordsOf(text)
           n == Len(w)
<1>1. w \in Seq(Seq(Characters))
  BY WordsAre
<1>2. n \in Nat /\ DOMAIN w = 1 .. n /\ \A k \in 1 .. n : w[k] \in Seq(Characters)
  <2> HIDE DEF w
  <2> QED
    BY <1>1
<1>3. Nothing \in TermBags /\ DOMAIN Nothing = {} /\ \A t : Value(Nothing, t) = 0
  BY NothingIs
<1> HIDE DEF w, n
<1>4. \A g \in TermBags : \A k \in 1 .. n : WordAdded(g, w[k], weight) \in TermBags
  BY <1>2, WordAdds
<1>5. PICK h : TextSteps(h, f, text, weight, n)
  <2>1. TextFrom(f, text, weight, n)
    BY <1>2, <1>4 DEF TextFrom, w
  <2> QED
    BY <2>1, TextFold
<1>6. PICK e : TextSteps(e, Nothing, text, weight, n)
  <2>1. TextFrom(Nothing, text, weight, n)
    BY <1>2, <1>3, <1>4 DEF TextFrom, w
  <2> QED
    BY <2>1, TextFold
<1>7. /\ h \in [0 .. n -> TermBags] /\ h[0] = f /\ AddWords(f, text, weight) = h[n]
      /\ \A k \in 1 .. n : h[k] = WordAdded(h[k - 1], w[k], weight)
  BY <1>5 DEF TextSteps, w
<1>8. /\ e \in [0 .. n -> TermBags] /\ e[0] = Nothing /\ AddWords(Nothing, text, weight) = e[n]
      /\ \A k \in 1 .. n : e[k] = WordAdded(e[k - 1], w[k], weight)
  BY <1>6 DEF TextSteps, w
<1> DEFINE To(k) == {Word(w[j]) : j \in {j \in 1 .. k : Counts(w[j])}}
           N == {k \in 0 .. n : /\ DOMAIN h[k] = DOMAIN f \cup To(k)
                                /\ \A t : Value(h[k], t) = Value(f, t) + Value(e[k], t)}
<1>9. 0 \in N
  <2>1. To(0) = {}
    OBVIOUS
  <2>2. \A t : Value(f, t) \in Nat
    BY ValueIs
  <2> HIDE DEF To
  <2> QED
    BY <1>2, <1>3, <1>7, <1>8, <2>1, <2>2
<1>10. ASSUME NEW k \in 0 .. n - 1, k \in N PROVE k + 1 \in N
  <2> DEFINE word == w[k + 1]
             g == h[k]
             d == e[k]
  <2>1. k \in 0 .. n /\ k + 1 \in 1 .. n /\ (k + 1) - 1 = k /\ k + 1 \in 0 .. n
    BY <1>2
  <2>2. word \in Seq(Characters) /\ g \in TermBags /\ d \in TermBags
    BY <1>2, <1>7, <1>8, <2>1
  <2>3. h[k + 1] = WordAdded(g, word, weight) /\ e[k + 1] = WordAdded(d, word, weight)
    BY <1>7, <1>8, <2>1
  <2>4. /\ DOMAIN g = DOMAIN f \cup To(k)
        /\ \A t : Value(g, t) = Value(f, t) + Value(d, t)
    BY <1>10
  <2>5. To(k + 1) = To(k) \cup IF Counts(word) THEN {Word(word)} ELSE {}
    <3>1. \A j : j \in 1 .. k + 1 <=> j \in 1 .. k \/ j = k + 1
      BY <2>1
    <3> QED
      BY <3>1
  <2> HIDE DEF To, g, d, word
  <2>6. /\ DOMAIN WordAdded(g, word, weight) =
               DOMAIN g \cup IF Counts(word) THEN {Word(word)} ELSE {}
        /\ \A t : Value(WordAdded(g, word, weight), t) =
                      Value(g, t) + IF Counts(word) /\ t = Word(word) THEN weight ELSE 0
    BY <2>2, WordAdds
  <2>7. \A t : Value(WordAdded(d, word, weight), t) =
                    Value(d, t) + IF Counts(word) /\ t = Word(word) THEN weight ELSE 0
    BY <2>2, WordAdds
  <2>8. /\ DOMAIN h[k + 1] = DOMAIN g \cup IF Counts(word) THEN {Word(word)} ELSE {}
        /\ \A t : Value(h[k + 1], t) =
                      Value(g, t) + IF Counts(word) /\ t = Word(word) THEN weight ELSE 0
    BY <2>3, <2>6
  <2>9. \A t : Value(e[k + 1], t) =
                   Value(d, t) + IF Counts(word) /\ t = Word(word) THEN weight ELSE 0
    BY <2>3, <2>7
  <2>10. \A t : Value(f, t) \in Nat /\ Value(d, t) \in Nat
    BY <2>2, ValueIs
  <2>11. \A t : Value(h[k + 1], t) = Value(f, t) + Value(e[k + 1], t)
    BY <2>4, <2>8, <2>9, <2>10
  <2>12. DOMAIN h[k + 1] = DOMAIN f \cup To(k + 1)
    BY <2>4, <2>5, <2>8
  <2> QED
    BY <2>1, <2>11, <2>12
<1>11. n \in N
  <2>1. n \in 0 .. n
    BY <1>2
  <2> HIDE DEF N
  <2>2. \A k \in 0 .. n : k \in N
    BY <1>2, <1>9, <1>10, Upwards
  <2> QED
    BY <2>1, <2>2
<1>12. h[n] \in TermBags
  BY <1>2, <1>7
<1>13. Terms(text) = To(n)
  BY <1>2 DEF Terms, w
<1> QED
  BY <1>7, <1>8, <1>11, <1>12, <1>13

------------------------------------------------------------------------------
\* What tags and comments add.

\* A space between two texts.
LEMMA WordJoins ==
    ASSUME NEW s \in Seq(Characters), NEW word \in Seq(Characters)
    PROVE  /\ s \o <<Space>> \o word \in Seq(Characters)
           /\ Len(s \o <<Space>> \o word) = Len(s) + 1 + Len(word)
           /\ WordJoined(s, word) \in Seq(Characters)
           /\ word # <<>> => WordJoined(s, word) # <<>>
<1> DEFINE space == <<Space>>
<1>1. space \in Seq(Characters) /\ Len(space) = 1
  BY AlphabetAssumption
<1> HIDE DEF space
<1>2. Len(s) \in Nat /\ Len(word) \in Nat
  OBVIOUS
<1>3. s \o space \in Seq(Characters) /\ Len(s \o space) = Len(s) + 1
  BY <1>1, ConcatProperties
<1>4. s \o space \o word \in Seq(Characters) /\ Len(s \o space \o word) = Len(s) + 1 + Len(word)
  <2> DEFINE front == s \o space
  <2>1. front \in Seq(Characters) /\ Len(front) = Len(s) + 1
    BY <1>3
  <2> HIDE DEF front
  <2>2. front \o word \in Seq(Characters) /\ Len(front \o word) = Len(front) + Len(word)
    BY <2>1
  <2> QED
    BY <2>1, <2>2 DEF front
<1>5. s \o space \o word # <<>>
  <2> DEFINE all == s \o space \o word
  <2>1. Len(all) # 0
    BY <1>2, <1>4
  <2> HIDE DEF all
  <2>2. all # <<>>
    BY <2>1
  <2> QED
    BY <2>2 DEF all
<1> QED
  BY <1>4, <1>5 DEF WordJoined, space

\* A phrase is empty only if there is no word.
LEMMA JoinedIs ==
    ASSUME NEW words \in Seq(Seq(Characters)), \A k \in DOMAIN words : words[k] # <<>>
    PROVE  Joined(words) \in Seq(Characters) /\ (Joined(words) = <<>> <=> words = <<>>)
<1> DEFINE n == Len(words)
<1>1. n \in Nat /\ DOMAIN words = 1 .. n /\ \A k \in 1 .. n : words[k] \in Seq(Characters)
  OBVIOUS
<1>2. \A k \in 1 .. n : words[k] # <<>>
  OBVIOUS
<1> HIDE DEF n
<1>3. <<>> \in Seq(Characters)
  OBVIOUS
<1>4. \A s, word \in Seq(Characters) :
         WordJoined(s, word) \in Seq(Characters) /\ (word # <<>> => WordJoined(s, word) # <<>>)
  BY WordJoins
<1>5. PhraseFrom(words, n)
  BY <1>1, <1>3, <1>4 DEF PhraseFrom
<1>6. PICK h : PhraseSteps(h, words, n)
  BY <1>5, PhraseFold
<1>7. /\ h \in [0 .. n -> Seq(Characters)] /\ h[0] = <<>> /\ Joined(words) = h[n]
      /\ \A k \in 1 .. n : h[k] = WordJoined(h[k - 1], words[k])
  BY <1>6 DEF PhraseSteps
<1>8. Joined(words) \in Seq(Characters)
  BY <1>1, <1>7
<1>9. CASE n = 0
  <2>1. words = <<>>
    BY <1>9 DEF n
  <2> QED
    BY <1>7, <1>8, <1>9, <2>1
<1>10. CASE n # 0
  <2>1. n \in 1 .. n /\ n - 1 \in 0 .. n
    BY <1>1, <1>10
  <2>2. h[n] = WordJoined(h[n - 1], words[n]) /\ h[n - 1] \in Seq(Characters)
    BY <1>7, <2>1
  <2>3. Joined(words) # <<>>
    BY <1>1, <1>2, <1>4, <1>7, <2>1, <2>2
  <2>4. words # <<>>
    BY <1>10 DEF n
  <2> QED
    BY <1>8, <2>3, <2>4
<1> QED
  BY <1>9, <1>10

\* The terms of a tag.
TagTerms(tag) ==
    LET phrase == Joined(WordsOf(tag))
    IN  Terms(tag) \cup IF PhraseCounts(phrase) THEN {Phrase(phrase)} ELSE {}

\* What a tag adds.
LEMMA TagAdds ==
    ASSUME NEW f \in TermBags, NEW tag \in Seq(Characters)
    PROVE  AddTag(f, tag) \in TermBags /\ DOMAIN AddTag(f, tag) = DOMAIN f \cup TagTerms(tag)
<1> DEFINE phrase == Joined(WordsOf(tag))
           added == AddWords(f, tag, TagWeight)
<1>1. TagWeight \in Nat
  BY VectorAssumption
<1>2. added \in TermBags /\ DOMAIN added = DOMAIN f \cup Terms(tag)
  BY <1>1, TextAdds
<1>3. phrase \in Seq(Characters)
  BY WordsAre, JoinedIs
<1>4. AddTag(f, tag) = IF PhraseCounts(phrase) THEN Add(added, Phrase(phrase), TagWeight) ELSE added
  BY DEF AddTag
<1>5. TagTerms(tag) = Terms(tag) \cup IF PhraseCounts(phrase) THEN {Phrase(phrase)} ELSE {}
  BY DEF TagTerms
<1> HIDE DEF phrase, added
<1> DEFINE term == Phrase(phrase)
           sum == Add(added, term, TagWeight)
<1>6. term \in Seq(Characters)
  BY <1>3, TermsAre
<1> HIDE DEF term
<1>7. sum \in TermBags /\ DOMAIN sum = DOMAIN added \cup {term}
  BY <1>1, <1>2, <1>6, Adds
<1> HIDE DEF sum
<1>8. AddTag(f, tag) = IF PhraseCounts(phrase) THEN sum ELSE added
  BY <1>4 DEF sum, term
<1>9. TagTerms(tag) = Terms(tag) \cup IF PhraseCounts(phrase) THEN {term} ELSE {}
  BY <1>5 DEF term
<1> QED
  BY <1>2, <1>7, <1>8, <1>9

\* What the tags add.
LEMMA TagsAdd ==
    ASSUME NEW f \in TermBags, NEW tags \in Seq(Seq(Characters))
    PROVE  /\ TagsAdded(f, tags) \in TermBags
           /\ DOMAIN TagsAdded(f, tags) = DOMAIN f \cup UNION {TagTerms(tags[i]) : i \in DOMAIN tags}
<1> DEFINE n == Len(tags)
<1>1. n \in Nat /\ DOMAIN tags = 1 .. n /\ \A k \in 1 .. n : tags[k] \in Seq(Characters)
  OBVIOUS
<1> HIDE DEF n
<1>2. TagsFrom(f, tags, n)
  BY <1>1, TagAdds DEF TagsFrom
<1>3. PICK h : TagsSteps(h, f, tags, n)
  BY <1>2, TagsFold
<1>4. /\ h \in [0 .. n -> TermBags] /\ h[0] = f /\ TagsAdded(f, tags) = h[n]
      /\ \A k \in 1 .. n : h[k] = AddTag(h[k - 1], tags[k])
  BY <1>3 DEF TagsSteps
<1> DEFINE To(k) == UNION {TagTerms(tags[i]) : i \in 1 .. k}
           N == {k \in 0 .. n : DOMAIN h[k] = DOMAIN f \cup To(k)}
<1>5. 0 \in N
  BY <1>1, <1>4
<1>6. ASSUME NEW k \in 0 .. n - 1, k \in N PROVE k + 1 \in N
  <2> DEFINE g == h[k]
             tag == tags[k + 1]
  <2>1. k \in 0 .. n /\ k + 1 \in 1 .. n /\ (k + 1) - 1 = k /\ k + 1 \in 0 .. n
    BY <1>1
  <2>2. g \in TermBags /\ tag \in Seq(Characters)
    BY <1>1, <1>4, <2>1
  <2>3. h[k + 1] = AddTag(g, tag)
    BY <1>4, <2>1
  <2>4. DOMAIN g = DOMAIN f \cup To(k)
    BY <1>6
  <2>5. To(k + 1) = To(k) \cup TagTerms(tag)
    <3>1. \A j : j \in 1 .. k + 1 <=> j \in 1 .. k \/ j = k + 1
      BY <2>1
    <3> QED
      BY <3>1
  <2> HIDE DEF To, g, tag
  <2>6. DOMAIN AddTag(g, tag) = DOMAIN g \cup TagTerms(tag)
    BY <2>2, TagAdds
  <2>7. DOMAIN h[k + 1] = DOMAIN f \cup To(k + 1)
    BY <2>3, <2>4, <2>5, <2>6
  <2> QED
    BY <2>1, <2>7
<1>7. n \in N
  <2>1. n \in 0 .. n
    BY <1>1
  <2> HIDE DEF N
  <2>2. \A k \in 0 .. n : k \in N
    BY <1>1, <1>5, <1>6, Upwards
  <2> QED
    BY <2>1, <2>2
<1>8. h[n] \in TermBags
  BY <1>1, <1>4
<1> QED
  BY <1>1, <1>4, <1>7, <1>8

\* What the comments add, one by one.
CommentsSum(h, f, comments, n) ==
    /\ h \in [0 .. n -> TermBags] /\ h[0] = f /\ CommentsAdded(f, comments) = h[n]
    /\ \A k \in 1 .. n : \A t :
           Value(h[k], t) = Value(h[k - 1], t) + Value(AddWords(Nothing, comments[k], 1), t)

\* There are such bags; their terms are those of the comments.
LEMMA CommentsAdd ==
    ASSUME NEW f \in TermBags, NEW comments \in Seq(Seq(Characters))
    PROVE  /\ CommentsAdded(f, comments) \in TermBags
           /\ DOMAIN CommentsAdded(f, comments) =
                  DOMAIN f \cup UNION {Terms(comments[i]) : i \in DOMAIN comments}
           /\ \E h : CommentsSum(h, f, comments, Len(comments))
<1> DEFINE n == Len(comments)
<1>1. n \in Nat /\ DOMAIN comments = 1 .. n /\ \A k \in 1 .. n : comments[k] \in Seq(Characters)
  OBVIOUS
<1>2. ASSUME NEW g \in TermBags, NEW text \in Seq(Characters)
      PROVE  /\ AddWords(g, text, 1) \in TermBags
             /\ DOMAIN AddWords(g, text, 1) = DOMAIN g \cup Terms(text)
             /\ \A t : Value(AddWords(g, text, 1), t) =
                           Value(g, t) + Value(AddWords(Nothing, text, 1), t)
  <2>1. 1 \in Nat
    OBVIOUS
  <2> QED
    BY <2>1, TextAdds
<1> HIDE DEF n
<1>3. CommentsFrom(f, comments, n)
  BY <1>1, <1>2 DEF CommentsFrom
<1>4. PICK h : CommentsSteps(h, f, comments, n)
  BY <1>3, CommentsFold
<1>5. /\ h \in [0 .. n -> TermBags] /\ h[0] = f /\ CommentsAdded(f, comments) = h[n]
      /\ \A k \in 1 .. n : h[k] = AddWords(h[k - 1], comments[k], 1)
  BY <1>4 DEF CommentsSteps
<1> DEFINE To(k) == UNION {Terms(comments[i]) : i \in 1 .. k}
           N == {k \in 0 .. n : DOMAIN h[k] = DOMAIN f \cup To(k)}
<1>6. 0 \in N
  BY <1>1, <1>5
<1>7. ASSUME NEW k \in 0 .. n - 1, k \in N PROVE k + 1 \in N
  <2> DEFINE g == h[k]
             text == comments[k + 1]
  <2>1. k \in 0 .. n /\ k + 1 \in 1 .. n /\ (k + 1) - 1 = k /\ k + 1 \in 0 .. n
    BY <1>1
  <2>2. g \in TermBags /\ text \in Seq(Characters)
    BY <1>1, <1>5, <2>1
  <2>3. h[k + 1] = AddWords(g, text, 1)
    BY <1>5, <2>1
  <2>4. DOMAIN g = DOMAIN f \cup To(k)
    BY <1>7
  <2>5. To(k + 1) = To(k) \cup Terms(text)
    <3>1. \A j : j \in 1 .. k + 1 <=> j \in 1 .. k \/ j = k + 1
      BY <2>1
    <3> QED
      BY <3>1
  <2> HIDE DEF To, g, text
  <2>6. DOMAIN AddWords(g, text, 1) = DOMAIN g \cup Terms(text)
    BY <1>2, <2>2
  <2>7. DOMAIN h[k + 1] = DOMAIN f \cup To(k + 1)
    BY <2>3, <2>4, <2>5, <2>6
  <2> QED
    BY <2>1, <2>7
<1>8. n \in N
  <2>1. n \in 0 .. n
    BY <1>1
  <2> HIDE DEF N
  <2>2. \A k \in 0 .. n : k \in N
    BY <1>1, <1>6, <1>7, Upwards
  <2> QED
    BY <2>1, <2>2
<1>9. h[n] \in TermBags
  BY <1>1, <1>5
<1>10. ASSUME NEW k \in 1 .. n, NEW t
       PROVE  Value(h[k], t) = Value(h[k - 1], t) + Value(AddWords(Nothing, comments[k], 1), t)
  <2>1. h[k - 1] \in TermBags /\ comments[k] \in Seq(Characters)
    BY <1>1, <1>5
  <2> DEFINE g == h[k - 1]
             text == comments[k]
  <2>2. h[k] = AddWords(g, text, 1)
    BY <1>5
  <2> HIDE DEF g, text
  <2>3. Value(AddWords(g, text, 1), t) = Value(g, t) + Value(AddWords(Nothing, text, 1), t)
    BY <1>2, <2>1 DEF g, text
  <2> QED
    BY <2>2, <2>3 DEF g, text
<1>11. CommentsSum(h, f, comments, n)
  BY <1>5, <1>10 DEF CommentsSum
<1> QED
  BY <1>1, <1>5, <1>8, <1>9, <1>11 DEF n

\* A bag is given by its terms and their values.
LEMMA SameBag ==
    ASSUME NEW f \in TermBags, NEW g \in TermBags, DOMAIN f = DOMAIN g, \A t : Value(f, t) = Value(g, t)
    PROVE  f = g
<1>1. f \in [DOMAIN f -> Nat] /\ g \in [DOMAIN g -> Nat]
  BY BagOf
<1>2. f = [t \in DOMAIN f |-> f[t]] /\ g = [t \in DOMAIN g |-> g[t]]
  BY <1>1
<1>3. \A t \in DOMAIN f : f[t] = g[t]
  <2> SUFFICES ASSUME NEW t \in DOMAIN f PROVE f[t] = g[t]
    OBVIOUS
  <2>1. Value(f, t) = f[t] /\ Value(g, t) = g[t]
    BY DEF Value
  <2> QED
    BY <2>1
<1> QED
  BY <1>2, <1>3

\* As many units as the first k numbers add up to: each with the place of its number.
Units(w, k) == {p \in (1 .. k) \X Nat : p[2] \in 1 .. w[p[1]]}

\* Numbers that are added one after the other add up to their units.
LEMMA SumsCount ==
    ASSUME NEW n \in Nat, NEW w \in [1 .. n -> Nat], NEW S \in [0 .. n -> Nat],
           \A k \in 1 .. n : S[k] = S[k - 1] + w[k]
    PROVE  IsFiniteSet(Units(w, n)) /\ S[n] = S[0] + Cardinality(Units(w, n))
<1> DEFINE N == {k \in 0 .. n : IsFiniteSet(Units(w, k)) /\ S[k] = S[0] + Cardinality(Units(w, k))}
<1>1. 0 \in N
  <2>1. Units(w, 0) = {}
    BY DEF Units
  <2>2. IsFiniteSet(Units(w, 0)) /\ Cardinality(Units(w, 0)) = 0
    BY <2>1, FS_EmptySet
  <2>3. 0 \in 0 .. n /\ S[0] \in Nat
    OBVIOUS
  <2> QED
    BY <2>2, <2>3
<1>2. ASSUME NEW k \in 0 .. n - 1, k \in N PROVE k + 1 \in N
  <2> DEFINE x == w[k + 1]
             A == Units(w, k)
             D == {k + 1} \X (1 .. x)
  <2>1. /\ k \in 0 .. n /\ k + 1 \in 1 .. n /\ (k + 1) - 1 = k /\ k + 1 \in 0 .. n
        /\ \A i : i \in 1 .. k + 1 <=> i \in 1 .. k \/ i = k + 1
        /\ k + 1 \notin 1 .. k
    OBVIOUS
  <2>2. x \in Nat /\ S[k + 1] = S[k] + x /\ S[k] \in Nat /\ S[0] \in Nat
    BY <2>1
  <2>3. IsFiniteSet(A) /\ S[k] = S[0] + Cardinality(A)
    BY <1>2
  <2>4. Units(w, k + 1) = A \cup D
    <3>1. ASSUME NEW i, NEW u PROVE <<i, u>> \in Units(w, k + 1) <=> <<i, u>> \in A \cup D
      <4>1. <<i, u>> \in Units(w, k + 1) <=> i \in 1 .. k + 1 /\ u \in Nat /\ u \in 1 .. w[i]
        BY DEF Units
      <4>2. <<i, u>> \in A <=> i \in 1 .. k /\ u \in Nat /\ u \in 1 .. w[i]
        BY DEF Units
      <4>3. <<i, u>> \in D <=> i = k + 1 /\ u \in Nat /\ u \in 1 .. w[i]
        BY <2>2
      <4> HIDE DEF A, D
      <4> QED
        BY <2>1, <4>1, <4>2, <4>3
    <3>2. /\ \A p \in Units(w, k + 1) : p = <<p[1], p[2]>>
          /\ \A p \in A : p = <<p[1], p[2]>>
          /\ \A p \in D : p = <<p[1], p[2]>>
      BY DEF Units
    <3> HIDE DEF A, D
    <3>3. ASSUME NEW p PROVE p \in Units(w, k + 1) <=> p \in A \cup D
      BY <3>1, <3>2
    <3> QED
      BY <3>3
  <2>5. A \cap D = {}
    BY <2>1 DEF Units
  <2>6. IsFiniteSet(D) /\ Cardinality(D) = x
    <3>1. IsFiniteSet(1 .. x) /\ Cardinality(1 .. x) = x
      <4>1. 1 \in Int /\ x \in Int /\ 1 <= x + 1
        BY <2>2
      <4> HIDE DEF x
      <4>2. IsFiniteSet(1 .. x) /\ Cardinality(1 .. x) = IF 1 > x THEN 0 ELSE x - 1 + 1
        BY <4>1, FS_Interval
      <4> QED
        BY <2>2, <4>2
    <3>2. IsFiniteSet({k + 1}) /\ Cardinality({k + 1}) = 1
      BY FS_Singleton
    <3> HIDE DEF x
    <3>3. /\ IsFiniteSet({k + 1} \X (1 .. x))
          /\ Cardinality({k + 1} \X (1 .. x)) = Cardinality({k + 1}) * Cardinality(1 .. x)
      BY <3>1, <3>2, FS_Product
    <3> QED
      BY <2>2, <3>1, <3>2, <3>3
  <2> HIDE DEF A, D, x
  <2>7. IsFiniteSet(A \cup D) /\ Cardinality(A \cup D) = Cardinality(A) + x
    <3>1. Cardinality(A \cap D) = 0
      BY <2>5, FS_EmptySet
    <3>2. /\ IsFiniteSet(A \cup D)
          /\ Cardinality(A \cup D) = Cardinality(A) + Cardinality(D) - Cardinality(A \cap D)
      BY <2>3, <2>6, FS_Union
    <3>3. Cardinality(A) \in Nat
      BY <2>3, FS_CardinalityType
    <3> QED
      BY <2>2, <2>6, <3>1, <3>2, <3>3
  <2>8. Cardinality(A) \in Nat
    BY <2>3, FS_CardinalityType
  <2>9. S[k + 1] = S[0] + Cardinality(Units(w, k + 1)) /\ IsFiniteSet(Units(w, k + 1))
    <3>1. S[k + 1] = S[0] + Cardinality(A \cup D)
      BY <2>2, <2>3, <2>7, <2>8
    <3> QED
      BY <2>4, <2>7, <3>1
  <2> QED
    BY <2>1, <2>9
<1>3. n \in N
  <2>1. n \in 0 .. n
    OBVIOUS
  <2> HIDE DEF N
  <2>2. \A k \in 0 .. n : k \in N
    BY <1>1, <1>2, Upwards
  <2> QED
    BY <2>1, <2>2
<1> QED
  BY <1>3

\* In another order, numbers have as many units.
LEMMA UnitsReordered ==
    ASSUME NEW n \in Nat, NEW v \in [1 .. n -> Nat], NEW w \in [1 .. n -> Nat],
           NEW order \in Bijection(1 .. n, 1 .. n), \A i \in 1 .. n : v[i] = w[order[i]],
           IsFiniteSet(Units(v, n))
    PROVE  Cardinality(Units(v, n)) = Cardinality(Units(w, n))
<1> DEFINE A == Units(v, n)
           B == Units(w, n)
           g == [p \in A |-> <<order[p[1]], p[2]>>]
<1>1. /\ order \in [1 .. n -> 1 .. n]
      /\ \A i, j \in 1 .. n : order[i] = order[j] => i = j
      /\ \A j \in 1 .. n : \E i \in 1 .. n : order[i] = j
  BY DEF Bijection, Injection, Surjection, IsInjective
<1>2. /\ \A p \in A : p = <<p[1], p[2]>> /\ p[1] \in 1 .. n /\ p[2] \in Nat /\ p[2] \in 1 .. v[p[1]]
      /\ \A p \in B : p = <<p[1], p[2]>> /\ p[1] \in 1 .. n /\ p[2] \in Nat /\ p[2] \in 1 .. w[p[1]]
  BY DEF Units
<1>3. ASSUME NEW p \in A PROVE <<order[p[1]], p[2]>> \in B
  <2>1. order[p[1]] \in 1 .. n /\ p[2] \in Nat /\ p[2] \in 1 .. w[order[p[1]]]
    BY <1>1, <1>2
  <2> QED
    BY <2>1 DEF Units
<1>4. ASSUME NEW q \in B PROVE \E p \in A : g[p] = q
  <2>1. PICK i \in 1 .. n : order[i] = q[1]
    BY <1>1, <1>2
  <2> DEFINE p == <<i, q[2]>>
  <2>2. q[2] \in Nat /\ q[2] \in 1 .. v[i]
    BY <1>2, <2>1
  <2>3. p \in A
    BY <2>2 DEF Units
  <2>4. g[p] = q
    BY <1>2, <2>1, <2>3
  <2> QED
    BY <2>3, <2>4
<1>5. ASSUME NEW p \in A, NEW q \in A, g[p] = g[q] PROVE p = q
  <2>1. order[p[1]] = order[q[1]] /\ p[2] = q[2]
    BY <1>5
  <2>2. /\ p = <<p[1], p[2]>> /\ p[1] \in 1 .. n
        /\ q = <<q[1], q[2]>> /\ q[1] \in 1 .. n
    BY <1>2
  <2>3. p[1] = q[1]
    BY <1>1, <2>1, <2>2
  <2> QED
    BY <2>1, <2>2, <2>3
<1>6. g \in [A -> B]
  BY <1>3
<1> HIDE DEF g, A, B
<1>7. g \in Bijection(A, B)
  BY <1>4, <1>5, <1>6 DEF Bijection, Injection, Surjection, IsInjective
<1>8. ExistsBijection(A, B)
  BY <1>7 DEF ExistsBijection
<1>9. IsFiniteSet(A)
  BY DEF A
<1>10. Cardinality(A) = Cardinality(B)
  BY <1>8, <1>9, FS_Bijection
<1> QED
  BY <1>10 DEF A, B

\* The comments add the same in whatever order they are read: for each term, as many units.
LEMMA CommentsReordered ==
    ASSUME NEW f \in TermBags, NEW comments \in Seq(Seq(Characters)),
           NEW order \in Bijection(DOMAIN comments, DOMAIN comments)
    PROVE  CommentsAdded(f, comments) =
               CommentsAdded(f, [i \in DOMAIN comments |-> comments[order[i]]])
<1> DEFINE n == Len(comments)
           other == [i \in DOMAIN comments |-> comments[order[i]]]
           a == CommentsAdded(f, comments)
           b == CommentsAdded(f, other)
           Of1(text, t) == Value(AddWords(Nothing, text, 1), t)
<1>1. n \in Nat /\ DOMAIN comments = 1 .. n
  OBVIOUS
<1>2. \A k \in 1 .. n : comments[k] \in Seq(Characters)
  OBVIOUS
<1>3. /\ order \in Bijection(1 .. n, 1 .. n) /\ order \in [1 .. n -> 1 .. n]
      /\ \A j \in 1 .. n : \E i \in 1 .. n : order[i] = j
  <2>1. order \in Bijection(1 .. n, 1 .. n)
    BY <1>1
  <2> HIDE DEF n
  <2> QED
    BY <2>1 DEF Bijection, Injection, Surjection
<1>4. other = [i \in 1 .. n |-> comments[order[i]]]
  BY <1>1
<1> HIDE DEF n, other
<1>5. other \in Seq(Seq(Characters)) /\ Len(other) = n /\ DOMAIN other = 1 .. n
  <2>1. other \in [1 .. n -> Seq(Characters)]
    BY <1>2, <1>3, <1>4
  <2> QED
    BY <1>1, <2>1
<1>6. /\ a \in TermBags /\ b \in TermBags
      /\ DOMAIN a = DOMAIN f \cup UNION {Terms(comments[i]) : i \in 1 .. n}
      /\ DOMAIN b = DOMAIN f \cup UNION {Terms(other[i]) : i \in 1 .. n}
      /\ \E h : CommentsSum(h, f, comments, n)
      /\ \E h : CommentsSum(h, f, other, n)
  <2>1. /\ a \in TermBags /\ DOMAIN a = DOMAIN f \cup UNION {Terms(comments[i]) : i \in DOMAIN comments}
        /\ \E h : CommentsSum(h, f, comments, Len(comments))
    BY CommentsAdd
  <2>2. /\ b \in TermBags /\ DOMAIN b = DOMAIN f \cup UNION {Terms(other[i]) : i \in DOMAIN other}
        /\ \E h : CommentsSum(h, f, other, Len(other))
    BY <1>5, CommentsAdd
  <2> QED
    BY <1>1, <1>5, <2>1, <2>2 DEF n
<1>7. DOMAIN a = DOMAIN b
  <2>1. \A i \in 1 .. n : \E j \in 1 .. n : comments[i] = other[j]
    BY <1>3, <1>4
  <2>2. \A j \in 1 .. n : \E i \in 1 .. n : comments[i] = other[j]
    BY <1>3, <1>4
  <2>3. UNION {Terms(comments[i]) : i \in 1 .. n} = UNION {Terms(other[i]) : i \in 1 .. n}
    BY <2>1, <2>2
  <2> QED
    BY <1>6, <2>3
<1>8. ASSUME NEW t PROVE Value(a, t) = Value(b, t)
  <2>1. PICK h : CommentsSum(h, f, comments, n)
    BY <1>6
  <2>2. PICK r : CommentsSum(r, f, other, n)
    BY <1>6
  <2>3. /\ h \in [0 .. n -> TermBags] /\ h[0] = f /\ a = h[n]
        /\ \A k \in 1 .. n : Value(h[k], t) = Value(h[k - 1], t) + Of1(comments[k], t)
    BY <2>1 DEF CommentsSum
  <2>4. /\ r \in [0 .. n -> TermBags] /\ r[0] = f /\ b = r[n]
        /\ \A k \in 1 .. n : Value(r[k], t) = Value(r[k - 1], t) + Of1(other[k], t)
    BY <2>2 DEF CommentsSum
  <2>5. \A k \in 1 .. n : Of1(comments[k], t) \in Nat
    <3> SUFFICES ASSUME NEW k \in 1 .. n PROVE Of1(comments[k], t) \in Nat
      OBVIOUS
    <3>1. AddWords(Nothing, comments[k], 1) \in TermBags
      BY <1>2, NothingIs, TextAdds
    <3> QED
      BY <3>1, ValueIs
  <2>6. \A k \in 0 .. n : Value(h[k], t) \in Nat /\ Value(r[k], t) \in Nat
    BY <2>3, <2>4, ValueIs
  <2> HIDE DEF Of1, a, b
  <2> DEFINE w == [k \in 1 .. n |-> Of1(comments[k], t)]
             v == [k \in 1 .. n |-> Of1(other[k], t)]
             S == [k \in 0 .. n |-> Value(h[k], t)]
             R == [k \in 0 .. n |-> Value(r[k], t)]
  <2>7. \A i \in 1 .. n : v[i] = w[order[i]] /\ v[i] \in Nat
    BY <1>3, <1>4, <2>5
  <2>8. w \in [1 .. n -> Nat] /\ v \in [1 .. n -> Nat]
    BY <2>5, <2>7
  <2>9. S \in [0 .. n -> Nat] /\ R \in [0 .. n -> Nat]
    BY <2>6
  <2>10. \A k \in 1 .. n : S[k] = S[k - 1] + w[k] /\ R[k] = R[k - 1] + v[k]
    <3>1. \A k \in 1 .. n : k \in 0 .. n /\ k - 1 \in 0 .. n
      BY <1>1
    <3> QED
      BY <2>3, <2>4, <3>1
  <2>11. 0 \in 0 .. n /\ n \in 0 .. n
    BY <1>1
  <2>12. /\ S[0] = Value(f, t) /\ R[0] = Value(f, t)
         /\ S[n] = Value(a, t) /\ R[n] = Value(b, t)
    BY <2>3, <2>4, <2>11
  <2> HIDE DEF w, v, S, R
  <2>13. S[n] = S[0] + Cardinality(Units(w, n))
    BY <1>1, <2>8, <2>9, <2>10, SumsCount
  <2>14. IsFiniteSet(Units(v, n)) /\ R[n] = R[0] + Cardinality(Units(v, n))
    BY <1>1, <2>8, <2>9, <2>10, SumsCount
  <2>15. Cardinality(Units(v, n)) = Cardinality(Units(w, n))
    BY <1>1, <1>3, <2>7, <2>8, <2>14, UnitsReordered
  <2> QED
    BY <2>12, <2>13, <2>14, <2>15
<1> HIDE DEF a, b
<1>9. a = b
  BY <1>6, <1>7, <1>8, SameBag
<1> QED
  BY <1>9 DEF a, b, other

------------------------------------------------------------------------------
\* Bytes.

\* The bytes of a text: the places of their characters, with a number for each.
BytesOf(text) == {p \in (DOMAIN text) \X (1 .. 4) : p[2] <= Width[text[p[1]]]}

\* There are finitely many, and none only if there are no characters.
LEMMA BytesAre ==
    ASSUME NEW text \in Seq(Characters)
    PROVE  /\ IsFiniteSet(BytesOf(text)) /\ Bytes(text) = Cardinality(BytesOf(text))
           /\ Bytes(text) \in Nat /\ (Bytes(text) = 0 <=> text = <<>>)
<1>1. Len(text) \in Nat /\ DOMAIN text = 1 .. Len(text)
  OBVIOUS
<1>2. IsFiniteSet(BytesOf(text))
  <2> DEFINE n == Len(text)
  <2>0. n \in Int /\ 1 \in Int /\ 4 \in Int
    BY <1>1
  <2> HIDE DEF n
  <2>1. IsFiniteSet(1 .. n) /\ IsFiniteSet(1 .. 4)
    BY <2>0, FS_Interval
  <2> USE DEF n
  <2>2. IsFiniteSet((1 .. Len(text)) \X (1 .. 4))
    BY <2>1, FS_Product
  <2>3. BytesOf(text) \subseteq (1 .. Len(text)) \X (1 .. 4)
    BY <1>1 DEF BytesOf
  <2> QED
    BY <2>2, <2>3, FS_Subset
<1>3. Bytes(text) = Cardinality(BytesOf(text)) /\ Cardinality(BytesOf(text)) \in Nat
  BY <1>2, FS_CardinalityType DEF Bytes, BytesOf
<1>4. BytesOf(text) = {} <=> text = <<>>
  <2>1. ASSUME text = <<>> PROVE BytesOf(text) = {}
    BY <1>1, <2>1 DEF BytesOf
  <2>2. ASSUME text # <<>> PROVE <<1, 1>> \in BytesOf(text)
    <3>1. 1 \in DOMAIN text /\ text[1] \in Characters
      BY <2>2
    <3>2. Width[text[1]] \in 1 .. 4
      BY <3>1, AlphabetAssumption
    <3> QED
      BY <3>1, <3>2 DEF BytesOf
  <2> QED
    BY <2>1, <2>2
<1> QED
  BY <1>2, <1>3, <1>4, FS_EmptySet

\* A space is one byte.
LEMMA SpaceIsOneByte == <<Space>> \in Seq(Characters) /\ Bytes(<<Space>>) = 1
<1> DEFINE one == <<Space>>
<1>1. one \in Seq(Characters) /\ DOMAIN one = {1} /\ one[1] = Space /\ Width[Space] = 1
  BY AlphabetAssumption
<1> HIDE DEF one
<1>2. BytesOf(one) = {<<1, 1>>}
  BY <1>1 DEF BytesOf
<1>3. Bytes(one) = 1
  BY <1>1, <1>2, BytesAre, FS_Singleton
<1> QED
  BY <1>1, <1>3 DEF one

\* The bytes of two texts add up.
LEMMA BytesConcat ==
    ASSUME NEW s \in Seq(Characters), NEW t \in Seq(Characters)
    PROVE  Bytes(s \o t) = Bytes(s) + Bytes(t)
<1> DEFINE m == Len(s)
           n == Len(t)
           u == s \o t
           A == BytesOf(s)
           B == BytesOf(t)
           D == {p \in BytesOf(u) : p[1] > m}
<1>1. /\ m \in Nat /\ n \in Nat /\ u \in Seq(Characters) /\ Len(u) = m + n
      /\ \A i \in 1 .. m + n : u[i] = IF i <= m THEN s[i] ELSE t[i - m]
  BY ConcatProperties, LenProperties
<1>0. m \in Nat /\ n \in Nat
  BY <1>1
<1>2. DOMAIN s = 1 .. m /\ DOMAIN t = 1 .. n
  OBVIOUS
<1>3. DOMAIN u = 1 .. m + n
  <2> HIDE DEF u
  <2> QED
    BY <1>1
<1> HIDE DEF m, n, u
<1>4. /\ \A i, b : <<i, b>> \in A <=> i \in 1 .. m /\ b \in 1 .. 4 /\ b <= Width[s[i]]
      /\ \A i, b : <<i, b>> \in B <=> i \in 1 .. n /\ b \in 1 .. 4 /\ b <= Width[t[i]]
      /\ \A i, b : <<i, b>> \in BytesOf(u) <=>
             i \in 1 .. m + n /\ b \in 1 .. 4 /\ b <= Width[u[i]]
  BY <1>2, <1>3 DEF BytesOf
<1>5. /\ A \subseteq (1 .. m) \X (1 .. 4) /\ B \subseteq (1 .. n) \X (1 .. 4)
      /\ BytesOf(u) \subseteq (1 .. m + n) \X (1 .. 4)
  BY <1>2, <1>3 DEF BytesOf
<1>6. /\ IsFiniteSet(A) /\ Bytes(s) = Cardinality(A) /\ Bytes(s) \in Nat
      /\ IsFiniteSet(B) /\ Bytes(t) = Cardinality(B) /\ Bytes(t) \in Nat
      /\ Bytes(u) = Cardinality(BytesOf(u))
  BY <1>1, BytesAre
<1> HIDE DEF A, B
<1>7. ASSUME NEW i, NEW b PROVE <<i, b>> \in D <=> i \in m + 1 .. m + n /\ <<i - m, b>> \in B
  <2>1. <<i, b>> \in D <=> <<i, b>> \in BytesOf(u) /\ i > m
    OBVIOUS
  <2> HIDE DEF D
  <2>2. i \in 1 .. m + n /\ i > m <=> i \in m + 1 .. m + n
    BY <1>0
  <2>3. ASSUME i \in m + 1 .. m + n PROVE u[i] = t[i - m] /\ i - m \in 1 .. n
    <3>1. i \in 1 .. m + n /\ ~ (i <= m)
      BY <1>0, <2>3
    <3> QED
      BY <1>0, <1>1, <2>3, <3>1
  <2> QED
    BY <1>4, <2>1, <2>2, <2>3
<1>8. BytesOf(u) = A \cup D
  <2>1. ASSUME NEW i \in 1 .. m + n, NEW b \in 1 .. 4
        PROVE  <<i, b>> \in BytesOf(u) <=> <<i, b>> \in A \/ <<i, b>> \in D
    <3>1. CASE i <= m
      <4>1. i \in 1 .. m /\ u[i] = s[i] /\ i \notin m + 1 .. m + n
        BY <1>0, <1>1, <3>1
      <4> HIDE DEF D
      <4> QED
        BY <1>4, <1>7, <4>1
    <3>2. CASE ~ (i <= m)
      <4>1. i > m /\ i \notin 1 .. m
        BY <1>0, <3>2
      <4> QED
        BY <1>4, <4>1
    <3> QED
      BY <3>1, <3>2
  <2>2. A \subseteq (1 .. m + n) \X (1 .. 4) /\ D \subseteq (1 .. m + n) \X (1 .. 4)
    <3>1. 1 .. m \subseteq 1 .. m + n
      BY <1>0
    <3> QED
      BY <1>5, <3>1
  <2> DEFINE W == BytesOf(u)
  <2>3. /\ \A p \in W : p = <<p[1], p[2]>> /\ p[1] \in 1 .. m + n /\ p[2] \in 1 .. 4
        /\ \A p \in A \cup D : p = <<p[1], p[2]>> /\ p[1] \in 1 .. m + n /\ p[2] \in 1 .. 4
    <3>1. W \subseteq (1 .. m + n) \X (1 .. 4)
      BY <1>5
    <3> HIDE DEF D, W
    <3> QED
      BY <2>2, <3>1
  <2>4. \A i \in 1 .. m + n : \A b \in 1 .. 4 : <<i, b>> \in W <=> <<i, b>> \in A \cup D
    <3> HIDE DEF D
    <3> QED
      BY <2>1
  <2> HIDE DEF D, W
  <2>5. ASSUME NEW p PROVE p \in W <=> p \in A \cup D
    <3> DEFINE E == A \cup D
               i == p[1]
               b == p[2]
    <3>1. p \in W \/ p \in E => p = <<i, b>> /\ i \in 1 .. m + n /\ b \in 1 .. 4
      BY <2>3
    <3>2. i \in 1 .. m + n /\ b \in 1 .. 4 => (<<i, b>> \in W <=> <<i, b>> \in E)
      BY <2>4
    <3> HIDE DEF E, i, b
    <3>3. p \in W <=> p \in E
      BY <3>1, <3>2
    <3> QED
      BY <3>3 DEF E
  <2>6. W = A \cup D
    BY <2>5
  <2> QED
    BY <2>6 DEF W
<1>9. IsFiniteSet(D) /\ Cardinality(D) = Cardinality(B)
  <2> DEFINE g == [p \in B |-> <<p[1] + m, p[2]>>]
  <2>0. \A p \in B : p = <<p[1], p[2]>> /\ p[1] \in 1 .. n /\ p[2] \in 1 .. 4
    BY <1>5
  <2>1. ASSUME NEW p \in B PROVE <<p[1] + m, p[2]>> \in D
    <3>1. p[1] + m \in m + 1 .. m + n /\ (p[1] + m) - m = p[1]
      BY <1>0, <2>0
    <3> HIDE DEF D
    <3>2. <<(p[1] + m) - m, p[2]>> \in B
      BY <2>0, <3>1
    <3> QED
      BY <1>7, <3>1, <3>2
  <2>2. ASSUME NEW q \in D PROVE \E p \in B : g[p] = q
    <3>1. q = <<q[1], q[2]>> /\ q[1] \in 1 .. m + n
      BY <1>5
    <3>2. <<q[1], q[2]>> \in D
      BY <3>1
    <3> HIDE DEF D
    <3>3. q[1] \in m + 1 .. m + n /\ <<q[1] - m, q[2]>> \in B /\ (q[1] - m) + m = q[1]
      BY <1>0, <1>7, <3>1, <3>2
    <3> DEFINE p == <<q[1] - m, q[2]>>
    <3>4. p \in B /\ g[p] = q
      BY <3>1, <3>3
    <3> QED
      BY <3>4
  <2>3. \A p, q \in B : g[p] = g[q] => p = q
    BY <1>0, <2>0
  <2>4. g \in [B -> D]
    BY <2>1
  <2> HIDE DEF g, D
  <2>5. g \in Bijection(B, D)
    BY <2>2, <2>3, <2>4 DEF Bijection, Injection, Surjection, IsInjective
  <2>6. ExistsBijection(B, D)
    BY <2>5 DEF ExistsBijection
  <2> QED
    BY <1>6, <2>6, FS_Bijection
<1>10. A \cap D = {}
  <2>1. \A p \in A : ~ (p[1] > m)
    BY <1>0, <1>5
  <2> QED
    BY <2>1
<1> HIDE DEF D
<1>11. Cardinality(A \cup D) = Cardinality(A) + Cardinality(D)
  <2>1. Cardinality(A \cap D) = 0
    BY <1>10, FS_EmptySet
  <2>2. Cardinality(A \cup D) = Cardinality(A) + Cardinality(D) - Cardinality(A \cap D)
    BY <1>6, <1>9, FS_Union
  <2> QED
    BY <1>6, <1>9, <2>1, <2>2
<1> QED
  BY <1>6, <1>8, <1>9, <1>11 DEF u

\* A phrase has no more bytes than its tag: between words is one space at most.
LEMMA PhraseFits ==
    ASSUME NEW tag \in Seq(Characters)
    PROVE  Bytes(Joined(WordsOf(tag))) <= Bytes(Lowered(tag))
<1> DEFINE low == Lowered(tag)
           w == WordsOf(tag)
           m == Len(tag)
           part(i, j) == SubSeq(low, i, j)
<1>1. PICK n, first, last : Runs(tag, n, first, last)
  BY WordsAreRuns
<1>2. low \in Seq(Characters) /\ Len(low) = m /\ m \in Nat
  BY LowerIs
<1>3. /\ n \in Nat /\ w = [k \in 1 .. n |-> part(first[k], last[k])]
      /\ \A k \in 1 .. n - 1 : last[k] + 2 <= first[k + 1]
  BY <1>1 DEF Runs
<1>4. ASSUME NEW k \in 1 .. n
      PROVE  first[k] \in 1 .. m /\ last[k] \in 1 .. m /\ first[k] <= last[k]
  BY <1>1 DEF Runs
<1>5. /\ w \in Seq(Seq(Characters)) /\ \A k \in 1 .. n : w[k] \in Seq(Characters)
      /\ DOMAIN w = 1 .. n
  <2>1. w \in Seq(Seq(Characters))
    BY WordsAre
  <2>2. DOMAIN w = 1 .. n
    BY <1>3
  <2> HIDE DEF w
  <2>3. ASSUME NEW k \in 1 .. n PROVE w[k] \in Seq(Characters)
    <3> DEFINE C == Seq(Characters)
    <3> HIDE DEF C
    <3>1. w \in Seq(C) /\ k \in DOMAIN w
      BY <2>1, <2>2 DEF C
    <3>2. w[k] \in C
      BY <3>1
    <3> QED
      BY <3>2 DEF C
  <2> QED
    BY <2>1, <2>2, <2>3
<1> HIDE DEF low, w, m
<1>6. ASSUME NEW i \in Int, NEW j \in Int, 1 <= i, j <= m
      PROVE  /\ part(i, j) \in Seq(Characters)
             /\ Len(part(i, j)) = IF i <= j THEN j - i + 1 ELSE 0
  <2>1. \A k \in i .. j : low[k] \in Characters
    BY <1>2, <1>6
  <2> QED
    BY <2>1, SubSeqProperties
<1>7. ASSUME NEW j \in 0 .. m, NEW l \in j .. m
      PROVE  /\ part(1, j) \in Seq(Characters) /\ part(j + 1, l) \in Seq(Characters)
             /\ Bytes(part(1, l)) = Bytes(part(1, j)) + Bytes(part(j + 1, l))
  <2>1. part(1, j) \in Seq(Characters) /\ part(j + 1, l) \in Seq(Characters)
    BY <1>2, <1>6
  <2>2. part(1, j) \o part(j + 1, l) = part(1, l)
    BY <1>2, ConcatAdjacentSubSeq
  <2> HIDE DEF part
  <2> QED
    BY <2>1, <2>2, BytesConcat
<1>8. PICK h : PhraseSteps(h, w, n)
  <2>1. \A s, word \in Seq(Characters) : WordJoined(s, word) \in Seq(Characters)
    BY WordJoins
  <2>2. PhraseFrom(w, n)
    BY <1>3, <1>5, <2>1 DEF PhraseFrom
  <2> QED
    BY <2>2, PhraseFold
<1>9. /\ h \in [0 .. n -> Seq(Characters)] /\ h[0] = <<>> /\ Joined(w) = h[n]
      /\ \A k \in 1 .. n : h[k] = WordJoined(h[k - 1], w[k])
  BY <1>8 DEF PhraseSteps
<1>10. ASSUME NEW s \in Seq(Characters), NEW word \in Seq(Characters)
       PROVE  /\ Bytes(WordJoined(s, word)) <= Bytes(s) + 1 + Bytes(word)
              /\ s = <<>> => WordJoined(s, word) = word
  <2> DEFINE space == <<Space>>
  <2>1. space \in Seq(Characters) /\ Bytes(space) = 1
    BY SpaceIsOneByte
  <2> HIDE DEF space
  <2> DEFINE front == s \o space
  <2>2. front \in Seq(Characters) /\ Bytes(front) = Bytes(s) + 1
    BY <2>1, ConcatProperties, BytesConcat
  <2> HIDE DEF front
  <2>3. Bytes(front \o word) = Bytes(s) + 1 + Bytes(word)
    BY <2>2, BytesConcat
  <2>4. WordJoined(s, word) = IF s = <<>> THEN word ELSE front \o word
    BY DEF WordJoined, front, space
  <2>5. Bytes(s) \in Nat /\ Bytes(word) \in Nat
    BY BytesAre
  <2> QED
    BY <2>3, <2>4, <2>5
<1> DEFINE end(k) == IF k = 0 THEN 0 ELSE last[k]
           N == {k \in 0 .. n : Bytes(h[k]) <= Bytes(part(1, end(k)))}
<1>11. \A k \in 0 .. n : end(k) \in 0 .. m /\ h[k] \in Seq(Characters)
  <2> SUFFICES ASSUME NEW k \in 0 .. n PROVE end(k) \in 0 .. m /\ h[k] \in Seq(Characters)
    OBVIOUS
  <2>1. k # 0 => k \in 1 .. n
    BY <1>3
  <2>2. k # 0 => last[k] \in 1 .. m
    BY <1>4, <2>1
  <2> QED
    BY <1>2, <1>9, <2>2
<1>12. ASSUME NEW j \in 0 .. m PROVE part(1, j) \in Seq(Characters) /\ Bytes(part(1, j)) \in Nat
  <2>1. part(1, j) \in Seq(Characters)
    BY <1>2, <1>6
  <2> QED
    BY <2>1, BytesAre
<1>13. Bytes(<<>>) = 0
  <2>1. <<>> \in Seq(Characters)
    OBVIOUS
  <2> QED
    BY <2>1, BytesAre
<1>14. 0 \in N
  <2>1. 0 \in 0 .. n /\ 0 \in 0 .. m /\ end(0) = 0
    BY <1>2, <1>3
  <2> HIDE DEF end, part
  <2> QED
    BY <1>9, <1>12, <1>13, <2>1
<1>15. ASSUME NEW k \in 0 .. n - 1, k \in N PROVE k + 1 \in N
  <2> DEFINE i == first[k + 1]
             l == last[k + 1]
             e == end(k)
             s == h[k]
             word == w[k + 1]
  <2>1. k \in 0 .. n /\ k + 1 \in 1 .. n /\ (k + 1) - 1 = k /\ k + 1 \in 0 .. n /\ k + 1 # 0
    BY <1>3
  <2>2. i \in 1 .. m /\ l \in i .. m /\ e \in 0 .. m
    BY <1>2, <1>4, <1>11, <2>1
  <2>3. s \in Seq(Characters) /\ word \in Seq(Characters) /\ word = part(i, l)
    BY <1>3, <1>5, <1>11, <2>1
  <2>4. h[k + 1] = WordJoined(s, word) /\ end(k + 1) = l /\ Bytes(s) <= Bytes(part(1, e))
    BY <1>9, <1>15, <2>1
  <2>5. Bytes(part(1, l)) = Bytes(part(1, i - 1)) + Bytes(word)
    <3>1. i - 1 \in 0 .. m /\ l \in i - 1 .. m /\ (i - 1) + 1 = i
      BY <1>2, <2>2
    <3> HIDE DEF part, i, l
    <3>2. Bytes(part(1, l)) = Bytes(part(1, i - 1)) + Bytes(part((i - 1) + 1, l))
      BY <1>7, <3>1
    <3> QED
      BY <2>3, <3>1, <3>2
  <2>6. /\ Bytes(WordJoined(s, word)) <= Bytes(s) + 1 + Bytes(word)
        /\ s = <<>> => WordJoined(s, word) = word
    BY <1>10, <2>3
  <2>7. Bytes(part(1, l)) \in Nat /\ Bytes(part(1, i - 1)) \in Nat /\ Bytes(part(1, e)) \in Nat
        /\ Bytes(s) \in Nat /\ Bytes(word) \in Nat
    <3>1. i - 1 \in 0 .. m /\ l \in 0 .. m
      BY <1>2, <2>2
    <3> HIDE DEF part, i, l, e, s, word
    <3> QED
      BY <1>12, <2>2, <2>3, <3>1, BytesAre
  <2>8. k # 0 => Bytes(part(1, i - 1)) >= Bytes(part(1, e)) + 1
    <3> SUFFICES ASSUME k # 0 PROVE Bytes(part(1, i - 1)) >= Bytes(part(1, e)) + 1
      OBVIOUS
    <3>1. k \in 1 .. n - 1 /\ e = last[k] /\ e + 2 <= i
      BY <1>3, <2>1
    <3>2. i - 1 \in e .. m /\ e + 1 <= i - 1 /\ e + 1 \in Int /\ i - 1 \in Int /\ 1 <= e + 1
      BY <1>2, <2>2, <3>1
    <3> HIDE DEF i, e
    <3> DEFINE gap == part(e + 1, i - 1)
    <3>3. gap \in Seq(Characters) /\ Len(gap) = (i - 1) - (e + 1) + 1
      BY <1>2, <1>6, <3>2
    <3>4. Bytes(part(1, i - 1)) = Bytes(part(1, e)) + Bytes(gap)
      <4> HIDE DEF part
      <4> QED
        BY <1>7, <2>2, <3>2
    <3> HIDE DEF gap, part
    <3>5. Bytes(gap) \in Nat /\ Bytes(gap) >= 1
      <4>1. Len(gap) # 0
        BY <1>2, <2>2, <3>2, <3>3 DEF i, e
      <4>2. gap # <<>>
        BY <4>1
      <4> QED
        BY <3>3, <4>2, BytesAre
    <3> QED
      BY <2>2, <2>7, <3>2, <3>3, <3>4, <3>5
  <2>9. k = 0 => s = <<>>
    BY <1>9
  <2> HIDE DEF part, i, l, e, s, word, end
  <2>10. Bytes(h[k + 1]) <= Bytes(part(1, end(k + 1)))
    <3>1. CASE k = 0
      BY <2>4, <2>5, <2>6, <2>7, <2>9, <3>1
    <3>2. CASE k # 0
      <4>1. /\ Bytes(h[k + 1]) <= Bytes(s) + 1 + Bytes(word) /\ Bytes(s) <= Bytes(part(1, e))
            /\ Bytes(part(1, end(k + 1))) = Bytes(part(1, i - 1)) + Bytes(word)
            /\ Bytes(part(1, i - 1)) >= Bytes(part(1, e)) + 1
        BY <2>4, <2>5, <2>6, <2>8, <3>2
      <4>2. Bytes(h[k + 1]) \in Nat
        <5>1. h[k + 1] \in Seq(Characters)
          BY <1>11, <2>1
        <5> QED
          BY <5>1, BytesAre
      <4> QED
        BY <2>7, <4>1, <4>2
    <3> QED
      BY <3>1, <3>2
  <2> QED
    BY <2>1, <2>10
<1>16. n \in N
  <2>1. n \in 0 .. n
    BY <1>3
  <2> HIDE DEF N
  <2>2. \A k \in 0 .. n : k \in N
    BY <1>3, <1>14, <1>15, Upwards
  <2> QED
    BY <2>1, <2>2
<1>17. Bytes(part(1, end(n))) <= Bytes(part(1, m))
  <2> DEFINE e == end(n)
  <2>1. e \in 0 .. m /\ m \in e .. m
    BY <1>2, <1>3, <1>11
  <2> HIDE DEF e
  <2>2. /\ part(1, e) \in Seq(Characters) /\ part(e + 1, m) \in Seq(Characters)
        /\ Bytes(part(1, m)) = Bytes(part(1, e)) + Bytes(part(e + 1, m))
    BY <1>7, <2>1
  <2> HIDE DEF part
  <2>3. Bytes(part(1, e)) \in Nat /\ Bytes(part(e + 1, m)) \in Nat
    BY <2>2, BytesAre
  <2> QED
    BY <2>2, <2>3 DEF e
<1>18. part(1, m) = low
  BY <1>2, SubSeqFull
<1>19. /\ Bytes(h[n]) \in Nat /\ Bytes(part(1, end(n))) \in Nat /\ Bytes(low) \in Nat
       /\ Bytes(h[n]) <= Bytes(part(1, end(n)))
  <2>1. n \in 0 .. n
    BY <1>3
  <2> HIDE DEF part, end
  <2> QED
    BY <1>2, <1>11, <1>12, <1>16, <2>1, BytesAre
<1> HIDE DEF part, end
<1> QED
  BY <1>2, <1>9, <1>17, <1>18, <1>19 DEF w, low

------------------------------------------------------------------------------
\* The vector of an image.

\* A vector has terms of the image only.
LEMMA VectorTerms ==
    ASSUME NEW T, IsFiniteSet(T), NEW f \in [T -> Nat], NEW v \in Vectors(f)
    PROVE  DOMAIN v \subseteq T
<1> DEFINE n == Cardinality(T)
           k == Min({MaxKept, n})
<1>1. PICK s \in Sorts(f) : v = Vectorize(f, s)
  BY DEF Vectors
<1>2. s \in [1 .. n -> T]
  BY <1>1 DEF Sorts, SetToSeqs
<1>3. n \in Nat /\ k \in 0 .. n
  BY FS_CardinalityType, Smaller, VectorAssumption
<1> HIDE DEF n
<1>4. s \in Seq(T) /\ Len(s) = n
  BY <1>2, <1>3
<1> DEFINE kept == SubSeq(s, 1, k)
<1>5. DOMAIN v = {kept[i] : i \in DOMAIN kept}
  BY <1>1, <1>4 DEF Vectorize, ToSet
<1> HIDE DEF k
<1>6. kept \in Seq(T)
  <2>1. \A i \in 1 .. k : s[i] \in T
    BY <1>2, <1>3
  <2> QED
    BY <1>3, <2>1, SubSeqProperties
<1> HIDE DEF kept
<1>7. \A i \in DOMAIN kept : kept[i] \in T
  BY <1>6
<1> QED
  BY <1>5, <1>7

\* A tag without words has no terms, and one with words has its phrase, which is not too long
\* if the tag is not.
LEMMA TagHasTerms ==
    ASSUME NEW tag \in Seq(Characters), Bytes(Lowered(tag)) <= MaxBytes
    PROVE  TagTerms(tag) = {} <=> DOMAIN WordsOf(tag) = {}
<1> DEFINE w == WordsOf(tag)
           phrase == Joined(w)
<1>1. w \in Seq(Seq(Characters)) /\ \A k \in DOMAIN w : w[k] # <<>>
  BY WordsAre
<1> HIDE DEF w
<1>2. phrase \in Seq(Characters) /\ (phrase = <<>> <=> w = <<>>)
  BY <1>1, JoinedIs
<1>3. w = <<>> <=> DOMAIN w = {}
  BY <1>1
<1>4. Bytes(phrase) <= MaxBytes
  <2>1. Bytes(phrase) <= Bytes(Lowered(tag))
    BY PhraseFits DEF w
  <2> HIDE DEF phrase
  <2>2. Bytes(phrase) \in Nat /\ Bytes(Lowered(tag)) \in Nat /\ MaxBytes \in Nat
    BY <1>2, LowerIs, BytesAre, VectorAssumption
  <2> QED
    BY <2>1, <2>2
<1> HIDE DEF phrase
<1>5. PhraseCounts(phrase) <=> DOMAIN w # {}
  BY <1>2, <1>3, <1>4 DEF PhraseCounts
<1>6. TagTerms(tag) = Terms(tag) \cup IF PhraseCounts(phrase) THEN {Phrase(phrase)} ELSE {}
  BY DEF TagTerms, phrase, w
<1>7. DOMAIN w = {} => Terms(tag) = {}
  BY DEF Terms, w
<1> QED
  BY <1>5, <1>6, <1>7 DEF w

\* What an image is searched by.  Its vector is one and the same, however the map yields the
\* terms and the database the comments, and it is empty only if there is nothing to search
\* for: of any tags that are no longer than cleanTag lets them be, and any comments
\* (Vectorize).
THEOREM ImageVector ==
    ASSUME input \in [tags : Seq(Seq(Characters)), comments : Seq(Seq(Characters))],
           \A i \in DOMAIN input.tags : Bytes(Lowered(input.tags[i])) <= MaxBytes
    PROVE  VectorsCanonical
<1> DEFINE tags == input.tags
           comments == input.comments
           base == TagsAdded(Nothing, tags)
           f == CommentsAdded(base, comments)
           Reordered(order) == [i \in DOMAIN comments |-> comments[order[i]]]
           wordless == \A i \in DOMAIN tags : \A k \in DOMAIN WordsOf(tags[i]) : ~ TRUE
           countless == \A i \in DOMAIN comments : \A k \in DOMAIN WordsOf(comments[i]) :
                            ~ Counts(WordsOf(comments[i])[k])
<1>1. /\ tags \in Seq(Seq(Characters)) /\ comments \in Seq(Seq(Characters))
      /\ \A i \in DOMAIN tags : Bytes(Lowered(tags[i])) <= MaxBytes
  OBVIOUS
<1>2. \A texts : Frequencies(tags, texts) = CommentsAdded(base, texts)
  BY DEF Frequencies, CommentsAdded, TagsAdded, Nothing
<1>3. VectorsCanonical <=> /\ OneVector(Frequencies(tags, comments))
                           /\ \A order \in Bijection(DOMAIN comments, DOMAIN comments) :
                                  Frequencies(tags, comments) = Frequencies(tags, Reordered(order))
                           /\ \A v \in Vectors(Frequencies(tags, comments)) :
                                  DOMAIN v = {} <=> wordless /\ countless
  BY DEF VectorsCanonical, Of
<1> HIDE DEF tags, comments
<1>4. base \in TermBags /\ DOMAIN base = UNION {TagTerms(tags[i]) : i \in DOMAIN tags}
  <2>1. Nothing \in TermBags /\ DOMAIN Nothing = {}
    BY NothingIs
  <2>2. /\ base \in TermBags
        /\ DOMAIN base = DOMAIN Nothing \cup UNION {TagTerms(tags[i]) : i \in DOMAIN tags}
    BY <1>1, <2>1, TagsAdd
  <2> HIDE DEF base
  <2> QED
    BY <2>1, <2>2
<1> HIDE DEF base
<1>5. f \in TermBags /\ DOMAIN f = DOMAIN base \cup UNION {Terms(comments[i]) : i \in DOMAIN comments}
  BY <1>1, <1>4, CommentsAdd
<1>6. ASSUME NEW order \in Bijection(DOMAIN comments, DOMAIN comments)
      PROVE  f = CommentsAdded(base, Reordered(order))
  BY <1>1, <1>4, CommentsReordered
<1> HIDE DEF f
<1>7. DOMAIN f \in SUBSET Seq(Characters) /\ IsFiniteSet(DOMAIN f) /\ f \in [DOMAIN f -> Nat]
  BY <1>5, BagOf
<1>8. OneVector(f)
  BY <1>7, Vector
<1>9. DOMAIN f = {} <=> wordless /\ countless
  <2>1. DOMAIN base = {} <=> wordless
    <3>1. ASSUME NEW i \in DOMAIN tags
          PROVE  TagTerms(tags[i]) = {} <=> \A k \in DOMAIN WordsOf(tags[i]) : ~ TRUE
      <4>1. tags[i] \in Seq(Characters) /\ Bytes(Lowered(tags[i])) <= MaxBytes
        <5> DEFINE C == Seq(Characters)
        <5> HIDE DEF C
        <5>1. tags \in Seq(C)
          BY <1>1 DEF C
        <5>2. tags[i] \in C
          BY <5>1
        <5> QED
          BY <1>1, <5>2 DEF C
      <4>2. TagTerms(tags[i]) = {} <=> DOMAIN WordsOf(tags[i]) = {}
        BY <4>1, TagHasTerms
      <4> QED
        BY <4>2
    <3>2. DOMAIN base = {} <=> \A i \in DOMAIN tags : TagTerms(tags[i]) = {}
      BY <1>4
    <3> QED
      BY <3>1, <3>2
  <2>2. (\A i \in DOMAIN comments : Terms(comments[i]) = {}) <=> countless
    BY DEF Terms
  <2> DEFINE added == UNION {Terms(comments[i]) : i \in DOMAIN comments}
  <2>3. added = {} <=> \A i \in DOMAIN comments : Terms(comments[i]) = {}
    OBVIOUS
  <2>4. DOMAIN f = DOMAIN base \cup added
    BY <1>5
  <2> HIDE DEF added
  <2>5. DOMAIN f = {} <=> DOMAIN base = {} /\ added = {}
    BY <2>4
  <2> QED
    BY <2>1, <2>2, <2>3, <2>5
<1>10. ASSUME NEW v \in Vectors(f) PROVE DOMAIN v = {} <=> DOMAIN f = {}
  <2>1. DOMAIN v \subseteq DOMAIN f
    BY <1>7, VectorTerms
  <2>2. Cardinality(DOMAIN v) = Min({MaxKept, Cardinality(DOMAIN f)})
    BY <1>8 DEF OneVector
  <2>3. ASSUME DOMAIN v = {} PROVE DOMAIN f = {}
    <3>1. Cardinality(DOMAIN v) = 0
      BY <2>3, FS_EmptySet
    <3>2. Cardinality(DOMAIN f) \in Nat
      BY <1>7, FS_CardinalityType
    <3>3. Cardinality(DOMAIN f) = 0
      BY <2>2, <3>1, <3>2, Smaller, VectorAssumption
    <3> QED
      BY <1>7, <3>3, FS_EmptySet
  <2> QED
    BY <2>1, <2>3
<1> HIDE DEF wordless, countless
<1> QED
  BY <1>2, <1>3, <1>6, <1>8, <1>9, <1>10 DEF f
==============================================================================
