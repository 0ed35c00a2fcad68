----------------------------- MODULE SearchQuery ------------------------------
(***************************************************************************)
(* The search language: how a query is parsed and what it selects.  A      *)
(* query is the sequence of its bytes; a letter outside ASCII takes two of *)
(* them.  Letters are lower-case, and the limits on the length of a query  *)
(* and of a term are left out.                                             *)
(***************************************************************************)
EXTENDS Naturals, Sequences, SequencesExt

CONSTANT MaxTerms  \* 20 in the source

\* unicode.IsSpace of a byte: two bytes that are no characters by themselves pass for
\* the Latin-1 spaces of those numbers.
Blank == {" ", "85", "A0"}
Delimiter == Blank \cup {"!", "#", "+", "|", "(", ")"}
EndOfQuery == "end of query"

\* The byte at position p, and the first position from p on that is no blank, or that
\* ends a term.
Peek(text, p) == IF p > Len(text) THEN EndOfQuery ELSE text[p]
SkipSpace(text, p) ==
    CHOOSE q \in p .. Len(text) + 1 :
        Peek(text, q) \notin Blank /\ \A i \in p .. q - 1 : text[i] \in Blank
TermEnd(text, p) ==
    CHOOSE q \in p .. Len(text) + 1 :
        /\ Peek(text, q) \in Delimiter \cup {EndOfQuery}
        /\ \A i \in p .. q - 1 : text[i] \notin Delimiter

\* normalizeSearchTerm: underscores are spaces, and those at the ends go.
Spaced(value) == [i \in DOMAIN value |-> IF value[i] = "_" THEN " " ELSE value[i]]
Normalize(value) ==
    LET v == Spaced(value)
        letters == {i \in DOMAIN v : v[i] # " "}
    IN  SubSeq(v, Min(letters \cup {Len(v) + 1}), Max(letters \cup {0}))

\* cleanTag: a run of spaces becomes one.
Fields(value) ==
    LET add(name, byte) == IF byte = " " /\ name # <<>> /\ Last(name) = " " THEN name
                           ELSE Append(name, byte)
    IN  FoldLeft(add, <<>>, value)

\* A parse: where it stopped, what it read, and how many terms it has seen.
Parsed(node, at, terms) == [ok |-> TRUE, node |-> node, at |-> at, terms |-> terms]
Rejected == [ok |-> FALSE, node |-> <<>>, at |-> 1, terms |-> 0]

\* A term of the given kind, whose value is the text from p to q - 1.
Term(kind, text, p, q, next, terms) ==
    LET term == Normalize(SubSeq(text, p, q - 1))
        value == IF kind = "tag" THEN Fields(term) ELSE term
    IN  IF value = <<>> \/ terms = MaxTerms THEN Rejected
        ELSE Parsed(<<kind, value>>, next, terms + 1)

\* [comment text] and 'path text'.
Quoted(kind, closing, text, p, terms) ==
    LET closings == {q \in p .. Len(text) : text[q] = closing} IN
    IF closings = {} THEN Rejected
    ELSE Term(kind, text, p, Min(closings), Min(closings) + 1, terms)

\* In what follows parse maps a rule of the grammar, a position and the number of terms
\* seen to the parse of that rule from there.

\* parsePrimary: a group or a term.
ParsePrimary(parse, text, from, terms) ==
    LET p == SkipSpace(text, from)
        group == parse["or", p + 1, terms]
    IN  CASE Peek(text, p) = "(" ->
                 IF group.ok /\ Peek(text, SkipSpace(text, group.at)) = ")"
                 THEN [group EXCEPT !.at = SkipSpace(text, group.at) + 1]
                 ELSE Rejected
          [] Peek(text, p) \in {EndOfQuery, ")", "|", "+"} -> Rejected
          [] Peek(text, p) = "#" ->
                 Term("tag", text, p + 1, TermEnd(text, p + 1), TermEnd(text, p + 1), terms)
          [] Peek(text, p) = "[" -> Quoted("comment", "]", text, p + 1, terms)
          [] Peek(text, p) = "'" -> Quoted("path", "'", text, p + 1, terms)
          [] OTHER -> Term("text", text, p, TermEnd(text, p), TermEnd(text, p), terms)

\* Bug: an exclusion may be of a group, and reaches to the end of the conjunction.
ParseUnaryGreedy(parse, text, from, terms) ==
    LET p == SkipSpace(text, from)
        term == parse["and", p + 1, terms]
    IN  IF Peek(text, p) # "!" THEN parse["primary", p, terms]
        ELSE IF term.ok THEN [term EXCEPT !.node = <<"not", @>>]
        ELSE Rejected

\* parseUnary: a term, or the exclusion of a tag, comment or path.
ParseUnary(parse, text, from, terms) ==
    LET p == SkipSpace(text, from)
        term == parse["primary", p + 1, terms]
    IN  IF Peek(text, p) # "!" THEN parse["primary", p, terms]
        ELSE IF term.ok /\ term.node[1] \in {"tag", "comment", "path"}
        THEN [term EXCEPT !.node = <<"not", @>>]
        ELSE Rejected

\* The rest of a conjunction, after left.
RECURSIVE AndRest(_, _, _)
AndRest(parse, text, left) ==
    LET p == SkipSpace(text, left.at)
        right == parse["unary", IF Peek(text, p) = "+" THEN p + 1 ELSE p, left.terms]
    IN  IF ~ left.ok THEN Rejected
        ELSE IF Peek(text, p) \in {"|", ")", EndOfQuery} THEN [left EXCEPT !.at = p]
        ELSE IF ~ right.ok THEN Rejected
        ELSE AndRest(parse, text, [right EXCEPT !.node = <<"and", left.node, @>>])

ParseAnd(parse, text, p, terms) == AndRest(parse, text, parse["unary", p, terms])

\* The rest of a disjunction.
RECURSIVE OrRest(_, _, _)
OrRest(parse, text, left) ==
    LET p == SkipSpace(text, left.at)
        right == parse["and", p + 1, left.terms]
    IN  IF ~ left.ok THEN Rejected
        ELSE IF Peek(text, p) # "|" THEN [left EXCEPT !.at = p]
        ELSE IF ~ right.ok THEN Rejected
        ELSE OrRest(parse, text, [right EXCEPT !.node = <<"or", left.node, @>>])

ParseOr(parse, text, p, terms) == OrRest(parse, text, parse["and", p, terms])

\* parseImageSearch, of a query that is not blank: all of it must have been read.
Parse(text) ==
    LET parse[rule \in {"or", "and", "unary", "primary"}, p \in Nat, terms \in Nat] ==
            CASE rule = "or" -> ParseOr(parse, text, p, terms)
              [] rule = "and" -> ParseAnd(parse, text, p, terms)
              [] rule = "unary" -> ParseUnary(parse, text, p, terms)
              [] rule = "primary" -> ParsePrimary(parse, text, p, terms)
        all == parse["or", 1, 0]
    IN  IF all.ok /\ all.at > Len(text) THEN all ELSE Rejected

\* compileImageSearch: does the query select an image that matches the given terms?
RECURSIVE Selects(_, _)
Selects(node, matching) ==
    CASE node[1] = "or" -> Selects(node[2], matching) \/ Selects(node[3], matching)
      [] node[1] = "and" -> Selects(node[2], matching) /\ Selects(node[3], matching)
      [] node[1] = "not" -> ~ Selects(node[2], matching)
      [] OTHER -> node \in matching
==============================================================================
