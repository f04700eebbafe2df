---------------------------- MODULE TokenRegexp ----------------------------
(***************************************************************************)
(* A reference definition of what Go's regexp package does with the three  *)
(* path regexps of pkg/kubefed2/proxy, stated on strings rather than on    *)
(* path segments, so that ProxyPaths' segment-level operators can be       *)
(* checked against it over every bounded path.                             *)
(*                                                                         *)
(* A string is a sequence of tokens: "/" or a word (a maximal run of       *)
(* characters other than "/").  A regexp is a sequence of items, each      *)
(* matching a slice of the string:                                         *)
(*   [k |-> "lit", w |-> x]   the token x ("/" or a word)                  *)
(*   [k |-> "word"]           [^/]*   : no token, or one word              *)
(*   [k |-> "opt", w |-> x]   x?      : no token, or the token x           *)
(*   [k |-> "any"]            .*      : any tokens                         *)
(*   [k |-> "pre", ws |-> S]  one word of S (a word beginning with a       *)
(*                            literal, followed by .* inside the word)     *)
(* All quantifiers are greedy; for such regexps RE2's submatches are the   *)
(* leftmost-first (Perl) ones: among the ways to match, the one whose      *)
(* vector of item lengths is lexicographically largest.                    *)
(***************************************************************************)
EXTENDS Naturals, Sequences, SequencesExt

\* The string "/s1/.../sn" of a path given as segments.
PathString(p) ==
  FlattenSeq([i \in 1..Len(p) |-> IF p[i] = "" THEN <<"/">> ELSE <<"/", p[i]>>])

\* The string of a tail of a path, without its leading "/".
RestString(p) == IF p = <<>> THEN <<>> ELSE Tail(PathString(p))

\* The lengths item it may consume at position i of t.
ItemLens(it, t, i) ==
  LET left == Len(t) - i + 1
      one(ok(_)) == IF left >= 1 /\ ok(t[i]) THEN {1} ELSE {}
  IN CASE it.k = "lit"  -> one(LAMBDA x : x = it.w)
       [] it.k = "word" -> {0} \cup one(LAMBDA x : x # "/")
       [] it.k = "opt"  -> {0} \cup one(LAMBDA x : x = it.w)
       [] it.k = "pre"  -> one(LAMBDA x : x \in it.ws)
       [] it.k = "any"  -> 0..left

\* Every vector of item lengths with which re matches t from i to its end.
RECURSIVE Splits(_, _, _)
Splits(re, t, i) ==
  IF re = <<>>
    THEN IF i = Len(t) + 1 THEN {<<>>} ELSE {}
    ELSE UNION {{<<l>> \o d : d \in Splits(Tail(re), t, i + l)} :
                  l \in ItemLens(Head(re), t, i)}

LexGreater(v, w) ==
  \E k \in DOMAIN v : v[k] > w[k] /\ \A j \in 1..k - 1 : v[j] = w[j]

\* The match RE2 reports: the leftmost-first among the splits.
Preferred(re, t) ==
  LET S == Splits(re, t, 1)
  IN CHOOSE v \in S : \A w \in S : ~LexGreater(w, v)

Matches(re, t) == Splits(re, t, 1) # {}

\* The slice of t item n of split v consumed: the submatch of a group.
Group(v, t, n) ==
  LET start == 1 + FoldLeft(+, 0, SubSeq(v, 1, n - 1))
  IN SubSeq(t, start, start + v[n] - 1)

=============================================================================
