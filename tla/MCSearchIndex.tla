----------------------------- MODULE MCSearchIndex -----------------------------
(****************************************************************************)
(* Instances of SearchIndex: three entries, among their texts Latin ones in *)
(* both cases, an accented letter that only Search has a lower case of, and *)
(* CJK characters, in one corpus without and one with the section's flag.   *)
(****************************************************************************)
EXTENDS SearchIndex

CONSTANTS s1, s2

MCSearcher == {s1, s2}

(* A is the upper case of a; E, of two bytes, that of e; H and K are CJK.   *)
MCChar == {"a", "A", "b", "e", "E", "H", "K"}

MCBytes == [c \in MCChar |->
  CASE c = "a" -> <<1>>    [] c = "A" -> <<2>>     [] c = "b" -> <<3>>
    [] c = "e" -> <<5, 6>> [] c = "E" -> <<5, 7>>
    [] c = "H" -> <<8, 9, 10>> [] c = "K" -> <<8, 9, 11>>]

MCCJK == {"H", "K"}
MCLowerIndexed == [c \in MCChar |-> IF c = "A" THEN "a" ELSE c]
MCLowerQueried ==
  [c \in MCChar |-> IF c = "A" THEN "a" ELSE IF c = "E" THEN "e" ELSE c]

(* Posting lists that overlap without one in another; an entry with two    *)
(* texts; a gram in every entry, which is pruned where the corpus is large *)
(* enough; CJK characters next to others.                                  *)
MCCorpus == {
  (1 :> {<<"a", "a", "b", "b">>} @@ 2 :> {<<"A", "a", "b">>}
    @@ 3 :> {<<"b", "a", "b", "b">>, <<"a", "E">>}),
  (1 :> {<<"a", "a", "b", "H", "K">>} @@ 2 :> {<<"H", "K", "H">>, <<"A", "a", "b", "a", "b", "e">>}
    @@ 3 :> {<<"b", "H">>, <<"a", "a", "b">>})}

MCQuery == {<<"a", "A", "b", "b">>, <<"a", "b", "b">>, <<"A", "a", "b">>,
            <<"b", "a", "b", "E">>, <<"H", "K">>, <<"b", "H">>}

Symmetry == Permutations(MCSearcher)
=============================================================================
