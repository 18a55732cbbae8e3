----------------------------- MODULE MCListing ------------------------------
(* Words for Listing: names of nine letters, where one typo is allowed, and *)
(* of eight, where none is.                                                 *)
EXTENDS Listing

Nine == <<"a", "b", "c", "d", "e", "f", "g", "h", "i">>
Eight == SubSeq(Nine, 1, 8)

Typo == [Nine EXCEPT ![5] = "x"]
Swapped == [Nine EXCEPT ![3] = "d", ![4] = "c"]
Longer == Append(Nine, "j")
Tail7 == SubSeq(Nine, 3, 9)

MCNames == {Nine, Eight}
MCSearches == {<<>>, Typo, Swapped, Longer, Tail7}

Sixteen == Nine \o SubSeq(Nine, 1, 7)

(* A letter lost, mistyped or added, at the ends and in between. *)
Edits(w) ==
    UNION {{RemoveAt(w, i), [w EXCEPT ![i] = "x"], InsertAt(w, i, "x")} : i \in {1, 4, Len(w)}}

MCWords ==
    {w \in MCNames \cup MCSearches \cup {Sixteen} \cup Edits(Nine) \cup Edits(Typo)
           \cup Edits(Eight) \cup Edits(Sixteen) : Len(w) <= 16}

(* What the theorems about Listing assume, for these words. *)
ASSUME WordsMatchWhenNear == MatchesAreNear
=============================================================================
