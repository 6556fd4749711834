--------------------------- MODULE MC_Identifiers ---------------------------
(* Inputs of the identifier constructors: the strings of the unit tests  *)
(* and their neighbours at the 128 boundary, in one-, two-, three- and   *)
(* four-byte characters.                                                  *)
EXTENDS Identifiers

(* n copies of the character ch: "a".repeat(n) for ch = 97.                *)
Repeat(ch, n) == [c \in {ch} |-> n]

(* "tenant-123" (ten ASCII characters), "tenant\u{00A0}id", "", and the  *)
(* 128 and 129 character strings of 'a', 'é' (U+00E9), '€' (U+20AC) and  *)
(* U+1F600.                                                               *)
TestViews ==
    {Repeat(97, 10), Repeat(97, 8) (+) Repeat(160, 1), EmptyBag}
    \cup {Repeat(ch, n) : ch \in {97, 233, 8364, 128512}, n \in {64, 128, 129}}

=============================================================================
