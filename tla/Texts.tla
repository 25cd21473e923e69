-------------------------------- MODULE Texts --------------------------------
(***************************************************************************)
(* What slugs and tax numbers need of string handling.  A text is a        *)
(* sequence of characters.                                                 *)
(***************************************************************************)
EXTENDS Naturals, Sequences, SequencesExt

\* the characters of s at the positions in I, read from left to right
Picked(s, I) ==
  LET read[i \in 0 .. Len(s)] ==
        IF i = 0 THEN << >>
        ELSE IF i \in I THEN Append(read[i - 1], s[i]) ELSE read[i - 1]
  IN read[Len(s)]

\* s without the characters in S
Without(s, S) == Picked(s, {i \in DOMAIN s : s[i] \notin S})

\* s with one c for every run of c
Collapsed(s, c) == Picked(s, {i \in DOMAIN s : ~(s[i] = c /\ i > 1 /\ s[i - 1] = c)})

\* s without the characters c at its two ends
Stripped(s, c) ==
  LET ink == {i \in DOMAIN s : s[i] # c}
  IN IF ink = {} THEN << >> ELSE SubSeq(s, Min(ink), Max(ink))
=============================================================================
