-------------------------------- MODULE Slugs --------------------------------
(***************************************************************************)
(* slugify: the slug of a tenant from what a client typed.  An accented    *)
(* letter is the letter followed by Accent, as NFD writes it, and "!"      *)
(* stands for every other symbol.                                          *)
(***************************************************************************)
EXTENDS Texts

Accent == "accent"
Lowered == [A |-> "a", B |-> "b"]
SlugChars == {"a", "b", "1", "-"}
TextChars == {"A", "B", " ", "!", Accent} \cup SlugChars

ToLowerCase(s) == [i \in DOMAIN s |-> IF s[i] \in DOMAIN Lowered THEN Lowered[s[i]] ELSE s[i]]

Dashed(s) == [i \in DOMAIN s |-> IF s[i] = " " THEN "-" ELSE s[i]]

\* (variant: dashes are collapsed before other symbols are dropped)
SlugifyCollapsingFirst(value) ==
  LET dashed == Collapsed(Dashed(Stripped(ToLowerCase(value), " ")), "-")
  IN Stripped(Without(dashed, Range(dashed) \ SlugChars), "-")

\* spaces become dashes before other symbols are dropped, so dashes are
\* collapsed last
Slugify(value) ==
  LET dashed == Dashed(Collapsed(Stripped(ToLowerCase(Without(value, {Accent})), " "), " "))
  IN Stripped(Collapsed(Without(dashed, Range(dashed) \ SlugChars), "-"), "-")

\* IsSlug, the validator of the slugs that clients send: letters, digits, and
\* single dashes between them
IsSlug(s) ==
  /\ s # << >>
  /\ \A i \in DOMAIN s : s[i] \in SlugChars
  /\ s[1] # "-" /\ s[Len(s)] # "-"
  /\ \A i \in 1 .. Len(s) - 1 : s[i] = "-" => s[i + 1] # "-"
=============================================================================
