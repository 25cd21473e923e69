----------------------------- MODULE ChileanRut -----------------------------
(***************************************************************************)
(* Tax numbers: normalisation of what a client types and the modulo 11     *)
(* verifier.  A character is a number: 0 to 9 the digits, K and SmallK,    *)
(* the separators, and Other for any other character.                      *)
(***************************************************************************)
EXTENDS Texts

Digit == 0 .. 9
K == 10
SmallK == 11
Dot == 12
Dash == 13
Space == 14
Other == 15
Char == 0 .. 15
Invalid == [body |-> << >>, verifier |-> Other]

Clean(value) ==
  LET kept == Stripped(Without(value, {Dot, Dash}), Space)
  IN [i \in DOMAIN kept |-> IF kept[i] = SmallK THEN K ELSE kept[i]]

\* the text of Number(body), which is exact up to 15 digits
WithoutLeadingZeros(body) ==
  LET digits == {i \in DOMAIN body : body[i] # 0}
  IN IF digits = {} THEN << 0 >> ELSE SubSeq(body, Min(digits), Len(body))

Normalize(value) ==
  LET clean == Clean(value)
      body == Front(clean)
  IN IF /\ Len(clean) > 1
        /\ \A i \in DOMAIN body : body[i] \in Digit
        /\ Last(clean) \in Digit \cup {K}
       THEN [body |-> WithoutLeadingZeros(body), verifier |-> Last(clean)]
       ELSE Invalid

\* the sum and the next multiplier, from the last digit to the first; after
\* gives the multiplier that follows
Accumulated(body, after) ==
  LET acc[i \in 0 .. Len(body)] ==
        IF i = 0 THEN [sum |-> 0, multiplier |-> 2]
        ELSE LET last == acc[i - 1] IN
             [sum |-> last.sum + body[Len(body) + 1 - i] * last.multiplier, multiplier |-> after[last.multiplier]]
  IN acc[Len(body)]

VerifierOf(sum) == IF sum % 11 = 0 THEN 0 ELSE 11 - (sum % 11)

\* (variant: the multipliers never start again)
CalculateVerifierNoWrap(body) == VerifierOf(Accumulated(body, [m \in 2 .. 20 |-> m + 1]).sum)

\* the multipliers are 2, 3, .. 7, 2, 3, .. ; the value 10 is K
CalculateVerifier(body) ==
  VerifierOf(Accumulated(body, [m \in 2 .. 7 |-> IF m = 7 THEN 2 ELSE m + 1]).sum)

IsValid(value) ==
  LET rut == Normalize(value)
  IN rut # Invalid /\ CalculateVerifier(rut.body) = rut.verifier

\* (reference) the sum weighted by 2 to 7 and again from the last digit on
WeightOf(place) == 2 + ((place - 1) % 6)
WeightedSum(body) ==
  LET upTo[i \in 0 .. Len(body)] ==
        IF i = 0 THEN 0 ELSE upTo[i - 1] + body[Len(body) + 1 - i] * WeightOf(i)
  IN upTo[Len(body)]

\* the verifier completes the sum to a multiple of 11, so it notices one wrong
\* digit and two neighbours that are swapped
CatchesSlips(body) ==
  /\ (WeightedSum(body) + CalculateVerifier(body)) % 11 = 0
  /\ \A i \in DOMAIN body : \A d \in Digit \ {body[i]} :
       CalculateVerifier([body EXCEPT ![i] = d]) # CalculateVerifier(body)
  /\ \A i \in 1 .. Len(body) - 1 : body[i] # body[i + 1] =>
       CalculateVerifier([body EXCEPT ![i] = body[i + 1], ![i + 1] = body[i]]) # CalculateVerifier(body)
=============================================================================
