----------------------------- MODULE MCDocuments -----------------------------
(***************************************************************************)
(* TLC's enumeration of numbers: bodies of a CPF or a CNPJ that differ from *)
(* a uniform one in at most MaxChanges digits.                             *)
(***************************************************************************)
EXTENDS Documents

CONSTANT MaxChanges

VARIABLES
  body,    \* the number without its check digits
  changes  \* how many digits were set so far

Init == /\ body \in {[i \in 1..n |-> d] : n \in {CPF_LENGTH - 2, CNPJ_LENGTH - 2},
                                          d \in {0, 7}}
        /\ changes = 0

\* A digit is set to another value, from left to right.
SetDigit ==
  /\ changes < MaxChanges
  /\ \E i \in DOMAIN body, d \in Digit :
       /\ \A j \in i..Len(body) : body[j] = body[Len(body)]
       /\ d # body[i]
       /\ body' = [body EXCEPT ![i] = d]
  /\ changes' = changes + 1

Spec == Init /\ [][SetDigit]_<<body, changes>>

Numbers == {body \o <<x, y>> : x \in Digit, y \in Digit}

\* Whether a number of either kind obeys the rules of its two check digits.
ByTheRule(value) ==
  IF Len(body) = CPF_LENGTH - 2
    THEN RuleCpf(body, value[10]) /\ RuleCpf(SubSeq(value, 1, 10), value[11])
    ELSE RuleCnpj(body, value[13]) /\ RuleCnpj(SubSeq(value, 1, 13), value[14])

\* Among the hundred numbers with this body the API accepts exactly those that
\* obey the rules and whose digits are not all the same; none is refused for a
\* remainder of 10.
AcceptsByTheRule ==
  \A value \in Numbers :
    ValidateDocument(value) <=>
      ByTheRule(value) /\ \E i \in DOMAIN value : value[i] # value[1]

Generated == IF Len(body) = CPF_LENGTH - 2
               THEN GenerateValidCpf(body) ELSE GenerateValidCnpj(body)

\* Of the numbers with this body the script of the sample data picks the one the
\* validators accept, though it computes the digits by itself; only of a body
\* all of whose digits are one that the check digits repeat is there none.
GeneratesTheValidNumber ==
  \A value \in Numbers :
    ValidateDocument(value) <=> value = Generated /\ ~Repeated(Generated)
=============================================================================
