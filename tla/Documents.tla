------------------------------ MODULE Documents ------------------------------
(***************************************************************************)
(* The check digits of CPF and CNPJ numbers (app/shared/validators.py).  A *)
(* number is a sequence of digits, only_digits having been applied.        *)
(***************************************************************************)
EXTENDS Naturals, Sequences

CPF_LENGTH == 11
CNPJ_LENGTH == 14

\* sum(int(number) * weight for number, weight in zip(value, weights))
Weighted(value, weight) ==
  LET total[i \in 0..Len(value)] ==
        IF i = 0 THEN 0 ELSE total[i - 1] + value[i] * weight[i]
  IN  total[Len(value)]

\* range(len(value) + 1, 1, -1)
CpfWeights(n) == [i \in 1..n |-> n + 2 - i]

\* Both lists count down from 9 to 2 once the first 4, or 5, digits are weighed.
CnpjWeights(n) == [i \in 1..n |-> IF i <= n - 8 THEN n - 6 - i ELSE n + 2 - i]

\* Mutant: a remainder of 10 is written as it is, a remainder of 11 as 0.
CpfRemainder_Ten(total) ==
  LET remainder == 11 - (total % 11)
  IN  IF remainder > 10 THEN 0 ELSE remainder

CpfRemainder(total) ==
  LET remainder == 11 - (total % 11)
  IN  IF remainder >= 10 THEN 0 ELSE remainder

CnpjRemainder(total) ==
  LET remainder == total % 11
  IN  IF remainder < 2 THEN 0 ELSE 11 - remainder

CpfDigit(value) == CpfRemainder(Weighted(value, CpfWeights(Len(value))))
CnpjDigit(value) == CnpjRemainder(Weighted(value, CnpjWeights(Len(value))))

\* value == value[0] * LENGTH
Repeated(value) == \A i \in DOMAIN value : value[i] = value[1]

IsValidCpf(value) ==
  LET body == SubSeq(value, 1, 9)
      first == CpfDigit(body)
  IN  /\ Len(value) = CPF_LENGTH
      /\ ~Repeated(value)
      /\ value[10] = first
      /\ value[11] = CpfDigit(Append(body, first))

IsValidCnpj(value) ==
  LET body == SubSeq(value, 1, 12)
      first == CnpjDigit(body)
  IN  /\ Len(value) = CNPJ_LENGTH
      /\ ~Repeated(value)
      /\ value[13] = first
      /\ value[14] = CnpjDigit(Append(body, first))

\* validate_document: detect_document_type goes by the length.
ValidateDocument(value) ==
  \/ Len(value) = CPF_LENGTH /\ IsValidCpf(value)
  \/ Len(value) = CNPJ_LENGTH /\ IsValidCnpj(value)

-----------------------------------------------------------------------------
(* The numbers of the sample data (scripts/populate_db.py): a random body,  *)
(* completed by code that was written apart from the validators.           *)

\* Mutant: the second digit is computed without the first.
GenerateValidCpf_FromBody(base) == base \o <<CpfDigit(base), CpfDigit(base)>>

\* generate_valid_cpf counts the weights down from a factor of its own.
GenerateValidCpf(base) ==
  LET Weights(factor) == [i \in 1..(factor - 1) |-> factor + 1 - i]
      first == CpfRemainder(Weighted(base, Weights(10)))
      second == CpfRemainder(Weighted(Append(base, first), Weights(11)))
  IN  base \o <<first, second>>

\* generate_valid_cnpj lists them.
GenerateValidCnpj(base) ==
  LET first == CnpjRemainder(
        Weighted(base, <<5, 4, 3, 2, 9, 8, 7, 6, 5, 4, 3, 2>>))
      second == CnpjRemainder(
        Weighted(Append(base, first), <<6, 5, 4, 3, 2, 9, 8, 7, 6, 5, 4, 3, 2>>))
  IN  base \o <<first, second>>

-----------------------------------------------------------------------------
(* The rule of Receita Federal, as a reference: the weighted digits and the *)
(* check digit add up to a multiple of 11, and where no digit does, it is 0. *)

Digit == 0..9

Completes(total, d) == (total + d) % 11 = 0

IsCheckDigit(total, d) ==
  /\ d \in Digit
  /\ Completes(total, d) \/ (d = 0 /\ \A e \in Digit : ~Completes(total, e))

\* The weights as the rule lists them, from the last digit of the body back:
\* 2, 3, 4, ... for a CPF, 2 to 9 and round again for a CNPJ.
RuleCpf(value, d) ==
  IsCheckDigit(Weighted(value, [i \in 1..Len(value) |-> 2 + (Len(value) - i)]), d)
RuleCnpj(value, d) ==
  IsCheckDigit(Weighted(value, [i \in 1..Len(value) |-> 2 + ((Len(value) - i) % 8)]), d)
=============================================================================
