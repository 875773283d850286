--------------------------- MODULE DocumentsProofs ---------------------------
(***************************************************************************)
(* validators.py accepts the numbers of Receita Federal's rule and no other, *)
(* and the sample data is of such numbers, whatever their digits.          *)
(***************************************************************************)
EXTENDS MCDocuments, SequenceTheorems, WellFoundedInduction, TLAPS

-----------------------------------------------------------------------------
(* Weighted totals.                                                        *)

\* Induction over the natural numbers, for one set of them.
LEMMA LeastOf ==
  ASSUME NEW T, T \subseteq Nat, T # {}
  PROVE  \E m \in T : \A n \in T : m <= n
<1>1. PICK m \in T : \A n \in T : <<n, m>> \notin OpToRel(<, Nat)
  BY NatLessThanWellFounded, WFMin
<1>2. \A n \in T : ~(n < m)
  BY <1>1 DEF OpToRel
<1> QED
  BY <1>2

LEMMA Induct ==
  ASSUME NEW T, 0 \in T, \A n \in Nat : n \in T => n + 1 \in T
  PROVE  Nat \subseteq T
<1> SUFFICES ASSUME Nat \ T # {}
             PROVE  FALSE
  OBVIOUS
<1>1. PICK m \in Nat \ T : \A n \in Nat \ T : m <= n
  BY LeastOf
<1>2. m # 0 /\ m - 1 \in Nat /\ m - 1 \notin Nat \ T
  BY <1>1
<1> QED
  BY <1>2

\* The running totals of a sum, up to the n-th term.
Totals(f, n, v, w) ==
  f = [i \in 0..n |-> IF i = 0 THEN 0 ELSE f[i - 1] + v[i] * w[i]]

LEMMA TotalsExist ==
  ASSUME NEW v, NEW w, NEW n \in Nat
  PROVE  \E f : Totals(f, n, v, w)
<1> DEFINE T == {k \in Nat : \E f : Totals(f, k, v, w)}
<1>1. 0 \in T
  <2>1. Totals([i \in 0..0 |-> 0], 0, v, w)
    BY DEF Totals
  <2> QED
    BY <2>1
<1>2. ASSUME NEW k \in Nat, k \in T
      PROVE  k + 1 \in T
  <2>1. PICK f : Totals(f, k, v, w)
    BY <1>2
  <2> DEFINE g == [i \in 0..(k + 1) |-> IF i = k + 1 THEN f[k] + v[k + 1] * w[k + 1]
                                         ELSE f[i]]
  <2>2. Totals(g, k + 1, v, w)
    BY <2>1 DEF Totals
  <2> QED
    BY <2>2
<1>3. Nat \subseteq T
  <2> HIDE DEF T
  <2> QED
    BY <1>1, <1>2, Induct
<1> QED
  BY <1>3

\* Weighted is the last of its running totals.
LEMMA WeightedIsTotal ==
  ASSUME NEW v \in Seq(Nat), NEW w
  PROVE  \E f : Totals(f, Len(v), v, w) /\ Weighted(v, w) = f[Len(v)]
<1> DEFINE total == CHOOSE f : Totals(f, Len(v), v, w)
<1>1. Len(v) \in Nat
  OBVIOUS
<1>2. \E f : Totals(f, Len(v), v, w)
  BY <1>1, TotalsExist
<1>3. Totals(total, Len(v), v, w)
  BY <1>2
<1>4. Weighted(v, w) = total[Len(v)]
  BY DEF Weighted, Totals
<1> QED
  BY <1>3, <1>4

LEMMA WeightedNat ==
  ASSUME NEW v \in Seq(Nat), NEW w, \A i \in 1..Len(v) : w[i] \in Nat
  PROVE  Weighted(v, w) \in Nat
<1>1. PICK f : Totals(f, Len(v), v, w) /\ Weighted(v, w) = f[Len(v)]
  BY WeightedIsTotal
<1> DEFINE T == {k \in Nat : k <= Len(v) => f[k] \in Nat}
<1>2. 0 \in T
  BY <1>1 DEF Totals
<1>3. ASSUME NEW k \in Nat, k \in T
      PROVE  k + 1 \in T
  <2> SUFFICES ASSUME k + 1 <= Len(v)
               PROVE  f[k + 1] \in Nat
    OBVIOUS
  <2> DEFINE a == v[k + 1]
             b == w[k + 1]
  <2>1. f[k] \in Nat /\ a \in Nat /\ b \in Nat
    BY <1>3
  <2>2. f[k + 1] = f[k] + a * b
    BY <1>1 DEF Totals
  <2> HIDE DEF a, b
  <2>3. a * b \in Nat
    BY <2>1
  <2>4. ASSUME NEW c \in Nat
        PROVE  f[k] + c \in Nat
    BY <2>1
  <2> QED
    BY <2>2, <2>3, <2>4
<1>4. Nat \subseteq T
  <2> HIDE DEF T
  <2> QED
    BY <1>2, <1>3, Induct
<1> QED
  BY <1>1, <1>4

\* Only the weights of the digits there are matter.
LEMMA SameWeightsSameTotal ==
  ASSUME NEW v \in Seq(Nat), NEW w, NEW x, \A i \in 1..Len(v) : w[i] = x[i]
  PROVE  Weighted(v, w) = Weighted(v, x)
<1>1. PICK f : Totals(f, Len(v), v, w) /\ Weighted(v, w) = f[Len(v)]
  BY WeightedIsTotal
<1>2. PICK g : Totals(g, Len(v), v, x) /\ Weighted(v, x) = g[Len(v)]
  BY WeightedIsTotal
<1> DEFINE T == {k \in Nat : k <= Len(v) => f[k] = g[k]}
<1>3. 0 \in T
  BY <1>1, <1>2 DEF Totals
<1>4. ASSUME NEW k \in Nat, k \in T
      PROVE  k + 1 \in T
  <2> SUFFICES ASSUME k + 1 <= Len(v)
               PROVE  f[k + 1] = g[k + 1]
    OBVIOUS
  <2>1. f[k] = g[k] /\ w[k + 1] = x[k + 1]
    BY <1>4
  <2>2. f[k + 1] = f[k] + v[k + 1] * w[k + 1]
    BY <1>1 DEF Totals
  <2>3. g[k + 1] = g[k] + v[k + 1] * x[k + 1]
    BY <1>2 DEF Totals
  <2> QED
    BY <2>1, <2>2, <2>3
<1>5. Nat \subseteq T
  <2> HIDE DEF T
  <2> QED
    BY <1>3, <1>4, Induct
<1> QED
  BY <1>1, <1>2, <1>5

-----------------------------------------------------------------------------
(* The digit for a total.                                                  *)

\* _cpf_digit: 11 less the remainder, 10 and 11 being written 0.  That the
\* digit 0 stands for both is right: 11 completes the total with 0, and 10
\* means that no digit does.
THEOREM CpfRemainderIsCheckDigit ==
  \A total \in Nat : IsCheckDigit(total, CpfRemainder(total))
<1> SUFFICES ASSUME NEW total \in Nat
             PROVE  IsCheckDigit(total, CpfRemainder(total))
  OBVIOUS
<1> DEFINE rest == total % 11
<1>1. rest \in 0..10 /\ \A e \in Digit : (total + e) % 11 = (rest + e) % 11
  BY DEF Digit
<1>2. CASE rest = 0
  <2>1. CpfRemainder(total) = 0
    BY <1>2 DEF CpfRemainder
  <2> QED
    BY <1>1, <1>2, <2>1 DEF IsCheckDigit, Completes, Digit
<1>3. CASE rest = 1
  <2>1. CpfRemainder(total) = 0
    BY <1>3 DEF CpfRemainder
  <2>2. \A e \in Digit : ~Completes(total, e)
    BY <1>1, <1>3 DEF Completes, Digit
  <2> QED
    BY <2>1, <2>2 DEF IsCheckDigit, Digit
<1>4. CASE rest \in 2..10
  <2>1. CpfRemainder(total) = 11 - rest
    BY <1>4 DEF CpfRemainder
  <2>2. Completes(total, 11 - rest) /\ 11 - rest \in Digit
    BY <1>1, <1>4 DEF Completes, Digit
  <2> QED
    BY <2>1, <2>2 DEF IsCheckDigit
<1> QED
  BY <1>1, <1>2, <1>3, <1>4

\* _cnpj_digit: the same digit, though it tells the remainders 0 and 1 apart
\* from the others before it subtracts.
THEOREM CnpjRemainderIsCheckDigit ==
  \A total \in Nat : IsCheckDigit(total, CnpjRemainder(total))
<1>1. \A total \in Nat : CnpjRemainder(total) = CpfRemainder(total)
  BY DEF CnpjRemainder, CpfRemainder
<1> QED
  BY <1>1, CpfRemainderIsCheckDigit

\* No total has two check digits: of the hundred numbers with one body the
\* validators accept at most one.
THEOREM OneCheckDigit ==
  \A total \in Nat : \A d, e :
    IsCheckDigit(total, d) /\ IsCheckDigit(total, e) => d = e
<1> SUFFICES ASSUME NEW total \in Nat, NEW d, NEW e,
                    IsCheckDigit(total, d), IsCheckDigit(total, e)
             PROVE  d = e
  OBVIOUS
<1>1. d \in Digit /\ e \in Digit
  BY DEF IsCheckDigit
<1>2. CASE Completes(total, d) /\ Completes(total, e)
  BY <1>1, <1>2 DEF Completes, Digit
<1>3. CASE \A f \in Digit : ~Completes(total, f)
  BY <1>1, <1>3 DEF IsCheckDigit
<1> QED
  BY <1>1, <1>2, <1>3 DEF IsCheckDigit

-----------------------------------------------------------------------------
(* The digits of a number.                                                 *)

\* The validator's weights are those of the rule, counted from the other end.
LEMMA CpfDigitByTheRule ==
  ASSUME NEW v \in Seq(Digit), NEW d
  PROVE  RuleCpf(v, d) <=> d = CpfDigit(v)
<1> DEFINE w == CpfWeights(Len(v))
           r == [i \in 1..Len(v) |-> 2 + (Len(v) - i)]
<1>1. v \in Seq(Nat) /\ Len(v) \in Nat
  BY DEF Digit
<1>2. \A i \in 1..Len(v) : w[i] \in Nat /\ w[i] = r[i]
  BY <1>1 DEF CpfWeights
<1>3. Weighted(v, w) \in Nat /\ Weighted(v, r) = Weighted(v, w)
  BY <1>1, <1>2, WeightedNat, SameWeightsSameTotal
<1>4. RuleCpf(v, d) <=> IsCheckDigit(Weighted(v, w), d)
  BY <1>3 DEF RuleCpf
<1> QED
  BY <1>3, <1>4, CpfRemainderIsCheckDigit, OneCheckDigit DEF CpfDigit

\* The rule goes round after eight weights; the lists of the validator are
\* for the 12 and the 13 digits that a CNPJ has before its check digits.
LEMMA CnpjDigitByTheRule ==
  ASSUME NEW v \in Seq(Digit), Len(v) \in {12, 13}, NEW d
  PROVE  RuleCnpj(v, d) <=> d = CnpjDigit(v)
<1> DEFINE w == CnpjWeights(Len(v))
           r == [i \in 1..Len(v) |-> 2 + ((Len(v) - i) % 8)]
<1>1. v \in Seq(Nat) /\ Len(v) \in Nat
  BY DEF Digit
<1>2. ASSUME NEW i \in 1..Len(v)
      PROVE  w[i] \in Nat /\ w[i] = r[i]
  <2>1. r[i] = 2 + ((Len(v) - i) % 8)
    OBVIOUS
  <2>2. CASE i <= Len(v) - 8
    <3>1. Len(v) - i \in 8..12
      <4>1. \A n \in {12, 13} : \A j \in 1..n : j <= n - 8 => n - j \in 8..12
        OBVIOUS
      <4> QED
        BY <2>2, <4>1
    <3>2. (Len(v) - i) % 8 = Len(v) - i - 8
      BY <3>1
    <3> QED
      BY <2>1, <2>2, <3>2 DEF CnpjWeights
  <2>3. CASE ~(i <= Len(v) - 8)
    <3>1. Len(v) - i \in 0..7
      BY <2>3
    <3>2. (Len(v) - i) % 8 = Len(v) - i
      BY <3>1
    <3> QED
      BY <2>1, <2>3, <3>2 DEF CnpjWeights
  <2> QED
    BY <2>2, <2>3
<1>3. Weighted(v, w) \in Nat /\ Weighted(v, r) = Weighted(v, w)
  BY <1>1, <1>2, WeightedNat, SameWeightsSameTotal
<1>4. RuleCnpj(v, d) <=> IsCheckDigit(Weighted(v, w), d)
  BY <1>3 DEF RuleCnpj
<1> QED
  BY <1>3, <1>4, CnpjRemainderIsCheckDigit, OneCheckDigit DEF CnpjDigit

LEMMA CpfDigitIsDigit ==
  ASSUME NEW v \in Seq(Digit)
  PROVE  CpfDigit(v) \in Digit
BY CpfDigitByTheRule DEF RuleCpf, IsCheckDigit

LEMMA CnpjDigitIsDigit ==
  ASSUME NEW v \in Seq(Digit), Len(v) \in {12, 13}
  PROVE  CnpjDigit(v) \in Digit
BY CnpjDigitByTheRule DEF RuleCnpj, IsCheckDigit

-----------------------------------------------------------------------------
(* Numbers.                                                                *)

\* The digits that a check digit is computed from.
LEMMA PrefixGrows ==
  ASSUME NEW v \in Seq(Digit), NEW n \in Nat, n < Len(v)
  PROVE  /\ SubSeq(v, 1, n) \in Seq(Digit) /\ Len(SubSeq(v, 1, n)) = n
         /\ SubSeq(v, 1, n + 1) = Append(SubSeq(v, 1, n), v[n + 1])
<1> DEFINE s == SubSeq(v, 1, n)
           t == SubSeq(v, 1, n + 1)
<1>1. /\ s \in Seq(Digit) /\ Len(s) = n
      /\ \A i \in 1..n : s[i] = v[i]
  BY SubSeqProperties
<1>2. /\ t \in Seq(Digit) /\ Len(t) = n + 1
      /\ \A i \in 1..(n + 1) : t[i] = v[i]
  BY SubSeqProperties
<1>3. v[n + 1] \in Digit
  BY ElementOfSeq
<1> HIDE DEF s, t
<1> DEFINE u == Append(s, v[n + 1])
<1>4. /\ u \in Seq(Digit) /\ Len(u) = n + 1
      /\ \A i \in 1..n : u[i] = s[i]
      /\ u[n + 1] = v[n + 1]
  BY <1>1, <1>3, AppendProperties
<1> HIDE DEF u
<1>5. t = u
  BY <1>1, <1>2, <1>4, SeqEqual
<1> QED
  BY <1>1, <1>5 DEF s, t, u

Different(value) == \E i \in DOMAIN value : value[i] # value[1]

\* is_valid_cpf accepts, of all numbers of eleven digits, those whose two
\* check digits are the ones of the rule and whose digits are not all the same.
THEOREM CpfAcceptsByTheRule ==
  ASSUME NEW value \in Seq(Digit), Len(value) = CPF_LENGTH
  PROVE  ValidateDocument(value) <=>
           /\ RuleCpf(SubSeq(value, 1, 9), value[10])
           /\ RuleCpf(SubSeq(value, 1, 10), value[11])
           /\ Different(value)
<1> DEFINE nine == SubSeq(value, 1, 9)
           ten == SubSeq(value, 1, 10)
<1>1. /\ nine \in Seq(Digit) /\ ten \in Seq(Digit)
      /\ ten = Append(nine, value[10])
  <2>1. {9, 10} \subseteq Nat /\ 9 < Len(value) /\ 10 < Len(value) /\ 9 + 1 = 10
    BY DEF CPF_LENGTH
  <2> QED
    BY <2>1, PrefixGrows, Zenon
<1>2. ValidateDocument(value) <=> IsValidCpf(value)
  BY DEF ValidateDocument, CPF_LENGTH, CNPJ_LENGTH
<1> HIDE DEF nine, ten
<1>3. ValidateDocument(value) <=>
        Different(value) /\ value[10] = CpfDigit(nine) /\ value[11] = CpfDigit(ten)
  BY <1>1, <1>2 DEF IsValidCpf, Repeated, Different, nine
<1> QED
  BY <1>1, <1>3, CpfDigitByTheRule DEF nine, ten

\* is_valid_cnpj, the same for numbers of fourteen digits.
THEOREM CnpjAcceptsByTheRule ==
  ASSUME NEW value \in Seq(Digit), Len(value) = CNPJ_LENGTH
  PROVE  ValidateDocument(value) <=>
           /\ RuleCnpj(SubSeq(value, 1, 12), value[13])
           /\ RuleCnpj(SubSeq(value, 1, 13), value[14])
           /\ Different(value)
<1> DEFINE twelve == SubSeq(value, 1, 12)
           thirteen == SubSeq(value, 1, 13)
<1>1. /\ twelve \in Seq(Digit) /\ Len(twelve) = 12
      /\ thirteen \in Seq(Digit) /\ Len(thirteen) = 13
      /\ thirteen = Append(twelve, value[13])
  <2>1. {12, 13} \subseteq Nat /\ 12 < Len(value) /\ 13 < Len(value) /\ 12 + 1 = 13
    BY DEF CNPJ_LENGTH
  <2> QED
    BY <2>1, PrefixGrows, Zenon
<1>2. ValidateDocument(value) <=> IsValidCnpj(value)
  BY DEF ValidateDocument, CPF_LENGTH, CNPJ_LENGTH
<1> HIDE DEF twelve, thirteen
<1>3. ValidateDocument(value) <=>
        Different(value) /\ value[13] = CnpjDigit(twelve) /\ value[14] = CnpjDigit(thirteen)
  BY <1>1, <1>2 DEF IsValidCnpj, Repeated, Different, twelve
<1> QED
  BY <1>1, <1>3, CnpjDigitByTheRule DEF twelve, thirteen

-----------------------------------------------------------------------------
(* Numbers with a given body.                                              *)

CpfBody == {v \in Seq(Digit) : Len(v) = CPF_LENGTH - 2}
CnpjBody == {v \in Seq(Digit) : Len(v) = CNPJ_LENGTH - 2}

LEMMA BodyLengths ==
  /\ \A v \in CpfBody : v \in Seq(Digit) /\ Len(v) = 9 /\ Len(v) > 0
                        /\ Len(v) + 1 = 10 /\ Len(v) + 2 = 11
  /\ \A v \in CnpjBody : v \in Seq(Digit) /\ Len(v) = 12 /\ Len(v) > 0
                         /\ Len(v) + 1 = 13 /\ Len(v) + 2 = 14
                         /\ Len(v) # CPF_LENGTH - 2
<1>1. CPF_LENGTH - 2 = 9 /\ CNPJ_LENGTH - 2 = 12
  BY DEF CPF_LENGTH, CNPJ_LENGTH
<1>2. /\ \A v \in CpfBody : v \in Seq(Digit) /\ Len(v) = 9
      /\ \A v \in CnpjBody : v \in Seq(Digit) /\ Len(v) = 12
  BY <1>1, Zenon DEF CpfBody, CnpjBody
<1>3. 9 > 0 /\ 9 + 1 = 10 /\ 9 + 2 = 11 /\ 12 > 0 /\ 12 + 1 = 13 /\ 12 + 2 = 14 /\ 12 # 9
  OBVIOUS
<1> QED
  BY <1>1, <1>2, <1>3, Zenon

\* A body and its check digits.
Completed(base, x, y) == base \o <<x, y>>

LEMMA CompletedBody ==
  ASSUME NEW base \in Seq(Digit), Len(base) > 0, NEW x \in Digit, NEW y \in Digit
  PROVE  /\ Completed(base, x, y) \in Seq(Digit)
         /\ Len(Completed(base, x, y)) = Len(base) + 2
         /\ Completed(base, x, y)[Len(base) + 1] = x
         /\ Completed(base, x, y)[Len(base) + 2] = y
         /\ SubSeq(Completed(base, x, y), 1, Len(base)) = base
<1> DEFINE end == <<x, y>>
           value == Completed(base, x, y)
<1>1. end \in Seq(Digit) /\ Len(end) = 2 /\ end[1] = x /\ end[2] = y
  OBVIOUS
<1> HIDE DEF end
<1>2. value = base \o end
  BY DEF end, Completed
<1> HIDE DEF value
<1>3. /\ value \in Seq(Digit) /\ Len(value) = Len(base) + 2
      /\ \A i \in 1..(Len(base) + 2) :
           value[i] = IF i <= Len(base) THEN base[i] ELSE end[i - Len(base)]
  <2>1. /\ base \o end \in Seq(Digit) /\ Len(base \o end) = Len(base) + Len(end)
        /\ \A i \in 1..(Len(base) + Len(end)) :
             (base \o end)[i] = IF i <= Len(base) THEN base[i] ELSE end[i - Len(base)]
    BY <1>1, ConcatProperties
  <2> QED
    BY <1>1, <1>2, <2>1, Zenon
<1>4. SubSeq(value, 1, Len(base)) = base
  BY <1>1, <1>2, SubSeqOfConcat1, SubSeqFull
<1> QED
  BY <1>1, <1>3, <1>4 DEF value

LEMMA CompletedOnce ==
  ASSUME NEW base \in Seq(Digit), Len(base) > 0, NEW x \in Digit, NEW y \in Digit,
         NEW u \in Digit, NEW v \in Digit
  PROVE  Completed(base, x, y) = Completed(base, u, v) <=> x = u /\ y = v
<1>1. Completed(base, x, y)[Len(base) + 1] = x /\ Completed(base, x, y)[Len(base) + 2] = y
  BY CompletedBody
<1>2. Completed(base, u, v)[Len(base) + 1] = u /\ Completed(base, u, v)[Len(base) + 2] = v
  BY CompletedBody
<1> QED
  BY <1>1, <1>2, Zenon

\* Of the hundred numbers with one body, one has the check digits.
LEMMA CpfOfBody ==
  ASSUME NEW base \in CpfBody, NEW x \in Digit, NEW y \in Digit,
         NEW value, value = Completed(base, x, y)
  PROVE  ValidateDocument(value) <=>
           ~Repeated(value) /\ x = CpfDigit(base) /\ y = CpfDigit(Append(base, x))
<1>1. /\ value \in Seq(Digit) /\ Len(value) = 11
      /\ value[10] = x /\ value[11] = y /\ SubSeq(value, 1, 9) = base
  <2>1. base \in Seq(Digit) /\ Len(base) > 0
    BY BodyLengths
  <2>2. /\ value \in Seq(Digit) /\ Len(value) = Len(base) + 2
        /\ value[Len(base) + 1] = x /\ value[Len(base) + 2] = y
        /\ SubSeq(value, 1, Len(base)) = base
    <3>1. /\ Completed(base, x, y) \in Seq(Digit)
          /\ Len(Completed(base, x, y)) = Len(base) + 2
          /\ Completed(base, x, y)[Len(base) + 1] = x
          /\ Completed(base, x, y)[Len(base) + 2] = y
          /\ SubSeq(Completed(base, x, y), 1, Len(base)) = base
      BY <2>1, CompletedBody
    <3> QED
      BY <3>1, Zenon
  <2> QED
    BY <2>2, BodyLengths, Zenon
<1>2. ValidateDocument(value) <=> IsValidCpf(value)
  BY <1>1 DEF ValidateDocument, CPF_LENGTH, CNPJ_LENGTH
<1>3. IsValidCpf(value) <=>
        ~Repeated(value) /\ x = CpfDigit(base) /\ y = CpfDigit(Append(base, CpfDigit(base)))
  BY <1>1, Zenon DEF IsValidCpf, CPF_LENGTH
<1> QED
  BY <1>2, <1>3, Zenon

LEMMA CnpjOfBody ==
  ASSUME NEW base \in CnpjBody, NEW x \in Digit, NEW y \in Digit,
         NEW value, value = Completed(base, x, y)
  PROVE  ValidateDocument(value) <=>
           ~Repeated(value) /\ x = CnpjDigit(base) /\ y = CnpjDigit(Append(base, x))
<1>1. /\ value \in Seq(Digit) /\ Len(value) = 14
      /\ value[13] = x /\ value[14] = y /\ SubSeq(value, 1, 12) = base
  <2>1. base \in Seq(Digit) /\ Len(base) > 0
    BY BodyLengths
  <2>2. /\ value \in Seq(Digit) /\ Len(value) = Len(base) + 2
        /\ value[Len(base) + 1] = x /\ value[Len(base) + 2] = y
        /\ SubSeq(value, 1, Len(base)) = base
    <3>1. /\ Completed(base, x, y) \in Seq(Digit)
          /\ Len(Completed(base, x, y)) = Len(base) + 2
          /\ Completed(base, x, y)[Len(base) + 1] = x
          /\ Completed(base, x, y)[Len(base) + 2] = y
          /\ SubSeq(Completed(base, x, y), 1, Len(base)) = base
      BY <2>1, CompletedBody
    <3> QED
      BY <3>1, Zenon
  <2> QED
    BY <2>2, BodyLengths, Zenon
<1>2. ValidateDocument(value) <=> IsValidCnpj(value)
  BY <1>1 DEF ValidateDocument, CPF_LENGTH, CNPJ_LENGTH
<1>3. IsValidCnpj(value) <=>
        ~Repeated(value) /\ x = CnpjDigit(base) /\ y = CnpjDigit(Append(base, CnpjDigit(base)))
  BY <1>1, Zenon DEF IsValidCnpj, CNPJ_LENGTH
<1> QED
  BY <1>2, <1>3, Zenon

LEMMA DigitAppended ==
  ASSUME NEW v \in Seq(Digit), NEW d \in Digit
  PROVE  Append(v, d) \in Seq(Digit) /\ Len(Append(v, d)) = Len(v) + 1
BY AppendProperties

\* The weights that the sample data counts or lists are those of the validators.
LEMMA GenerateValidCpfDigits ==
  ASSUME NEW base \in CpfBody
  PROVE  GenerateValidCpf(base) =
           base \o <<CpfDigit(base), CpfDigit(Append(base, CpfDigit(base)))>>
<1> DEFINE first == CpfDigit(base)
           ten == Append(base, first)
           Weights(factor) == [i \in 1..(factor - 1) |-> factor + 1 - i]
<1>0. base \in Seq(Digit) /\ base \in Seq(Nat) /\ Len(base) = 9
  BY BodyLengths DEF Digit
<1>1. first \in Digit
  BY <1>0, CpfDigitIsDigit
<1> HIDE DEF first
<1>2. ten \in Seq(Digit) /\ Len(ten) = 10
  BY <1>1, BodyLengths, DigitAppended, Zenon
<1> HIDE DEF ten
<1>3. CpfRemainder(Weighted(base, Weights(10))) = first
  <2>1. \A i \in 1..9 : Weights(10)[i] = CpfWeights(9)[i]
    BY DEF CpfWeights
  <2> HIDE DEF Weights
  <2>2. Weighted(base, Weights(10)) = Weighted(base, CpfWeights(9))
    BY <1>0, <2>1, SameWeightsSameTotal
  <2> QED
    BY <1>0, <2>2 DEF first, CpfDigit
<1>4. CpfRemainder(Weighted(ten, Weights(11))) = CpfDigit(ten)
  <2>1. \A i \in 1..10 : Weights(11)[i] = CpfWeights(10)[i]
    BY DEF CpfWeights
  <2>2. ten \in Seq(Nat)
    BY <1>2 DEF Digit
  <2> HIDE DEF Weights
  <2>3. Weighted(ten, Weights(11)) = Weighted(ten, CpfWeights(10))
    BY <1>2, <2>1, <2>2, SameWeightsSameTotal
  <2> QED
    BY <1>2, <2>3 DEF CpfDigit
<1>5. GenerateValidCpf(base) = base \o <<first, CpfDigit(ten)>>
  BY <1>3, <1>4 DEF GenerateValidCpf, ten
<1> QED
  BY <1>5 DEF first, ten

LEMMA GenerateValidCnpjDigits ==
  ASSUME NEW base \in CnpjBody
  PROVE  GenerateValidCnpj(base) =
           base \o <<CnpjDigit(base), CnpjDigit(Append(base, CnpjDigit(base)))>>
<1> DEFINE first == CnpjDigit(base)
           thirteen == Append(base, first)
           v == <<5, 4, 3, 2, 9, 8, 7, 6, 5, 4, 3, 2>>
           w == <<6, 5, 4, 3, 2, 9, 8, 7, 6, 5, 4, 3, 2>>
<1>0. base \in Seq(Digit) /\ base \in Seq(Nat) /\ Len(base) = 12
  BY BodyLengths DEF Digit
<1>1. first \in Digit
  BY <1>0, CnpjDigitIsDigit
<1> HIDE DEF first
<1>2. thirteen \in Seq(Digit) /\ Len(thirteen) = 13
  BY <1>1, BodyLengths, DigitAppended, Zenon
<1> HIDE DEF thirteen
<1>3. CnpjRemainder(Weighted(base, v)) = first
  <2>1. \A i \in 1..12 : v[i] = CnpjWeights(12)[i]
    BY DEF CnpjWeights
  <2> HIDE DEF v
  <2>2. Weighted(base, v) = Weighted(base, CnpjWeights(12))
    BY <1>0, <2>1, SameWeightsSameTotal
  <2> QED
    BY <1>0, <2>2 DEF first, CnpjDigit
<1>4. CnpjRemainder(Weighted(thirteen, w)) = CnpjDigit(thirteen)
  <2>1. \A i \in 1..13 : w[i] = CnpjWeights(13)[i]
    BY DEF CnpjWeights
  <2>2. thirteen \in Seq(Nat)
    BY <1>2 DEF Digit
  <2> HIDE DEF w
  <2>3. Weighted(thirteen, w) = Weighted(thirteen, CnpjWeights(13))
    BY <1>2, <2>1, <2>2, SameWeightsSameTotal
  <2> QED
    BY <1>2, <2>3 DEF CnpjDigit
<1>5. GenerateValidCnpj(base) = base \o <<first, CnpjDigit(thirteen)>>
  BY <1>3, <1>4 DEF GenerateValidCnpj, thirteen
<1> QED
  BY <1>5 DEF first, thirteen

\* generate_valid_cpf picks, for every body, the one number of that body that
\* is_valid_cpf accepts, unless all of its digits are the same.
THEOREM GeneratesTheValidCpf ==
  ASSUME NEW base \in CpfBody, NEW x \in Digit, NEW y \in Digit,
         NEW value, value = Completed(base, x, y)
  PROVE  ValidateDocument(value) <=>
           value = GenerateValidCpf(base) /\ ~Repeated(GenerateValidCpf(base))
<1> DEFINE first == CpfDigit(base)
           second == CpfDigit(Append(base, first))
<1>1. first \in Digit /\ second \in Digit
  BY BodyLengths, CpfDigitIsDigit, DigitAppended
<1>2. GenerateValidCpf(base) = Completed(base, first, second)
  BY GenerateValidCpfDigits DEF Completed
<1> HIDE DEF first, second
<1>3. value = Completed(base, first, second) <=> x = first /\ y = second
  BY <1>1, BodyLengths, CompletedOnce
<1>4. ValidateDocument(value) <=> ~Repeated(value) /\ x = first /\ y = second
  BY CpfOfBody DEF first, second
<1> QED
  BY <1>2, <1>3, <1>4, Zenon

\* generate_valid_cnpj, the same for is_valid_cnpj.
THEOREM GeneratesTheValidCnpj ==
  ASSUME NEW base \in CnpjBody, NEW x \in Digit, NEW y \in Digit,
         NEW value, value = Completed(base, x, y)
  PROVE  ValidateDocument(value) <=>
           value = GenerateValidCnpj(base) /\ ~Repeated(GenerateValidCnpj(base))
<1> DEFINE first == CnpjDigit(base)
           second == CnpjDigit(Append(base, first))
<1>1. first \in Digit /\ second \in Digit
  <2>1. first \in Digit
    BY BodyLengths, CnpjDigitIsDigit
  <2> HIDE DEF first
  <2>2. Append(base, first) \in Seq(Digit) /\ Len(Append(base, first)) = 13
    BY <2>1, BodyLengths, DigitAppended, Zenon
  <2> QED
    BY <2>1, <2>2, CnpjDigitIsDigit
<1>2. GenerateValidCnpj(base) = Completed(base, first, second)
  BY GenerateValidCnpjDigits DEF Completed
<1> HIDE DEF first, second
<1>3. value = Completed(base, first, second) <=> x = first /\ y = second
  BY <1>1, BodyLengths, CompletedOnce
<1>4. ValidateDocument(value) <=> ~Repeated(value) /\ x = first /\ y = second
  BY CnpjOfBody DEF first, second
<1> QED
  BY <1>2, <1>3, <1>4, Zenon

-----------------------------------------------------------------------------
(* The numbers that MCDocuments enumerates, for any number of changes.     *)

BodyType == body \in CpfBody \union CnpjBody

LEMMA BodyTypeHolds == Spec => []BodyType
<1>1. Init => BodyType
  <2> SUFFICES ASSUME NEW n \in {9, 12}, NEW d \in {0, 7}, body = [i \in 1..n |-> d]
               PROVE  BodyType
    BY DEF Init, CPF_LENGTH, CNPJ_LENGTH
  <2>1. n \in Nat /\ \A i \in 1..n : d \in Digit
    BY DEF Digit
  <2>2. body \in Seq(Digit) /\ Len(body) = n
    BY <2>1
  <2> QED
    BY <2>2 DEF BodyType, CpfBody, CnpjBody, CPF_LENGTH, CNPJ_LENGTH
<1>2. BodyType /\ [SetDigit]_<<body, changes>> => BodyType'
  <2> SUFFICES ASSUME BodyType, NEW i \in DOMAIN body, NEW d \in Digit,
                      body' = [body EXCEPT ![i] = d]
               PROVE  BodyType'
    BY DEF BodyType, SetDigit
  <2>1. body \in Seq(Digit)
    BY BodyLengths DEF BodyType
  <2>2. body' \in Seq(Digit) /\ Len(body') = Len(body)
    BY <2>1
  <2> QED
    BY <2>2 DEF BodyType, CpfBody, CnpjBody
<1> QED
  BY <1>1, <1>2, PTL DEF Spec

\* The validators of app/shared/validators.py decide by the rule.
THEOREM AcceptsByTheRuleHolds == Spec => []AcceptsByTheRule
<1>1. BodyType => AcceptsByTheRule
  <2> SUFFICES ASSUME BodyType, NEW value \in Numbers
               PROVE  ValidateDocument(value) <=> ByTheRule(value) /\ Different(value)
    BY DEF AcceptsByTheRule, Different
  <2> PICK x \in Digit, y \in Digit : value = Completed(body, x, y)
    <3>1. Numbers = {Completed(body, x, y) : x \in Digit, y \in Digit}
      BY DEF Numbers, Completed
    <3> QED
      BY <3>1
  <2>1. /\ value \in Seq(Digit) /\ Len(value) = Len(body) + 2
        /\ SubSeq(value, 1, Len(body)) = body
    BY BodyLengths, CompletedBody DEF BodyType
  <2>2. CASE body \in CpfBody
    <3>1. Len(value) = CPF_LENGTH /\ Len(body) = CPF_LENGTH - 2
      BY <2>1, <2>2, BodyLengths, Zenon DEF CPF_LENGTH, CpfBody
    <3> QED
      BY <2>1, <2>2, <3>1, BodyLengths, CpfAcceptsByTheRule, Zenon DEF ByTheRule
  <2>3. CASE body \in CnpjBody
    <3>1. Len(value) = CNPJ_LENGTH /\ Len(body) # CPF_LENGTH - 2
      BY <2>1, <2>3, BodyLengths, Zenon DEF CNPJ_LENGTH
    <3> QED
      BY <2>1, <2>3, <3>1, BodyLengths, CnpjAcceptsByTheRule, Zenon DEF ByTheRule
  <2> QED
    BY <2>2, <2>3 DEF BodyType
<1> QED
  BY <1>1, BodyTypeHolds, PTL

\* The script of the sample data, scripts/populate_db.py, agrees with them.
THEOREM GeneratesTheValidNumberHolds == Spec => []GeneratesTheValidNumber
<1>1. BodyType => GeneratesTheValidNumber
  <2> SUFFICES ASSUME BodyType, NEW value \in Numbers
               PROVE  ValidateDocument(value) <=> value = Generated /\ ~Repeated(Generated)
    BY DEF GeneratesTheValidNumber
  <2> PICK x \in Digit, y \in Digit : value = Completed(body, x, y)
    <3>1. Numbers = {Completed(body, x, y) : x \in Digit, y \in Digit}
      BY DEF Numbers, Completed
    <3> QED
      BY <3>1
  <2>1. CASE body \in CpfBody
    <3>1. Generated = GenerateValidCpf(body)
      BY <2>1, Zenon DEF Generated, CpfBody
    <3> QED
      BY <2>1, <3>1, GeneratesTheValidCpf, Zenon DEF BodyType
  <2>2. CASE body \in CnpjBody
    <3>1. Generated = GenerateValidCnpj(body)
      BY <2>2, BodyLengths, Zenon DEF Generated
    <3> QED
      BY <2>2, <3>1, GeneratesTheValidCnpj, Zenon DEF BodyType
  <2> QED
    BY <2>1, <2>2 DEF BodyType
<1> QED
  BY <1>1, BodyTypeHolds, PTL
=============================================================================
