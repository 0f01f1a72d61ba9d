------------------------------- MODULE Recovery --------------------------------
(* Getting a master key back (oblivio/recovery.py): the printed code with its   *)
(* checksum, the backup under a passphrase, and Shamir's shares over GF(2^n).   *)
(*                                                                            *)
(* The field is any GF(2^FieldBits) in which 3 generates the units, built by    *)
(* tables as the code builds GF(256); a key is one element, since the code      *)
(* treats each of its bytes alone. A checksum is the term it is computed from.  *)
EXTENDS Integers, Sequences, FiniteSets, SequencesExt, Bitwise

CONSTANTS FieldBits, Poly   \* 8 and 0x11B in the code

Order == 2 ^ FieldBits
Elements == 0 .. Order - 1
Units == Order - 1
Refused == -1

-----------------------------------------------------------------------------
(* The tables: powers of 3, each the last one times x + 1, reduced.            *)
Reduced(x) == IF x >= Order THEN x ^^ Poly ELSE x
TimesGenerator(x) == x ^^ Reduced(2 * x)

Exp[i \in 0 .. Units - 1] == IF i = 0 THEN 1 ELSE TimesGenerator(Exp[i - 1])
Log == [x \in 1 .. Units |-> CHOOSE i \in 0 .. Units - 1 : Exp[i] = x]

Mul(a, b) == IF a = 0 \/ b = 0 THEN 0 ELSE Exp[(Log[a] + Log[b]) % Units]
Div(a, b) == IF a = 0 THEN 0 ELSE Exp[(Log[a] - Log[b]) % Units]

-----------------------------------------------------------------------------
(* A share is the polynomial at the share's index; at 0 it is the key.         *)
At(coefficients, x) ==
  LET horner[i \in 0 .. Len(coefficients)] ==
        IF i = 0 THEN 0
        ELSE Mul(horner[i - 1], x) ^^ coefficients[Len(coefficients) + 1 - i]
  IN horner[Len(coefficients)]

MaySplit(threshold, shares) ==
  2 <= threshold /\ threshold <= shares /\ shares <= Order - 1

(* Mutant: the points are counted from zero, and the first is the key.        *)
SharesFromZero(coefficients, shares) ==
  {[index |-> i, data |-> At(coefficients, i - 1)] : i \in 1 .. shares}

Shares(coefficients, shares) ==
  {[index |-> i, data |-> At(coefficients, i)] : i \in 1 .. shares}

(* Interpolation at 0. In this field minus is plus.                           *)
Weight(i, indices) ==
  FoldSet(LAMBDA j, w : Mul(w, Div(j, i ^^ j)), 1, indices \ {i})

Interpolated(shares) ==
  LET indices == {s.index : s \in shares}
  IN FoldSet(LAMBDA s, acc : acc ^^ Mul(s.data, Weight(s.index, indices)), 0, shares)

(* A list is refused when too short, when two shares have one index, and when *)
(* one has index 0. How many were needed is not known here.                   *)
MayCombine(list) ==
  LET shares == {list[i] : i \in DOMAIN list}
  IN /\ Len(list) >= 2
     /\ Cardinality({s.index : s \in shares}) = Len(list)
     /\ \A s \in shares : s.index # 0

CombineShares(list) ==
  IF MayCombine(list) THEN Interpolated({list[i] : i \in DOMAIN list}) ELSE Refused

-----------------------------------------------------------------------------
(* What is written on paper: the payload, its checksum, and the spare bits of *)
(* the last character, which belong to no byte.                               *)
Checksum(payload) == <<"checksum", payload>>
Code(key) == [payload |-> key, check |-> Checksum(key), spare |-> 0]

ReadsAsCode(code) == code.spare = 0 /\ code.check = Checksum(code.payload)

(* A share's index is printed in front of it, too; something else than a      *)
(* number there is passed over.                                               *)
NoNumber == -1
EncodedShare(s) == [label |-> s.index, payload |-> s, check |-> Checksum(s), spare |-> 0]

ReadsAsShare(text) ==
  /\ text.spare = 0
  /\ text.check = Checksum(text.payload)
  /\ text.label = NoNumber \/ text.label = text.payload.index

(* The backup: opened by the passphrase that sealed it, and by no other.      *)
MayWrap(passphrase) == passphrase # ""
Wrapped(key, passphrase) == [magic |-> TRUE, whole |-> TRUE, sealed |-> key, under |-> passphrase]
Opened(blob, passphrase) ==
  IF blob.magic /\ blob.whole /\ blob.under = passphrase THEN blob.sealed ELSE Refused

-----------------------------------------------------------------------------
(* Any threshold of a split's shares, and any more, give the key back; one    *)
(* fewer fit every key equally well, so they say nothing about it.            *)
Polynomials(key, threshold) ==
  {<<key>> \o rest : rest \in [1 .. threshold - 1 -> Elements]}

EnoughGiveTheKey(coefficients, shares) ==
  \A some \in SUBSET Shares(coefficients, shares) \ {{}} :
    LET list == SetToSeq(some) IN
      /\ Cardinality(some) >= Len(coefficients) => CombineShares(list) = coefficients[1]
      /\ CombineShares(Append(list, list[1])) = Refused

FewerSayNothing(coefficients, shares) ==
  \A some \in kSubset(Len(coefficients) - 1, Shares(coefficients, shares)) :
    \A key \in Elements :
      \E p \in Polynomials(key, Len(coefficients)) : \A s \in some : At(p, s.index) = s.data

SplitIsSound(coefficients, shares) ==
  /\ EnoughGiveTheKey(coefficients, shares)
  /\ FewerSayNothing(coefficients, shares)

(* One spelling for each key and each share: what is read back was printed.   *)
OneSpelling(code, text) ==
  /\ ReadsAsCode(code) <=> code = Code(code.payload)
  /\ ReadsAsShare(text) /\ text.label # NoNumber <=> text = EncodedShare(text.payload)

(* A backup that may be made is opened by its passphrase, and by no other;    *)
(* one that was cut or overwritten is opened by none.                         *)
BackupOpens(key, passphrase, other, cut) ==
  MayWrap(passphrase) =>
    LET blob == Wrapped(key, passphrase) IN
      /\ Opened(blob, other) = IF other = passphrase THEN key ELSE Refused
      /\ Opened([blob EXCEPT ![cut] = FALSE], other) = Refused
=============================================================================
