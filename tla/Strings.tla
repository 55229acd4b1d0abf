------------------------------- MODULE Strings -------------------------------
(* from_string, to_string, digit_sum and the literal operator.  A text is a  *)
(* sign and a sequence of digits, most significant first; the digit 99 is a  *)
(* character that is no digit in the base.  A base whose power fills a word  *)
(* exactly (B is a power of it: "special" below) has code of its own.        *)
EXTENDS Call

CONSTANTS TextBases,    \* bases, legal ones and not
          Texts,        \* Texts[b]: digit sequences in base b
          Printed       \* values of the numbers printed

NoDigit == 99
Legal(b) == b \in 2 .. 36

(* A word has room for a digit of every base of digit_sum, up to 64.         *)
ASSUME StringsAssumption ==
    /\ TextBases \subseteq Nat /\ Printed \subseteq {v \in Int : Abs(v) < Pow[MaxSize - 1]}
    /\ W >= 6
    /\ \A b \in TextBases \cup {2, 8, 10, 16} : \A t \in Texts[b] :
           /\ t \in Seq((0 .. b - 1) \cup {NoDigit})
           /\ Exp(b, Len(t)) <= Pow[MaxSize]

(* calculate_base_power_64 and base_conversion_64: the most digits that fit  *)
(* a word, and the power they stand for modulo the word.                     *)
base_power == [b \in 2 .. 64 |-> CHOOSE k \in 1 .. W : Exp(b, k) <= B /\ Exp(b, k + 1) > B]
division_base == [b \in 2 .. 64 |-> Exp(b, base_power[b]) % B]
Special(b) == division_base[b] = 0

(* operator""_big: the base by the prefix of the literal.                    *)
literal_base(prefix) ==
    CASE prefix = "0x" -> 16 [] prefix = "0b" -> 2 [] prefix = "0" -> 8 [] prefix = "" -> 10

(* An empty text has no sign; a literal starts with "0" in base 8 only.      *)
ReadInit ==
    /\ fn = "from_string"
    /\ \/ \E b \in TextBases : \E s \in {"", "-", "+"}, t \in Texts[b] :
              arg = [base |-> b, sign |-> s, digits |-> t]
       \/ \E prefix \in {"0x", "0b", "0", ""} :
              LET b == literal_base(prefix)
              IN  \E t \in Texts[b] :
                      /\ t # <<>> /\ \A k \in 1 .. Len(t) : t[k] # NoDigit
                      /\ prefix = "0" => t[1] = 0
                      /\ prefix = "" => t[1] # 0
                      /\ arg = [base |-> b, sign |-> "", digits |-> t]

(* Numbers of one digit more than they need have a leading zero.             *)
WriteInit ==
    /\ fn \in {"to_string", "digit_sum"}
    /\ \E b \in TextBases, v \in Printed : \E k \in {Size(Abs(v)), Size(Abs(v)) + 1} :
           arg = [base |-> b, n |-> [val |-> v, size |-> k]]

StringsInit == (ReadInit \/ WriteInit) /\ pc = "call" /\ loc = <<>> /\ res = <<>>

----------------------------------------------------------------------------
base == arg.base
p == base_power[base]

(* Value of a sequence of digits, stoull of a substring.                     *)
ValueOf(t) ==
    LET f[k \in 0 .. Len(t)] == IF k = 0 THEN 0 ELSE f[k - 1] * base + t[k] IN f[Len(t)]
Readable(t) == t # <<>> /\ \A k \in 1 .. Len(t) : t[k] # NoDigit

(* The k lowest digits of x, lowest first.                                   *)
LowDigits(x, k) == [j \in 1 .. k |-> (x \div Exp(base, j - 1)) % base]
Reversed(t) == [k \in 1 .. Len(t) |-> t[Len(t) + 1 - k]]
DigitsIn(x) == DigitsOf(base, x)
SumOf(t) == LET f[k \in 0 .. Len(t)] == IF k = 0 THEN 0 ELSE f[k - 1] + t[k] IN f[Len(t)]

----------------------------------------------------------------------------
Length == Len(arg.digits)
Negative == arg.sign = "-"

(* An illegal base throws, an empty input is 0; the special bases make room  *)
(* for all windows at once, at least one.                                    *)
FromString ==
    /\ Called("from_string")
    /\ IF ~Legal(base) THEN Throw
       ELSE IF arg.sign = "" /\ Length = 0 THEN Return([val |-> 0, size |-> 1, neg |-> FALSE])
       ELSE IF ~Special(base) THEN Enter("chunks", [i |-> 0, val |-> 0])
       ELSE Enter("windows", [k |-> 0, val |-> 0,
                              size |-> IF Length = 0 THEN 1
                                       ELSE Length \div p + (IF Length % p > 0 THEN 1 ELSE 0)])

(* Mutated forms, used by no specification: the last chunk is taken for a    *)
(* full one; leading zeros are not popped.                                   *)
ReadChunk_full ==
    LET end == IF loc.i + p < Length THEN loc.i + p ELSE Length
        t == SubSeq(arg.digits, loc.i + 1, end)
    IN  /\ fn = "from_string" /\ pc = "chunks" /\ loc.i < Length
        /\ IF Readable(t) THEN Enter("chunks", [i |-> loc.i + p, val |-> loc.val * division_base[base] + ValueOf(t)])
           ELSE Throw

PrintEnd_unpopped ==
    /\ fn = "to_string" /\ pc = "rounds" /\ loc.q = 0 /\ loc.size = 1
    /\ Return([neg |-> arg.n.val < 0, digits |-> Reversed(loc.out)])

(* A chunk of at most p digits from the left: result = result * mul + add.   *)
ReadChunk ==
    LET end == IF loc.i + p < Length THEN loc.i + p ELSE Length
        t == SubSeq(arg.digits, loc.i + 1, end)
        mul == IF Len(t) = p THEN division_base[base] ELSE Exp(base, Len(t))
    IN  /\ fn = "from_string" /\ pc = "chunks" /\ loc.i < Length
        /\ IF Readable(t) THEN Enter("chunks", [i |-> loc.i + p, val |-> loc.val * mul + ValueOf(t)])
           ELSE Throw

ReadChunksEnd ==
    /\ fn = "from_string" /\ pc = "chunks" /\ loc.i >= Length
    /\ Return([val |-> loc.val, size |-> Size(loc.val), neg |-> Negative])

(* A window of at most p digits from the right is the word k of the result,  *)
(* also when its digits are zeros.                                           *)
ReadWindow ==
    LET end == Length - p * loc.k
        width == IF end < p THEN end ELSE p
        t == SubSeq(arg.digits, end - width + 1, end)
    IN  /\ fn = "from_string" /\ pc = "windows" /\ loc.k < loc.size
        /\ IF Readable(t) THEN Enter("windows", [loc EXCEPT !.k = @ + 1, !.val = @ + ValueOf(t) * Pow[loc.k]])
           ELSE Throw

ReadWindowsEnd ==
    /\ fn = "from_string" /\ pc = "windows" /\ loc.k = loc.size
    /\ Return([val |-> loc.val, size |-> loc.size, neg |-> Negative])

----------------------------------------------------------------------------
Magnitude == Abs(arg.n.val)

ToString ==
    /\ Called("to_string")
    /\ IF ~Legal(base) THEN Throw
       ELSE IF ~Special(base) THEN Enter("rounds", [q |-> Magnitude, size |-> arg.n.size, out |-> <<>>])
       ELSE LET top == DigitAt(Magnitude, arg.n.size - 1)
            IN  Enter("words", [k |-> arg.n.size - 1, out |-> Reversed(LowDigits(top, DigitsIn(top)))])

(* q > 0 holds of several digits whatever they are; the quotient is cleaned  *)
(* up.  Each remainder gives p digits.                                       *)
PrintRound ==
    /\ fn = "to_string" /\ pc = "rounds" /\ (loc.size > 1 \/ loc.q > 0)
    /\ LET quo == loc.q \div division_base[base]
       IN  Enter("rounds", [q |-> quo, size |-> Size(quo),
                            out |-> loc.out \o LowDigits(loc.q % division_base[base], p)])

(* The leading zeros are popped, an empty text becomes "0".                  *)
Text(neg, t) == [neg |-> neg, digits |-> IF t = <<>> /\ ~neg THEN <<0>> ELSE t]

PrintEnd ==
    LET used == CHOOSE k \in 0 .. Len(loc.out) :
                    /\ \A j \in k + 1 .. Len(loc.out) : loc.out[j] = 0
                    /\ k = 0 \/ loc.out[k] # 0
    IN  /\ fn = "to_string" /\ pc = "rounds" /\ loc.q = 0 /\ loc.size = 1
        /\ Return(Text(arg.n.val < 0, Reversed(SubSeq(loc.out, 1, used))))

(* The words below the top one are padded to p digits.                       *)
PrintWord ==
    /\ fn = "to_string" /\ pc = "words" /\ loc.k > 0
    /\ Enter("words", [k |-> loc.k - 1,
                       out |-> loc.out \o Reversed(LowDigits(DigitAt(Magnitude, loc.k - 1), p))])

PrintWordsEnd ==
    /\ fn = "to_string" /\ pc = "words" /\ loc.k = 0
    /\ Return(Text(arg.n.val < 0, loc.out))

(* digit_sum takes bases up to 64; its rounds are those of to_string.        *)
DigitSum ==
    /\ Called("digit_sum")
    /\ IF base \notin 2 .. 64 THEN Throw
       ELSE Enter("sum", [q |-> Magnitude, sum |-> 0])

SumRound ==
    LET chunk == IF Special(base) THEN loc.q % B ELSE loc.q % division_base[base]
        quo == IF Special(base) THEN loc.q \div B ELSE loc.q \div division_base[base]
    IN  /\ fn = "digit_sum" /\ pc = "sum" /\ loc.q > 0
        /\ Enter("sum", [q |-> quo, sum |-> loc.sum + SumOf(LowDigits(chunk, p))])

SumEnd ==
    /\ fn = "digit_sum" /\ pc = "sum" /\ loc.q = 0
    /\ Return(loc.sum)

StringsNext ==
    \/ FromString \/ ReadChunk \/ ReadChunksEnd \/ ReadWindow \/ ReadWindowsEnd
    \/ ToString \/ PrintRound \/ PrintEnd \/ PrintWord \/ PrintWordsEnd
    \/ DigitSum \/ SumRound \/ SumEnd

----------------------------------------------------------------------------
(* Reading gives the value of a number's text, in the least size except that *)
(* the special bases keep leading zero words; "-0" is a negative zero.  A    *)
(* text is refused only for its base or because it is not a number's, and    *)
(* one with a character that is no digit, in whatever chunk, never gets      *)
(* through.                                                                  *)
ReadsValue ==
    /\ Returned("from_string") /\ arg.digits # <<>> =>
           /\ Readable(arg.digits)
           /\ result.val = ValueOf(arg.digits)
           /\ result.neg <=> Negative
           /\ result.size = IF Legal(base) /\ Special(base) THEN (Length + p - 1) \div p
                         ELSE Size(result.val)
    /\ Threw("from_string") => ~Legal(base) \/ ~Readable(arg.digits)

(* What the documentation says of from_string: it throws when a non-number   *)
(* string is provided.                                                       *)
RefusesNonNumbers == Returned("from_string") => Readable(arg.digits)

(* Printing gives a text of the value: without leading zeros, except in the  *)
(* special bases for a number whose top word is zero, which gets all digits  *)
(* of the words below; zero is never "-0".  digit_sum adds the digits of     *)
(* that text.                                                                *)
PrintsValue ==
    /\ Returned("to_string") =>
           /\ ValueOf(result.digits) = Magnitude
           /\ result.neg <=> arg.n.val < 0
           /\ Len(result.digits) = IF Special(base) /\ ~Canonical([arg.n EXCEPT !.val = Magnitude])
                                THEN p * (arg.n.size - 1)
                                ELSE IF Magnitude = 0 THEN 1 ELSE DigitsIn(Magnitude)
    /\ Returned("digit_sum") => result = SumOf(LowDigits(Magnitude, DigitsIn(Magnitude)))
    /\ Threw("to_string") => ~Legal(base)
    /\ Threw("digit_sum") => base \notin 2 .. 64
=============================================================================
