------------------------------ MODULE Division ------------------------------
(* One call of divmod, div or mod on BigInt operands: the school division of *)
(* bigInt.h, one loop step or one subtraction per action.                    *)
(*                                                                           *)
(* Digit spans are represented by the natural number they stand for, since   *)
(* the additions and subtractions on spans are exact (module AddSub); "size" *)
(* counts digits in base B, and a window of a span is cut out with the       *)
(* weights Pow[k] = B^k.  Operands are in canonical form.                    *)
(*                                                                           *)
(* tie is a history variable: some estimate was one too large while x was a  *)
(* multiple of b, the case in which _correct_d_and_subtract subtracts twice. *)
(* In the mode "mod" the quotient digits are history too (ignore_quotient).  *)
EXTENDS Places

CONSTANTS Dividends,    \* magnitudes of a
          Divisors      \* magnitudes of b

(* The scaled operands and a window have room in MaxSize digits.             *)
ASSUME OperandAssumption ==
    /\ MaxSize >= 4
    /\ Dividends \subseteq 0 .. Pow[MaxSize - 3] - 1
    /\ Divisors \subseteq 0 .. Pow[MaxSize - 3] - 1

VARIABLES
    mode,           \* ignore_remainder: "div"; ignore_quotient: "mod"
    a, b,           \* magnitudes of the operands
    negA, negB,     \* their signs
    at,             \* program counter
    f, af, bf, e,   \* normalisation factor, scaled operands, leading digit
    nbf,            \* number of digits of bf
    left,           \* digit counter
    x,              \* the window of the remainder being reduced
    d,              \* quotient digit
    rem, quo,       \* remainder and quotient spans
    xlo,            \* x_lo of divmod_ignore_sign_small
    tie

divisionVars == <<mode, a, b, negA, negB, at, f, af, bf, e, nbf, left, x, d, rem, quo, xlo, tie>>
operands == <<mode, a, b, negA, negB>>
scaled == <<f, af, bf, e, nbf>>

Leading(n) == DigitAt(n, Size(n) - 1)

(* Mutated form, used by no specification: no saturation.                    *)
DivSaturate_unbounded(hi, lo, v) == (hi * B + lo) \div v

(* utils::div_u128_saturate                                                  *)
DivSaturate(hi, lo, v) ==
    IF hi < v THEN (hi * B + lo) \div v ELSE B - 1

Dist(m, n) == IF m >= n THEN m - n ELSE n - m       \* sub_ignore_sign: |m - n|

DivisionInit ==
    /\ mode \in {"divmod", "div", "mod"}
    /\ a \in Dividends /\ b \in Divisors
    /\ negA \in BOOLEAN /\ negB \in BOOLEAN
    /\ (a = 0 => ~negA) /\ (b = 0 => ~negB)
    /\ at = "call"
    /\ f = 1 /\ af = 0 /\ bf = 0 /\ e = 0 /\ nbf = 0
    /\ left = 0 /\ x = 0 /\ d = 0 /\ rem = 0 /\ quo = 0 /\ xlo = 0
    /\ tie = FALSE

----------------------------------------------------------------------------
(* divmod_ignore_sign: division by zero throws.                              *)
Throw ==
    /\ at = "call" /\ b = 0
    /\ at' = "thrown"
    /\ UNCHANGED <<left, x, d, rem, quo, xlo, tie>> /\ UNCHANGED operands /\ UNCHANGED scaled

(* _divmod_ignore_sign_big_shortcuts: a is zero or has fewer digits.  With   *)
(* ignore_remainder only "is it zero" is kept of the remainder.              *)
ShortcutSmaller ==
    /\ at = "call" /\ b # 0 /\ (a = 0 \/ Size(b) > Size(a))
    /\ quo' = 0
    /\ rem' = IF mode = "div" THEN Flag(a # 0) ELSE a
    /\ at' = "signs"
    /\ UNCHANGED <<left, x, d, xlo, tie>> /\ UNCHANGED operands /\ UNCHANGED scaled

(* Its second shortcut: a single-digit divisor, divmod_ignore_sign_small.    *)
ShortcutDigit ==
    /\ at = "call" /\ b # 0 /\ a # 0 /\ Size(b) = 1
    /\ left' = Size(a) /\ quo' = 0 /\ xlo' = 0
    /\ at' = "small"
    /\ UNCHANGED <<x, d, rem, tie>> /\ UNCHANGED operands /\ UNCHANGED scaled

(* Mutated forms of the steps below, used by no specification: only the      *)
(* divisor is scaled; the estimate divides by e + 1; the second correction   *)
(* forgets d; the remainder keeps the sign of the dividend.                  *)

Normalize_halfScaled ==
    LET scale == IF Leading(b) < B \div 2 THEN DivSaturate(1, 0, Leading(b) + 1) ELSE 1
    IN  /\ at = "call" /\ b # 0 /\ a # 0 /\ Size(b) <= Size(a) /\ Size(b) > 1
        /\ f' = scale /\ af' = a /\ bf' = b * scale
        /\ e' = Leading(b * scale)
        /\ nbf' = Size(b * scale)
        /\ left' = Size(a) - Size(b * scale) + 1
        /\ rem' = a /\ quo' = 0
        /\ at' = "estimate"
        /\ UNCHANGED <<x, d, xlo, tie>> /\ UNCHANGED operands

Estimate_low ==
    LET w == (rem \div Pow[left - 1]) % Pow[nbf + 1]
    IN  /\ at = "estimate" /\ left > 0
        /\ left' = left - 1
        /\ x' = w
        /\ d' = DivSaturate(DigitAt(w, nbf), DigitAt(w, nbf - 1), e + 1)
        /\ at' = "subtract"
        /\ UNCHANGED <<rem, quo, xlo, tie>> /\ UNCHANGED operands /\ UNCHANGED scaled

CorrectTwice_keepingD ==
    /\ at = "again"
    /\ x' = Dist(x, bf)
    /\ at' = "store"
    /\ UNCHANGED <<left, d, rem, quo, xlo, tie>> /\ UNCHANGED operands /\ UNCHANGED scaled

FixSigns_truncating ==
    LET r == IF mode = "div" \/ rem = 0 THEN rem ELSE IF negA THEN 0 - rem ELSE rem
        negQ == negA # negB
    IN  /\ at = "signs"
        /\ rem' = r
        /\ quo' = (IF negQ THEN 0 - quo ELSE quo) - Flag(r # 0 /\ negQ)
        /\ at' = "done"
        /\ UNCHANGED <<left, x, d, xlo, tie>> /\ UNCHANGED operands /\ UNCHANGED scaled

(* Loop of divmod_ignore_sign_small: the exact x - b*q can never borrow.     *)
SmallStep ==
    LET ai == DigitAt(a, left - 1)
        q == DivSaturate(xlo, ai, b)
    IN  /\ at = "small" /\ left > 0
        /\ left' = left - 1
        /\ quo' = quo + q * Pow[left - 1]
        /\ xlo' = xlo * B + ai - q * b
        /\ UNCHANGED <<at, x, d, rem, tie>> /\ UNCHANGED operands /\ UNCHANGED scaled

SmallEnd ==
    /\ at = "small" /\ left = 0
    /\ rem' = xlo
    /\ at' = "signs"
    /\ UNCHANGED <<left, x, d, quo, xlo, tie>> /\ UNCHANGED operands /\ UNCHANGED scaled

(* _divmod_ignore_sign_big: scale both operands so that the leading digit of *)
(* the divisor is at least B/2, and set up _divide_loop.                     *)
Normalize ==
    LET scale == IF Leading(b) < B \div 2 THEN DivSaturate(1, 0, Leading(b) + 1) ELSE 1
    IN  /\ at = "call" /\ b # 0 /\ a # 0 /\ Size(b) <= Size(a) /\ Size(b) > 1
        /\ f' = scale /\ af' = a * scale /\ bf' = b * scale
        /\ e' = Leading(b * scale)
        /\ nbf' = Size(b * scale)
        /\ left' = Size(a * scale) - Size(b * scale) + 1
        /\ rem' = a * scale /\ quo' = 0
        /\ at' = "estimate"
        /\ UNCHANGED <<x, d, xlo, tie>> /\ UNCHANGED operands

(* _divide_loop brings down one digit: the window of nbf + 1 digits of the   *)
(* remainder span, and the quotient digit from its two leading digits.       *)
Estimate ==
    LET w == (rem \div Pow[left - 1]) % Pow[nbf + 1]
    IN  /\ at = "estimate" /\ left > 0
        /\ left' = left - 1
        /\ x' = w
        /\ d' = DivSaturate(DigitAt(w, nbf), DigitAt(w, nbf - 1), e)
        /\ at' = "subtract"
        /\ UNCHANGED <<rem, quo, xlo, tie>> /\ UNCHANGED operands /\ UNCHANGED scaled

(* _correct_d_and_subtract, one subtraction per step.                        *)
Subtract ==
    /\ at = "subtract"
    /\ x' = Dist(x, bf * d)
    /\ at' = IF x < bf * d THEN "correct" ELSE "store"
    /\ UNCHANGED <<left, d, rem, quo, xlo, tie>> /\ UNCHANGED operands /\ UNCHANGED scaled

CorrectOnce ==
    /\ at = "correct"
    /\ d' = (d - 1) % B
    /\ x' = Dist(x, bf)
    /\ at' = IF x >= bf THEN "again" ELSE "store"
    /\ tie' = (tie \/ x = bf)
    /\ UNCHANGED <<left, rem, quo, xlo>> /\ UNCHANGED operands /\ UNCHANGED scaled

CorrectTwice ==
    /\ at = "again"
    /\ d' = (d - 1) % B
    /\ x' = Dist(x, bf)
    /\ at' = "store"
    /\ UNCHANGED <<left, rem, quo, xlo, tie>> /\ UNCHANGED operands /\ UNCHANGED scaled

(* The window is part of the remainder span, q[i] = d.                    *)
StoreDigit ==
    LET w == (rem \div Pow[left]) % Pow[nbf + 1]
    IN  /\ at = "store"
        /\ rem' = rem + (x - w) * Pow[left]
        /\ quo' = quo + d * Pow[left]
        /\ at' = "estimate"
        /\ UNCHANGED <<left, x, d, xlo, tie>> /\ UNCHANGED operands /\ UNCHANGED scaled

(* Undo the scaling of the remainder (divmod_ignore_sign_small by f); div    *)
(* ignores the remainder and leaves it scaled.                               *)
Denormalize ==
    /\ at = "estimate" /\ left = 0
    /\ rem' = IF mode = "div" THEN rem ELSE rem \div f
    /\ xlo' = IF mode = "div" THEN 0 ELSE rem % f
    /\ at' = "signs"
    /\ UNCHANGED <<left, x, d, quo, tie>> /\ UNCHANGED operands /\ UNCHANGED scaled

(* _fix_divmod_signs: from truncation of the magnitudes to floor division.   *)
(* The remainder is fixed first and its new value is then tested.            *)
Signed(s, n) == IF s THEN 0 - n ELSE n
FixSigns ==
    LET r == IF mode = "div" \/ rem = 0 THEN rem
             ELSE Signed(negA, rem) + (IF negA # negB THEN Signed(negB, b) ELSE 0)
        negQ == negA # negB
    IN  /\ at = "signs"
        /\ rem' = r
        /\ quo' = Signed(negQ, quo) - Flag(r # 0 /\ negQ)
        /\ at' = "done"
        /\ UNCHANGED <<left, x, d, xlo, tie>> /\ UNCHANGED operands /\ UNCHANGED scaled

DivisionReturn == at \in {"done", "thrown"} /\ UNCHANGED divisionVars

DivisionNext ==
    \/ Throw \/ ShortcutSmaller \/ ShortcutDigit \/ SmallStep \/ SmallEnd
    \/ Normalize \/ Estimate \/ Subtract \/ CorrectOnce \/ CorrectTwice
    \/ StoreDigit \/ Denormalize \/ FixSigns \/ DivisionReturn

DivisionSpec == DivisionInit /\ [][DivisionNext]_divisionVars

----------------------------------------------------------------------------
DivisionTypeOK ==
    /\ mode \in {"divmod", "div", "mod"}
    /\ a \in Dividends /\ b \in Divisors /\ negA \in BOOLEAN /\ negB \in BOOLEAN
    /\ at \in {"call", "small", "estimate", "subtract", "correct", "again", "store",
               "signs", "done", "thrown"}
    /\ f \in Digit /\ e \in Digit /\ af \in Nat /\ bf \in Nat
    /\ nbf \in 0 .. MaxSize - 1 /\ left \in 0 .. MaxSize
    /\ d \in Digit /\ x \in Nat /\ x < Pow[nbf + 1]
    /\ xlo \in Digit /\ rem \in Int /\ quo \in Int
    /\ tie \in BOOLEAN

(* Between two digits, quotient digits and remainder span stand for the     *)
(* (scaled) dividend.                                                        *)
QuotientSoFar ==
    at = "estimate" => quo * bf + rem = af

(* The two-digit estimate is the true quotient digit or at most two more,   *)
(* and never less: why two corrections are enough.                           *)
EstimateClose ==
    at = "subtract" /\ x < B * bf =>
        x \div bf <= d /\ d <= (x \div bf) + 2

(* Unless a tie has occurred, the part of the remainder span that has been  *)
(* processed is less than the divisor.                                       *)
PrefixReduced ==
    at = "estimate" /\ ~tie => rem < bf * Pow[left]

(* divmod_ignore_sign_small: the running remainder stays less than the      *)
(* divisor, so the quotient digit never saturates and the subtraction that   *)
(* throws on a borrow never does.                                            *)
SmallReduced ==
    at = "small" => /\ 0 <= xlo /\ xlo < b
                    /\ quo * b + xlo * Pow[left] = a - (a % Pow[left])

(* Undoing the scaling leaves nothing over.                                  *)
DenormalizesExactly ==
    at = "signs" /\ mode # "div" /\ f > 1 => xlo = 0

(* The spans the loops leave are reduced, so that no estimate and no borrow  *)
(* goes out of its range.                                                    *)
SpansReduced == PrefixReduced /\ SmallReduced /\ DenormalizesExactly

(* Floor division: the quotient is rounded down and the remainder has the   *)
(* sign of the divisor.                                                      *)
IsFloorDivision ==
    LET va == Signed(negA, a)  vb == Signed(negB, b)
    IN  at = "done" =>
            /\ mode = "divmod" => va = quo * vb + rem
            /\ mode # "div" => (va - rem) % b = 0
            /\ mode # "div" => IF negB THEN vb < rem /\ rem <= 0 ELSE 0 <= rem /\ rem < vb
            /\ mode = "div" => IF negB THEN va <= quo * vb /\ quo * vb + vb < va
                                       ELSE quo * vb <= va /\ va < quo * vb + vb
FloorDivision == tie \/ IsFloorDivision

(* "Now x contains the remainder" (end of _divide_loop): the remainder span *)
(* is smaller than the divisor.                                              *)
XContainsRemainder ==
    at = "estimate" /\ left = 0 => rem < bf
=============================================================================
