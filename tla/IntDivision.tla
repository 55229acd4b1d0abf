----------------------------- MODULE IntDivision -----------------------------
(* Division of a BigInt by a machine integer of 32 or 64 bits, signed or     *)
(* not, and the operator /=, which works in place.  form is                  *)
(*   divmod, div, mod   the functions of that name                           *)
(*   /=                 a /= k, in place                                     *)
(*   big /=             a /= b with a BigInt b of one digit, in place        *)
(* A digit of a is one word of the base B, and H^2 = B splits it in halves.  *)
(* k = INT_MIN, whose negation overflows, is left out.                       *)
EXTENDS Call

CONSTANTS H,            \* 2^32
          Numerators,   \* values of a
          Shapes        \* <<form, type, in place>>

ASSUME IntDivisionAssumption ==
    /\ H \in Nat /\ H >= 2 /\ B = H * H /\ H % 2 = 0
    /\ Numerators \subseteq {v \in Int : Fits(v)}
    /\ Shapes \subseteq {"divmod", "div", "mod", "/=", "big /="} \X {"u64", "i64", "u32", "i32"} \X BOOLEAN
    /\ \A s \in Shapes : s[1] = "big /=" => s[2] = "u64"

Half(t) == t \in {"u32", "i32"}
Modulus(t) == IF Half(t) THEN H ELSE B
IntsOf(t) == IF t \in {"u32", "u64"} THEN 0 .. Modulus(t) - 1
             ELSE 1 - Modulus(t) \div 2 .. Modulus(t) \div 2 - 1

(* For big /= k is the value of b: its only digit and its sign.              *)
IntDivisionInit ==
    /\ fn = "int_div"
    /\ \E s \in Shapes, v \in Numerators :
           \E k \in IF s[1] = "big /=" THEN 1 - B .. B - 1 ELSE IntsOf(s[2]) :
               arg = [form |-> s[1], type |-> s[2], inPlace |-> s[3], a |-> v, k |-> k]
    /\ pc = "call" /\ loc = <<>> /\ res = <<>>

----------------------------------------------------------------------------
form == arg.form
keepsRem == form \in {"divmod", "mod", "big /="}       \* not ignore_remainder
keepsQuo == form # "mod"                               \* not ignore_quotient
divisor == Abs(arg.k)                                  \* constexpr_abs, or b[0]
negA == arg.a < 0
negK == form # "big /=" /\ arg.k < 0                   \* b[0] is positive

(* The quotient is a itself, or of the size of a, with what its storage held.*)
IntDivCall ==
    LET n == Size(Abs(arg.a))
    IN  /\ Called("int_div")
        /\ IF divisor = 0 THEN Throw
           ELSE IF arg.a = 0 THEN Enter("fix", [i |-> 0, x |-> 0, quo |-> 0])
           ELSE Enter("digits", [i |-> n, x |-> 0,
                                 quo |-> IF arg.inPlace THEN Abs(arg.a) ELSE Pow[n] - 1])

(* Mutated forms, used by no specification: no correction for the sign of b; *)
(* the remainder of C.                                                       *)
SignInPlace_signOnly ==
    /\ fn = "int_div" /\ pc = "sign"
    /\ Return([quo |-> IF arg.k < 0 THEN -loc.quo ELSE loc.quo, rem |-> loc.x])

FixRemainder_truncating == IF keepsRem /\ negA THEN -loc.x ELSE loc.x

(* One word divided at once, saturating, or one half after the other.        *)
WholeStep(x, ai) ==
    LET q == IF x < divisor THEN (x * B + ai) \div divisor ELSE B - 1
    IN  [q |-> q, x |-> x * B + ai - q * divisor]

HalfStep(x, ai) ==
    LET hi == ai \div H + x * H
        lo == (ai % H) + (hi % divisor) * H
    IN  [q |-> (hi \div divisor) * H + lo \div divisor, x |-> lo % divisor]

(* divmod_ignore_sign_small, from the top digit down.                        *)
IntDivStep ==
    LET k == loc.i - 1
        ai == DigitAt(IF arg.inPlace THEN loc.quo ELSE Abs(arg.a), k)
        s == IF Half(arg.type) THEN HalfStep(loc.x, ai) ELSE WholeStep(loc.x, ai)
    IN  /\ fn = "int_div" /\ pc = "digits" /\ loc.i > 0
        /\ Enter("digits",
                 [i |-> k, x |-> s.x,
                  quo |-> IF keepsQuo THEN loc.quo + (s.q - DigitAt(loc.quo, k)) * Pow[k] ELSE loc.quo])

IntDivEnd ==
    /\ fn = "int_div" /\ pc = "digits" /\ loc.i = 0
    /\ Enter("fix", loc)

(* A value kept in the type of the divisor.                                  *)
InType(v) ==
    LET m == Modulus(arg.type)
    IN  IF arg.type \in {"u32", "u64"} THEN v % m ELSE ((v + m \div 2) % m) - m \div 2

(* _fix_divmod_signs: the new remainder decides on the last step of quo.     *)
FixRemainder ==
    IF ~keepsRem \/ loc.x = 0 THEN loc.x
    ELSE LET r == IF negA THEN InType(-loc.x) ELSE loc.x
         IN  IF negA # negK THEN InType(r + (IF form = "big /=" THEN divisor ELSE arg.k)) ELSE r

IntDivFix ==
    LET negQ == negA # negK
        quo == IF negQ THEN -loc.quo - (IF FixRemainder # 0 THEN 1 ELSE 0) ELSE loc.quo
    IN  /\ fn = "int_div" /\ pc = "fix"
        /\ IF form = "big /=" THEN Enter("sign", [quo |-> quo, x |-> FixRemainder])
           ELSE Return([quo |-> quo, rem |-> FixRemainder])

(* a /= b: b[0] was divided by, now the sign of b.                           *)
SignInPlace ==
    LET quo == IF arg.k < 0 THEN -loc.quo ELSE loc.quo
    IN  /\ fn = "int_div" /\ pc = "sign"
        /\ Return([quo |-> IF loc.x # 0 /\ arg.k < 0 THEN quo - 1 ELSE quo, rem |-> loc.x])

IntDivisionNext == IntDivCall \/ IntDivStep \/ IntDivEnd \/ IntDivFix \/ SignInPlace

----------------------------------------------------------------------------
FloorDiv(x, m) == IF m > 0 THEN x \div m ELSE (-x) \div (-m)

(* The quotient is rounded down whatever the signs and the form, also when   *)
(* a /= b corrects in two steps, and the remainder has the sign of the       *)
(* divisor and fits its type, although an unsigned one cannot hold the       *)
(* negative values it passes through.  The running remainder stays below     *)
(* the divisor, so that no quotient digit saturates or spills over its half. *)
IntDivisionExact ==
    /\ fn = "int_div" /\ pc = "digits" =>
           /\ loc.x < divisor
           /\ keepsQuo => LET done == loc.quo - (loc.quo % Pow[loc.i])
                              a == Abs(arg.a)
                          IN  done * divisor + loc.x * Pow[loc.i] = a - (a % Pow[loc.i])
    /\ Returned("int_div") =>
           /\ keepsQuo => result.quo = FloorDiv(arg.a, arg.k)
           /\ form \in {"divmod", "mod"} => result.rem = FloorMod(arg.a, arg.k)
    /\ Threw("int_div") => arg.k = 0
=============================================================================
