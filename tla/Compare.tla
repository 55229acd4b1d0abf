------------------------------- MODULE Compare -------------------------------
(* The order of BigInts among each other and with machine integers, and the  *)
(* conversion of a BigInt to a machine integer.  A number is a record of its *)
(* digits 0 .. size - 1 and its sign; from_string leaves leading zeros and   *)
(* negative zeros, so that neither is excluded.  Orders are -1, 0 and 1.     *)
EXTENDS Places, FiniteSets

CONSTANTS
    Ints,           \* values of the integral operand
    Types           \* integral types [min, max], with the negated min of fits

ASSUME CompareAssumption ==
    /\ MaxSize >= 1
    /\ Ints \subseteq 1 - B .. B - 1
    /\ \A t \in Types : t.min \in Int /\ t.max \in Nat /\ t.negMin \in 0 .. B - 1

VARIABLES
    num,            \* BigInts a, b and c
    int,            \* an integer
    order,          \* order[<<x, y>>] of two of the three, once computed
    ordInt,         \* num["a"] <=> int
    fit,            \* the types t with fits<t>(num["a"])
    as              \* as_integral<t>(num["a"]) of each type t

compareVars == <<num, int, order, ordInt, fit, as>>

size(x) == Cardinality(DOMAIN x.digs)
at(x, i) == IF i \in DOMAIN x.digs THEN x.digs[i] ELSE 0
Numbers == UNION {[digs : [0 .. k - 1 -> Digit], neg : BOOLEAN] : k \in 1 .. MaxSize}

(* operator<=> of two machine words                                          *)
Sgn(x, y) == IF x < y THEN -1 ELSE IF x > y THEN 1 ELSE 0

is_zero(x) == \A i \in DOMAIN x.digs : x.digs[i] = 0
is_neg(x) == ~is_zero(x) /\ x.neg
is_pos(x) == ~is_zero(x) /\ ~x.neg

(* Mutated forms here and below, used by no specification: more digits are   *)
(* taken for a larger number, a sign alone for a negative number, one digit  *)
(* for all of them.                                                          *)
SpanOrder_bySize(x, y) ==
    LET i == CHOOSE i \in 0 .. size(x) - 1 :
                 /\ i = 0 \/ at(x, i) # at(y, i)
                 /\ \A j \in i + 1 .. size(x) - 1 : at(x, j) = at(y, j)
    IN  IF size(x) # size(y) THEN Sgn(size(x), size(y)) ELSE Sgn(at(x, i), at(y, i))

(* operator<=> of spans: the digits only the longer one has, then the first  *)
(* difference from the top, or the digits 0 if there is none above.          *)
SpanOrder(x, y) ==
    LET m == IF size(x) <= size(y) THEN size(x) ELSE size(y)
        i == CHOOSE i \in 0 .. m - 1 :
                 /\ i = 0 \/ x.digs[i] # y.digs[i]
                 /\ \A j \in i + 1 .. m - 1 : x.digs[j] = y.digs[j]
    IN  CASE is_zero(x) /\ is_zero(y) -> 0
          [] is_zero(x) /\ ~is_zero(y) -> -1
          [] ~is_zero(x) /\ is_zero(y) -> 1
          [] OTHER ->
              IF \E j \in m .. size(x) - 1 : x.digs[j] # 0 THEN 1
              ELSE IF \E j \in m .. size(y) - 1 : y.digs[j] # 0 THEN -1
              ELSE Sgn(x.digs[i], y.digs[i])

(* operator<=> of BigInts                                                    *)
BigOrder_unsigned(x, y) ==
    IF is_zero(x) /\ is_zero(y) THEN 0
    ELSE IF x.neg = y.neg THEN SpanOrder(x, y)
    ELSE IF is_neg(x) \/ is_pos(y) THEN -1 ELSE 1

BigOrder(x, y) ==
    IF is_zero(x) /\ is_zero(y) THEN 0
    ELSE IF ~is_zero(x) /\ ~is_zero(y) /\ x.neg = y.neg THEN SpanOrder(x, y)
    ELSE IF is_neg(x) \/ is_pos(y) THEN -1 ELSE 1

(* operator<=> of a BigInt and an integer; k = INT_MIN, whose negation       *)
(* overflows, is not in Ints.                                                *)
IntOrder_firstDigit(x, k) ==
    IF is_neg(x) THEN IF k < 0 THEN Sgn(x.digs[0], -k) ELSE -1
    ELSE IF k < 0 THEN 1 ELSE Sgn(x.digs[0], k)

IntOrder(x, k) ==
    IF size(x) > 1 THEN IF is_neg(x) THEN -1 ELSE 1
    ELSE IF is_neg(x) THEN IF k < 0 THEN Sgn(x.digs[0], -k) ELSE -1
    ELSE IF k < 0 THEN 1 ELSE Sgn(x.digs[0], k)

(* fits<I>: the comparison with max() and with the negated min().            *)
fits(t, x) ==
    /\ size(x) = 1
    /\ \/ ~x.neg /\ t.max <= x.digs[0]
       \/ t.min < 0 /\ x.neg /\ t.negMin <= x.digs[0]

(* as_integral<I>: its return type is bool, to which the word, truncated to  *)
(* the 2^k values of I, is converted; negation does not change that.         *)
as_integral(t, x) == IF x.digs[0] % (t.max - t.min + 1) = 0 THEN 0 ELSE 1

----------------------------------------------------------------------------
Compared == {<<"a", "b">>, <<"b", "a">>, <<"b", "c">>, <<"a", "c">>}

Unasked == order = <<>> /\ ordInt = 0 /\ fit = {} /\ as = <<>>

CompareInit ==
    /\ num \in [{"a", "b", "c"} -> Numbers] /\ int \in Ints
    /\ Unasked

(* All the questions a program can ask about three BigInts and an integer.   *)
Ask ==
    /\ order = <<>>
    /\ order' = [p \in Compared |-> BigOrder(num[p[1]], num[p[2]])]
    /\ ordInt' = IntOrder(num["a"], int)
    /\ fit' = {t \in Types : fits(t, num["a"])}
    /\ as' = [t \in Types |-> as_integral(t, num["a"])]
    /\ UNCHANGED <<num, int>>

Answered == order # <<>> /\ UNCHANGED compareVars

CompareNext == Ask \/ Answered
CompareSpec == CompareInit /\ [][CompareNext]_compareVars

----------------------------------------------------------------------------
(* The number x stands for.                                                  *)
AbsValue(x) == Value([i \in Index |-> at(x, i)], MaxSize)
NumberOf(x) == IF x.neg THEN -AbsValue(x) ELSE AbsValue(x)
val(name) == NumberOf(num[name])

Asked == order # <<>>
CanonicalNumber(x) ==
    /\ size(x) > 1 => x.digs[size(x) - 1] # 0
    /\ is_zero(x) => ~x.neg

(* Two numbers that are not both negative are ordered by their values,       *)
(* whatever leading zeros and zero signs they have.  Two negative numbers    *)
(* are ordered by their magnitudes: the code says -5 > -3.                   *)
OrderByValue ==
    Asked => order[<<"a", "b">>] =
                 IF val("a") < 0 /\ val("b") < 0 THEN Sgn(val("b"), val("a"))
                 ELSE Sgn(val("a"), val("b"))

(* The order sorting and searching rely on: exactly the representations of   *)
(* one value are equal, exchanging the operands reverses it, and it is       *)
(* transitive, for numbers of any sign.                                      *)
TotalOrder ==
    Asked =>
        /\ order[<<"b", "a">>] = -order[<<"a", "b">>]
        /\ order[<<"a", "b">>] = 0 <=> val("a") = val("b")
        /\ order[<<"a", "b">>] <= 0 /\ order[<<"b", "c">>] <= 0 => order[<<"a", "c">>] <= 0

(* A canonical number of one digit compares with an integer as it does with  *)
(* the BigInt made of that integer, a longer one by its value.  For negative *)
(* numbers of several digits the code therefore has two orders:              *)
(* -2^64 < -1, but -2^64 > BigInt(-1).                                       *)
FromInt(k) == [digs |-> [i \in {0} |-> IF k < 0 THEN -k ELSE k], neg |-> k < 0]
IntAgrees ==
    Asked /\ CanonicalNumber(num["a"]) =>
        ordInt = IF size(num["a"]) = 1 THEN BigOrder(num["a"], FromInt(int)) ELSE Sgn(val("a"), int)

(* What the documentation says of conversions: a value in the range of a     *)
(* type fits it and is converted to itself.                                  *)
ConversionsFaithful ==
    Asked => \A t \in Types : val("a") \in t.min .. t.max => t \in fit /\ as[t] = val("a")
=============================================================================
