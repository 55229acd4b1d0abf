------------------------------- MODULE Words -------------------------------
(* One machine word of the library is one digit of a BigInt: an unsigned   *)
(* 64-bit integer, so B = 2^64 in the program.  All arithmetic of the      *)
(* digit loops wraps modulo B and the carries are recovered by comparing   *)
(* the wrapped results, exactly as in bigInt.h; here B is any base >= 2.   *)
EXTENDS Integers

CONSTANT B

ASSUME BAssumption == B \in Nat /\ B >= 2

Digit == 0 .. B - 1
Carry == 0 .. 1

Flag(p) == IF p THEN 1 ELSE 0       \* bool converted to an integer

WrapAdd(x, y) == (x + y) % B        \* x + y in uint64_t
WrapSub(x, y) == (x - y) % B        \* x - y in uint64_t

----------------------------------------------------------------------------
(* Mutated forms, used by no specification: AddCarry that looks at the       *)
(* second addition only, NegCarry that forgets an incoming carry.            *)
AddCarry_once(ai, bi, c) == Flag(WrapAdd(WrapAdd(bi, c), ai) < ai)
NegCarry_unchained(ai, c) == Flag((0 - ai - c) % B # 0)

(* Body of the first loop of _add_ignore_sign: result_i = b[i] + c; the    *)
(* two comparisons detect a wrap of either addition.                       *)
AddDigit(ai, bi, c) == WrapAdd(WrapAdd(bi, c), ai)
AddCarry(ai, bi, c) == LET t == WrapAdd(bi, c)
                       IN  Flag(t < c) + Flag(AddDigit(ai, bi, c) < ai)

(* Body of its second loop: only the carry travels on.                     *)
IncDigit(ai, c) == WrapAdd(ai, c)
IncCarry(ai, c) == Flag(IncDigit(ai, c) < c)

(* Bodies of the two loops of _sub_ignore_sign: bic = b[i] + c first.      *)
SubDigit(ai, bi, c) == WrapSub(ai, WrapAdd(bi, c))
SubBorrow(ai, bi, c) == LET bic == WrapAdd(bi, c)
                        IN  Flag(bic < c) + Flag(SubDigit(ai, bi, c) > ai)

DecDigit(ai, c) == WrapSub(ai, c)
DecBorrow(ai, c) == Flag(DecDigit(ai, c) > ai)

(* Body of _negate_twos_complement.                                        *)
NegDigit(ai, c) == (0 - ai - c) % B
NegCarry(ai, c) == Flag(NegDigit(ai, c) # 0 \/ c = 1)
=============================================================================
