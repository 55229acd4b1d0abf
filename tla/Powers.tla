------------------------------- MODULE Powers -------------------------------
(* pow and pow_mod: binary exponentiation from the lowest bit of exp.        *)
EXTENDS Call

CONSTANTS PowBases, Exponents, Moduli

ASSUME PowersAssumption ==
    PowBases \subseteq Int /\ Exponents \subseteq {e \in Int : Fits(e)} /\ Moduli \subseteq Int

PowersInit ==
    /\ fn \in {"pow", "pow_mod"}
    /\ \E b \in PowBases, e \in Exponents, m \in Moduli :
           /\ fn = "pow" => e >= 0
           /\ arg = IF fn = "pow" THEN [base |-> b, exp |-> e] ELSE [base |-> b, exp |-> e, mod |-> m]
    /\ pc = "call" /\ loc = <<>> /\ res = <<>>

----------------------------------------------------------------------------
PowCall ==
    /\ Called("pow")
    /\ IF arg.exp = 0 THEN IF arg.base = 0 THEN Throw ELSE Return(1)
       ELSE IF arg.base = 0 THEN Return(0)
       ELSE Enter("power", [i |-> 0, result |-> 1, temp |-> arg.base])

(* What is asked first decides: a zero exponent gives 1 and a zero base or a *)
(* negative exponent 0 before the modulus is looked at.                      *)
PowModCall ==
    /\ Called("pow_mod")
    /\ IF arg.exp = 0 THEN IF arg.base = 0 THEN Throw ELSE Return(1)
       ELSE IF arg.base = 0 \/ arg.exp < 0 \/ arg.mod = 1 THEN Return(0)
       ELSE IF arg.mod = 0 THEN Throw
       ELSE Enter("power", [i |-> 0, result |-> 1, temp |-> FloorMod(arg.base, arg.mod)])

Reduced(x) == IF fn = "pow_mod" THEN FloorMod(x, arg.mod) ELSE x
Bit(k) == (arg.exp \div Exp(2, k)) % 2 = 1
ExpBits == BitLength(arg.exp)

(* Mutated form, used by no specification: the square is taken first.        *)
PowStep_squareFirst ==
    LET next == Reduced(loc.temp * loc.temp)
    IN  /\ fn \in {"pow", "pow_mod"} /\ pc = "power" /\ loc.i < ExpBits
        /\ Enter("power", [i |-> loc.i + 1, temp |-> next,
                           result |-> IF Bit(loc.i) THEN Reduced(loc.result * next) ELSE loc.result])

(* One bit of the exponent; the square after the last one is not computed.   *)
PowStep ==
    /\ fn \in {"pow", "pow_mod"} /\ pc = "power" /\ loc.i < ExpBits
    /\ Enter("power",
             [i |-> loc.i + 1,
              result |-> IF Bit(loc.i) THEN Reduced(loc.result * loc.temp) ELSE loc.result,
              temp |-> IF loc.i + 1 < ExpBits THEN Reduced(loc.temp * loc.temp) ELSE loc.temp])

PowReturn ==
    /\ fn \in {"pow", "pow_mod"} /\ pc = "power" /\ loc.i = ExpBits
    /\ Return(loc.result)

PowersNext == PowCall \/ PowModCall \/ PowStep \/ PowReturn

----------------------------------------------------------------------------
Power == Exp(arg.base, arg.exp)

(* base^exp % mod is defined, and is not the 1 of a zero exponent reduced by *)
(* a modulus that leaves something else of it.                               *)
ModuloDefined == arg.mod # 0 /\ arg.exp >= 0 /\ (arg.exp = 0 => arg.mod > 1)

(* The result so far times temp to the power of the bits left is the power   *)
(* asked for, modulo mod in pow_mod, which reduces a negative base and       *)
(* follows the sign of mod as % does.  Nothing else is returned where that   *)
(* is defined, and no modulus 0 gets through to the multiplications.         *)
PowersExact ==
    /\ pc = "power" /\ fn \in {"pow", "pow_mod"} /\ loc.i < ExpBits =>
           Reduced(loc.result * Exp(loc.temp, arg.exp \div Exp(2, loc.i))) = Reduced(Power)
    /\ Returned("pow") => result = Power
    /\ Returned("pow_mod") /\ ModuloDefined => result = FloorMod(Power, arg.mod)
    /\ Returned("pow_mod") /\ arg.base # 0 /\ arg.exp > 0 => arg.mod # 0
    /\ Threw("pow") => arg.base = 0 /\ arg.exp = 0
    /\ Threw("pow_mod") => (arg.base = 0 /\ arg.exp = 0) \/ arg.mod = 0

(* What the documentation says of pow_mod: it throws when base and exp are   *)
(* both zero, when exp is negative or when mod is zero, and otherwise        *)
(* returns pow(base, exp) % mod.                                             *)
PowModAsDocumented ==
    Returned("pow_mod") =>
        /\ arg.mod # 0 /\ arg.exp >= 0 /\ ~(arg.base = 0 /\ arg.exp = 0)
        /\ result = FloorMod(Power, arg.mod)
=============================================================================
