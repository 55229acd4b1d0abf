-------------------------------- MODULE Roots -------------------------------
(* sqrt, log2 and log.  The argument y is a record of value and size, which  *)
(* may count leading zero digits: from_string leaves them.                   *)
EXTENDS Call

CONSTANTS Radicands,    \* values of y
          LogBases,     \* base of log
          Precision     \* rounded logarithms tell apart y and y * (1 + 1/Precision)

ASSUME RootsAssumption ==
    /\ Radicands \subseteq {v \in Int : Abs(v) < Pow[MaxSize - 1]}
    /\ LogBases \subseteq Int /\ Precision \in Nat \ {0}

Sized(v) == {[val |-> v, size |-> k] : k \in {Size(Abs(v)), Size(Abs(v)) + 1}}

RootsInit ==
    /\ fn \in {"sqrt", "log2", "log"}
    /\ \E v \in Radicands : \E y \in Sized(v), b \in LogBases :
           /\ arg = IF fn = "log" THEN [y |-> y, base |-> b] ELSE [y |-> y]
           /\ fn = "log" => Canonical([y EXCEPT !.val = Abs(v)])
    /\ pc = "call" /\ loc = <<>> /\ res = <<>>

----------------------------------------------------------------------------
y == arg.y.val

(* y <= 1 for a machine integer: more digits make a number larger than it.   *)
AtMostOne(n) == n.size = 1 /\ n.val <= 1

SqrtCall ==
    /\ Called("sqrt")
    /\ IF y < 0 THEN Throw
       ELSE IF AtMostOne(arg.y) THEN Return(y)
       ELSE Enter("x1", [x0 |-> y \div 2, x1 |-> 0])

Newton(x) == (x + y \div x) \div 2

(* Mutated form, used by no specification: no correction of log.             *)
LogCorrect_never ==
    /\ fn = "log" /\ pc = "correct"
    /\ Return(loc.exp)

(* The two halves of the loop of sqrt.  The first throws on a division by 0: *)
(* y is 0 or 1 with leading zeros.                                           *)
NextX1 ==
    /\ fn = "sqrt" /\ pc = "x1"
    /\ IF loc.x0 = 0 THEN Throw
       ELSE IF Newton(loc.x0) >= loc.x0 THEN Return(loc.x0)
       ELSE Enter("x0", [loc EXCEPT !.x1 = Newton(loc.x0)])

NextX0 ==
    /\ fn = "sqrt" /\ pc = "x0"
    /\ IF loc.x1 <= Newton(loc.x1) THEN Return(loc.x1)
       ELSE Enter("x1", [loc EXCEPT !.x0 = Newton(loc.x1)])

----------------------------------------------------------------------------
Log2Call ==
    /\ Called("log2")
    /\ IF y <= 0 THEN Throw ELSE Return(Log2(arg.y))

(* Truncated quotient of the rounded logarithms of y and base, y >= base:    *)
(* one off where y is close to a power of base; at least one, as the rounded *)
(* logarithms are monotone.                                                  *)
Exact(b, v) == CHOOSE k \in 0 .. MaxBits : Exp(b, k) <= v /\ v < Exp(b, k + 1)
Estimates(b, v) ==
    LET k == Exact(b, v)
    IN  {j \in {k - 1, k, k + 1} :
            /\ j = k - 1 => j > 0 /\ (v - Exp(b, k)) * Precision < Exp(b, k)
            /\ j = k + 1 => (Exp(b, j) - v) * Precision < Exp(b, j)}

LogCall ==
    /\ Called("log")
    /\ IF arg.base <= 1 \/ y <= 0 THEN Throw
       ELSE IF arg.base > y THEN Return(0)
       ELSE \E k \in Estimates(arg.base, y) : Enter("correct", [exp |-> k])

LogCorrect ==
    /\ fn = "log" /\ pc = "correct"
    /\ Return(IF Exp(arg.base, loc.exp) > y THEN loc.exp - 1 ELSE loc.exp)

RootsNext == SqrtCall \/ NextX1 \/ NextX0 \/ Log2Call \/ LogCall \/ LogCorrect

----------------------------------------------------------------------------
Sqr(x) == x * x

(* The estimates of sqrt never go below the root, so that the one returned   *)
(* when they stop falling is its floor.  Of the numbers without leading      *)
(* zeros only the negative ones are refused.                                 *)
SqrtExact ==
    /\ fn = "sqrt" /\ pc = "x1" /\ y > 1 => Sqr(loc.x0 + 1) > y
    /\ fn = "sqrt" /\ pc = "x0" => Sqr(loc.x1 + 1) > y
    /\ Returned("sqrt") => Sqr(result) <= y /\ y < Sqr(result + 1)
    /\ Threw("sqrt") => y < 0 \/ ~Canonical(arg.y)

(* Rounded logarithms tell y apart from the power v of the base.             *)
ToldApart(v) == y < v \/ (y - v) * Precision >= v

(* log2 is the position of the top bit of a number without leading zeros.    *)
(* The correction of log makes up for an estimate one too large: log is      *)
(* never too large, and it is exact for a y that rounding tells apart from   *)
(* the next power of the base.                                               *)
LogsExact ==
    /\ Returned("log2") /\ Canonical(arg.y) => Exp(2, result) <= y /\ y < Exp(2, result + 1)
    /\ Returned("log") =>
           LET next == Exp(arg.base, result + 1)
           IN  Exp(arg.base, result) <= y /\ (ToldApart(next) => y < next)
    /\ Threw("log2") => y <= 0
    /\ Threw("log") => y <= 0 \/ arg.base <= 1

(* Roots and logarithms of numbers without leading zeros are the floors of   *)
(* the real ones, logarithms where rounding does not hide a power.           *)
RootsExact == SqrtExact /\ LogsExact

(* What the documentation says of all numbers: sqrt throws for a negative    *)
(* one (and sqrt(0) == 0, sqrt(1) == 1), log2 counts the binary digits minus *)
(* one, log calculates the integer logarithm.                                *)
RootsAsDocumented ==
    /\ Threw("sqrt") => y < 0
    /\ Returned("log2") => Exp(2, result) <= y /\ y < Exp(2, result + 1)
    /\ Returned("log") => Exp(arg.base, result) <= y /\ y < Exp(arg.base, result + 1)
=============================================================================
