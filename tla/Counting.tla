---------------------------- MODULE Counting ----------------------------
(* factorial, perm and comb.  Their arguments and the counters of perm and   *)
(* comb are unsigned machine integers that wrap at U; the counter of         *)
(* factorial is wider than its argument.                                     *)
EXTENDS Call

CONSTANT U              \* 2^32

ASSUME CountingAssumption == U \in Nat /\ U >= 2

CountingInit ==
    /\ fn \in {"factorial", "perm", "comb"}
    /\ \E n, k \in 0 .. U - 1 : arg = IF fn = "factorial" THEN [n |-> n] ELSE [n |-> n, k |-> k]
    /\ pc = "call" /\ loc = <<>> /\ res = <<>>

----------------------------------------------------------------------------
(* n * (n - 1) * ... of k factors                                            *)
Falling(n, k) ==
    LET f[i \in 0 .. k] == IF i = 0 THEN 1 ELSE (n - i + 1) * f[i - 1] IN f[k]

FactorialCall ==
    /\ Called("factorial")
    /\ Enter("multiply", [i |-> 1, result |-> 1])

PermCall ==
    /\ Called("perm")
    /\ IF arg.k > arg.n THEN Return(0)
       ELSE Enter("multiply", [i |-> (arg.n - arg.k + 1) % U, result |-> 1])

(* Mutated forms, used by no specification: the counter of factorial wraps   *)
(* too; the division comes first.                                            *)
MultiplyStep_narrow ==
    /\ fn \in {"factorial", "perm"} /\ pc = "multiply" /\ loc.i <= arg.n
    /\ Enter("multiply", [i |-> (loc.i + 1) % U, result |-> loc.result * loc.i])

CombStep_divideFirst ==
    /\ fn = "comb" /\ pc = "choose" /\ loc.j <= loc.d2
    /\ Enter("choose", [loc EXCEPT !.result = (@ \div loc.j) * loc.i,
                                   !.i = (@ + 1) % U, !.j = (@ + 1) % U])

MultiplyStep ==
    /\ fn \in {"factorial", "perm"} /\ pc = "multiply" /\ loc.i <= arg.n
    /\ Enter("multiply", [i |-> IF fn = "perm" THEN (loc.i + 1) % U ELSE loc.i + 1,
                          result |-> loc.result * loc.i])

MultiplyEnd ==
    /\ fn \in {"factorial", "perm"} /\ pc = "multiply" /\ loc.i > arg.n
    /\ Return(loc.result)

(* d2 is the smaller of k and n - k.                                         *)
CombCall ==
    LET n == arg.n  k == arg.k
        d1 == IF n - k > k THEN n - k ELSE k
    IN  /\ Called("comb")
        /\ IF k > n THEN Return(0)
           ELSE IF k = 0 \/ k = n THEN Return(1)
           ELSE Enter("choose", [i |-> d1 + 1, j |-> 1, d2 |-> n - d1, result |-> 1])

CombStep ==
    /\ fn = "comb" /\ pc = "choose" /\ loc.j <= loc.d2
    /\ Enter("choose", [loc EXCEPT !.result = (@ * loc.i) \div loc.j,
                                   !.i = (@ + 1) % U, !.j = (@ + 1) % U])

(* The factors that are left, none if the counter has wrapped to 0.          *)
CombEnd ==
    LET rest == IF loc.i \in 1 .. arg.n THEN Falling(arg.n, arg.n - loc.i + 1) ELSE 1
    IN  /\ fn = "comb" /\ pc = "choose" /\ loc.j > loc.d2
        /\ Return(loc.result * rest)

CountingNext ==
    \/ FactorialCall \/ PermCall \/ MultiplyStep \/ MultiplyEnd
    \/ CombCall \/ CombStep \/ CombEnd

----------------------------------------------------------------------------
(* The numbers of choices, by their definitions.                             *)
Choices(n, k) == Falling(n, k) \div Falling(k, k)

(* The product divides evenly after every factor, so that comb may divide as *)
(* it goes; the results are the numbers of choices.  comb returns them also  *)
(* for the largest n, where its counter wraps; that perm returns there is    *)
(* not said here (see PermReturns).                                          *)
ChoicesExact ==
    /\ fn = "comb" /\ pc = "choose" /\ loc.j <= loc.d2 =>
           /\ loc.result = Choices(arg.n - loc.d2 + loc.j - 1, loc.j - 1)
           /\ (loc.result * loc.i) % loc.j = 0
    /\ Returned("factorial") => result = Falling(arg.n, arg.n)
    /\ Returned("perm") => result = IF arg.k > arg.n THEN 0 ELSE Falling(arg.n, arg.k)
    /\ Returned("comb") => result = IF arg.k > arg.n THEN 0 ELSE Choices(arg.n, arg.k)
    /\ fn \in {"factorial", "perm", "comb"} => pc # "threw"

(* perm of the largest machine integer: its counter wraps below n for ever.  *)
CounterWraps == fn = "perm" /\ arg.n = U - 1 /\ arg.k <= arg.n
=============================================================================
