------------------------------ MODULE FunctionCalls ------------------------------
(* The functions built on the arithmetic of BigInts: each behaviour is one   *)
(* call.  A call runs in one thread, which the scheduler does not stop for   *)
(* ever: it takes its next step if there is one.                             *)
EXTENDS Roots, Powers, Counting, Lehmer, IntDivision, Strings

Init ==
    \/ RootsInit \/ PowersInit \/ CountingInit
    \/ LehmerInit \/ IntDivisionInit \/ StringsInit

Over == pc \in {"returned", "threw"}

Next ==
    \/ RootsNext \/ PowersNext \/ CountingNext
    \/ LehmerNext \/ IntDivisionNext \/ StringsNext
    \/ Over /\ UNCHANGED vars

Spec == Init /\ [][Next]_vars /\ WF_vars(Next)

----------------------------------------------------------------------------
TypeOK ==
    /\ fn \in {"sqrt", "log2", "log", "pow", "pow_mod", "factorial", "perm", "comb",
               "gcd", "lcm", "int_div", "from_string", "to_string", "digit_sum"}
    /\ pc \in {"call", "returned", "threw"}
              \cup CASE fn = "sqrt" -> {"x1", "x0"}
                     [] fn = "log" -> {"correct"}
                     [] fn \in {"pow", "pow_mod"} -> {"power"}
                     [] fn \in {"factorial", "perm"} -> {"multiply"}
                     [] fn = "comb" -> {"choose"}
                     [] fn \in {"gcd", "lcm"} -> {"euclid", "lehmer", "divide"}
                     [] fn = "int_div" -> {"digits", "fix", "sign"}
                     [] fn = "from_string" -> {"chunks", "windows"}
                     [] fn = "to_string" -> {"rounds", "words"}
                     [] fn = "digit_sum" -> {"sum"}
                     [] OTHER -> {}
    /\ fn = "int_div" /\ pc = "fix" => loc.x \in 0 .. Modulus(arg.type) - 1
    /\ fn = "int_div" /\ form \in {"divmod", "mod"} /\ pc = "returned" => result.rem \in IntsOf(arg.type)
    /\ InGcd /\ pc = "lehmer" =>
           /\ loc.u_ \in 0 .. B - 1 /\ loc.v_ \in 0 .. B - 1
           /\ {loc.x_im1, loc.x_i, loc.y_im1, loc.y_i} \subseteq -(B \div 2) .. B \div 2 - 1

(* Every call comes to an end: Newton's iteration stops, Euclid's algorithm  *)
(* with Lehmer's steps loses digits, the loops over digits and bits run out. *)
(* It is checked for the calls of EndingInit.                                *)
Ends == <>Over

(* All calls but perm of the largest machine integer.                        *)
EndingInit == Init /\ ~CounterWraps
EndingSpec == EndingInit /\ [][Next]_vars /\ WF_vars(Next)

(* What the documentation says of perm: it evaluates to n! / (n - k)! when   *)
(* k <= n and to zero otherwise.                                             *)
PermReturns == Called("perm") ~> Returned("perm")
=============================================================================
