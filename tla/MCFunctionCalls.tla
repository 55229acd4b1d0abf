----------------------------- MODULE MCFunctionCalls -----------------------------
(* The functions on small instances.                                         *)
EXTENDS FunctionCalls

MCPow == [k \in 0 .. MaxSize |-> B ^ k]

MCRadicands == -2 .. 300
MCLogBases == {-2, 0, 1, 2, 3, 7}
MCPowBases == -3 .. 3
MCExponents == {-1} \cup 0 .. 9
MCModuli == -4 .. 5

(* All pairs of nonnegative numbers, and signs for the small ones.           *)
MCGcdArgs == ((0 .. 140) \X (0 .. 140)) \cup ((-6 .. 6) \X (-6 .. 6))

(* One and two digits and a few of three.                                    *)
MCNumerators == (-66 .. -62) \cup (-12 .. 18) \cup (62 .. 67) \cup {127, 128, 200, -200, -4096, -4095, 448, 511, 4031, 4095, 4096, 262143}
MCShapes ==
    {<<f, t, s>> : f \in {"divmod"}, t \in {"u64", "i64", "u32", "i32"}, s \in BOOLEAN}
    \cup {<<f, t, FALSE>> : f \in {"div", "mod"}, t \in {"u64", "i64", "u32", "i32"}}
    \cup {<<"/=", t, TRUE>> : t \in {"u64", "i64", "u32", "i32"}}
    \cup {<<"big /=", "u64", TRUE>>}

(* Bases 2, 4 and 8 fill a word of 6 bits, 3, 7, 10 and 16 do not; 1 and 65  *)
(* are illegal.  Texts of up to three words.                                 *)
MCTextBases == {1, 2, 3, 4, 7, 10, 65}
SeqsUpTo(S, n) == UNION {[1 .. k -> S] : k \in 0 .. n}
MCTexts ==
    [b \in {1, 2, 3, 4, 7, 8, 10, 16, 65} |->
        CASE b = 2 -> SeqsUpTo({0, 1}, 13) \cup SeqsUpTo({0, 1, NoDigit}, 7)
          [] b = 3 -> SeqsUpTo({0, 1, 2, NoDigit}, 5)
          [] b = 4 -> SeqsUpTo({0, 3}, 7) \cup SeqsUpTo({0, 1, 3, NoDigit}, 4)
          [] b \in {1, 65} -> SeqsUpTo({0}, 1)
          [] OTHER -> SeqsUpTo({0, 1, b - 1, NoDigit}, 3)]
MCPrinted == -20 .. 300

(* One function, for what the documentation says of it.                      *)
RootsSpec == RootsInit /\ [][Next]_vars
PowModSpec == fn = "pow_mod" /\ PowersInit /\ [][Next]_vars
ReadSpec == ReadInit /\ pc = "call" /\ loc = <<>> /\ res = <<>> /\ [][Next]_vars
PermSpec == fn = "perm" /\ CountingInit /\ [][Next]_vars /\ WF_vars(Next)
=============================================================================
