------------------------------ MODULE Karatsuba ------------------------------
(* Karatsuba's multiplication of the spans lhs and rhs, halved at mid:       *)
(*   lhs = a:b, rhs = c:d,                                                   *)
(*   lhs * rhs = ac:0:0 + ((a+b)(c+d) - ac - bd):0 + bd.                     *)
(* A recursive call is a frame of its own; the frame at depth l computes in  *)
(* the temporaries of level l, which are created once per thread and keep    *)
(* what earlier calls left there.  A span is its value v and its size n; the *)
(* products below the threshold are those of module Multiply.                *)
EXTENDS Multiply, Sequences

CONSTANTS MaxDepth,     \* bound of the depth of the recursion
          Stale         \* spans the temporaries may hold at the call

ASSUME KaratsubaAssumption ==
    \* operands of n digits need at most n levels
    /\ MaxDepth \in Nat /\ MaxDepth >= MaxDigits
    /\ Stale \subseteq [v : Nat, n : Nat]
    \* smaller thresholds would let the middle product recurse for ever
    /\ MinKaratsuba >= 3

VARIABLES
    frames,             \* active calls of _mul_karatsuba_ignore_sign, outermost first
    temps               \* KaratsubaStepTemps of each level

kvars == <<vars, frames, temps>>

Temps == {"ac", "bd", "a_b", "c_d", "ab_cd"}

KInit ==
    /\ Init
    /\ frames = <<>>
    /\ \E s \in Stale : temps = [l \in 1 .. MaxDepth |-> [t \in Temps |-> s]]

----------------------------------------------------------------------------
Least(m, n) == IF m < n THEN m ELSE n

(* rmasked from 0 on and from m on.                                          *)
rmasked(s, m) == [v |-> s.v % Pow[Least(m, s.n)], n |-> Least(m, s.n)]
upper(s, m) == IF s.n > m THEN [v |-> s.v \div Pow[m], n |-> s.n - m] ELSE [v |-> 0, n |-> 0]

(* A vector after cleanup.                                                   *)
cleaned(x) == [v |-> x, n |-> Size(x)]

Mid(f) == f.lhs.n \div 2
PartA(f) == upper(f.lhs, Mid(f))
PartB(f) == rmasked(f.lhs, Mid(f))
PartC(f) == upper(f.rhs, Mid(f))
PartD(f) == rmasked(f.rhs, Mid(f))
Room(f) == f.lhs.n + f.rhs.n            \* size of the result span

level == Len(frames)
top == frames[level]

(* mul_ignore_sign puts the longer span first.                               *)
Frame(x, y, to) ==
    IF y.n > x.n THEN [lhs |-> y, rhs |-> x, to |-> to, step |-> "ac"]
    ELSE [lhs |-> x, rhs |-> y, to |-> to, step |-> "ac"]

Following(step) ==
    CASE step = "ac" -> "bd" [] step = "bd" -> "sums" [] step = "sums" -> "ab_cd" [] step = "ab_cd" -> "combine"
Advanced(f) == [f EXCEPT !.step = Following(@)]
Replaced(f) == [frames EXCEPT ![level] = f]

----------------------------------------------------------------------------
SpanOf(o) == [v |-> Value(cell[o], size[o]), n |-> size[o]]

CallKaratsuba ==
    /\ pc = "karatsuba" /\ frames = <<>>
    /\ frames' = <<Frame(SpanOf(long), SpanOf(short), "result")>>
    /\ UNCHANGED <<vars, temps>>

(* Mutated form, used by no specification: the recursive call works in the   *)
(* temporaries of its caller.                                                *)
Product_shared ==
    LET x == CASE top.step = "ac" -> PartA(top) [] top.step = "bd" -> PartB(top) [] OTHER -> temps[level]["a_b"]
        y == CASE top.step = "ac" -> PartC(top) [] top.step = "bd" -> PartD(top) [] OTHER -> temps[level]["c_d"]
        max == IF x.n > y.n THEN x.n ELSE y.n
    IN  /\ pc = "karatsuba" /\ frames # <<>> /\ top.step \in {"ac", "bd", "ab_cd"}
        /\ frames' = Replaced(Advanced(top))
        /\ temps' = IF x.v = 0 \/ y.v = 0 \/ ~karatsuba(max, Least(x.n, y.n))
                    THEN [temps EXCEPT ![level][top.step] = cleaned(x.v * y.v)]
                    ELSE [temps EXCEPT ![level] = [t \in Temps |-> cleaned(x.v * y.v)]]
        /\ UNCHANGED vars

(* The three products: the target is sized, multiplied into and cleaned up.  *)
(* A zero operand and a small product are done at once.                      *)
Product ==
    LET x == CASE top.step = "ac" -> PartA(top) [] top.step = "bd" -> PartB(top) [] OTHER -> temps[level]["a_b"]
        y == CASE top.step = "ac" -> PartC(top) [] top.step = "bd" -> PartD(top) [] OTHER -> temps[level]["c_d"]
        max == IF x.n > y.n THEN x.n ELSE y.n
    IN  /\ pc = "karatsuba" /\ frames # <<>> /\ top.step \in {"ac", "bd", "ab_cd"}
        /\ IF x.v = 0 \/ y.v = 0 \/ ~karatsuba(max, Least(x.n, y.n))
           THEN /\ temps' = [temps EXCEPT ![level][top.step] = cleaned(x.v * y.v)]
                /\ frames' = Replaced(Advanced(top))
           ELSE /\ temps' = [temps EXCEPT ![level][top.step].n = x.n + y.n]
                /\ frames' = Append(frames, Frame(x, y, top.step))
        /\ UNCHANGED vars

Sums ==
    /\ pc = "karatsuba" /\ frames # <<>> /\ top.step = "sums"
    /\ temps' = [temps EXCEPT ![level]["a_b"] = cleaned(PartA(top).v + PartB(top).v),
                              ![level]["c_d"] = cleaned(PartC(top).v + PartD(top).v)]
    /\ frames' = Replaced(Advanced(top))
    /\ UNCHANGED vars

(* _sub_ignore_sign wraps at the size of its target; the additions to the    *)
(* shifted result lose what does not fit it.                                 *)
Minus(s, x) == cleaned((s.v - x) % Pow[s.n])
Middle(t) == Minus(Minus(t["ab_cd"], t["ac"].v), t["bd"].v)
AddedAt(r, room, shift, s) ==
    IF room > shift THEN (r + rmasked(s, room - shift).v * Pow[shift]) % Pow[room] ELSE r
Combined(f, t) ==
    AddedAt(AddedAt(t["bd"].v, Room(f), Mid(f), Middle(t)), Room(f), 2 * Mid(f), t["ac"])

CombineInner ==
    /\ pc = "karatsuba" /\ level > 1 /\ top.step = "combine"
    /\ temps' = [temps EXCEPT ![level - 1][top.to] = cleaned(Combined(top, temps[level]))]
    /\ frames' = [SubSeq(frames, 1, level - 1) EXCEPT ![level - 1] = Advanced(@)]
    /\ UNCHANGED vars

CombineOuter ==
    LET v == Combined(top, temps[1])
    IN  /\ pc = "karatsuba" /\ level = 1 /\ top.step = "combine"
        /\ cell' = [cell EXCEPT ![result] =
                       [k \in Index |-> IF k < Room(top) THEN DigitAt(v, k) ELSE @[k]]]
        /\ pc' = "sign"
        /\ frames' = <<>>
        /\ UNCHANGED <<temps, size, neg, i, j, c, cur, prod>> /\ UNCHANGED call

KNext ==
    \/ Next /\ UNCHANGED <<frames, temps>>
    \/ CallKaratsuba \/ Product \/ Sums \/ CombineInner \/ CombineOuter

KSpec == KInit /\ [][KNext]_kvars

----------------------------------------------------------------------------
KTypeOK ==
    /\ TypeOK
    /\ Len(frames) <= MaxDepth
    /\ \A k \in 1 .. Len(frames) : frames[k].lhs.n >= frames[k].rhs.n /\ frames[k].lhs.v < Pow[frames[k].lhs.n]
    /\ temps \in [1 .. MaxDepth -> [Temps -> [v : Nat, n : Nat]]]

(* While a recursive call runs, the levels above it keep the products and    *)
(* sums they have computed, the spans it reads included; and when a level    *)
(* puts its result together, neither difference is negative and no digit     *)
(* falls off the end of the result, as the comments "guaranteed to be        *)
(* positive" and "guaranteed to not overflow" say.                           *)
LevelExact(f, t) ==
    LET past(steps) == f.step \in steps
        sum == PartA(f).v + PartB(f).v
        mul == PartC(f).v + PartD(f).v
        room == Room(f)
    IN  /\ past({"bd", "sums", "ab_cd", "combine"}) => t["ac"].v = PartA(f).v * PartC(f).v
        /\ past({"sums", "ab_cd", "combine"}) => t["bd"].v = PartB(f).v * PartD(f).v
        /\ past({"ab_cd", "combine"}) => t["a_b"] = cleaned(sum) /\ t["c_d"] = cleaned(mul)
        /\ past({"combine"}) =>
               /\ t["ab_cd"].v = sum * mul
               /\ t["ab_cd"].v >= t["ac"].v + t["bd"].v
               /\ t["bd"].n <= room
               /\ Combined(f, t) = f.lhs.v * f.rhs.v

LevelsExact == \A l \in 1 .. Len(frames) : LevelExact(frames[l], temps[l])
=============================================================================
