# BigInt: TLA+ models and proofs

This directory models the arbitrary precision integer library in `src/`
(`src/src/bigint`), checks the models with TLC and proves theorems about them
with TLAPS. The reference is the code: every definition that models code has
an entry in `PROJECT.json` (`map`) with the lines it stands for.

Line numbers below are those of `src/src/bigint/bigInt.h` unless a file is named.

## 1. The system

The library is header-only C++23. A `BigInt` is a sign and a `pooled_ptr` to a
`fast_vector` of 64-bit digits, least significant first. The value operations
are free functions in two forms: `op(result, a, b)` with `result` a reference
that may name the same object as an operand, and operators built on them.

| Component | State | Operations | Interacts with |
|---|---|---|---|
| word helpers (`utils/utils.h`) | none | `mul_u128`, `div_u128_saturate`, `constexpr_abs` | called by every digit loop |
| `fast_vector` (`utils/fast_vector.h`) | three pointers into a malloc'ed block | construct, copy, swap, `push_back`, `pop_back`, `resize`, `reserve`, `shrink_to_fit`, `clear` | spans handed to digit loops point into its block; `resize(count)` does not initialise |
| object pool (`utils/pool.h`) | one `thread_local` stack of vectors per thread | `get_ptr`, `return_ptr`, the special members of `pooled_ptr` | every BigInt and temporary borrows its vector here; destroying one returns it to the pool of the executing thread |
| BigInt object (134-297) | digits, sign | constructors, `copy`, `resize`, `cleanup` | result of every operation |
| views, `IntegralAdapter` (304-344) | none | negated and absolute views, one-digit operands | stand for operands |
| comparison, conversion (352-478, 861-978) | none | `<=>`, `==`, `fits`, `as_integral` | control flow of division, mathematics |
| shifts (727-857) | result, operand in place | `lshift`, `rshift`, operators | Lehmer's gcd, `log2` users |
| bitwise (983-1162) | result, operands in place | and, or, xor | |
| addition, subtraction (1164-1483) | result, operands in place, carry | `add`, `sub`, `_negate_twos_complement` | multiplication (Karatsuba), division, mathematics |
| multiplication (1486-1930) | result, row carry, Karatsuba temporaries per thread | `mul` by BigInt and by integer, `mul_naive`, `mul_karatsuba` | division, strings, mathematics |
| division (1932-2522) | remainder and quotient spans, estimate | `divmod`, `div`, `mod` by BigInt and by integer, `operator/=` in place | strings, mathematics |
| strings (2527-2839) | digits under construction | `from_string`, `to_string`, literals | skip `cleanup`: leading zeros and negative zero escape |
| mathematics (`math.h`) | local BigInts | `sqrt`, `log`, `pow`, `pow_mod`, `factorial`, `perm`, `comb`, `gcd`, `lcm`, `log2`, `digit_sum` | built on all of the above |

What is hard here, and hard to test:

* **Aliasing.** `result` may be an operand, and `resize` grows it before the
  digits are read; whether that is safe depends on which of the parameters is
  cut back to its old size, and on the direction in which a loop runs.
* **Stale storage.** `resize(count)` leaves what it adds uninitialised,
  `pop_back` leaves the old digit behind, and the pool recycles vectors with
  their storage. A digit nobody wrote shows up as a wrong result once in many
  calls, or never in a fresh process.
* **Carries at the word limits.** Carry and borrow are recovered from wrapped
  words; the cases that break an expression have probability 2^-64.
* **Division estimates.** The quotient digit is estimated from two digits and
  corrected at most twice; the corrections and ties are as rare.
* **Shared temporaries.** Karatsuba's recursion levels compute in temporaries
  that live as long as the thread.
* **Machine integers inside.** Lehmer's cofactors, the counters of `perm` and
  `comb`, remainders of integer divisions and the base powers of the string
  conversions wrap or change type on the way.
* **Ownership.** Vectors travel between threads and outlive their pools.

What makes each component correct: the result of an operation is the exact
value, in canonical form (no leading zero digit, zero is positive), whatever
objects the parameters name and whatever the storage held; a block or a pooled
vector has one owner and is not lost; comparison is a total order; a call
ends. The `hazards` of `PROJECT.json` list where each of these is in danger.

## 2. The modules

| Module | Models | Shape |
|---|---|---|
| `Words` | bodies of the add, subtract and negate loops on one word | operators, any base B >= 2 |
| `Places` | the weights B^k of the digits, the value and size of a number, a digit of it | operators, extended by all modules with digits in place |
| `WordLemmas` | lemmas about both, and induction over digits | proofs |
| `AddSub` | one call of `add` / `sub`, `cleanup` included, on shared storage | one loop iteration per step |
| `AddSub_proofs` | its theorems | proofs |
| `Division` | one call of `divmod`, `div`, `mod` on BigInts | one digit or one subtraction per step |
| `Division_proofs` | its theorems | proofs |
| `ObjectPool` | threads, their pools, `pooled_ptr`s | one member function per step |
| `ObjectPool_proofs` | its theorems | proofs |
| `Bits` | words as bits, `lshift_safe`, `rshift_safe` | operators |
| `Storage` | the objects of a bit operation, `cleanup` | shared variables |
| `Shift`, `Logic` | `lshift` / `rshift`; and / or / xor | one digit per step |
| `BitOps` | composes `Shift` and `Logic` over the same storage | |
| `BitOps_proofs` | theorems of both | proofs |
| `Multiply` | `mul` by an integer and by a BigInt, `mul_naive`, the choice of the algorithm | one digit product per step |
| `Karatsuba` | the recursion of `mul` and `mul_karatsuba`, extends `Multiply` | one product or sum of a level per step |
| `Multiply_proofs` | theorems of `Multiply` and `Karatsuba` | proofs |
| `Compare` | `<=>`, `fits`, `as_integral` | operators, one step asks all |
| `Call` | one call of a function, its locals and result | shared variables |
| `Roots` | `sqrt`, `log2`, `log` | half an iteration per step |
| `Powers` | `pow`, `pow_mod` | one bit of the exponent per step |
| `Counting` | `factorial`, `perm`, `comb` | one factor per step |
| `Lehmer` | `gcd`, `lcm` | one division or cofactor step per step |
| `IntDivision` | division by machine integers, `operator/=` | one digit per step |
| `Strings` | `from_string`, `to_string`, literals, `digit_sum` | one word of digits per step |
| `FunctionCalls` | composes the seven modules above, states fairness | |
| `FunctionCalls_proofs` | theorems of the functions and of `Compare` | proofs |
| `DigitSeq` | what a `fast_vector` promises: a sequence of digits | abstract specification |
| `FastVector` | `fast_vector` on a heap of blocks | one member function per step, refines `DigitSeq` |
| `FastVector_proofs` | its theorems, the refinement among them | proofs |

`MCAddSub`, `MCBitOps`, `MCDivision`, `MCCompare` and `MCFunctionCalls` give the
constants of their modules values and, where the full set of initial states is
larger than its cases, a smaller `Init`. `MCAddSubVector`, `MCBitOpsPool`,
`MCMultiplyDivide` and `MCFunctionsCompare` put two components next to each
other; the names of their Init, Next and type invariant differ for that.

### How state and actions correspond to the code

*Objects in place* (`AddSub`, `Storage`, `Multiply`). `cell[o]` is the storage
of object `o` with the cells past `size[o]`: `resize(count)` changes `size`
alone, as the code does, so that a cell keeps what it held. `alias` is the
triple of objects that `result`, `a` and `b` name; loops read and write `cell`
through it, so that an overwritten operand is seen overwritten. The base `B`
is a constant: a digit is a number below B and arithmetic wraps modulo B, in
the program 2^64. The loops are the same for every base, which is why small
bases show the carries; the proofs are for every base. `Places` gives cell k
the weight `Pow[k]`, a constant that `PowAssumption` says is B^k: a table,
since the provers know no powers.

*`AddSub`.* `Call` is `add`/`sub` up to the loop: resize, spans (a cut back to
its old size, b taken after the resize), dispatch on the signs. `AddBoth`,
`AddRest`, `SubBoth`, `SubRest` are the iterations of the two loops of
`_add_ignore_sign` and `_sub_ignore_sign`; `Negate` those of
`_negate_twos_complement`; `SubSign` composes span swap, underflow and sign of
a; `CleanPop`, `CleanEnd` are `cleanup`. `digs`, `size0`, `sumL`, `sumS`,
`part`, `pos` are history variables no guard reads.

*`Division`.* Spans are the numbers they stand for, as additions and
subtractions on spans are exact (which `AddSub` checks); the sizes in digits
and windows of digits that the algorithm uses are computed from them.
`Estimate`, `Subtract`, `CorrectOnce`, `CorrectTwice`, `StoreDigit` are one
round of `_divide_loop`; `Normalize`, `Denormalize` the scaling; `SmallStep`
the one-digit divisor; `FixSigns` the step to floor division.

*`ObjectPool`.* `pool[t]` is the stack of thread t, `ptr[p]` the vector a
`pooled_ptr` holds (`NoSlot` for null, `Unborn` when it is out of lifetime).
Each special member is one action: a pooled_ptr is used by one thread at a
time and a pool by its own thread only, so a member function is not
interrupted by another that touches the same state. `ThreadExit` destroys a
thread's pool with the vectors in it.

*`Shift`, `Logic`.* As `AddSub`: `LShift` and `RShift` resize, `LShiftTop`,
`LShiftStep`, `LShiftEnd` and `RShiftStep`, `RShiftEnd` write one digit each.
`Call`, `Both`, `Rest`, `LogicCleanup` are the loops of the bitwise
operations; magnitudes and signs are combined apart, which the properties say.
`NewResult` is what `operator<<` and `<<=` give `lshift`: the operand itself or
a new object. `OperatorSpec` starts there; `Spec` with any result, which is
where `lshift` differs (run `lshift_reuse`).

*`Multiply`.* `CallWord`/`CallBig` size the result, `FirstRow` assigns the
first row, `NextRow` adds the others, `RowEnd` stores a row's carry, `Finish`
sets the sign and cleans up. `entry` is the function called: `mul` chooses
Karatsuba from `MinKaratsuba` digits on (`MIN_DIGITS_FOR_MULT_KARATSUBA`),
`mul_naive` and `mul_karatsuba` do not choose.

*`Karatsuba`.* `frames` is the stack of active calls of
`_mul_karatsuba_ignore_sign`; the frame at depth l computes in `temps[l]`, the
`KaratsubaStepTemps` that `local_temps` keeps for its level. `Product` is each
of the three multiplications, done at once below the threshold or by a new
frame; `Sums` the two additions; `CombineInner` and `CombineOuter` the
subtractions and the additions into the result. A span is a value with its
size, since the sizes decide halves, thresholds and what is cut off; additions
are those that `AddSub` checks. Temporaries start with any of the spans in
`Stale`, as earlier calls of the thread may have left them.

*`Call` and the functions.* A behaviour is one call: `fn` and `arg` say which,
`loc` holds its local variables, `pc` the loop it is in, `res` what it
returned. The numbers are values, as the modules above check the operations
that compute them; where leading zero digits make a difference (`sqrt`, `log2`,
`to_string`) an argument has a size as well. Powers are `Exp`, by its
recursion, and those of the word the table `Pow`; `MaxSize` bounds the digits
of the numbers (`Fits`), so that sizes and bit lengths have a range to be
chosen from. Machine integers wrap at their
constants: `B` for the 64-bit word (`Lehmer`, `IntDivision`, `Strings`), `H`
for the 32-bit half of it, `U` for the counters of `perm` and `comb`. The
quotient of rounded logarithms in `log` is any value that rounding within
`Precision` can give (`Estimates`). A text is a sign and a sequence of digits,
a character that is no digit in the base is the digit 99. `base_power` and
`division_base` are computed from the word, as the code does, so that bases
whose power is exactly one word (`Special`, 2, 4 and 16 for 64 bits) take the
code's other branch.

*`Compare`.* A number is a record of digits and sign; numbers with leading
zeros and negative zeros are included, since `from_string` makes them.

*`FastVector`.* Three pointers are a block, a length and a capacity; a block
on the heap has cells that keep their content until overwritten, and
`reallocate` may move to any free block or stay. The refinement mapping to
`DigitSeq` reads the first `length` cells of the block; `op` labels the
operation so that a step cannot pass for another one.

## 3. The runs

Run with `tlc -config X.cfg M`. No run uses a state constraint; bounds are
constants.

Each of the four passing runs checks two components that have nothing to do
with each other side by side, to keep the runs few: its MC module EXTENDS the
modules of both, in every behaviour one of them moves and the other is at rest,
and the state graph is the two graphs next to each other. A property of one
holds trivially where the other moves, and is checked in full where its own
moves.

| Run | Bounds | Shows |
|---|---|---|
| `add_sub_vectors` (MCAddSubVector, AddSubVector.cfg) | `AddSub`: base 3, three objects, operands of 1 or 2 digits, 3 cells | `ResultExact`: a + b and a - b exactly and canonically, with `result` separate, `result` = a, a = b. On the way: no digit is overwritten before it is read, the debug assertions hold, the carry arithmetic loses nothing |
| | `FastVector`: two vectors, three blocks, capacity up to 3, two digits | each block has one owner, spans stay valid while the capacity suffices, and every member function does what `DigitSeq` says |
| `bit_ops_pools` (MCBitOpsPool, BitOpsPool.cfg) | `BitOps`: 2-bit digits, operands of 1 or 2 digits, shifts by 0 to 5 bits, stale cells 0 or 3 | `BitsExact`: each result bit exactly, in place and not; `UnreadIntact`: nothing is overwritten before it is read |
| | `ObjectPool`: two threads, three pointers, four vectors, two values | one owner per vector, none lost, nothing read that was not stored |
| `multiply_divide` (MCMultiplyDivide, MultiplyDivide.cfg) | `Karatsuba`: operands of 1 to 3 of the digits 0, 1 and 5 of base 6, by integer (in place or not), by BigInt, square; threshold 3, recursion of at most 3 levels, temporaries empty or stale | `ResultExact`: exact canonical products by all entry points. `RowsConserve`: the rows add up and none reads a digit that nobody wrote. `LevelsExact`: a level finds its products and sums undisturbed by the levels below, the differences are not negative and nothing falls off the result, as the comments promise |
| | `Division`: base 6, all dividends of up to 3 digits, all divisors of 1 and 2 digits and those of 3 that end in 55, all signs, three modes | floor division except where a tie occurred (below); the estimate is at most two too large; `QuotientSoFar`: the long division keeps quotient * divisor + remainder = dividend; `SpansReduced`: each prefix is smaller than the divisor, the small division never borrows, denormalizing is exact |
| `functions_compare` (MCFunctionsCompare, FunctionsCompare.cfg) | functions: words of 6 bits, numbers of at most 5 words, halves of 3, counters of 3, logarithms precise to 1/16; `sqrt` and `log` of -2 to 300, small powers and all moduli of -4 to 5, every pair of the counters but those of the run `perm_largest`, gcd of all pairs up to 140 and of small negative ones, dividends of up to three digits by every integer of four types, texts of up to three words in eight bases, -20 to 300 printed with and without a leading zero | every function returns what its definition says, apart from the calls of the runs below; each loop keeps the equation it works by; `Ends`: each call comes to an end |
| | `Compare`: base 64, all triples of numbers of 1 or 2 of the digits 0, 1 and 63 (leading zeros and negative zeros included), the integers 0, 1, 63, -1 and -63 | total order that follows the values unless both are negative; agreement with the comparison with integers |

Why the bounds are enough: the loops treat a digit in one of the ways "both
operands have it", "the longer one has it", "nobody has it", and two digits
against one, two against two and one against one reach all of them with each
carry; base 3 has the digits 0, 1 and B - 1, which the carry expressions
distinguish (multiplication and comparison, in the larger bases of their runs,
have operands of these digits only), and base 6 is the least even base in which the division needs two
corrections and meets a tie (in base 4 neither occurs). Three-digit dividends
with two-digit divisors reach both, and saturation. Three pointers and two threads let
one vector be given up in one thread while another takes it; four vectors are
one more than three pointers can hold. In multiplication the threshold 3 with three
digits splits into two digits and one, and their sum may have three again, so
that frames nest; with threshold 2 the sum of the halves of two digits may
have two again and the middle product could recurse without end, which `KaratsubaAssumption` excludes and
the code's threshold is far from. In the functions a word of 6 bits is filled
exactly by the bases 2, 4 and 8 and not by 3, 7, 10 and 16, so that both
branches of the conversions run with one, two and three words; the pairs up to
140 have one and two words, so that Lehmer's step takes its leading bits from
shifted and from whole numbers, and dropping a half of the break condition
makes it fail.

The bases above are checked exhaustively; what depends on the base is proved
for every base where section 4 says so.

### Disagreements between code and documentation

Eight runs expect a violation; each states what a comment or the README of the
library says (`findings` in `PROJECT.json`). What the code does instead is left
out of the properties of the passing runs, which claim nothing for these calls.

* `add_all_same` - the comment of `add` names `add(a, a, a)` as supported. b's
  span is taken after `resize`, so that b is one digit longer, an uninitialised
  one, and the carry is added there.
* `division_remainder` - "Now x contains the remainder." When the first of two
  corrections reaches zero exactly, the second is made too: the quotient is
  one too small and the remainder equals the divisor.
* `lshift_reuse` - `lshift` into a longer result leaves an old digit on top.
  The operators `<<` and `<<=` never call it so.
* `conversions` - `fits` says no to a value inside the range of a signed type,
  as its comparisons with the bounds are reversed, and `as_integral` returns
  `bool`, so that -1 becomes 1.
* `roots_documented` - "the same as counting the number of digits ... in binary
  representation minus one", but `log2` of a number with leading zero words
  counts those too. TLC stops there; with `-continue` it also shows `sqrt` of a
  0 or 1 with leading zeros throw, for a division by zero, where the
  documentation has it throw for negative numbers, and `log` one too small just
  above a power, as it corrects only an estimate that is too large.
* `pow_mod_documented` - "`pow(base, exp) % mod`", and throws for a negative
  exponent and the modulus 0. The code gives 1 for the exponent 0 and 0 for the
  base 0 or a negative exponent before it looks at the modulus.
* `non_numbers` - "when a non-number string is provided" `from_string` throws,
  but it reads the empty text as zero and, in bases whose power does not fill a
  word (10 is one), a mere sign as well.
* `perm_largest` - "evaluates to `n! / (n - k)!` when `k <= n`", but `perm` of
  the largest 32-bit integer does not end: its counter wraps below its bound.

Other facts of the code, which no comment contradicts, are stated as such by the
properties:

* Two negative BigInts are ordered by their magnitudes (-5 > -3,
  `OrderByValue`), and a negative BigInt of several digits compares with an
  integer by value although it does not with the BigInt of that integer
  (`IntAgrees`).
* Texts in a base that fills a word keep their leading zero words, and in every
  base "-0" is a negative zero (`ReadsValue`). A number with a leading zero word
  is printed in these bases with all digits of the words below (`PrintsValue`).
* `comb` of the largest 32-bit integer ends with the right value, although its
  counter wraps as that of `perm` does (`Ends`, `ChoicesExact`).

### Fairness

`FunctionCalls` states `WF_vars(Next)`: a call runs in one thread, which the
scheduler does not stop for ever, and nothing it waits for is another thread's
to give. Under it `Ends` says that every call of `EndingInit` returns or throws:
all but `perm` of the largest integer, of which the run `perm_largest` shows,
under the same fairness, that it violates `PermReturns`. The fairness hides no choice: where `Next` allows several steps
(`Estimates`) each of them leads on. The other specifications state no
fairness: their properties are about safety, and the loops of the digit
operations run over a range that is fixed when they start.

## 4. The proofs

All proofs are for every value of the constants: every base, number of digits
or vectors, aliasing and threshold. `tlapm` checks them. Assumptions used are
the named ASSUMEs of the modules, which TLC evaluates in the runs, and
`ResultIsNotB` where it is named. Each inductive invariant was checked by TLC
on the run of its module before it was proved.

**`WordLemmas`** has the bodies of the loops on one word, facts about the
weights and the values of numbers (`ValueStep`, `ValueUpdate`, `ValueTrim`,
`ValueBound`, `PowSum`), sizes, quotients, and what induction the proofs need.
The theorems on induction of the library take an operator and cannot be
instantiated; `LeastNat` gets a least element from the well-foundedness of a
relation, `BoundedInduction` and `SetInduction` do induction with the set of
the numbers for which the claim holds, and `RecursionExists` builds the
function that a recursive definition chooses. With them the value of a number,
a recursive sum over its digits, is known for any number of digits.

**`AddSub_proofs`**, on the condition `ResultIsNotB` (no triple names one
object as `result` and as b; the run `add_all_same` shows why):

    IInv == TypeOK /\ Phase /\ Unread /\ Written /\ Conservation /\ Bounds
            /\ Outcome /\ LoopsExact

`Phase` says where the call is (sizes, signs, counters); `Written` that
`part[k]` is the value of the digits actually stored; `Bounds` that the
shorter operand never reaches the weight of the next digit. Without `Written`
nothing relates what the negation reads to the history; without `Bounds` the
last carry of the negation could be 0, for an underflow whose difference is
zero modulo the weight. From it: `TypeCorrect`, `InPlaceSafe` (UnreadIntact),
`AssertionsHold` (AssertsHold), `LoopsConserve` (Conservation),
`LoopsCorrect` (LoopsExact). `SumExact` (ResultExact) rests on a second one,

    VInv == Called /\ SumsRead /\ DigitsWritten /\ Held /\ Clean

which ties the history to values of numbers: `sumL`, `sumS` and `part` are the
values of the digits read and written, `Held` that `cleanup` keeps the value
and `Clean` that it stops at the top digit.

**`Multiply_proofs`**, first about `Multiply`:

    IInv == Typed /\ Phase /\ Operands /\ Conservation /\ Totals /\ Kept /\ Answer

`Conservation` is the equation within a row - what is written and the carry
are the digit products so far - and `Totals` says what both sides are: `cur`
the value of the digits stored in `result`, `prod` the operand times the
digits of the other one used so far. `Operands` says which operand digits are
still there, `Kept` that the last row leaves the whole product. The carry fits
its word because a digit product plus two digits fits two words. For the
program with the recursion:

    KInv == IInv /\ Shape /\ Levels /\ Outer /\ Waiting /\ SizesKept

`Levels` says of each frame that it is well formed and which products and sums
are in its temporaries; `Waiting`, that the frame above computes the product
the frame below waits for; `Outer`, that the outermost frame computes the
call's. The depth is bounded by a weight: a frame of 4 or more digits weighs
one less than its digits, one of three digits 2 or, when it is a sum of digits
little above two, 1; level and weight together never exceed `MaxDigits + 1`,
so that MaxDepth >= MaxDigits levels suffice. For thresholds below 3 there is
no bound, as `KaratsubaAssumption` says. From it: `KTypeCorrect`,
`EveryLevelExact` (LevelsExact), `KInPlaceSafe`, `KRowsKeepProduct`,
`KProductExact` (ResultExact).

**`Division_proofs`**:

    IInv == DivisionTypeOK /\ Fresh /\ Scaled /\ Reduced /\ Rounds /\ SmallLoop
            /\ Magnitudes /\ FloorDivision

`Scaled` says that twice the leading digit of the scaled divisor is at least
B - 1, and what quotient and remainder mean on the way; `Reduced` that the
prefix divided is less than the divisor unless a tie occurred; `Rounds` follows
one digit from the estimate through the corrections; `Magnitudes` says what
the loops hand to `FixSigns`. That the estimate from two digits over one is at
most two too large is the classical argument with such a leading digit, for
every base, odd ones included. From it:
`QuotientKept`, `TwoCorrectionsEnough` (EstimateClose), `Reduction`
(SpansReduced), `DividesExactly` (FloorDivision, when no tie occurred).

**`ObjectPool_proofs`**, for every number of threads, pointers, vectors and
values: `IInv == PoolTypeOK /\ SoleOwner /\ Accounted /\ Isolation`, where
`Accounted` says that what is held or pooled is allocated, so that a new
vector is no one's. From it: `TypeCorrect`, `SingleOwnership` (SoleOwner),
`ReadsOwnWrites` (Isolation). `NothingLost` (NoLeak) adds the converse, `Kept`:
what is allocated is held or pooled, which is inductive together with IInv.

**`FastVector_proofs`**: `IInv == VectorTypeOK /\ BlocksOwned /\ Held`, `Held` being
that no block a vector points to is one the allocator may return. For each
member function one lemma says what it does to the contents of every vector
and that the step is the one of `DigitSeq` with the same name; `Refinement`
(ImplementsSequences) and the action property `SpansSurvive` (SpansStable)
follow from them.

**`BitOps_proofs`**:

    IInv == Typed /\ Calling /\ LShifting /\ RShifting /\ Shifted /\ Combining
            /\ Answer

`LShifting` and `RShifting` say how far the loops are: below (or above) the
counter the operand still has the digits of the call, on the other side the
result has its digits, `LDigit` or `RDigit` of the operand at the call.
`Combining` says the same of the bitwise loops with `OpDigit`. `Shifted` has
the whole result before `cleanup`, and `Answer` turns digits into bits: bit k
of the result is the bit of the operand n places away. From it: `TypeCorrect`,
`InPlaceSafe` (UnreadIntact), `RShiftAndLogicExact`; and `ExactBits` (BitsExact) for `OperatorSpec`, as
`lshift` into any result is not exact.

**`FunctionCalls_proofs`**, first `SpanOrderExact` of `Compare` - the highest
digit in which two numbers differ decides the order of their values, leading
zeros or not - from which `ValuesOrdered`, `OrderIsTotal` and `IntegersAgree`
follow for every base and size. Then the functions, for every word, every
number of digits and all arguments that `Fits` admits. They share their
variables, and `StepsOfOne` says that the call of one function takes the steps
of that function only; each has an invariant of its own that says what holds
at each value of `pc`:

* `GcdInv` (gcd, lcm): U and V keep the divisors of the arguments, as a number
  and the remainder by it have those of the two (`GcdKept`). Inside Lehmer's
  loop `LehmerState` says that the cofactors applied to the leading words give
  the words' remainders, that the next quotient of any two numbers with these
  leading words is that of the words (the break condition leaves room for the
  error of either side), and that the pair the cofactors stand for is one
  Euclid's algorithm on the long numbers reaches (`Remainders`). From it
  `LehmerFollowsEuclid`; the bound on the words keeps the cofactors in theirs.
* `CountInv` (factorial, perm, comb): `loc.result` is the falling product so
  far; in comb times the factorial of the divisors so far, from which every
  division is exact because j successive numbers have a product that j! divides
  (`ChoicesExact`). comb of the largest counter value wraps in the step after
  the last; perm of it is left out of the loop's claim, as it does not end
  (run `perm_largest`).
* `IntDivInv` (division by a machine integer): `DividedDown` says that x and
  the digits stored are remainder and quotient of the digits divided, and that
  those below are still there, in place too. That a division by half digits
  gives what a division of the whole word gives is `HalfStepExact`.
* `PowInv` (pow, pow_mod): the result so far times temp to the power of the
  bits left is `Alike` the power, equal or modulo the modulus. `PowersExact`
  follows for the calls for which the modulus of the power is defined, and
  that no modulus 0 reaches the loop.
* `RootsInv` (sqrt, log2, log): an estimate of Newton's iteration is never
  below the root, a step from an estimate above the root falls, and one that
  does not fall starts at the root; the shift that gives the first estimate is
  above it. For log, the estimates that rounding allows and the one correction,
  which is exact where rounding tells a number apart from the powers of the
  base (`RootsExact`, `ToldApart`).
* `ReadInv` (from_string): the value read is `Fold` of the digits read, from
  the left in chunks, or from the right in windows of a word; the digits left
  out are to the right, or to the left (`ReadsValue`).
* `PrintInv` (to_string, digit_sum): what is written are the `LowDigits` of
  the number and what is left is its quotient by the power of the base, or, in
  bases that fill a word, the words above a place have been written, the top
  one without zeros and the others with all digits (`PrintsValue`).

The assumptions these need, all true of the program: the word splits into two
halves (B = H * H with H even), has at least 3 bits for Lehmer and 6 for the bases of
`digit_sum`; arguments have at most `MaxSize` digits, those that may carry a
leading zero one less.

`CallsTyped` (TypeOK) takes the ranges of machine words from these invariants.
The recursive functions of the model (`Exp`, `Falling`, `Remainders`, `Fold`)
are unfolded by `RecursionExists`, and what they compute is proved by
`BoundedInduction`.

Every invariant and action property that a passing run checks is thereby
stated by a theorem. Only model-checked is liveness (`Ends`), which with
fairness and ENABLED is out of the prover's reach; so are the eight runs that
expect a violation, whose counterexamples TLC gives. No module declares a
RECURSIVE operator, and none uses `^` in a definition that is proved about, as
no installed prover interprets it: a power is `Exp` or an entry of `Pow`.

## 5. Not modelled, and why

* Views and `IntegralAdapter`: read-only operands with another sign, or of one
  digit; the operands of the models include both. `INT_MIN`, whose `llabs`
  overflows, is left out.
* `fast_vector`'s move constructor: nothing instantiates it. Failure of
  `realloc`: only asserted in the code, nothing follows it.
* Operands with leading zero digits in division, gcd and multiplication: the
  shortcut of `divmod` for a longer divisor (2141) goes by size. `Compare`,
  `Roots` and `Strings` include such numbers.
* The sign of a remainder object that is used again: the shortcuts of `divmod`
  write its digits and leave the sign it had. `Division` has values, and its
  remainder starts anew.
* That `push_back` takes a reference, which may be to an element of the vector
  itself, when a reallocation moves it: `FastVector` takes a value, and no
  caller in the repository passes such an element.
* The tie of the long division (run `division_remainder`) is not carried into
  the functions: their divisions are exact. Words for which it occurs are one
  pair in about 2^64.
* `operator%=` by an integer, which stores what `mod` returns; the operators
  that copy and call the assignment form.
* A BigInt with static storage duration that is destroyed after the
  thread-local pool: the order is the platform's, not the code's.
* The floating-point computation of `log2d` (its result is a choice in `Roots`), statistics of the pool, iterators and printing of
  `fast_vector`, tests, CMake files, Tracy macros, the example program.

## 6. Plan

Done, in this order: `Words`, `AddSub` and its proofs (every other operation
rests on it and aliasing is its hazard), `Division` (the most intricate
algorithm), `ObjectPool` and its proofs (the only state shared by threads),
`Shift`, `Logic`, `BitOps`, `Multiply`, `Compare`, `FastVector` with
`DigitSeq`; then `Karatsuba`, `IntDivision`, `Strings` and the mathematical
functions (`Roots`, `Powers`, `Counting`, `Lehmer`) with liveness.

Proofs done: every invariant and action property that a passing run checks.

What is left is outside the present models: operands with leading zero digits
in multiplication and division, and the functions on operations that are not
exact (the tie of the long division).
