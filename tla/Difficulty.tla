----------------------------- MODULE Difficulty ------------------------------
(***************************************************************************)
(* Difficulties (types/difficulty.go): unsigned numbers of two words, with *)
(* sums and products that carry and wrap, the check of a proof of work,    *)
(* the target for miners and the two forms in JSON.                        *)
(*                                                                         *)
(* The widths are scaled down: a byte has Base values, a word two bytes, a *)
(* difficulty two words and a hash four (uint64, uint128, uint256).        *)
(***************************************************************************)
EXTENDS Integers, Sequences, SequencesExt, FiniteSets

CONSTANT Base        \* the values of a byte, 256

BaseAssumption == Base \in Nat \ {0, 1}

VARIABLES d, v, hash, result

vars == <<d, v, hash, result>>

Word == Base * Base
Double == Word * Word
Quad == Double * Double

Difficulties == [Hi : 0..(Word - 1), Lo : 0..(Word - 1)]

\* The number a difficulty stands for, and back.
Value(x) == x.Hi * Word + x.Lo
Of(n) == [Hi |-> n \div Word, Lo |-> n % Word]

-----------------------------------------------------------------------------
\* bits.Add64 and bits.Mul64.
Add64(x, y, carry) == [sum |-> (x + y + carry) % Word, carry |-> (x + y + carry) \div Word]
Mul64Bits(x, y) == [hi |-> (x * y) \div Word, lo |-> (x * y) % Word]

\* Mutant: the carry of the low words is lost.
AddNoCarry(x, y) == [Lo |-> Add64(x.Lo, y.Lo, 0).sum, Hi |-> Add64(x.Hi, y.Hi, 0).sum]

Add(x, y) ==
    LET lo == Add64(x.Lo, y.Lo, 0)
    IN  [Lo |-> lo.sum, Hi |-> Add64(x.Hi, y.Hi, lo.carry).sum]

Mul64(x, w) ==
    LET p == Mul64Bits(x.Lo, w)
    IN  [Lo |-> p.lo, Hi |-> (p.hi + x.Hi * w) % Word]

Cmp(x, y) ==
    IF x = y THEN 0
    ELSE IF x.Hi < y.Hi \/ (x.Hi = y.Hi /\ x.Lo < y.Lo) THEN -1
    ELSE 1

-----------------------------------------------------------------------------
\* DifficultyFromPoW: the largest number over the hash, of which the low half is kept.
DifficultyFromPoW(h) ==
    IF h = 0 THEN Of(0) ELSE Of(((Quad - 1) \div h) % Double)

\* Mutant: an equal difficulty is not enough.
CheckPoWStrict(x, h) == Cmp(DifficultyFromPoW(h), x) > 0

CheckPoW(x, h) == Cmp(DifficultyFromPoW(h), x) >= 0

\* Mutant: the quotient is rounded down.
TargetDown(x) ==
    IF x.Hi > 0 THEN 1 ELSE IF x.Lo <= 1 THEN Word - 1 ELSE (Word \div x.Lo) % Word

Target(x) ==
    IF x.Hi > 0 THEN 1
    ELSE IF x.Lo <= 1 THEN Word - 1
    ELSE (Word \div x.Lo + (IF Word % x.Lo > 0 THEN 1 ELSE 0)) % Word

-----------------------------------------------------------------------------
\* PutBytesBE and DifficultyFromBytes: most significant byte first.
BytesBE(x) == <<x.Hi \div Base, x.Hi % Base, x.Lo \div Base, x.Lo % Base>>
FromBytes(b) == [Hi |-> b[1] * Base + b[2], Lo |-> b[3] * Base + b[4]]

\* A JSON number or a string of hexadecimal digits, two for each byte.
\* Mutant: every difficulty is written as a number.
MarshalLow(x) == [type |-> "number", value |-> x.Lo]

MarshalJSON(x) ==
    IF x.Hi = 0 THEN [type |-> "number", value |-> x.Lo]
    ELSE [type |-> "hex", value |-> BytesBE(x)]

UnmarshalJSON(j) ==
    IF j.type = "number" THEN [Hi |-> 0, Lo |-> j.value] ELSE FromBytes(j.value)

-----------------------------------------------------------------------------
Init ==
    /\ d \in Difficulties /\ v \in Difficulties /\ hash \in 0..(Quad - 1)
    /\ v.Lo = hash % Word       \* one hash for each pair is enough
    /\ result = <<>>

Compute ==
    /\ result = <<>>
    /\ result' = [sum |-> Add(d, v), product |-> Mul64(d, v.Lo), order |-> Cmp(d, v),
                  enough |-> CheckPoW(d, hash), target |-> Target(d),
                  json |-> UnmarshalJSON(MarshalJSON(d))]
    /\ UNCHANGED <<d, v, hash>>

Next == Compute

Spec == Init /\ [][Next]_vars

-----------------------------------------------------------------------------
Computed == result # <<>>

\* Sums, products and comparisons of two words are those of the numbers, modulo their
\* range (Cmp, Add and Mul64, difficulty.go:39-112).
IsArithmetic ==
    Computed =>
        /\ Value(result.sum) = (Value(d) + Value(v)) % Double
        /\ Value(result.product) = (Value(d) * v.Lo) % Double
        /\ result.order = IF Value(d) < Value(v) THEN -1 ELSE IF Value(d) > Value(v) THEN 1 ELSE 0

\* A hash whose difficulty fits in two words is accepted exactly when its product with
\* the difficulty stays below the range of hashes (CheckPoW, difficulty.go:347-349); no
\* hash is accepted that should not be.
PoWIsChecked ==
    Computed =>
        /\ hash >= Double => (result.enough <=> hash * Value(d) < Quad)
        /\ result.enough => hash * Value(d) < Quad

\* A miner that looks only at the high word of a hash misses no share: what passes CheckPoW
\* is below the target, which is rounded up (Target, difficulty.go:355-371).  Up to
\* difficulty 1 the target is the highest word and may be met.
TargetMissesNothing ==
    Computed /\ result.enough =>
        LET high == hash \div (Double * Word)
        IN  high < result.target \/ (Value(d) <= 1 /\ high = result.target)

\* A difficulty comes back from JSON as it was, in whichever form it was written
\* (MarshalJSON and UnmarshalJSON, difficulty.go:197-210 and 255-293).
JSONRoundTrip == Computed => result.json = d
====
