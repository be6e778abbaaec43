-------------------------------- MODULE Alu --------------------------------
(***************************************************************************)
(* The data path of ex.v and mem.v, the immediates and the branch          *)
(* conditions of id.v, as operators on words of W bits.  A halfword has    *)
(* W \div 2 bits; in the code W is 32.                                     *)
(***************************************************************************)
EXTENDS Integers, Bitwise

CONSTANT W

ASSUME WidthAssumption == W \in {2, 4, 8, 16, 32}

Half == 2^(W \div 2)
Word == 0..(2^W - 1)
Wrap(x) == x % 2^W
Top(x) == x >= 2^(W - 1)            \* the sign bit
Minus(x) == Wrap(2^W - x)           \* (~x) + 1
Complement(x) == 2^W - 1 - x        \* ~x
Shamt(x) == x % W                   \* the low bits that hold a shift amount

\* The immediates of id.v, and the byte of lb in mem.v.
SignExtend(imm) == IF 2 * imm >= Half THEN Wrap(imm - Half) ELSE imm
Immediate(op, imm) ==
    CASE op \in {"SLTI", "SLTIU", "ADDIU"} -> SignExtend(imm)
      [] op = "LUI" -> imm * Half
      [] OTHER -> imm

SumResult(op, a, b) == Wrap(a + IF op \in {"SUBU", "SLT"} THEN Minus(b) ELSE b)

SltResult(op, a, b) ==
    IF op = "SLT"
      THEN \/ Top(a) /\ ~ Top(b)
           \/ Top(a) = Top(b) /\ Top(SumResult(op, a, b))
      ELSE a < b

Sra(a, b) ==
    (IF Top(b) THEN Wrap((2^W - 1) * 2^(W - Shamt(a))) ELSE 0) | (b \div 2^Shamt(a))

\* WriteDataOut for the operations of the logic, shift and arithmetic units.
Result(op, a, b) ==
    CASE op = "OR"   -> a | b
      [] op = "AND"  -> a & b
      [] op = "NOR"  -> Complement(a | b)
      [] op = "XOR"  -> a ^^ b
      [] op = "SLL"  -> Wrap(b * 2^Shamt(a))
      [] op = "SRL"  -> b \div 2^Shamt(a)
      [] op = "SRA"  -> Sra(a, b)
      [] op \in {"SLT", "SLTU"} -> IF SltResult(op, a, b) THEN 1 ELSE 0
      [] op \in {"ADDU", "SUBU"} -> SumResult(op, a, b)

\* The product of the magnitudes, negated when the signs differ.
Product(a, b) ==
    LET m == (IF Top(a) THEN Minus(a) ELSE a) * (IF Top(b) THEN Minus(b) ELSE b)
        x == IF Top(a) # Top(b) THEN (2^(2 * W) - m) % 2^(2 * W) ELSE m
    IN  [hi |-> x \div 2^W, lo |-> Wrap(x)]

Taken(op, a, b) ==
    CASE op = "BEQ"  -> a = b
      [] op = "BNE"  -> a # b
      [] op = "BGTZ" -> ~ Top(a) /\ a # 0
      [] op = "BLEZ" -> Top(a) \/ a = 0
      [] op = "BGEZ" -> ~ Top(a)
      [] op = "BLTZ" -> Top(a)
=============================================================================
