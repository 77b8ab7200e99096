-------------------------------- MODULE Alu --------------------------------
(***************************************************************************)
(* What the C that emit_simple writes for an integer instruction computes, *)
(* and the helpers of recomp_rt.h it calls, against the definition of the  *)
(* instruction.  A register is an integer below 2^W and W is four bytes of *)
(* ByteBits bits (the code: 8), so that one byte, one halfword and every   *)
(* shift amount exist at a width TLC can enumerate.  The emitted side is   *)
(* the C expression, in unsigned arithmetic modulo 2^W, with the masks and *)
(* shift tables of the source; the reference side speaks of sets of bits,  *)
(* of integers and of bytes of memory, and shares no operator with it.     *)
(***************************************************************************)
EXTENDS Integers, FiniteSets, FiniteSetsExt, SequencesExt, Bitwise

CONSTANTS ByteBits,        \* bits of a byte
          LogW,            \* 2^LogW = 4 * ByteBits
          Operand,         \* the register values the instructions are tried on
          Accumulator      \* the values of HI and LO

VARIABLES insn,            \* [op, p, n]: the instruction, its position or amount, its size
          alu              \* [a, b, c, hi, lo, ran]: its operands and, once it ran, its results

aluVars == <<insn, alu>>

W == 4 * ByteBits
Bit0 == 0..W - 1
Mod(x) == x % 2^W
Shl(v, s) == Mod(v * 2^s)
Shr(v, s) == v \div 2^s
Flip(v) == 2^W - 1 - v
Signed(v) == IF v >= 2^(W - 1) THEN v - 2^W ELSE v
Wide(v) == IF v >= 2^(2 * W - 1) THEN v - 2^(2 * W) ELSE v
Truth(b) == IF b THEN 1 ELSE 0
Abs(x) == IF x < 0 THEN -x ELSE x

(* C's division truncates towards zero, TLA+'s rounds down. *)
Trunc(x, y) == LET q == Abs(x) \div Abs(y) IN IF (x < 0) = (y < 0) THEN q ELSE -q

(***************************************************************************)
(* The emitted side.                                                       *)
(***************************************************************************)

(* psp_sra: >> of an int32_t, the amount masked to the width. *)
Sra(v, s) == Mod(Signed(v) \div 2^(s % W))
Rotr(v, s) == LET k == s % W IN IF k = 0 THEN v ELSE Shr(v, k) | Shl(v, W - k)

(* psp_clz: shift left until the top bit is set. *)
Clz(v) == IF v = 0 THEN W ELSE Min({n \in Bit0 : (Shl(v, n) & 2^(W - 1)) # 0})

Ext(v, p, n) == IF n = 0 \/ n > W THEN 0
                ELSE IF n = W THEN Shr(v, p) ELSE Shr(v, p) & (2^n - 1)
Ins(d, s, p, n) == IF n = 0 \/ n > W THEN d
                   ELSE LET mask == IF n = W THEN 2^W - 1 ELSE Shl(2^n - 1, p)
                        IN (d & Flip(mask)) | (Shl(s, p) & mask)

(* psp_seb, psp_seh: a narrowing and a widening cast. *)
SignExtend(v, n) == LET low == v % 2^n IN Mod(IF low >= 2^(n - 1) THEN low - 2^n ELSE low)

LowBytes == (2^ByteBits - 1) * (1 + 2^(2 * ByteBits))      \* 0x00FF00FF
Wsbh(v) == Shl(v & LowBytes, ByteBits) | Shr(v & Flip(LowBytes), ByteBits)
Wsbw(v) == LET byte == 2^ByteBits - 1
           IN Shl(v, 3 * ByteBits) | Shl(v & Shl(byte, ByteBits), ByteBits)
              | Shr(v & Shl(byte, 2 * ByteBits), ByteBits) | Shr(v, 3 * ByteBits)

(* psp_bitrev: neighbours of 1, 2, 4 ... bits change places (0x55.., 0x33..),
   and the two halves last. *)
StageMask(k) == MapThenSumSet(LAMBDA i : 2^i, {i \in Bit0 : (i \div 2^k) % 2 = 0})
Stage(v, k) == Shl(v & StageMask(k), 2^k) | (Shr(v, 2^k) & StageMask(k))
Bitrev(v) == LET r == FoldLeft(Stage, v, [k \in 1..LogW - 1 |-> k - 1])
             IN Shl(r, W \div 2) | Shr(r, W \div 2)

(* The four-entry tables of lwl, lwr, swl and swr, by the byte of the address. *)
Ones(n) == 2^(n * ByteBits) - 1
LwlMask == <<Ones(3), Ones(2), Ones(1), 0>>
LwlShift == <<3, 2, 1, 0>>
LwrMask == <<0, Flip(Ones(3)), Flip(Ones(2)), Flip(Ones(1))>>
LwrShift == <<0, 1, 2, 3>>
SwlMask == <<Flip(Ones(1)), Flip(Ones(2)), Flip(Ones(3)), 0>>
SwrMask == <<0, Ones(1), Ones(2), Ones(3)>>

(* The shift table of lwr taken for that of lwl. *)
LwlAsLwr(old, w, b) == (old & LwlMask[b + 1]) | Shl(w, ByteBits * LwrShift[b + 1])

Lwl(old, w, b) == (old & LwlMask[b + 1]) | Shl(w, ByteBits * LwlShift[b + 1])
Lwr(old, w, b) == (old & LwrMask[b + 1]) | Shr(w, ByteBits * LwrShift[b + 1])
Swl(v, w, b) == (w & SwlMask[b + 1]) | Shr(v, ByteBits * LwlShift[b + 1])
Swr(v, w, b) == (w & SwrMask[b + 1]) | Shl(v, ByteBits * LwrShift[b + 1])

(* The unaligned idioms, lwr over lwl at the address and three bytes on, the
   two containers being b and c: a byte beyond the third is in the second. *)
UnalignedLoad(old, w0, w1, p) ==
  LET half == IF p = 0 THEN Lwl(old, w0, 3) ELSE Lwl(old, w1, p - 1) IN Lwr(half, w0, p)
UnalignedStore(v, w0, w1, p) ==
  IF p = 0 THEN <<Swr(v, Swl(v, w0, 3), 0), w1>> ELSE <<Swr(v, w0, p), Swl(v, w1, p - 1)>>

(* psp_fcmp; the operand 2^W - 1 stands for a NaN and the others are ordered. *)
NaN == 2^W - 1
Fcmp(cond, a, b) ==
  LET un == a = NaN \/ b = NaN
      eq == ~un /\ a = b   lt == ~un /\ a < b
  IN CASE cond % 8 = 0 -> FALSE   [] cond % 8 = 1 -> un
       [] cond % 8 = 2 -> ~un /\ eq   [] cond % 8 = 3 -> un \/ eq
       [] cond % 8 = 4 -> ~un /\ lt   [] cond % 8 = 5 -> un \/ lt
       [] cond % 8 = 6 -> ~un /\ (lt \/ eq)   [] OTHER -> un \/ lt \/ eq

(* HI and LO of a product or a sum of 2W bits, and of a division. *)
Split(x) == LET u == x % 2^(2 * W) IN <<u \div 2^W, u % 2^W>>
Acc(hi, lo) == hi * 2^W + lo
Div(a, b) == CASE Signed(b) = 0 -> <<a, IF Signed(a) < 0 THEN 1 ELSE 2^W - 1>>
               [] Signed(a) = -(2^(W - 1)) /\ Signed(b) = -1 -> <<0, 2^(W - 1)>>
               [] OTHER -> LET q == Trunc(Signed(a), Signed(b))
                           IN <<Mod(Signed(a) - q * Signed(b)), Mod(q)>>
Divu(a, b) == IF b = 0 THEN <<a, 2^W - 1>> ELSE <<a % b, a \div b>>
Muldiv(op, a, b, hi, lo) ==
  CASE op = "mult" -> Split(Signed(a) * Signed(b))
    [] op = "multu" -> Split(a * b)
    [] op = "madd" -> Split(Wide(Acc(hi, lo)) + Signed(a) * Signed(b))
    [] op = "maddu" -> Split(Acc(hi, lo) + a * b)
    [] op = "msub" -> Split(Wide(Acc(hi, lo)) - Signed(a) * Signed(b))
    [] op = "msubu" -> Split(Acc(hi, lo) - a * b)
    [] op = "div" -> Div(a, b)
    [] op = "divu" -> Divu(a, b)

(* The register an instruction leaves; rd keeps c where it writes nothing. *)
Result(op, p, n, a, b, c) ==
  CASE op = "addu" -> Mod(a + b)   [] op = "subu" -> Mod(a - b)
    [] op = "and" -> a & b   [] op = "or" -> a | b
    [] op = "xor" -> a ^^ b   [] op = "nor" -> Flip(a | b)
    [] op = "slt" -> Truth(Signed(a) < Signed(b))   [] op = "sltu" -> Truth(a < b)
    [] op = "max" -> IF Signed(a) > Signed(b) THEN a ELSE b
    [] op = "min" -> IF Signed(a) < Signed(b) THEN a ELSE b
    [] op = "movz" -> IF b = 0 THEN a ELSE c   [] op = "movn" -> IF b # 0 THEN a ELSE c
    [] op = "sllv" -> Shl(a, b % W)   [] op = "srlv" -> Shr(a, b % W)
    [] op = "srav" -> Sra(a, b)   [] op = "rotrv" -> Rotr(a, b)
    [] op = "clz" -> Clz(a)   [] op = "clo" -> Clz(Flip(a))
    [] op = "ext" -> Ext(a, p, n)   [] op = "ins" -> Ins(c, a, p, n)
    [] op = "seb" -> SignExtend(a, ByteBits)   [] op = "seh" -> SignExtend(a, 2 * ByteBits)
    [] op = "wsbh" -> Wsbh(a)   [] op = "wsbw" -> Wsbw(a)   [] op = "bitrev" -> Bitrev(a)
    [] op = "ulw" -> UnalignedLoad(c, a, b, p)
    [] op = "fcmp" -> Truth(Fcmp(p, a, b))

Ordinary == {"addu", "subu", "and", "or", "xor", "nor", "slt", "sltu", "max", "min", "movz",
             "movn", "sllv", "srlv", "srav", "rotrv"}
Unary == {"clz", "clo", "seb", "seh", "wsbh", "wsbw", "bitrev"}
MulDiv == {"mult", "multu", "madd", "maddu", "msub", "msubu", "div", "divu"}

(* The fields of ext and ins lie inside the word: the others are undefined. *)
Insns == [op : Ordinary \cup Unary \cup MulDiv, p : {0}, n : {0}]
         \cup {i \in [op : {"ext", "ins"}, p : Bit0, n : 1..W] : i.p + i.n <= W}
         \cup [op : {"ulw", "usw"}, p : 0..3, n : {0}]
         \cup [op : {"fcmp"}, p : 0..15, n : {0}]

AluInit == /\ insn \in Insns
           /\ alu \in [a : Operand, b : IF insn.op \in Unary \cup {"ext", "ins"} THEN {0} ELSE Operand,
                       c : IF insn.op \in {"movz", "movn", "ins", "ulw", "usw"} THEN Operand ELSE {0},
                       hi : IF insn.op \in MulDiv THEN Accumulator ELSE {0},
                       lo : IF insn.op \in MulDiv THEN Accumulator ELSE {0}, ran : {{}}]

(* The instruction's statement runs: ran is the set of its one result, a register,
   the pair HI and LO, or the two words of memory it left. *)
Execute == /\ alu.ran = {}
           /\ alu' = [alu EXCEPT !.ran =
                IF insn.op \in MulDiv THEN {Muldiv(insn.op, alu.a, alu.b, alu.hi, alu.lo)}
                ELSE IF insn.op = "usw" THEN {UnalignedStore(alu.c, alu.a, alu.b, insn.p)}
                ELSE {<<Result(insn.op, insn.p, insn.n, alu.a, alu.b, alu.c)>>}]
           /\ UNCHANGED insn

Retire == alu.ran # {} /\ UNCHANGED aluVars

AluNext == Execute \/ Retire

(***************************************************************************)
(* The definition of the instructions.                                     *)
(***************************************************************************)
BitsOf(v) == {i \in Bit0 : (v \div 2^i) % 2 = 1}
ByteOf(v, k) == {i % ByteBits : i \in {j \in BitsOf(v) : j \div ByteBits = k}}
Integer(v) == -(2^(W - 1)) * Truth(W - 1 \in BitsOf(v))
              + MapThenSumSet(LAMBDA i : 2^i, BitsOf(v) \ {W - 1})

RightBits(op, p, n, a, b, c) ==
  LET k == b % W
      A == BitsOf(a)   B == BitsOf(b)
  IN CASE op = "and" -> A \cap B   [] op = "or" -> A \cup B
       [] op = "xor" -> (A \cup B) \ (A \cap B)   [] op = "nor" -> Bit0 \ (A \cup B)
       [] op = "sllv" -> {i \in Bit0 : i - k \in A}   [] op = "srlv" -> {i \in Bit0 : i + k \in A}
       [] op = "srav" -> {i \in Bit0 : Min({i + k, W - 1}) \in A}
       [] op = "rotrv" -> {i \in Bit0 : (i + k) % W \in A}
       [] op = "ext" -> {i \in Bit0 : i < n /\ i + p \in A}
       [] op = "ins" -> {i \in Bit0 : IF i \in p..p + n - 1 THEN i - p \in A ELSE i \in BitsOf(c)}
       [] op = "seb" -> {i \in Bit0 : Min({i, ByteBits - 1}) \in A}
       [] op = "seh" -> {i \in Bit0 : Min({i, 2 * ByteBits - 1}) \in A}
       [] op = "bitrev" -> {i \in Bit0 : W - 1 - i \in A}
       [] op = "movz" -> IF B = {} THEN A ELSE BitsOf(c)
       [] op = "movn" -> IF B = {} THEN BitsOf(c) ELSE A

RightNumber(op, p, a, b) ==
  LET leading(S) == Cardinality({i \in Bit0 : i..W - 1 \subseteq S})
      un == NaN \in {a, b}
  IN CASE op = "addu" -> (Integer(a) + Integer(b)) % 2^W
       [] op = "subu" -> (Integer(a) - Integer(b)) % 2^W
       [] op = "slt" -> Truth(Integer(b) - Integer(a) \in 1..2^W)
       [] op = "sltu" -> Truth(b - a \in 1..2^W)
       [] op = "max" -> Max({Integer(a), Integer(b)}) % 2^W
       [] op = "min" -> Min({Integer(a), Integer(b)}) % 2^W
       [] op = "clz" -> leading(Bit0 \ BitsOf(a))   [] op = "clo" -> leading(BitsOf(a))
       [] op = "fcmp" -> Truth(\/ 0 \in BitsOf(p) /\ un
                               \/ 1 \in BitsOf(p) /\ ~un /\ a = b
                               \/ 2 \in BitsOf(p) /\ ~un /\ b - a \in 1..2^W)

(* Memory as eight bytes, the two words a and b one after the other. *)
MemoryByte(a, b, j) == IF j < 4 THEN ByteOf(a, j) ELSE ByteOf(b, j - 4)

RightBytes(op, a, b, j) == CASE op = "wsbw" -> ByteOf(a, 3 - j)
                             [] op = "wsbh" -> ByteOf(a, IF j % 2 = 0 THEN j + 1 ELSE j - 1)
                             [] op = "ulw" -> MemoryByte(a, b, insn.p + j)

RightMulDiv(op, a, b, hi, lo, r) ==
  LET sa == Integer(a)   sb == Integer(b)
      was == CASE op \in {"madd", "msub", "maddu", "msubu"} -> hi * 2^W + lo [] OTHER -> 0
      to == r[1] * 2^W + r[2]
  IN CASE op \in {"mult", "madd"} -> (to - was - sa * sb) % 2^(2 * W) = 0
       [] op \in {"multu", "maddu"} -> (to - was - a * b) % 2^(2 * W) = 0
       [] op = "msub" -> (to - was + sa * sb) % 2^(2 * W) = 0
       [] op = "msubu" -> (to - was + a * b) % 2^(2 * W) = 0
       [] op = "div" /\ b # 0 -> LET q == Integer(r[2])   m == Integer(r[1])
                                 IN /\ (q * sb + m - sa) % 2^W = 0
                                    /\ Abs(m) < Abs(sb) /\ (m = 0 \/ (m < 0) = (sa < 0))
       [] op = "divu" /\ b # 0 -> r[2] * b + r[1] = a /\ r[1] < b
       [] OTHER -> r[1] = a      \* by zero: the dividend remains

(* What the emitted C leaves for every integer instruction, unaligned access and
   float comparison is what the instruction is defined to leave, sign, wraparound,
   shift amount and byte order included (emit_simple and recomp_rt.h). *)
OpsExact ==
  \A r \in alu.ran :
    LET op == insn.op IN
    CASE op \in MulDiv -> RightMulDiv(op, alu.a, alu.b, alu.hi, alu.lo, r)
      [] op \in {"wsbh", "wsbw", "ulw"} -> \A j \in 0..3 : ByteOf(r[1], j) = RightBytes(op, alu.a, alu.b, j)
      [] op = "usw" -> \A j \in 0..7 : MemoryByte(r[1], r[2], j) =
                         IF j \in insn.p..insn.p + 3 THEN ByteOf(alu.c, j - insn.p)
                         ELSE MemoryByte(alu.a, alu.b, j)
      [] op \in {"addu", "subu", "slt", "sltu", "max", "min", "clz", "clo", "fcmp"} ->
           r[1] = RightNumber(op, insn.p, alu.a, alu.b)
      [] OTHER -> BitsOf(r[1]) = RightBits(op, insn.p, insn.n, alu.a, alu.b, alu.c)
=============================================================================
