-------------------------------- MODULE Vfpu --------------------------------
(***************************************************************************)
(* The vector unit (vfpu.c): 128 registers seen as matrices, whose names   *)
(* carry direction and offset in the bits of a 7-bit field, and prefixes   *)
(* that rewrite the operands of the NEXT vector operation only.  vec,      *)
(* prefix and pending are psp_cpu.v, g_prefix and g_prefix_set, read       *)
(* through the bit fields the code reads; unit is the machine a programmer *)
(* thinks of: matrices of elements, operands named as in assembly, a       *)
(* prefix as a record, all lanes of a result written at once.  A program   *)
(* is any sequence of MaxVector instructions taken from Program.           *)
(*                                                                         *)
(* A lane is an integer counting twelfths, so that the constants a prefix  *)
(* can name are exact; the floating-point operation of a lane is the       *)
(* host's, and both sides share it (Lanewise, Across).                     *)
(***************************************************************************)
EXTENDS Integers, Sequences, FiniteSets, FiniteSetsExt, SequencesExt

CONSTANTS Matrix,          \* matrices in use
          Program,         \* instructions: records with a field op
          MaxVector

VARIABLES vec, prefix, pending, vcc, vtraps, vmem,
          unit,            \* [el, pre, cc, mem]
          issued

vfpuVars == <<vec, prefix, pending, vcc, vtraps, vmem, unit, issued>>

Four == 0..3
One12 == 12
Largest == 999             \* what a product that is larger becomes
PfxConst == <<0, 12, 24, 6, 36, 4, 3, 2>>
Field(p, at, width) == (p \div 2^at) % 2^width
Index(m, c, r) == m * 4 + c * 32 + r
Element == Matrix \X Four \X Four

(* An operand's name [dir, m, c, r]: S a single, C down a column, R along a row,
   M a matrix and E the transposed view of one; and the field that encodes it. *)
Encoded(reg, size) ==
  CASE reg.dir = "S" -> reg.m * 4 + reg.c + 32 * reg.r
    [] reg.dir = "C" -> reg.m * 4 + reg.c + 64 * (IF reg.r # 0 THEN 1 ELSE 0)
    [] reg.dir = "R" -> reg.m * 4 + reg.r + 32 + 64 * (IF reg.c # 0 THEN 1 ELSE 0)
    [] reg.dir = "M" -> reg.m * 4
    [] reg.dir = "E" -> reg.m * 4 + 32

(* A prefix [sw, abs, const, neg] of a source or [sat, mask] of a destination. *)
Weighed(S, at) == MapThenSumSet(LAMBDA i : 2^(at + i), S)
EncodedPrefix(which, p) ==
  LET pairs(s) == MapThenSumSet(LAMBDA i : s[i + 1] * 4^i, Four)
  IN IF which = 2 THEN pairs(p.sat) + Weighed(p.mask, 8)
     ELSE pairs(p.sw) + Weighed(p.abs, 8) + Weighed(p.const, 12) + Weighed(p.neg, 16)

Start(e) == (e[1] + 2 * e[2] + 3 * e[3] - 4) * 6       \* tells the elements apart

VfpuInit ==
  /\ vec = [l \in {Index(e[1], e[2], e[3]) : e \in Element} |->
              Start(CHOOSE e \in Element : Index(e[1], e[2], e[3]) = l)]
  /\ prefix = [w \in 0..2 |-> 0] /\ pending = {} /\ vcc = {} /\ vtraps = 0
  /\ vmem = [i \in Four |-> -i]
  /\ unit = [el |-> [e \in Element |-> Start(e)], pre |-> << >>, cc |-> {}, mem |-> [i \in Four |-> -i]]
  /\ issued = 0

(***************************************************************************)
(* The code's side: lanes4, read_src, write_dst, end_op.                   *)
(***************************************************************************)
Lanes4(vreg, size) ==
  LET row == CASE size = 1 -> Field(vreg, 5, 2) [] size = 3 -> Field(vreg, 6, 1)
               [] OTHER -> 2 * Field(vreg, 6, 1)
      transposed == size # 1 /\ Field(vreg, 5, 1) = 1
  IN [i \in Four |-> LET step == (row + i) % 4
                     IN IF transposed THEN Index(Field(vreg, 2, 3), step, Field(vreg, 0, 2))
                        ELSE Index(Field(vreg, 2, 3), Field(vreg, 0, 2), step)]

Sat(v, kind) == CASE kind = 1 -> Max({0, Min({v, One12})})
                  [] kind = 3 -> Max({-One12, Min({v, One12})}) [] OTHER -> v
Times(a, b) == Max({-Largest, Min({Largest, (a * b) \div One12})})
Mirror(v) == IF v < 0 THEN -v ELSE v

ReadSrc(which, vreg, size) ==
  LET l == Lanes4(vreg, size)   p == prefix[which]
      read(i) == LET sw == Field(p, 2 * i, 2)   ab == Field(p, 8 + i, 1)   k == Field(p, 12 + i, 1)
                     x == IF k = 1 THEN PfxConst[sw + 4 * ab + 1]
                          ELSE IF ab = 1 THEN Mirror(vec[l[sw]]) ELSE vec[l[sw]]
                 IN IF Field(p, 16 + i, 1) = 1 THEN -x ELSE x
  IN [i \in 0..size - 1 |-> IF which \in pending THEN read(i) ELSE vec[l[i]]]

WriteDst(vreg, size, out) ==
  LET l == Lanes4(vreg, size)   p == IF 2 \in pending THEN prefix[2] ELSE 0
      write(v, i) == IF Field(p, 8 + i, 1) = 1 THEN v
                     ELSE [v EXCEPT ![l[i]] = Sat(out[i], Field(p, 2 * i, 2))]
  IN FoldLeft(write, vec, [i \in 1..size |-> i - 1])

(* The prefixes outlive the operation they were meant for. *)
EndOpKeeps == UNCHANGED pending
EndOp == pending' = {}

(* The operations' arithmetic: lane by lane, and across the lanes.  (vcrsp of three
   lanes; of four it is vqmul, another formula.) *)
Lanewise(op, a, b) == CASE op = "vadd" -> a + b   [] op = "vsub" -> a - b   [] op = "vmul" -> Times(a, b)
                        [] op = "vmin" -> Min({a, b})   [] op = "vmax" -> Max({a, b})
                        [] op = "vsge" -> IF a >= b THEN One12 ELSE 0
                        [] op = "vscmp" -> IF a < b THEN -One12 ELSE IF a > b THEN One12 ELSE 0
                        [] op = "vmov" -> a   [] op = "vneg" -> -a   [] op = "vocp" -> One12 - a
Across(in, s, t) ==
  LET n == in.size
      dot(k) == MapThenSumSet(LAMBDA i : Times(s[i], t[i]), 0..k - 1)
  IN CASE in.op = "vdot" -> <<dot(n)>>
       [] in.op = "vhdp" -> <<dot(n - 1) + t[n - 1]>>
       [] in.op = "vdet" -> <<Times(s[0], t[1]) - Times(s[1], t[0])>>
       [] in.op = "vscl" -> [i \in 1..n |-> Times(s[i - 1], t[0])]
       [] in.op = "vcrs" -> [i \in 1..3 |-> Times(s[i % 3], t[(i + 1) % 3])]
       [] in.op = "vcrsp" -> [i \in 1..3 |-> Times(s[i % 3], t[(i + 1) % 3]) - Times(s[(i + 1) % 3], t[i % 3])]
       [] in.op = "vrot" -> [i \in 1..n |-> CASE i - 1 = in.imm % 4 -> 7     \* the cosine
                                              [] \/ Field(in.imm, 2, 2) = in.imm % 4
                                                 \/ i - 1 = Field(in.imm, 2, 2) -> 5 - 10 * Field(in.imm, 4, 1)
                                              [] OTHER -> 0]
       [] in.op = "vidt" -> [i \in 1..n |-> IF i - 1 = Encoded(in.vd, n) % (IF n = 2 THEN 2 ELSE 4) THEN One12 ELSE 0]
       [] OTHER -> [i \in 1..n |-> Lanewise(in.op, s[i - 1], t[i - 1])]

VectorOps == {"vadd", "vsub", "vmul", "vmin", "vmax", "vsge", "vscmp", "vmov", "vneg", "vocp",
              "vdot", "vhdp", "vdet", "vscl", "vcrs", "vcrsp", "vrot", "vidt"}
Crosses == {"vdot", "vhdp", "vdet"}
SrcSize(in) == CASE in.op \in {"vcrs", "vcrsp"} -> 3 [] in.op = "vdet" -> 2 [] in.op = "vrot" -> 1 [] OTHER -> in.size
SecondSize(in) == IF in.op = "vscl" THEN 1 ELSE SrcSize(in)
DstSize(in) == IF in.op \in Crosses THEN 1 ELSE IF in.op \in {"vcrs", "vcrsp"} THEN 3 ELSE in.size
FromZero(s) == [i \in 0..Len(s) - 1 |-> s[i + 1]]

(***************************************************************************)
(* The programmer's side.                                                  *)
(***************************************************************************)
Named(reg, i) == IF reg.dir = "R" THEN <<reg.m, (reg.c + i) % 4, reg.r>> ELSE <<reg.m, reg.c, (reg.r + i) % 4>>

Seen(which, reg, size) ==
  [i \in 0..size - 1 |->
     IF which \notin DOMAIN unit.pre THEN unit.el[Named(reg, i)]
     ELSE LET p == unit.pre[which]   lane == p.sw[i + 1]
              x == IF i \in p.const THEN PfxConst[lane + 1 + IF i \in p.abs THEN 4 ELSE 0]
                   ELSE IF i \in p.abs THEN Mirror(unit.el[Named(reg, lane)]) ELSE unit.el[Named(reg, lane)]
          IN IF i \in p.neg THEN -x ELSE x]

Stored(reg, size, out) ==
  LET lanes == {i \in 0..size - 1 : 2 \notin DOMAIN unit.pre \/ i \notin unit.pre[2].mask}
      value(i) == IF 2 \in DOMAIN unit.pre THEN Sat(out[i], unit.pre[2].sat[i + 1]) ELSE out[i]
  IN [e \in Element |-> IF \E i \in lanes : Named(reg, i) = e
                        THEN value(CHOOSE i \in lanes : Named(reg, i) = e) ELSE unit.el[e]]

(* Column c, row r of a matrix operand, and a matrix of columns written to one. *)
Entry(reg, c, r) == IF reg.dir = "E" THEN <<reg.m, r, c>> ELSE <<reg.m, c, r>>

(***************************************************************************)
(* The instructions.                                                       *)
(***************************************************************************)
Issue == issued < MaxVector /\ issued' = issued + 1

(* vpfxs, vpfxt, vpfxd, and mtvc to a prefix register. *)
SetPrefix(in) ==
  /\ in.op = "vpfx" /\ Issue
  /\ prefix' = [prefix EXCEPT ![in.which] = EncodedPrefix(in.which, in.p)]
  /\ pending' = pending \cup {in.which}
  /\ unit' = [unit EXCEPT !.pre = [w \in DOMAIN @ \cup {in.which} |-> IF w = in.which THEN in.p ELSE @[w]]]
  /\ UNCHANGED <<vec, vcc, vtraps, vmem>>

(* The element-wise operations, the reductions and products, vunary, vrot, vidt. *)
Vector(in) ==
  /\ in.op \in VectorOps /\ Issue
  /\ LET s == ReadSrc(0, Encoded(in.vs, SrcSize(in)), SrcSize(in))
         t == ReadSrc(1, Encoded(in.vt, SecondSize(in)), SecondSize(in))
     IN vec' = WriteDst(Encoded(in.vd, DstSize(in)), DstSize(in), FromZero(Across(in, s, t)))
  /\ EndOp
  /\ unit' = [unit EXCEPT !.pre = << >>,
                          !.el = Stored(in.vd, DstSize(in), FromZero(Across(in,
                                   Seen(0, in.vs, SrcSize(in)), Seen(1, in.vt, SecondSize(in)))))]
  /\ UNCHANGED <<prefix, vcc, vtraps, vmem>>

(* vcmp: a bit for every lane that compares, one for any and one for all. *)
Bits(S, n) == S \cup (IF S # {} THEN {4} ELSE {}) \cup (IF S = 0..n - 1 THEN {5} ELSE {})
Holds(cond, a, b) == CASE cond = 0 -> FALSE [] cond = 1 -> a = b [] cond = 2 -> a < b [] cond = 3 -> a <= b
                       [] cond = 4 -> TRUE [] cond = 5 -> a # b [] cond = 6 -> a >= b [] cond = 7 -> a > b
                       [] cond = 8 -> a = 0 [] cond = 12 -> a # 0
Compares(in, s, t) == {i \in 0..in.size - 1 : Holds(in.imm, s[i], t[i])}
Vcmp(in) ==
  /\ in.op = "vcmp" /\ Issue
  /\ vcc' = Bits(Compares(in, ReadSrc(0, Encoded(in.vs, in.size), in.size),
                              ReadSrc(1, Encoded(in.vt, in.size), in.size)), in.size)
  /\ EndOp
  /\ unit' = [unit EXCEPT !.pre = << >>,
                !.cc = Bits(Compares(in, Seen(0, in.vs, in.size), Seen(1, in.vt, in.size)), in.size)]
  /\ UNCHANGED <<vec, prefix, vtraps, vmem>>

Column(vreg, c, size) == Lanes4(4 * Field(vreg, 2, 3) + c + 32 * Field(vreg, 5, 1), size)
MatrixRead(vreg, n) == [c \in 0..n - 1 |-> [r \in 0..n - 1 |-> vec[Column(vreg, c, n)[r]]]]
MatrixWrite(vreg, n, val) ==
  LET at == {<<c, r>> : c \in 0..n - 1, r \in 0..n - 1}
  IN [l \in DOMAIN vec |-> IF \E p \in at : Column(vreg, p[1], n)[p[2]] = l
                           THEN LET p == CHOOSE q \in at : Column(vreg, q[1], n)[q[2]] = l IN val[p[1]][p[2]]
                           ELSE vec[l]]

(* vmmul uses its first operand transposed, vtfm sums over the columns. *)
Product(op, a, b, n) ==
  [c \in 0..n - 1 |-> [r \in 0..n - 1 |->
     CASE op = "vmmul" -> MapThenSumSet(LAMBDA k : Times(a[r][k], b[c][k]), 0..n - 1)
       [] op = "vmscl" -> Times(a[c][r], b[c][r])
       [] op = "vmmov" -> a[c][r]   [] op = "vmzero" -> 0   [] op = "vmone" -> One12
       [] op = "vmidt" -> IF c = r THEN One12 ELSE 0]]
Uniform(k, n) == [c \in 0..n - 1 |-> [r \in 0..n - 1 |-> k]]      \* vmscl's scalar
Transform(a, v, n) == [r \in 0..n - 1 |-> MapThenSumSet(LAMBDA c : Times(a[c][r], v[c]), 0..n - 1)]

(* take_prefixes: a matrix operation applies no prefix; one that is pending is used
   up and the operation traps instead of computing. *)
TakePrefixes == pending' = {} /\ vtraps' = vtraps + 1 /\ UNCHANGED <<vec, prefix, vcc, vmem>>

MatrixOp(in) ==
  LET n == in.size
      el(reg) == [c \in 0..n - 1 |-> [r \in 0..n - 1 |-> unit.el[Entry(reg, c, r)]]]
      right == IF in.op = "vtfm"
               THEN LET out == Transform(el(in.vs), [c \in 0..n - 1 |-> unit.el[Named(in.vt, c)]], n)
                    IN [e \in Element |-> IF \E r \in 0..n - 1 : Named(in.vd, r) = e
                          THEN out[CHOOSE r \in 0..n - 1 : Named(in.vd, r) = e] ELSE unit.el[e]]
               ELSE LET out == Product(in.op, el(in.vs), IF in.op = "vmscl" THEN Uniform(unit.el[Named(in.vt, 0)], n)
                                                           ELSE el(in.vt), n)
                    IN [e \in Element |-> IF \E c, r \in 0..n - 1 : Entry(in.vd, c, r) = e
                          THEN LET c == CHOOSE x \in 0..n - 1 : \E r \in 0..n - 1 : Entry(in.vd, x, r) = e
                                   r == CHOOSE x \in 0..n - 1 : Entry(in.vd, c, x) = e
                               IN out[c][r] ELSE unit.el[e]]
  IN /\ in.op \in {"vmmul", "vmscl", "vmmov", "vmidt", "vmzero", "vmone", "vtfm"} /\ Issue
     /\ IF pending # {} THEN TakePrefixes
        ELSE /\ vec' = IF in.op = "vtfm"
                       THEN LET v == Lanes4(Encoded(in.vt, n), n)   d == Lanes4(Encoded(in.vd, n), n)
                                out == Transform(MatrixRead(Encoded(in.vs, n), n),
                                                 [i \in 0..n - 1 |-> vec[v[i]]], n)
                            IN FoldLeft(LAMBDA w, r : [w EXCEPT ![d[r]] = out[r]], vec, [i \in 1..n |-> i - 1])
                       ELSE MatrixWrite(Encoded(in.vd, n), n,
                              Product(in.op, MatrixRead(Encoded(in.vs, n), n),
                                IF in.op = "vmscl" THEN Uniform(vec[Lanes4(Encoded(in.vt, 1), 1)[0]], n)
                                ELSE MatrixRead(Encoded(in.vt, n), n), n))
             /\ UNCHANGED <<prefix, pending, vcc, vtraps, vmem>>
     /\ unit' = IF unit.pre # << >> THEN [unit EXCEPT !.pre = << >>] ELSE [unit EXCEPT !.el = right]

(* lv.q, sv.q, mtv and viim move whole lanes: no prefix is applied, none is used up. *)
LoadQuad(in) ==
  /\ in.op = "lvq" /\ Issue
  /\ vec' = [l \in DOMAIN vec |-> IF \E i \in Four : Lanes4(Encoded(in.vt, 4), 4)[i] = l
                                  THEN vmem[CHOOSE i \in Four : Lanes4(Encoded(in.vt, 4), 4)[i] = l] ELSE vec[l]]
  /\ unit' = [unit EXCEPT !.el = [e \in Element |-> IF \E i \in Four : Named(in.vt, i) = e
                                    THEN unit.mem[CHOOSE i \in Four : Named(in.vt, i) = e] ELSE @[e]]]
  /\ UNCHANGED <<prefix, pending, vcc, vtraps, vmem>>

StoreQuad(in) ==
  /\ in.op = "svq" /\ Issue
  /\ vmem' = [i \in Four |-> vec[Lanes4(Encoded(in.vt, 4), 4)[i]]]
  /\ unit' = [unit EXCEPT !.mem = [i \in Four |-> unit.el[Named(in.vt, i)]]]
  /\ UNCHANGED <<vec, prefix, pending, vcc, vtraps>>

MoveTo(in) ==
  /\ in.op = "mtv" /\ Issue
  /\ vec' = [vec EXCEPT ![Lanes4(Encoded(in.vt, 1), 1)[0]] = in.imm]
  /\ unit' = [unit EXCEPT !.el[Named(in.vt, 0)] = in.imm]
  /\ UNCHANGED <<prefix, pending, vcc, vtraps, vmem>>

(* psp_vfpu_reset forgets the prefixes and the traps, and keeps the registers. *)
VfpuReset == /\ Issue
             /\ prefix' = [w \in 0..2 |-> 0] /\ pending' = {} /\ vtraps' = 0
             /\ unit' = [unit EXCEPT !.pre = << >>] /\ UNCHANGED <<vec, vcc, vmem>>

VfpuIdle == issued = MaxVector /\ UNCHANGED vfpuVars

VfpuNext == \/ \E in \in Program : \/ SetPrefix(in) \/ Vector(in) \/ Vcmp(in) \/ MatrixOp(in)
                                   \/ LoadQuad(in) \/ StoreQuad(in) \/ MoveTo(in)
            \/ VfpuReset \/ VfpuIdle

(* After every program the registers, the condition codes and memory hold what the
   machine of matrices and prefixes holds: a row and a column share their elements,
   a destination may be one of the sources, and a prefix changes the operands of the
   next vector operation and of no other (lanes4, read_src, write_dst, end_op). *)
VectorsInLockstep ==
  /\ \A e \in Element : vec[Index(e[1], e[2], e[3])] = unit.el[e]
  /\ vcc = unit.cc /\ vmem = unit.mem
  /\ pending = DOMAIN unit.pre
=============================================================================
