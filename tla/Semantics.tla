----------------------------- MODULE Semantics -----------------------------
(***************************************************************************)
(* What an instruction does to the registers, said twice: by the           *)
(* interpreter (exec_rtype, exec_itype, execSpecial2, branch, in C++) and  *)
(* by the code the translator emits for it (generateIR, in LLVM's          *)
(* operations). Both run here side by side, one instruction at a time,     *)
(* from the same registers, until they differ.                             *)
(*                                                                         *)
(* Words have W bits and immediates I; a word is its unsigned value. The   *)
(* registers are $0, $1 and the link register.                             *)
(***************************************************************************)
EXTENDS Integers, Bitwise

CONSTANTS
  W,          \* bits in a register
  I,          \* bits in an immediate
  Operands    \* the <<rd, rs, rt>> under study

R_ra == 31
Regs == {0, 1, R_ra}

SemanticsAssumption ==
  /\ I \in Nat \ {0}
  /\ W \in Nat
  /\ I < W
  /\ Operands \subseteq Regs \X Regs \X Regs

M == 2 ^ W
Words == 0 .. M - 1

(* int32_t and uint32_t of any integer; the same at twice the width.       *)
U(x) == x % M
S(x) == IF U(x) >= M \div 2 THEN U(x) - M ELSE U(x)
U64(x) == x % (M * M)
S64(x) == IF U64(x) >= (M * M) \div 2 THEN U64(x) - M * M ELSE U64(x)
SImm(imm) == IF imm >= 2 ^ (I - 1) THEN U(imm - 2 ^ I) ELSE imm
LowHalf(y) == y % M
HighHalf(y) == y \div M

(* C++ and LLVM divide towards zero.                                       *)
Abs(x) == IF x < 0 THEN -x ELSE x
Sign(x) == IF x < 0 THEN -1 ELSE 1
Quot(x, y) == Sign(x) * Sign(y) * (Abs(x) \div Abs(y))
Rem(x, y) == x - Quot(x, y) * y

(* The machine: the registers, whether the last branch was taken, where    *)
(* the last jump went, and why it stopped, if it did.                      *)
Start == [gpr |-> [r \in Regs |-> 0], hi |-> 0, lo |-> 0, cc |-> 0,
          taken |-> FALSE, to |-> 0, status |-> "runs"]

(* The address after the delay slot of the jump under study.               *)
LinkAddr == M - 1

RTypes == {"sll", "srl", "sra", "sllv", "srlv", "srav", "addu", "subu", "and", "or",
           "xor", "nor", "slt", "sltu"}
Moves == {"movn", "movz", "movci"}
ITypes == {"addiu", "andi", "ori", "xori", "lui", "slti", "sltiu"}
Branches == {"beq", "bne", "blez", "bgtz", "bltz", "bgez"}
HiLos == {"mfhi", "mthi", "mflo", "mtlo", "mult", "multu", "div", "divu", "madd",
          "msub"}
Others == {"mul", "clz", "seb", "teq", "jr", "jalr", "c"}

Insn ==
  [op: {"sll", "srl", "sra", "movci", "c"}, regs: Operands, imm: {0, 1}]
  \cup [op: ITypes, regs: Operands, imm: 0 .. 2 ^ I - 1]
  \cup [op: (RTypes \ {"sll", "srl", "sra"}) \cup {"movn", "movz"} \cup HiLos
            \cup Branches \cup (Others \ {"c"}),
        regs: Operands, imm: {0}]

(* imm is a shift amount, a condition to move on or compare for, or an     *)
(* immediate.                                                              *)

-----------------------------------------------------------------------------
(* The interpreter.                                                        *)

exec_rtype(op, rs, rt, sa) ==
  CASE op = "sll" -> U(rt * 2 ^ sa)
    [] op = "srl" -> rt \div 2 ^ sa
    [] op = "sra" -> U(S(rt) \div 2 ^ sa)
    [] op = "sllv" -> U(rt * 2 ^ (rs % W))
    [] op = "srlv" -> rt \div 2 ^ (rs % W)
    [] op = "srav" -> U(S(rt) \div 2 ^ (rs % W))
    [] op = "addu" -> U(rs + rt)
    [] op = "subu" -> U(rs - rt)
    [] op = "and" -> rs & rt
    [] op = "or" -> rs | rt
    [] op = "xor" -> rs ^^ rt
    [] op = "nor" -> (M - 1) - (rs | rt)
    [] op = "slt" -> IF S(rs) < S(rt) THEN 1 ELSE 0
    [] op = "sltu" -> IF rs < rt THEN 1 ELSE 0

exec_itype(op, rs, imm) ==
  CASE op = "addiu" -> U(rs + SImm(imm))
    [] op = "andi" -> rs & imm
    [] op = "ori" -> rs | imm
    [] op = "xori" -> rs ^^ imm
    [] op = "lui" -> imm * 2 ^ (W - I)
    [] op = "slti" -> IF S(rs) < S(SImm(imm)) THEN 1 ELSE 0
    [] op = "sltiu" -> IF rs < SImm(imm) THEN 1 ELSE 0

takeBranch(op, rs, rt) ==
  CASE op = "beq" -> rt = rs
    [] op = "bne" -> rt # rs
    [] op = "bgtz" -> S(rs) > 0
    [] op = "blez" -> S(rs) <= 0
    [] op = "bltz" -> S(rs) < 0
    [] op = "bgez" -> S(rs) >= 0

(* The pair <<hi, lo>> a register-type operation leaves.                   *)
execHiLo(op, rs, rt, s) ==
  CASE op = "mthi" -> <<rs, s.lo>>
    [] op = "mtlo" -> <<s.hi, rs>>
    [] op = "mult" -> LET y == U64(S(rs) * S(rt)) IN <<HighHalf(y), LowHalf(y)>>
    [] op = "multu" -> LET y == U64(rs * rt) IN <<HighHalf(y), LowHalf(y)>>
    [] op = "div" /\ rt # 0 -> <<U(Rem(S(rs), S(rt))), U(Quot(S(rs), S(rt)))>>
    [] op = "divu" /\ rt # 0 -> <<rs % rt, rs \div rt>>
    [] OTHER -> <<s.hi, s.lo>>

(* Mutant: the accumulator is the high half alone.                         *)
AccHigh(s) == U64(S(s.hi) * M)

(* hi:lo as madd and msub read it: the halves or-ed together, the low one  *)
(* sign-extended over the high one.                                        *)
Acc(s) == U64(S(s.hi) * M) | U64(S(s.lo))

MaddMsub(op, rs, rt, s) ==
  LET y == IF op = "madd" THEN U64(S(rs) * S(rt) + Acc(s)) ELSE U64(Acc(s) - S(rs) * S(rt))
  IN <<HighHalf(y), LowHalf(y)>>

(* Leading zeros, and the width when there is nothing else.                *)
clz(x) == CHOOSE n \in 0 .. W : (x = 0 /\ n = W) \/ 2 ^ (W - 1 - n) = x
                                 \/ (n < W /\ 2 ^ (W - 1 - n) < x /\ x < 2 ^ (W - n))

execSpecial2(op, rs, rt) ==
  IF op = "mul" THEN U(S(rs) * S(rt)) ELSE U(clz(rs))

(* Division of the least number by -1 raises SIGFPE on the host.           *)
Overflows(op, rs, rt) == op = "div" /\ S(rs) = -(M \div 2) /\ S(rt) = -1

(* A handler's result for $0 is stored like any other, and execMips stops  *)
(* the simulator over it.                                                  *)
SetGpr(s, r, x) ==
  [s EXCEPT !.gpr[r] = x, !.status = IF r = 0 /\ x # 0 THEN "exit" ELSE @]

Interpret(i, s) ==
  LET rd == i.regs[1]
      rs == s.gpr[i.regs[2]]
      rt == s.gpr[i.regs[3]]
      hl == IF i.op \in {"madd", "msub"} THEN MaddMsub(i.op, rs, rt, s)
            ELSE execHiLo(i.op, rs, rt, s)
  IN
  CASE i.op \in RTypes -> SetGpr(s, rd, exec_rtype(i.op, rs, rt, i.imm))
    [] i.op \in ITypes -> SetGpr(s, i.regs[3], exec_itype(i.op, rs, i.imm))
    [] i.op \in Branches -> [s EXCEPT !.taken = takeBranch(i.op, rs, rt)]
    [] i.op = "movn" -> IF rt # 0 THEN SetGpr(s, rd, rs) ELSE s
    [] i.op = "movz" -> IF rt = 0 THEN SetGpr(s, rd, rs) ELSE s
    [] i.op = "movci" -> IF s.cc = i.imm THEN SetGpr(s, rd, rs) ELSE s
    [] i.op = "mfhi" -> SetGpr(s, rd, s.hi)
    [] i.op = "mflo" -> SetGpr(s, rd, s.lo)
    [] i.op \in HiLos \ {"mfhi", "mflo"} ->
         IF Overflows(i.op, rs, rt) THEN [s EXCEPT !.status = "SIGFPE"]
         ELSE [s EXCEPT !.hi = hl[1], !.lo = hl[2]]
    [] i.op \in {"mul", "clz"} -> SetGpr(s, rd, execSpecial2(i.op, rs, rt))
    [] i.op = "seb" -> SetGpr(s, rd, SImm(rt % 2 ^ I))
    [] i.op = "teq" -> IF rs = rt THEN [s EXCEPT !.status = "trap"] ELSE s
    [] i.op = "jr" -> [s EXCEPT !.to = rs]
    [] i.op = "jalr" -> [SetGpr(s, R_ra, LinkAddr) EXCEPT !.to = rs]
    [] i.op = "c" -> [s EXCEPT !.cc = i.imm]

-----------------------------------------------------------------------------
(* The generated code, in LLVM's operations.                               *)

Add(x, y) == U(x + y)
Sub(x, y) == U(x - y)
Shl(x, n) == U(x * 2 ^ n)
LShr(x, n) == x \div 2 ^ n
AShr(x, n) == U(S(x) \div 2 ^ n)
Select(c, x, y) == IF c THEN x ELSE y
SLT(x, y) == S(x) < S(y)
ULT(x, y) == x < y

(* Mutant: the variable right shifts take the whole register.              *)
simpleRTypeUnmasked(op, rs, rt, sa) ==
  CASE op \in {"sll", "srl", "sra"} -> exec_rtype(op, rs, rt, sa)
    [] op \in {"sllv", "srlv", "srav"} -> LShr(rt, rs)
    [] OTHER -> exec_rtype(op, rs, rt, sa)

simpleRType(op, rs, rt, sa) ==
  CASE op = "addu" -> Add(rs, rt)
    [] op = "subu" -> Sub(rs, rt)
    [] op = "sll" -> Shl(rt, sa)
    [] op = "srl" -> LShr(rt, sa)
    [] op = "sra" -> AShr(rt, sa)
    [] op = "sllv" -> Shl(rt, rs % W)
    [] op = "srlv" -> LShr(rt, rs % W)
    [] op = "srav" -> AShr(rt, rs % W)
    [] op = "and" -> rs & rt
    [] op = "or" -> rs | rt
    [] op = "xor" -> rs ^^ rt
    [] op = "nor" -> (M - 1) - (rs | rt)
    [] op = "slt" -> Select(SLT(rs, rt), 1, 0)
    [] op = "sltu" -> Select(ULT(rs, rt), 1, 0)

simpleIType(op, rs, imm) ==
  CASE op = "addiu" -> Add(rs, SImm(imm))
    [] op = "andi" -> rs & imm
    [] op = "lui" -> Shl(imm, W - I)
    [] op = "ori" -> rs | imm
    [] op = "xori" -> rs ^^ imm
    [] op = "slti" -> Select(SLT(rs, SImm(imm)), 1, 0)
    [] op = "sltiu" -> Select(ULT(rs, SImm(imm)), 1, 0)

handleBranch(op, rs, rt) ==
  CASE op = "beq" -> rs = rt
    [] op = "bne" -> rs # rt
    [] op = "bgez" -> ~SLT(rs, 0)
    [] op = "blez" -> SLT(rs, 0) \/ rs = 0
    [] op = "bltz" -> SLT(rs, 0)
    [] op = "bgtz" -> SLT(0, rs)

(* A divisor of zero is replaced by one.                                   *)
Divider(rt) == Select(rt = 0, 1, rt)

insn_div(rs, rt) == <<U(Rem(S(rs), S(Divider(rt)))), U(Quot(S(rs), S(Divider(rt))))>>
insn_divu(rs, rt) == <<rs % Divider(rt), rs \div Divider(rt)>>

(* The pair <<hi, lo>> a double word is split into.                        *)
Split(y) == <<HighHalf(y), LowHalf(y)>>

insn_mult(rs, rt) == Split(U64(S(rs) * S(rt)))
insn_multu(rs, rt) == Split(U64(rs * rt))
insn_mul(rs, rt) == LowHalf(U64(S(rs) * S(rt)))

(* The product is combined with hi, shifted up, or-ed with lo, both        *)
(* sign-extended.                                                          *)
insn_madd(rs, rt, s) == Split(U64(S(rs) * S(rt) + (U64(S(s.hi) * M) | U64(S(s.lo)))))
insn_msub(rs, rt, s) == Split(U64((U64(S(s.hi) * M) | U64(S(s.lo))) - S(rs) * S(rt)))

(* ctlz is told that zero does not occur: its result is then anything.     *)
insn_clz(rs) == IF rs = 0 THEN Words ELSE {clz(rs)}

(* The link register is written before the target is read from it.         *)
insn_jalr(s, rs) ==
  LET linked == [s.gpr EXCEPT ![R_ra] = LinkAddr]
  IN [s EXCEPT !.gpr = linked, !.to = linked[rs]]

Emitted(i, s) ==
  LET rd == i.regs[1]
      rs == s.gpr[i.regs[2]]
      rt == s.gpr[i.regs[3]]
      set(r, x) == {[s EXCEPT !.gpr[r] = x]}
      hilo(hl) == {[s EXCEPT !.hi = hl[1], !.lo = hl[2]]}
  IN
  CASE i.op \in RTypes -> set(rd, simpleRType(i.op, rs, rt, i.imm))
    [] i.op \in ITypes -> set(i.regs[3], simpleIType(i.op, rs, i.imm))
    [] i.op \in Branches -> {[s EXCEPT !.taken = handleBranch(i.op, rs, rt)]}
    [] i.op = "movn" -> set(rd, Select(rt # 0, rs, s.gpr[rd]))
    [] i.op = "movz" -> set(rd, Select(rt = 0, rs, s.gpr[rd]))
    [] i.op = "movci" -> set(rd, IF i.imm = 0 THEN Select(s.cc = 0, rs, s.gpr[rd])
                                              ELSE Select(s.cc = 0, s.gpr[rd], rs))
    [] i.op = "mfhi" -> set(rd, s.hi)
    [] i.op = "mflo" -> set(rd, s.lo)
    [] i.op = "mthi" -> hilo(<<rs, s.lo>>)
    [] i.op = "mtlo" -> hilo(<<s.hi, rs>>)
    [] i.op = "mult" -> hilo(insn_mult(rs, rt))
    [] i.op = "multu" -> hilo(insn_multu(rs, rt))
    [] i.op = "div" -> IF Overflows(i.op, rs, rt) THEN {[s EXCEPT !.status = "SIGFPE"]}
                       ELSE hilo(insn_div(rs, rt))
    [] i.op = "divu" -> hilo(insn_divu(rs, rt))
    [] i.op = "madd" -> hilo(insn_madd(rs, rt, s))
    [] i.op = "msub" -> hilo(insn_msub(rs, rt, s))
    [] i.op = "mul" -> set(rd, insn_mul(rs, rt))
    [] i.op = "clz" -> UNION {set(rd, U(x)) : x \in insn_clz(rs)}
    [] i.op = "seb" -> set(rd, SImm(rt % 2 ^ I))
    [] i.op = "teq" -> {s}
    [] i.op = "jr" -> {[s EXCEPT !.to = rs]}
    [] i.op = "jalr" -> {insn_jalr(s, i.regs[2])}
    [] i.op = "c" -> {[s EXCEPT !.cc = i.imm]}

-----------------------------------------------------------------------------
VARIABLES
  cpu,    \* the registers as interpreted
  code,   \* the registers as the generated code leaves them
  last    \* the instruction that told them apart, or a multiply-and-add

vars == <<cpu, code, last>>

NoInsn == [op |-> "none", regs |-> <<0, 0, 0>>, imm |-> 0]

Init == cpu = Start /\ code = Start /\ last = NoInsn

(* The two run on until they differ, or a jump or a multiply-and-add is    *)
(* done: every value of the registers comes about without either.          *)
Step(i) ==
  /\ cpu = code
  /\ cpu.status = "runs" /\ ~cpu.taken /\ cpu.to = 0 /\ last = NoInsn
  /\ cpu' = Interpret(i, cpu)
  /\ code' \in Emitted(i, code)
  /\ last' = IF cpu' # code' \/ i.op \in {"madd", "msub"} THEN i ELSE NoInsn

Next == \E i \in Insn : Step(i)

Spec == Init /\ [][Next]_vars

-----------------------------------------------------------------------------
(* The instructions, with the operands, on which compiling a block changes *)
(* what the guest computes: dividing by zero, which the interpreter skips  *)
(* and the code does by one; counting the zeros of zero; a trap that is    *)
(* compiled away; a jalr through the link register, which the code has     *)
(* overwritten; and anything stored into $0, over which the interpreter    *)
(* stops.                                                                  *)
Divergent(i, s) ==
  LET rs == s.gpr[i.regs[2]]
      rt == s.gpr[i.regs[3]]
  IN \/ i.op \in {"div", "divu"} /\ rt = 0
     \/ i.op = "clz" /\ rs = 0
     \/ i.op = "teq" /\ rs = rt
     \/ i.op = "jalr" /\ i.regs[2] = R_ra
     \/ i.op \notin ITypes /\ i.regs[1] = 0
     \/ i.op \in ITypes /\ i.regs[3] = 0

(* Everything else computes the same either way.                           *)
DifferOnlyWhenDivergent == cpu' # code' => Divergent(last', cpu)

(* madd and msub add to and subtract from the double word hi:lo, but where *)
(* lo has its top bit set: both sides widen it with its sign, which makes  *)
(* hi all ones whatever it was.                                            *)
Accumulates ==
  last'.op \in {"madd", "msub"} =>
    LET product == S(cpu.gpr[last'.regs[2]]) * S(cpu.gpr[last'.regs[3]])
        acc == (IF cpu.lo < M \div 2 THEN cpu.hi ELSE M - 1) * M + cpu.lo
    IN cpu'.hi * M + cpu'.lo =
         U64(IF last'.op = "madd" THEN acc + product ELSE acc - product)
=============================================================================
