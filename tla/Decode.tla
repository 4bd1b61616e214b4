------------------------------- MODULE Decode -------------------------------
(***************************************************************************)
(* Four places in the code take an instruction word apart, each with its   *)
(* own switch statements: the interpreter (execMips), the compile filter   *)
(* (canCompileInstr), the constructor of the translator's instruction      *)
(* objects (getInsn) and their virtual methods (canCompile, recUses,       *)
(* recDefines, generateIR). This module follows one word through them in   *)
(* the order the program does: it is recorded in a block and executed, or  *)
(* recorded as the delay slot of a branch-likely that is not taken and     *)
(* never executed; once its block is in a hot region it is filtered,       *)
(* wrapped, asked for its registers and translated.                        *)
(*                                                                         *)
(* A word is reduced to the fields the switches read:                      *)
(*   op     bits 31..26      funct  bits 5..0       sub   bits 10..6       *)
(*   rs     bits 25..21 (fmt of a floating point instruction)              *)
(*   rt     bits 20..16 (the condition of a regimm or bc1 branch)          *)
(* The operation performed is a pair <<name, format>>, format 0 when the   *)
(* operation has none.                                                     *)
(***************************************************************************)
EXTENDS Integers

CONSTANT Encodings   \* the instruction words under study

VARIABLES
  ipo,      \* globals::ipo: jr and jalr may be compiled
  word,     \* the word
  stage,    \* how far it has come
  done,     \* what the interpreter did with it
  emitted   \* what the generated code will do

decodeVars == <<ipo, word, stage, done, emitted>>

FMT_S == 16
FMT_D == 17
FMT_W == 20

Word == [op: 0 .. 63, funct: 0 .. 63, sub: 0 .. 31, rs: 0 .. 31, rt: 0 .. 31]

ASSUME EncodingsAreWords == Encodings \subseteq Word

Named(name) == <<name, 0>>
Formatted(name, fmts, w) == IF w.rs \in fmts THEN <<name, w.rs>> ELSE <<"none", 0>>

(* The operation that stands for UNREACHABLE, exit, die and nullptr.       *)
None == <<"none", 0>>

getInsnType(w) ==
  CASE w.op = \h00 -> "rtype"
    [] w.op \in {\h02, \h03} -> "jtype"
    [] w.op = \h10 -> "cp0"
    [] w.op = \h11 -> "cp1"
    [] w.op = \h12 -> "cp2"
    [] w.op = \h13 -> "cp1x"
    [] w.op = \h1c -> "special2"
    [] w.op = \h1f -> "special3"
    [] w.op = \h30 -> "ll"
    [] w.op = \h38 -> "sc"
    [] OTHER -> "itype"

(* Mutant: the branch-likely opcodes are forgotten.                        *)
isBranchOrJumpPlain(w) ==
  CASE getInsnType(w) = "rtype" -> w.funct \in {\h08, \h09}
    [] getInsnType(w) = "jtype" -> TRUE
    [] getInsnType(w) = "cp1" -> w.rs = \h08
    [] getInsnType(w) = "itype" -> w.op \in {\h01} \cup \h04 .. \h07
    [] OTHER -> FALSE

isBranchOrJump(w) ==
  CASE getInsnType(w) = "rtype" -> w.funct \in {\h08, \h09}
    [] getInsnType(w) = "jtype" -> TRUE
    [] getInsnType(w) = "cp1" -> w.rs = \h08
    [] getInsnType(w) = "itype" -> w.op \in {\h01} \cup \h04 .. \h07 \cup \h14 .. \h17
    [] OTHER -> FALSE

-----------------------------------------------------------------------------
(* The interpreter.                                                        *)

execRType(k) ==
  CASE k = \h00 -> "sll" [] k = \h01 -> "movci" [] k = \h02 -> "srl"
    [] k = \h03 -> "sra" [] k = \h04 -> "sllv" [] k = \h05 -> "monitor"
    [] k = \h06 -> "srlv" [] k = \h07 -> "srav" [] k = \h08 -> "jr"
    [] k = \h09 -> "jalr" [] k = \h0c -> "syscall" [] k = \h0d -> "break"
    [] k = \h0f -> "sync" [] k = \h10 -> "mfhi" [] k = \h11 -> "mthi"
    [] k = \h12 -> "mflo" [] k = \h13 -> "mtlo" [] k = \h18 -> "mult"
    [] k = \h19 -> "multu" [] k = \h1a -> "div" [] k = \h1b -> "divu"
    [] k = \h20 -> "add" [] k = \h21 -> "addu" [] k = \h23 -> "subu"
    [] k = \h24 -> "and" [] k = \h25 -> "or" [] k = \h26 -> "xor"
    [] k = \h27 -> "nor" [] k = \h2a -> "slt" [] k = \h2b -> "sltu"
    [] k = \h0b -> "movn" [] k = \h0a -> "movz" [] k = \h34 -> "teq"
    [] OTHER -> "none"

execSpecial2(k) ==
  CASE k = \h00 -> "madd" [] k = \h01 -> "maddu" [] k = \h02 -> "mul"
    [] k = \h04 -> "msub" [] k = \h20 -> "clz" [] OTHER -> "none"

execSpecial3(w) ==
  CASE w.funct = 32 /\ w.sub = \h10 -> <<"seb", 0>>
    [] w.funct = 32 /\ w.sub = \h18 -> <<"seh", 0>>
    [] w.funct = 0 -> <<"ext", 0>>
    [] w.funct = 4 -> <<"ins", 0>>
    [] OTHER -> None

execJType(k) ==
  CASE k = \h02 -> "j" [] k = \h03 -> "jal" [] OTHER -> "none"

(* A regimm branch the interpreter does not know leaves the pc where it is *)
(* and still ends the block.                                               *)
bgez_bltz(w) ==
  CASE w.rt = 0 -> Named("bltz") [] w.rt = 1 -> Named("bgez")
    [] w.rt = 2 -> Named("bltzl") [] w.rt = 3 -> Named("bgezl")
    [] OTHER -> Named("stay")

execIType(k) ==
  CASE k = \h04 -> "beq" [] k = \h05 -> "bne" [] k = \h06 -> "blez"
    [] k = \h07 -> "bgtz" [] k = \h08 -> "addi" [] k = \h09 -> "addiu"
    [] k = \h0a -> "slti" [] k = \h0b -> "sltiu" [] k = \h0c -> "andi"
    [] k = \h0d -> "ori" [] k = \h0e -> "xori" [] k = \h0f -> "lui"
    [] k = \h14 -> "beql" [] k = \h15 -> "bnel" [] k = \h16 -> "blezl"
    [] k = \h17 -> "bgtzl" [] k = \h20 -> "lb" [] k = \h21 -> "lh"
    [] k = \h22 -> "lwl" [] k = \h23 -> "lw" [] k = \h24 -> "lbu"
    [] k = \h25 -> "lhu" [] k = \h26 -> "lwr" [] k = \h28 -> "sb"
    [] k = \h29 -> "sh" [] k = \h2a -> "swl" [] k = \h2b -> "sw"
    [] k = \h2e -> "swr" [] k = \h31 -> "lwc1" [] k = \h35 -> "ldc1"
    [] k = \h39 -> "swc1" [] k = \h3d -> "sdc1" [] OTHER -> "none"

execCoproc0(k) ==
  CASE k = \h00 -> "mfc0" [] k = \h04 -> "mtc0" [] OTHER -> "none"

bc1(k) ==
  CASE k = 0 -> "bc1f" [] k = 1 -> "bc1t" [] k = 2 -> "bc1fl"
    [] k = 3 -> "bc1tl" [] OTHER -> "none"

(* The condition codes are COND_UN = 1, EQ = 2, UEQ = 3, ULE = 7, LT = 12, *)
(* LE = 14; unordered operands fail an assertion before the comparison.    *)
fpCmp(k) ==
  CASE k = 1 -> "c.eq" [] k = 2 -> "c.eq" [] k = 3 -> "c.eq" [] k = 12 -> "c.lt"
    [] k = 14 -> "c.le" [] k = 7 -> "c.le" [] OTHER -> "none"

_c(w) ==
  IF fpCmp(w.funct % 16) = "none" THEN None
  ELSE Formatted(fpCmp(w.funct % 16), {FMT_S, FMT_D}, w)

do_fp_op(k) ==
  CASE k = \h00 -> "fadd" [] k = \h01 -> "fsub" [] k = \h02 -> "fmul"
    [] k = \h03 -> "fdiv" [] k = \h04 -> "fsqrt" [] k = \h05 -> "fabs"
    [] k = \h06 -> "fmov" [] k = \h07 -> "fneg" [] k = \h0d -> "truncw"
    [] k = \h11 -> "fmovc" [] k = \h12 -> "fmovz" [] k = \h13 -> "fmovn"
    [] k = \h15 -> "recip" [] k = \h16 -> "rsqrt" [] OTHER -> "none"

(* bits 10..0 are zero                                                     *)
LowBitsZero(w) == w.funct = 0 /\ w.sub = 0

execCoproc1(w) ==
  CASE w.rs = \h08 -> <<bc1(w.rt % 4), 0>>
    [] w.rs = \h00 /\ LowBitsZero(w) -> <<"mfc1", 0>>
    [] w.rs = \h04 /\ LowBitsZero(w) -> <<"mtc1", 0>>
    [] w.rs # \h08 /\ w.funct \div 16 = 3 -> _c(w)
    [] w.rs # \h08 /\ w.funct = \h20 -> Formatted("cvts", {FMT_D, FMT_W}, w)
    [] w.rs # \h08 /\ w.funct = \h21 -> Formatted("cvtd", {FMT_S, FMT_W}, w)
    [] w.rs # \h08 /\ do_fp_op(w.funct) # "none"
         /\ ~(w.rs \in {\h00, \h04} /\ LowBitsZero(w))
         -> Formatted(do_fp_op(w.funct), {FMT_S, FMT_D}, w)
    [] OTHER -> None

(* The low six bits hold a three-bit operation and a three-bit format, or  *)
(* the number of an indexed load.                                          *)
c1xId(w) == w.funct \div 8
c1xFmt(w) == w.funct % 8

execCoproc1x(w) ==
  CASE w.funct = 0 -> <<"lwxc1", 0>>
    [] w.funct = 1 -> <<"ldxc1", 0>>
    [] w.funct > 1 /\ c1xFmt(w) \in {0, 1} /\ c1xId(w) = 4 -> <<"fmadd", c1xFmt(w)>>
    [] w.funct > 1 /\ c1xFmt(w) \in {0, 1} /\ c1xId(w) = 5 -> <<"fmsub", c1xFmt(w)>>
    [] OTHER -> None

execMips(w) ==
  LET type == getInsnType(w) IN
  CASE type = "rtype" -> Named(execRType(w.funct))
    [] type = "itype" /\ w.op = \h01 -> bgez_bltz(w)
    [] type = "itype" /\ w.op # \h01 -> Named(execIType(w.op))
    [] type = "jtype" -> Named(execJType(w.op))
    [] type = "cp0" -> Named(execCoproc0(w.rs))
    [] type = "cp1" -> execCoproc1(w)
    [] type = "cp1x" -> execCoproc1x(w)
    [] type = "cp2" -> None
    [] type = "special2" -> Named(execSpecial2(w.funct))
    [] type = "special3" -> execSpecial3(w)
    [] type = "ll" -> <<"lw", 0>>
    [] type = "sc" -> <<"sc", 0>>

-----------------------------------------------------------------------------
(* The compile filter, which setReadOnly asks about every word of a block. *)

canCompileRType(w) ==
  /\ w.funct \notin {\h05, \h0c, \h0d, \h0f, \h30}
  /\ w.funct \in {\h08, \h09} => ipo

canCompileSpecial2(w) == w.funct \in {\h00, \h01, \h02, \h04, \h20}

canCompileSpecial3(w) ==
  \/ w.funct = 32 /\ w.sub \in {\h10, \h18}
  \/ w.funct \in {0, 4}

canCompileCoproc1(w) ==
  \/ w.rs = \h08
  \/ LowBitsZero(w) /\ w.rs \in {\h00, \h04}
  \/ w.funct \div 16 = 3
  \/ w.funct \in {\h0d, \h20, \h21}
  \/ /\ w.funct \in {\h00, \h01, \h02, \h03, \h04, \h06, \h11}
     /\ w.rs \in {FMT_S, FMT_D}

canCompileCoproc1x(w) == w.funct \notin {0, 1} /\ c1xId(w) \in {4, 5}

canCompileJType(w) == w.op \in {\h02, \h03}

(* Mutant: the last two unaligned stores are forgotten.                    *)
canCompileITypeAligned(w) == w.op \in \h04 .. \h0f \cup \h20 .. \h26 \cup \h28 .. \h29

canCompileIType(w) ==
  w.op \in {\h01, \h31, \h35, \h39, \h3d, \h2e} \cup \h04 .. \h0f
             \cup \h14 .. \h17 \cup \h20 .. \h26 \cup \h28 .. \h2b

canCompileInstr(w) ==
  LET type == getInsnType(w) IN
  CASE type = "rtype" -> canCompileRType(w)
    [] type = "special2" -> canCompileSpecial2(w)
    [] type = "special3" -> canCompileSpecial3(w)
    [] type = "jtype" -> canCompileJType(w)
    [] type = "cp1" -> canCompileCoproc1(w)
    [] type = "cp1x" -> canCompileCoproc1x(w)
    [] type \in {"cp0", "cp2", "ll", "sc"} -> FALSE
    [] type = "itype" -> canCompileIType(w)

-----------------------------------------------------------------------------
(* The translator's instruction objects. A class is named for the          *)
(* operation it translates.                                                *)

getRType(k) ==
  CASE k = \h00 -> "sll" [] k = \h01 -> "movci" [] k = \h02 -> "srl"
    [] k = \h03 -> "sra" [] k = \h04 -> "sllv" [] k = \h05 -> "monitor"
    [] k = \h06 -> "srlv" [] k = \h07 -> "srav" [] k = \h08 -> "jr"
    [] k = \h09 -> "jalr" [] k = \h0b -> "movn" [] k = \h0a -> "movz"
    [] k = \h0c -> "syscall" [] k = \h0f -> "sync" [] k = \h0d -> "break"
    [] k = \h10 -> "mfhi" [] k = \h11 -> "mthi" [] k = \h12 -> "mflo"
    [] k = \h13 -> "mtlo" [] k = \h18 -> "mult" [] k = \h19 -> "multu"
    [] k = \h1a -> "div" [] k = \h1b -> "divu" [] k = \h20 -> "add"
    [] k = \h21 -> "addu" [] k = \h22 -> "sub" [] k = \h23 -> "subu"
    [] k = \h24 -> "and" [] k = \h25 -> "or" [] k = \h26 -> "xor"
    [] k = \h27 -> "nor" [] k = \h2a -> "slt" [] k = \h2b -> "sltu"
    [] k = \h30 -> "tge" [] k = \h34 -> "teq" [] OTHER -> "none"

getSpecial2(k) ==
  CASE k = \h00 -> "madd" [] k = \h01 -> "maddu" [] k = \h02 -> "mul"
    [] k = \h04 -> "msub" [] k = \h20 -> "clz" [] OTHER -> "none"

getSpecial3(w) ==
  CASE w.funct = 32 /\ w.sub = \h10 -> "seb"
    [] w.funct = 32 /\ w.sub = \h18 -> "seh"
    [] w.funct = 0 -> "ext"
    [] w.funct = 4 -> "ins"
    [] OTHER -> "none"

getJType(k) ==
  CASE k = \h02 -> "j" [] k = \h03 -> "jal" [] OTHER -> "none"

getCoproc0(k) ==
  CASE k = \h00 -> "mfc0" [] k = \h04 -> "mtc0" [] OTHER -> "none"

getFpOp(k) ==
  CASE k = \h00 -> "fadd" [] k = \h01 -> "fsub" [] k = \h02 -> "fmul"
    [] k = \h03 -> "fdiv" [] k = \h04 -> "fsqrt" [] k = \h06 -> "fmov"
    [] k = \h0d -> "truncw" [] k = \h11 -> "fmovc" [] k = \h12 -> "fmovz"
    [] k = \h13 -> "fmovn" [] k = \h20 -> "cvts" [] k = \h21 -> "cvtd"
    [] OTHER -> "none"

getBc1(k) ==
  CASE k = 0 -> "bc1f" [] k = 1 -> "bc1t" [] k = 2 -> "bc1fl"
    [] k = 3 -> "bc1tl" [] OTHER -> "none"

getCoproc1(w) ==
  CASE w.rs = \h08 -> getBc1(w.rt % 4)
    [] w.rs = \h00 /\ LowBitsZero(w) -> "mfc1"
    [] w.rs = \h04 /\ LowBitsZero(w) -> "mtc1"
    [] OTHER -> IF w.funct \div 16 = 3 THEN "c" ELSE getFpOp(w.funct)

getCoproc1x(w) ==
  IF w.funct \in {0, 1} THEN "none"
  ELSE CASE c1xId(w) = 4 -> "fmadd" [] c1xId(w) = 5 -> "fmsub" [] OTHER -> "none"

(* Mutant: the first two conditions exchanged.                             *)
getRegimmSwapped(k) ==
  CASE k = 0 -> "bgez" [] k = 1 -> "bltz" [] k = 2 -> "bltzl"
    [] k = 3 -> "bgezl" [] OTHER -> "none"

getRegimm(k) ==
  CASE k = 0 -> "bltz" [] k = 1 -> "bgez" [] k = 2 -> "bltzl"
    [] k = 3 -> "bgezl" [] OTHER -> "none"

getIType(k) ==
  CASE k = \h04 -> "beq" [] k = \h05 -> "bne" [] k = \h06 -> "blez"
    [] k = \h07 -> "bgtz" [] k = \h08 -> "addi" [] k = \h09 -> "addiu"
    [] k = \h0a -> "slti" [] k = \h0b -> "sltiu" [] k = \h0c -> "andi"
    [] k = \h0d -> "ori" [] k = \h0e -> "xori" [] k = \h0f -> "lui"
    [] k = \h14 -> "beql" [] k = \h15 -> "bnel" [] k = \h16 -> "blezl"
    [] k = \h17 -> "bgtzl" [] k = \h20 -> "lb" [] k = \h21 -> "lh"
    [] k = \h22 -> "lwl" [] k = \h23 -> "lw" [] k = \h24 -> "lbu"
    [] k = \h25 -> "lhu" [] k = \h26 -> "lwr" [] k = \h28 -> "sb"
    [] k = \h29 -> "sh" [] k = \h2a -> "swl" [] k = \h2b -> "sw"
    [] k = \h2e -> "swr" [] k = \h31 -> "lwc1" [] k = \h35 -> "ldc1"
    [] k = \h39 -> "swc1" [] k = \h3d -> "sdc1" [] OTHER -> "none"

getInsn(w) ==
  LET type == getInsnType(w) IN
  CASE type = "rtype" -> getRType(w.funct)
    [] type = "special2" -> getSpecial2(w.funct)
    [] type = "special3" -> getSpecial3(w)
    [] type = "jtype" -> getJType(w.op)
    [] type = "cp0" -> getCoproc0(w.rs)
    [] type = "cp1" -> getCoproc1(w)
    [] type = "cp1x" -> getCoproc1x(w)
    [] type \in {"cp2", "ll", "sc"} -> "none"
    [] type = "itype" -> IF w.op = \h01 THEN getRegimm(w.rt)
                                        ELSE getIType(w.op)

(* Insn::canCompile is true unless a class says otherwise; the floating    *)
(* point base classes say no and all but fmovz and fmovn override them.    *)
canCompile(class) == class \notin {"monitor", "fmovz", "fmovn"}

(* The formats for which recDefines and recUses do not die.                *)
(* Mutant: mfc1 and mtc1 inherit the base class's check.                   *)
RecordsFormatsStrict(class, w) ==
  CASE class \in {"fadd", "fsub", "fmul", "fdiv", "fsqrt", "fmov", "fmovc", "c",
                  "fmovz", "fmovn", "truncw", "mfc1", "mtc1"} -> w.rs \in {FMT_S, FMT_D}
    [] class = "cvts" -> w.rs \in {FMT_D, FMT_W}
    [] class = "cvtd" -> w.rs \in {FMT_S, FMT_W}
    [] class \in {"fmadd", "fmsub"} -> c1xFmt(w) \in {0, 1}
    [] OTHER -> TRUE

RecordsFormats(class, w) ==
  CASE class \in {"fadd", "fsub", "fmul", "fdiv", "fsqrt", "fmov", "fmovc", "c",
                  "fmovz", "fmovn", "truncw"} -> w.rs \in {FMT_S, FMT_D}
    [] class = "cvts" -> w.rs \in {FMT_D, FMT_W}
    [] class = "cvtd" -> w.rs \in {FMT_S, FMT_W}
    [] class \in {"fmadd", "fmsub"} -> c1xFmt(w) \in {0, 1}
    [] OTHER -> TRUE

(* Classes that inherit Insn::generateIR, which dies; maddu's own exits.   *)
NoIR == {"monitor", "syscall", "break", "sync", "add", "sub", "addi", "maddu",
         "mfc0", "mtc0", "fmovz", "fmovn"}

FormatOf(class, w) ==
  CASE class \in {"fadd", "fsub", "fmul", "fdiv", "fsqrt", "fmov", "fmovc",
                  "truncw", "cvts", "cvtd"} -> w.rs
    [] class \in {"fmadd", "fmsub"} -> c1xFmt(w)
    [] OTHER -> 0

fcmpPredicate(k) ==
  CASE k = 2 -> "c.eq" [] k = 12 -> "c.lt" [] k = 14 -> "c.le"
    [] k = 7 -> "c.le" [] OTHER -> "none"

(* What the emitted code performs; teq and tge emit nothing at all.        *)
generateIR(class, w) ==
  CASE class \in NoIR -> None
    [] class \in {"teq", "tge"} -> <<"nothing", 0>>
    [] class = "c" -> IF fcmpPredicate(w.funct % 16) = "none" THEN None
                      ELSE <<fcmpPredicate(w.funct % 16), w.rs>>
    [] OTHER -> <<class, FormatOf(class, w)>>

-----------------------------------------------------------------------------
(* The journey of a word.                                                  *)

Skipped == <<"skipped", 0>>

DecodeInit ==
  /\ ipo \in BOOLEAN
  /\ word \in Encodings
  /\ stage = "recorded"
  /\ done = None
  /\ emitted = None

(* execMips, which has recorded the word with addIns.                      *)
Execute ==
  /\ stage = "recorded"
  /\ done' = execMips(word)
  /\ stage' = IF done' = None THEN "stopped" ELSE "traced"
  /\ UNCHANGED <<ipo, word, emitted>>

(* A branch-likely that is not taken records its delay slot and steps over *)
(* it.                                                                     *)
SkipSlot ==
  /\ stage = "recorded"
  /\ ~isBranchOrJump(word)
  /\ done' = Skipped
  /\ stage' = "traced"
  /\ UNCHANGED <<ipo, word, emitted>>

Filter ==
  /\ stage = "traced"
  /\ stage' = IF canCompileInstr(word) THEN "accepted" ELSE "interpreted"
  /\ UNCHANGED <<ipo, word, done, emitted>>

(* cfgBasicBlock's constructor wraps the word; buildCFG asks the object.   *)
Wrap ==
  /\ stage = "accepted"
  /\ LET class == getInsn(word) IN
     stage' = CASE class = "none" -> "exited"
                [] class # "none" /\ canCompile(class) -> "wrapped"
                [] class # "none" /\ ~canCompile(class) -> "interpreted"
  /\ UNCHANGED <<ipo, word, done, emitted>>

Record ==
  /\ stage = "wrapped"
  /\ stage' = IF RecordsFormats(getInsn(word), word) THEN "known" ELSE "died"
  /\ UNCHANGED <<ipo, word, done, emitted>>

Generate ==
  /\ stage = "known"
  /\ emitted' = generateIR(getInsn(word), word)
  /\ stage' = IF emitted' = None THEN "died" ELSE "compiled"
  /\ UNCHANGED <<ipo, word, done>>

DecodeNext == Execute \/ SkipSlot \/ Filter \/ Wrap \/ Record \/ Generate

DecodeSpec == DecodeInit /\ [][DecodeNext]_decodeVars

-----------------------------------------------------------------------------
(* The code a word compiles to performs the operation the interpreter      *)
(* performed, in the same format. teq is the one exception: the            *)
(* interpreter may trap, the code never does.                              *)
SameOperation ==
  stage = "compiled" /\ done # Skipped =>
    emitted = IF done = <<"teq", 0>> THEN <<"nothing", 0>> ELSE done

(* The translator stops the simulator (getInsn exits, recDefines, recUses  *)
(* or generateIR die) only over a word the interpreter cannot execute      *)
(* either, which was the delay slot of a branch-likely never taken, or     *)
(* over one of these: the trapping additions and maddu, which have no      *)
(* generateIR; two unordered comparisons; and a regimm branch the          *)
(* interpreter loops on for ever.                                          *)
TranslatorStops ==
  stage \in {"exited", "died"} =>
    \/ execMips(word) = None /\ done = Skipped
    \/ execMips(word)[1] \in {"add", "addi", "maddu", "stay"}
    \/ execMips(word)[1] = "c.eq" /\ word.funct % 16 \in {1, 3}

(* What acts on the simulator and not on the guest's registers and memory, *)
(* and what traps, never becomes code, executed or not: calls of the       *)
(* monitor, syscall, break, sync, tge, load-linked and its store, and the  *)
(* system coprocessors.                                                    *)
HostWordsInterpreted ==
  stage = "compiled" =>
    /\ getInsnType(word) \notin {"cp0", "cp2", "ll", "sc"}
    /\ getInsnType(word) = "rtype" =>
         getInsn(word) \notin {"monitor", "syscall", "break", "sync", "tge"}

(* isBranchOrJump, by which split and getTermAddr find delay slots, tells  *)
(* exactly the words whose handler ends the block after a delay slot.      *)
EndsTheBlock ==
  stage # "recorded" /\ done \notin {Skipped, None} =>
    (isBranchOrJump(word) <=>
       done[1] \in {"stay", "j", "jal", "jr", "jalr", "bc1f", "bc1t", "bc1fl", "bc1tl",
                    "bltz", "bgez", "bltzl", "bgezl", "beq", "bne", "blez", "bgtz",
                    "beql", "bnel", "blezl", "bgtzl"})

(* A word is left to the interpreter only when the translator has no code  *)
(* for it: the filter costs no speed it need not cost. tge has an empty    *)
(* translation, and jr and jalr wait for ipo.                              *)
FilterTight ==
  stage = "interpreted" =>
    LET class == getInsn(word) IN
    \/ class \in {"none", "tge"}
    \/ class \in {"jr", "jalr"} /\ ~ipo
    \/ ~RecordsFormats(class, word)
    \/ generateIR(class, word) = None

(* The compile filter lets through all the translator can do, and nothing  *)
(* that acts on the host.                                                  *)
FilterExact == HostWordsInterpreted /\ FilterTight
=============================================================================
