------------------------- MODULE InstructionProofs -------------------------
(***************************************************************************)
(* Single instructions, for every word, every width of a byte and every    *)
(* size of memory.                                                         *)
(***************************************************************************)
EXTENDS Decode, Unaligned, LoadStore, SequenceTheorems, TLAPS

-----------------------------------------------------------------------------
(***************************************************************************)
(* Decoding. What the properties say of a word on its way holds because of *)
(* how the switch statements relate, word by word: first these relations,  *)
(* then the invariant that remembers which switch the word has passed.     *)
(***************************************************************************)
Branches ==
  {"stay", "j", "jal", "jr", "jalr", "bc1f", "bc1t", "bc1fl", "bc1tl",
   "bltz", "bgez", "bltzl", "bgezl", "beq", "bne", "blez", "bgtz",
   "beql", "bnel", "blezl", "bgtzl"}

Untranslatable(w) ==
  \/ execMips(w) = None
  \/ execMips(w)[1] \in {"add", "addi", "maddu", "stay"}
  \/ execMips(w)[1] = "c.eq" /\ w.funct % 16 \in {1, 3}

SameOperationOf(w) ==
  LET class == getInsn(w) IN
  /\ canCompileInstr(w)
  /\ class # "none" /\ canCompile(class) /\ RecordsFormats(class, w)
  /\ generateIR(class, w) # None
  /\ execMips(w) # None
  => generateIR(class, w) = IF execMips(w) = <<"teq", 0>> THEN <<"nothing", 0>> ELSE execMips(w)

StopsOver(w) ==
  LET class == getInsn(w) IN
  /\ canCompileInstr(w)
  /\ \/ class = "none"
     \/ ~RecordsFormats(class, w)
     \/ generateIR(class, w) = None
  => Untranslatable(w)

HostWord(w) ==
  canCompileInstr(w) =>
    /\ getInsnType(w) \notin {"cp0", "cp2", "ll", "sc"}
    /\ getInsnType(w) = "rtype" =>
         getInsn(w) \notin {"monitor", "syscall", "break", "sync", "tge"}

BranchKnown(w) ==
  execMips(w) # None => (isBranchOrJump(w) <=> execMips(w)[1] \in Branches)

RejectedForGood(w) ==
  LET class == getInsn(w) IN
  ~canCompileInstr(w) \/ (class # "none" /\ ~canCompile(class)) =>
    \/ class \in {"none", "tge"}
    \/ class \in {"jr", "jalr"} /\ ~ipo
    \/ ~RecordsFormats(class, w)
    \/ generateIR(class, w) = None

Related(w) ==
  SameOperationOf(w) /\ StopsOver(w) /\ HostWord(w) /\ BranchKnown(w) /\ RejectedForGood(w)

(* Operations without a format.                                            *)
LEMMA NamedPairs ==
  ASSUME NEW name, NEW other
  PROVE  /\ Named(name)[1] = name
         /\ Named(name) = Named(other) <=> name = other
         /\ None = Named("none")
         /\ <<"teq", 0>> = Named("teq")
         /\ <<"nothing", 0>> = Named("nothing")
BY DEF Named, None

(* The translator has a class for every register-type operation the        *)
(* interpreter knows, and two more.                                        *)
LEMMA RTypeTables ==
  ASSUME NEW k \in 0 .. 63
  PROVE  IF getRType(k) \in {"sub", "tge"} THEN execRType(k) = "none"
         ELSE execRType(k) = getRType(k)
BY DEF getRType, execRType

LEMMA RTypeKinds ==
  ASSUME NEW k \in 0 .. 63
  PROVE  /\ getRType(k) \in {"jr", "jalr"} <=> k \in {\h08, \h09}
         /\ getRType(k) \in {"monitor", "syscall", "break", "sync", "tge"}
              <=> k \in {\h05, \h0c, \h0d, \h0f, \h30}
<1>1. getRType(k) \in {"jr", "jalr"} <=> k \in {\h08, \h09}
  BY DEF getRType
<1>2. getRType(k) \in {"monitor", "syscall", "break", "sync", "tge"}
        <=> k \in {\h05, \h0c, \h0d, \h0f, \h30}
  BY DEF getRType
<1> QED BY <1>1, <1>2

RTypeNames ==
  {"sll", "movci", "srl", "sra", "sllv", "monitor", "srlv", "srav", "jr", "jalr", "movn",
   "movz", "syscall", "sync", "break", "mfhi", "mthi", "mflo", "mtlo", "mult", "multu",
   "div", "divu", "add", "addu", "sub", "subu", "and", "or", "xor", "nor", "slt", "sltu",
   "tge", "teq", "none"}

LEMMA RTypeNamed ==
  ASSUME NEW k \in 0 .. 63
  PROVE  getRType(k) \in RTypeNames
BY DEF getRType, RTypeNames

(* What the translator makes of a class that has no format.                *)
LEMMA PlainIR ==
  ASSUME NEW class \in RTypeNames, NEW w
  PROVE  /\ RecordsFormats(class, w)
         /\ class \in NoIR => generateIR(class, w) = None
         /\ class \in {"teq", "tge"} => generateIR(class, w) = Named("nothing")
         /\ class \notin NoIR \cup {"teq", "tge"} => generateIR(class, w) = Named(class)
BY DEF RTypeNames, RecordsFormats, generateIR, FormatOf, NoIR, None, Named

LEMMA RTypeRelated ==
  ASSUME NEW w \in Word, w.op = \h00
  PROVE  Related(w)
<1> DEFINE k == w.funct
<1> DEFINE class == getRType(k)
<1> DEFINE name == execRType(k)
<1> DEFINE ir == generateIR(class, w)
<1>1. /\ getInsnType(w) = "rtype"
      /\ getInsn(w) = class
      /\ canCompileInstr(w) <=> canCompileRType(w)
      /\ execMips(w) = Named(name)
      /\ isBranchOrJump(w) <=> k \in {\h08, \h09}
  BY DEF getInsnType, getInsn, canCompileInstr, execMips, isBranchOrJump
<1>2. k \in 0 .. 63
  BY DEF Word
<1>3. class \in RTypeNames
  BY <1>2, RTypeNamed
<1>4. /\ IF class \in {"sub", "tge"} THEN name = "none" ELSE name = class
      /\ class \in {"jr", "jalr"} <=> k \in {\h08, \h09}
      /\ class \in {"monitor", "syscall", "break", "sync", "tge"}
              <=> k \in {\h05, \h0c, \h0d, \h0f, \h30}
  BY <1>2, RTypeTables, RTypeKinds
<1>5. /\ RecordsFormats(class, w)
      /\ class \in NoIR => ir = Named("none")
      /\ class \in {"teq", "tge"} => ir = Named("nothing")
      /\ class \notin NoIR \cup {"teq", "tge"} => ir = Named(class)
  BY <1>3, PlainIR, NamedPairs
<1>6. canCompileRType(w) <=> /\ k \notin {\h05, \h0c, \h0d, \h0f, \h30}
                             /\ k \in {\h08, \h09} => ipo
  BY DEF canCompileRType
<1>7. /\ Named(name)[1] = name
      /\ \A other : Named(name) = Named(other) <=> name = other
      /\ Named(class) = Named("none") <=> class = "none"
      /\ Named("nothing") # Named("none")
      /\ None = Named("none")
      /\ <<"teq", 0>> = Named("teq")
      /\ <<"nothing", 0>> = Named("nothing")
  BY NamedPairs
<1> HIDE DEF class, k, name, ir
<1>8. SameOperationOf(w)
  <2>1. getInsn(w) = class /\ generateIR(getInsn(w), w) = ir
    BY <1>1 DEF ir
  <2> SUFFICES ASSUME class # "none", ir # None, name # "none"
               PROVE  ir = IF name = "teq" THEN Named("nothing") ELSE Named(name)
    BY <1>1, <1>7, <2>1 DEF SameOperationOf
  <2> QED BY <1>4, <1>5, <1>7 DEF NoIR
<1>9. StopsOver(w)
  <2> SUFFICES ASSUME k \notin {\h05, \h0c, \h0d, \h0f, \h30}, class = "none" \/ ir = None
               PROVE  name \in {"none", "add"}
    BY <1>1, <1>5, <1>6, <1>7 DEF StopsOver, Untranslatable, ir
  <2>1. class \in NoIR \/ class = "none"
    BY <1>5, <1>7
  <2> QED BY <2>1, <1>3, <1>4 DEF RTypeNames, NoIR
<1>10. HostWord(w)
  BY <1>1, <1>4, <1>6 DEF HostWord
<1>11. BranchKnown(w)
  <2>1. class \in Branches <=> class \in {"jr", "jalr"}
    BY <1>3 DEF RTypeNames, Branches
  <2> QED BY <2>1, <1>1, <1>4, <1>7 DEF BranchKnown
<1>12. RejectedForGood(w)
  <2> SUFFICES ASSUME ~canCompileRType(w) \/ class = "monitor"
               PROVE  \/ class \in {"none", "tge"} \/ (class \in {"jr", "jalr"} /\ ~ipo)
                      \/ ir = None
    <3>1. ~canCompile(class) => class \notin RTypeNames \/ class = "monitor"
      BY DEF canCompile, RTypeNames
    <3> QED BY <1>1, <1>3, <3>1 DEF RejectedForGood, ir
  <2> QED BY <1>4, <1>5, <1>6, <1>7 DEF NoIR
<1> QED BY <1>8, <1>9, <1>10, <1>11, <1>12 DEF Related

(* Immediate operations, jumps and the two special tables: every class has *)
(* an interpreter's operation of its name, every word with a class passes  *)
(* the filter, and nothing has a format.                                   *)
PlainNames ==
  {"bltz", "bgez", "bltzl", "bgezl", "beq", "bne", "blez", "bgtz", "addi", "addiu", "slti",
   "sltiu", "andi", "ori", "xori", "lui", "beql", "bnel", "blezl", "bgtzl", "lb", "lh",
   "lwl", "lw", "lbu", "lhu", "lwr", "sb", "sh", "swl", "sw", "swr", "lwc1", "ldc1", "swc1",
   "sdc1", "j", "jal", "madd", "maddu", "mul", "msub", "clz", "seb", "seh", "ext", "ins",
   "bc1f", "bc1t", "bc1fl", "bc1tl", "mfc1", "mtc1", "none"}

LEMMA PlainClasses ==
  ASSUME NEW class \in PlainNames, NEW w
  PROVE  /\ RecordsFormats(class, w)
         /\ canCompile(class)
         /\ class \in NoIR => class \in {"addi", "maddu"} /\ generateIR(class, w) = None
         /\ class \notin NoIR => generateIR(class, w) = Named(class)
         /\ class \notin {"teq", "jr", "jalr", "tge", "c.eq", "stay"}
<1>1. RecordsFormats(class, w)
  BY DEF PlainNames, RecordsFormats
<1>2. canCompile(class) /\ class \notin {"teq", "jr", "jalr", "tge", "c.eq", "stay"}
  BY DEF PlainNames, canCompile
<1>3. class \in NoIR => class \in {"addi", "maddu"}
  BY DEF PlainNames, NoIR
<1>4. class \in NoIR => generateIR(class, w) = None
  BY DEF generateIR, NoIR
<1>5. class \notin NoIR => generateIR(class, w) = Named(class)
  BY DEF generateIR, FormatOf, Named, PlainNames
<1> QED BY <1>1, <1>2, <1>3, <1>4, <1>5

LEMMA PlainRelated ==
  ASSUME NEW w, NEW name,
         getInsn(w) \in PlainNames,
         getInsnType(w) \notin {"rtype", "cp0", "cp2", "ll", "sc"},
         execMips(w) = Named(name),
         name = getInsn(w) \/ (getInsn(w) = "none" /\ name = "stay"),
         canCompileInstr(w) <=> name # "none",
         isBranchOrJump(w) <=> name \in Branches
  PROVE  Related(w)
<1> DEFINE class == getInsn(w)
<1> DEFINE ir == generateIR(class, w)
<1>1. /\ RecordsFormats(class, w)
      /\ canCompile(class)
      /\ class \in NoIR => class \in {"addi", "maddu"} /\ ir = None
      /\ class \notin NoIR => ir = Named(class)
      /\ class \notin {"teq", "jr", "jalr", "tge", "c.eq", "stay"}
  BY PlainClasses
<1>2. /\ Named(name)[1] = name
      /\ \A other : Named(name) = Named(other) <=> name = other
      /\ Named(class) = Named("none") <=> class = "none"
      /\ None = Named("none")
      /\ <<"teq", 0>> = Named("teq")
  BY NamedPairs
<1>3. class = getInsn(w) /\ ir = generateIR(getInsn(w), w)
  OBVIOUS
<1> HIDE DEF class, ir
<1>4. SameOperationOf(w)
  <2> SUFFICES ASSUME class # "none", ir # None, name # "none"
               PROVE  name # "teq" /\ ir = Named(name)
    BY <1>2, <1>3 DEF SameOperationOf
  <2> QED BY <1>1, <1>3
<1>5. StopsOver(w)
  <2> SUFFICES ASSUME class = "none" \/ ir = None
               PROVE  name \in {"none", "addi", "maddu", "stay"}
    BY <1>1, <1>2, <1>3 DEF StopsOver, Untranslatable
  <2>1. CASE class = "none"
    BY <2>1, <1>3
  <2>2. CASE class # "none" /\ ir = None
    BY <2>2, <1>1, <1>2, <1>3
  <2> QED BY <2>1, <2>2
<1>6. HostWord(w)
  BY DEF HostWord
<1>7. BranchKnown(w)
  BY <1>2 DEF BranchKnown
<1>8. RejectedForGood(w)
  BY <1>1, <1>2, <1>3 DEF RejectedForGood
<1> QED BY <1>4, <1>5, <1>6, <1>7, <1>8 DEF Related

(* The translator's table of immediate operations is the interpreter's,    *)
(* and the filter's.                                                       *)
LEMMA ITypeTables ==
  ASSUME NEW k \in 0 .. 63
  PROVE  /\ getIType(k) = execIType(k)
         /\ getIType(k) \in PlainNames
         /\ getIType(k) # "none"
              <=> k \in {\h31, \h35, \h39, \h3d, \h2e} \cup \h04 .. \h0f
                         \cup \h14 .. \h17 \cup \h20 .. \h26 \cup \h28 .. \h2b
         /\ getIType(k) \in Branches <=> k \in \h04 .. \h07 \cup \h14 .. \h17
<1>1. getIType(k) = execIType(k)
  BY DEF getIType, execIType
<1>2. getIType(k) \in PlainNames
  BY DEF getIType, PlainNames
<1>3. getIType(k) # "none"
        <=> k \in {\h31, \h35, \h39, \h3d, \h2e} \cup \h04 .. \h0f
                   \cup \h14 .. \h17 \cup \h20 .. \h26 \cup \h28 .. \h2b
  BY DEF getIType
<1>4. getIType(k) \in Branches <=> k \in \h04 .. \h07 \cup \h14 .. \h17
  BY DEF getIType, Branches
<1> QED BY <1>1, <1>2, <1>3, <1>4

LEMMA ITypeRelated ==
  ASSUME NEW w \in Word,
         w.op \notin {\h00, \h02, \h03, \h10, \h11, \h12, \h13, \h1c, \h1f, \h30, \h38}
  PROVE  Related(w)
<1>1. w.op \in 0 .. 63 /\ w.rt \in 0 .. 31
  BY DEF Word
<1>2. getInsnType(w) = "itype"
  BY DEF getInsnType
<1>3. /\ canCompileInstr(w) <=> canCompileIType(w)
      /\ isBranchOrJump(w) <=> w.op \in {\h01} \cup \h04 .. \h07 \cup \h14 .. \h17
  BY <1>2 DEF canCompileInstr, isBranchOrJump
<1>4. CASE w.op = \h01
  <2> DEFINE name == CASE w.rt = 0 -> "bltz" [] w.rt = 1 -> "bgez" [] w.rt = 2 -> "bltzl"
                       [] w.rt = 3 -> "bgezl" [] OTHER -> "stay"
  <2>1. execMips(w) = bgez_bltz(w) /\ getInsn(w) = getRegimm(w.rt)
    BY <1>2, <1>4 DEF execMips, getInsn
  <2>2. bgez_bltz(w) = Named(name)
    BY DEF bgez_bltz
  <2>3. /\ getRegimm(w.rt) \in PlainNames
        /\ name = getRegimm(w.rt) \/ (getRegimm(w.rt) = "none" /\ name = "stay")
        /\ name \in Branches /\ name # "none"
    BY DEF getRegimm, PlainNames, Branches
  <2>4. canCompileInstr(w) /\ isBranchOrJump(w)
    BY <1>3, <1>4 DEF canCompileIType
  <2> HIDE DEF name
  <2> QED BY <1>2, <2>1, <2>2, <2>3, <2>4, PlainRelated
<1>5. CASE w.op # \h01
  <2>1. execMips(w) = Named(execIType(w.op)) /\ getInsn(w) = getIType(w.op)
    BY <1>2, <1>5 DEF execMips, getInsn
  <2>2. canCompileInstr(w) <=> getIType(w.op) # "none"
    BY <1>1, <1>3, <1>5, ITypeTables DEF canCompileIType
  <2>3. isBranchOrJump(w) <=> getIType(w.op) \in Branches
    BY <1>1, <1>3, <1>5, ITypeTables
  <2>4. getIType(w.op) = execIType(w.op) /\ getIType(w.op) \in PlainNames
    BY <1>1, ITypeTables
  <2> QED BY <1>2, <2>1, <2>2, <2>3, <2>4, PlainRelated
<1> QED BY <1>4, <1>5

LEMMA JTypeRelated ==
  ASSUME NEW w \in Word, w.op \in {\h02, \h03}
  PROVE  Related(w)
<1>1. getInsnType(w) = "jtype"
  BY DEF getInsnType
<1>2. /\ execMips(w) = Named(execJType(w.op))
      /\ getInsn(w) = getJType(w.op)
      /\ canCompileInstr(w) /\ isBranchOrJump(w)
  BY <1>1 DEF execMips, getInsn, canCompileInstr, isBranchOrJump, canCompileJType
<1>3. /\ getJType(w.op) = execJType(w.op) /\ getJType(w.op) \in PlainNames \cap Branches
      /\ getJType(w.op) # "none"
  BY DEF getJType, execJType, PlainNames, Branches
<1> QED BY <1>1, <1>2, <1>3, PlainRelated

LEMMA Special2Related ==
  ASSUME NEW w \in Word, w.op = \h1c
  PROVE  Related(w)
<1>1. getInsnType(w) = "special2"
  BY DEF getInsnType
<1>2. /\ execMips(w) = Named(execSpecial2(w.funct))
      /\ getInsn(w) = getSpecial2(w.funct)
      /\ canCompileInstr(w) <=> canCompileSpecial2(w)
      /\ ~isBranchOrJump(w)
  BY <1>1 DEF execMips, getInsn, canCompileInstr, isBranchOrJump
<1>3. /\ getSpecial2(w.funct) = execSpecial2(w.funct)
      /\ getSpecial2(w.funct) \in PlainNames \ Branches
      /\ getSpecial2(w.funct) # "none" <=> canCompileSpecial2(w)
  BY DEF getSpecial2, execSpecial2, canCompileSpecial2, PlainNames, Branches
<1> QED BY <1>1, <1>2, <1>3, PlainRelated

LEMMA Special3Related ==
  ASSUME NEW w \in Word, w.op = \h1f
  PROVE  Related(w)
<1>1. getInsnType(w) = "special3"
  BY DEF getInsnType
<1>2. /\ execMips(w) = execSpecial3(w)
      /\ getInsn(w) = getSpecial3(w)
      /\ canCompileInstr(w) <=> canCompileSpecial3(w)
      /\ ~isBranchOrJump(w)
  BY <1>1 DEF execMips, getInsn, canCompileInstr, isBranchOrJump
<1>3. execSpecial3(w) = Named(getSpecial3(w))
  BY DEF getSpecial3, execSpecial3, Named, None
<1>4. /\ getSpecial3(w) \in PlainNames \ Branches
      /\ getSpecial3(w) # "none" <=> canCompileSpecial3(w)
  BY DEF getSpecial3, canCompileSpecial3, PlainNames, Branches
<1> QED BY <1>1, <1>2, <1>3, <1>4, PlainRelated

(* What the filter rejects by its opcode has no translation.               *)
LEMMA SystemRelated ==
  ASSUME NEW w \in Word, w.op \in {\h10, \h12, \h30, \h38}
  PROVE  Related(w)
<1>1. getInsnType(w) \in {"cp0", "cp2", "ll", "sc"}
  BY DEF getInsnType
<1>2. ~canCompileInstr(w) /\ ~isBranchOrJump(w)
  BY <1>1 DEF canCompileInstr, isBranchOrJump
<1>3. getInsn(w) \in {"mfc0", "mtc0", "none"}
  BY <1>1 DEF getInsn, getCoproc0
<1>4. generateIR("mfc0", w) = None /\ generateIR("mtc0", w) = None
  BY DEF generateIR, NoIR
<1>5. \E name \in {"none", "mfc0", "mtc0", "lw", "sc"} : execMips(w) = Named(name)
  BY <1>1 DEF execMips, execCoproc0, Named, None
<1>6. execMips(w)[1] \notin Branches
  BY <1>5, NamedPairs DEF Branches
<1> QED BY <1>2, <1>3, <1>4, <1>6
        DEF Related, SameOperationOf, StopsOver, HostWord, BranchKnown, RejectedForGood

(* Multiply-and-add has the only operations with a format of its own.      *)
LEMMA Coproc1xRelated ==
  ASSUME NEW w \in Word, w.op = \h13
  PROVE  Related(w)
<1> DEFINE class == getCoproc1x(w)
<1> DEFINE fmt == c1xFmt(w)
<1>1. getInsnType(w) = "cp1x"
  BY DEF getInsnType
<1>2. /\ execMips(w) = execCoproc1x(w)
      /\ getInsn(w) = class
      /\ canCompileInstr(w) <=> canCompileCoproc1x(w)
      /\ ~isBranchOrJump(w)
  BY <1>1 DEF execMips, getInsn, canCompileInstr, isBranchOrJump
<1>3. /\ class \in {"none", "fmadd", "fmsub"}
      /\ class # "none" <=> canCompileCoproc1x(w)
  BY DEF getCoproc1x, canCompileCoproc1x
<1>4. class # "none" => /\ canCompile(class)
                        /\ RecordsFormats(class, w) <=> fmt \in {0, 1}
                        /\ generateIR(class, w) = <<class, fmt>>
  BY <1>3 DEF canCompile, RecordsFormats, generateIR, FormatOf, NoIR
<1>5. w.funct \in 0 .. 63
  BY DEF Word
<1>6. class # "none" => execCoproc1x(w) = IF fmt \in {0, 1} THEN <<class, fmt>> ELSE None
  BY <1>5 DEF execCoproc1x, getCoproc1x
<1>7. execMips(w)[1] \notin Branches
  <2>1. \E name \in {"lwxc1", "ldxc1", "fmadd", "fmsub", "none"}, f \in Int :
          execCoproc1x(w) = <<name, f>>
    BY <1>5 DEF execCoproc1x, None, c1xFmt
  <2> QED BY <2>1, <1>2 DEF Branches
<1> HIDE DEF class, fmt
<1>8. class # "none" => <<class, fmt>> # None /\ <<class, fmt>> # <<"teq", 0>>
  BY <1>3 DEF None
<1> QED BY <1>1, <1>2, <1>3, <1>4, <1>6, <1>7, <1>8
        DEF Related, SameOperationOf, StopsOver, HostWord, BranchKnown, RejectedForGood,
            Untranslatable

(* Floating-point arithmetic and conversions: what the translator emits is *)
(* what the interpreter does, whenever both know the format.               *)
FpNames ==
  {"fadd", "fsub", "fmul", "fdiv", "fsqrt", "fmov", "fmovc", "fmovz", "fmovn", "truncw",
   "cvts", "cvtd", "none"}

LEMMA FpTables ==
  ASSUME NEW k \in 0 .. 47
  PROVE  /\ getFpOp(k) \in FpNames
         /\ getFpOp(k) = "cvts" <=> k = \h20
         /\ getFpOp(k) = "cvtd" <=> k = \h21
         /\ getFpOp(k) = "truncw" <=> k = \h0d
         /\ getFpOp(k) \in {"fadd", "fsub", "fmul", "fdiv", "fsqrt", "fmov", "fmovc"}
              <=> k \in {\h00, \h01, \h02, \h03, \h04, \h06, \h11}
         /\ getFpOp(k) \notin {"none", "cvts", "cvtd"} => do_fp_op(k) = getFpOp(k)
         /\ do_fp_op(k) \notin Branches
<1>1. getFpOp(k) \in FpNames
  BY DEF getFpOp, FpNames
<1>2. getFpOp(k) = "cvts" <=> k = \h20
  BY DEF getFpOp
<1>3. getFpOp(k) = "cvtd" <=> k = \h21
  BY DEF getFpOp
<1>4. getFpOp(k) = "truncw" <=> k = \h0d
  BY DEF getFpOp
<1>5. getFpOp(k) \in {"fadd", "fsub", "fmul", "fdiv", "fsqrt", "fmov", "fmovc"}
        <=> k \in {\h00, \h01, \h02, \h03, \h04, \h06, \h11}
  BY DEF getFpOp
<1>6. getFpOp(k) \notin {"none", "cvts", "cvtd"} => do_fp_op(k) = getFpOp(k)
  BY DEF getFpOp, do_fp_op
<1>7. do_fp_op(k) \notin Branches
  BY DEF do_fp_op, Branches
<1> QED BY <1>1, <1>2, <1>3, <1>4, <1>5, <1>6, <1>7

(* The formats each of them has.                                           *)
FpFormats(class) ==
  CASE class = "cvts" -> {FMT_D, FMT_W}
    [] class = "cvtd" -> {FMT_S, FMT_W}
    [] OTHER -> {FMT_S, FMT_D}

LEMMA FpClasses ==
  ASSUME NEW class \in FpNames \ {"none"}, NEW w
  PROVE  /\ RecordsFormats(class, w) <=> w.rs \in FpFormats(class)
         /\ canCompile(class) <=> class \notin {"fmovz", "fmovn"}
         /\ generateIR(class, w) =
              IF class \in {"fmovz", "fmovn"} THEN None ELSE <<class, w.rs>>
<1>1. RecordsFormats(class, w) <=> w.rs \in FpFormats(class)
  BY DEF FpNames, RecordsFormats, FpFormats
<1>2. canCompile(class) <=> class \notin {"fmovz", "fmovn"}
  BY DEF FpNames, canCompile
<1>3. generateIR(class, w) =
        IF class \in {"fmovz", "fmovn"} THEN None ELSE <<class, w.rs>>
  BY DEF FpNames, generateIR, FormatOf, NoIR
<1> QED BY <1>1, <1>2, <1>3

LEMMA FpRelated ==
  ASSUME NEW w \in Word, w.op = \h11, w.rs # \h08, w.funct \div 16 # 3,
         ~(w.rs \in {\h00, \h04} /\ LowBitsZero(w))
  PROVE  Related(w)
<1> DEFINE k == w.funct
<1> DEFINE class == getFpOp(k)
<1> DEFINE good == w.rs \in FpFormats(class)
<1>1. getInsnType(w) = "cp1"
  BY DEF getInsnType
<1>2. k \in 0 .. 47
  BY DEF Word
<1>3. /\ execMips(w) = execCoproc1(w)
      /\ canCompileInstr(w) <=> canCompileCoproc1(w)
      /\ ~isBranchOrJump(w)
      /\ getInsn(w) = class
  BY <1>1 DEF execMips, getInsn, canCompileInstr, isBranchOrJump, getCoproc1
<1>4. /\ class \in FpNames
      /\ class = "cvts" <=> k = \h20
      /\ class = "cvtd" <=> k = \h21
      /\ class = "truncw" <=> k = \h0d
      /\ class \in {"fadd", "fsub", "fmul", "fdiv", "fsqrt", "fmov", "fmovc"}
           <=> k \in {\h00, \h01, \h02, \h03, \h04, \h06, \h11}
      /\ class \notin {"none", "cvts", "cvtd"} => do_fp_op(k) = class
      /\ do_fp_op(k) \notin Branches
  BY <1>2, FpTables
<1>5. class # "none" => /\ RecordsFormats(class, w) <=> good
                        /\ canCompile(class) <=> class \notin {"fmovz", "fmovn"}
                        /\ generateIR(class, w) =
                             IF class \in {"fmovz", "fmovn"} THEN None ELSE <<class, w.rs>>
  BY <1>4, FpClasses
<1>6. canCompileCoproc1(w)
        <=> \/ class \in {"cvts", "cvtd", "truncw"}
            \/ /\ class \in {"fadd", "fsub", "fmul", "fdiv", "fsqrt", "fmov", "fmovc"}
               /\ good
  <2>1. canCompileCoproc1(w) <=> \/ k \in {\h0d, \h20, \h21}
                                 \/ /\ k \in {\h00, \h01, \h02, \h03, \h04, \h06, \h11}
                                    /\ w.rs \in {FMT_S, FMT_D}
    BY DEF canCompileCoproc1
  <2>2. class \in {"fadd", "fsub", "fmul", "fdiv", "fsqrt", "fmov", "fmovc"}
          => FpFormats(class) = {FMT_S, FMT_D}
    BY DEF FpFormats
  <2> QED BY <2>1, <2>2, <1>4
<1>7. class # "none" => execCoproc1(w) = IF good THEN <<class, w.rs>> ELSE None
  <2>1. CASE class = "cvts"
    <3>1. execCoproc1(w) = Formatted("cvts", {FMT_D, FMT_W}, w)
      BY <2>1, <1>4 DEF execCoproc1, LowBitsZero, do_fp_op
    <3> QED BY <3>1, <2>1 DEF Formatted, FpFormats, None
  <2>2. CASE class = "cvtd"
    <3>1. execCoproc1(w) = Formatted("cvtd", {FMT_S, FMT_W}, w)
      BY <2>2, <1>4 DEF execCoproc1, LowBitsZero, do_fp_op
    <3> QED BY <3>1, <2>2 DEF Formatted, FpFormats, None
  <2>3. CASE class \notin {"none", "cvts", "cvtd"}
    <3>1. do_fp_op(k) = class /\ k \notin {\h20, \h21}
      BY <2>3, <1>4
    <3>2. execCoproc1(w) = Formatted(class, {FMT_S, FMT_D}, w)
      BY <3>1, <2>3 DEF execCoproc1
    <3>3. FpFormats(class) = {FMT_S, FMT_D}
      BY <2>3 DEF FpFormats
    <3> QED BY <3>2, <3>3 DEF Formatted, None
  <2> QED BY <2>1, <2>2, <2>3
<1>8. execMips(w)[1] \notin Branches
  <2>1. k \notin {\h20, \h21} /\ do_fp_op(k) # "none"
          => execCoproc1(w) = Formatted(do_fp_op(k), {FMT_S, FMT_D}, w)
    BY DEF execCoproc1
  <2>2. k \notin {\h20, \h21} /\ do_fp_op(k) = "none" => execCoproc1(w) = None
    BY DEF execCoproc1
  <2>3. class # "none" => execCoproc1(w) \in {<<class, w.rs>>, None}
    BY <1>7
  <2>4. None[1] \notin Branches /\ \A name, fmts : Formatted(name, fmts, w)[1] \in {name, "none"}
    BY DEF None, Branches, Formatted
  <2>5. class \notin Branches /\ "none" \notin Branches
    BY <1>4 DEF FpNames, Branches
  <2> QED BY <1>3, <1>4, <2>1, <2>2, <2>3, <2>4, <2>5
<1> HIDE DEF class, k, good
<1>9. class # "none" => <<class, w.rs>> # None /\ <<class, w.rs>> # <<"teq", 0>>
  BY <1>4 DEF None, FpNames
<1>10. SameOperationOf(w)
  BY <1>3, <1>5, <1>7, <1>9 DEF SameOperationOf
<1>11. StopsOver(w)
  BY <1>3, <1>5, <1>6, <1>7, <1>9 DEF StopsOver, Untranslatable
<1>12. HostWord(w)
  BY <1>1 DEF HostWord
<1>13. BranchKnown(w)
  BY <1>3, <1>8 DEF BranchKnown
<1>14. RejectedForGood(w)
  BY <1>3, <1>4, <1>5, <1>6 DEF RejectedForGood, FpNames
<1> QED BY <1>10, <1>11, <1>12, <1>13, <1>14 DEF Related

(* Comparisons. The translator has one predicate for each but the two      *)
(* unordered ones.                                                         *)
LEMMA CompareRelated ==
  ASSUME NEW w \in Word, w.op = \h11, w.rs # \h08, w.funct \div 16 = 3
  PROVE  Related(w)
<1> DEFINE k == w.funct % 16
<1>1. getInsnType(w) = "cp1"
  BY DEF getInsnType
<1>2. ~LowBitsZero(w) /\ w.funct \in 48 .. 63
  BY DEF Word, LowBitsZero
<1>3. do_fp_op(w.funct) = "none" /\ w.funct \notin {\h20, \h21}
  BY <1>2 DEF do_fp_op
<1>4. /\ execMips(w) = _c(w)
      /\ canCompileInstr(w)
      /\ ~isBranchOrJump(w)
      /\ getInsn(w) = "c"
  <2>1. execCoproc1(w) = _c(w)
    BY <1>2, <1>3 DEF execCoproc1
  <2> QED BY <2>1, <1>1, <1>2
          DEF execMips, getInsn, canCompileInstr, canCompileCoproc1, isBranchOrJump, getCoproc1
<1>5. /\ canCompile("c")
      /\ RecordsFormats("c", w) <=> w.rs \in {FMT_S, FMT_D}
      /\ generateIR("c", w) = IF fcmpPredicate(k) = "none" THEN None
                              ELSE <<fcmpPredicate(k), w.rs>>
  BY DEF canCompile, RecordsFormats, generateIR, NoIR
<1>6. /\ fcmpPredicate(k) \in {"c.eq", "c.lt", "c.le", "none"}
      /\ fcmpPredicate(k) # "none" => fpCmp(k) = fcmpPredicate(k)
      /\ fcmpPredicate(k) = "none" =>
           fpCmp(k) = "none" \/ (fpCmp(k) = "c.eq" /\ k \in {1, 3})
      /\ fpCmp(k) \in {"c.eq", "c.lt", "c.le", "none"}
  BY DEF fcmpPredicate, fpCmp
<1>7. _c(w) = IF fpCmp(k) # "none" /\ w.rs \in {FMT_S, FMT_D} THEN <<fpCmp(k), w.rs>>
              ELSE None
  BY DEF _c, Formatted, None
<1> HIDE DEF k
<1>8. \A name \in {"c.eq", "c.lt", "c.le"} :
        /\ <<name, w.rs>> # None
        /\ <<name, w.rs>> # <<"teq", 0>>
        /\ <<name, w.rs>>[1] = name
        /\ name \notin Branches
  BY DEF None, Branches
<1>9. SameOperationOf(w)
  BY <1>4, <1>5, <1>6, <1>7, <1>8 DEF SameOperationOf
<1>10. StopsOver(w)
  BY <1>4, <1>5, <1>6, <1>7, <1>8 DEF StopsOver, Untranslatable, k
<1>11. HostWord(w)
  BY <1>1 DEF HostWord
<1>12. BranchKnown(w)
  BY <1>4, <1>6, <1>7, <1>8 DEF BranchKnown
<1>13. RejectedForGood(w)
  BY <1>4, <1>5 DEF RejectedForGood
<1> QED BY <1>9, <1>10, <1>11, <1>12, <1>13 DEF Related

(* Branches on a condition and moves between the register files.           *)
LEMMA Coproc1Related ==
  ASSUME NEW w \in Word, w.op = \h11
  PROVE  Related(w)
<1>1. getInsnType(w) = "cp1"
  BY DEF getInsnType
<1>2. /\ execMips(w) = execCoproc1(w)
      /\ getInsn(w) = getCoproc1(w)
      /\ canCompileInstr(w) <=> canCompileCoproc1(w)
      /\ isBranchOrJump(w) <=> w.rs = \h08
  BY <1>1 DEF execMips, getInsn, canCompileInstr, isBranchOrJump
<1>3. CASE w.rs = \h08
  <2>1. w.rt % 4 \in 0 .. 3
    BY DEF Word
  <2>2. /\ getBc1(w.rt % 4) = bc1(w.rt % 4) /\ getBc1(w.rt % 4) # "none"
        /\ getBc1(w.rt % 4) \in PlainNames \cap Branches
    BY <2>1 DEF getBc1, bc1, PlainNames, Branches
  <2>3. getCoproc1(w) = getBc1(w.rt % 4) /\ execCoproc1(w) = Named(bc1(w.rt % 4))
    BY <1>3 DEF getCoproc1, execCoproc1, Named
  <2> QED BY <1>1, <1>2, <1>3, <2>2, <2>3, PlainRelated DEF canCompileCoproc1
<1>4. CASE w.rs = \h00 /\ LowBitsZero(w)
  <2>1. getCoproc1(w) = "mfc1" /\ execCoproc1(w) = Named("mfc1") /\ canCompileCoproc1(w)
    BY <1>4 DEF getCoproc1, execCoproc1, Named, canCompileCoproc1, LowBitsZero
  <2>2. "mfc1" \in PlainNames \ Branches
    BY DEF PlainNames, Branches
  <2> QED BY <1>1, <1>2, <1>4, <2>1, <2>2, PlainRelated
<1>5. CASE w.rs = \h04 /\ LowBitsZero(w)
  <2>1. getCoproc1(w) = "mtc1" /\ execCoproc1(w) = Named("mtc1") /\ canCompileCoproc1(w)
    BY <1>5 DEF getCoproc1, execCoproc1, Named, canCompileCoproc1, LowBitsZero
  <2>2. "mtc1" \in PlainNames \ Branches
    BY DEF PlainNames, Branches
  <2> QED BY <1>1, <1>2, <1>5, <2>1, <2>2, PlainRelated
<1>6. CASE w.rs # \h08 /\ w.funct \div 16 = 3
  BY <1>6, CompareRelated
<1>7. CASE w.rs # \h08 /\ w.funct \div 16 # 3 /\ ~(w.rs \in {\h00, \h04} /\ LowBitsZero(w))
  BY <1>7, FpRelated
<1> QED BY <1>3, <1>4, <1>5, <1>6, <1>7

LEMMA AllRelated ==
  ASSUME NEW w \in Word
  PROVE  Related(w)
BY RTypeRelated, ITypeRelated, JTypeRelated, Special2Related, Special3Related, SystemRelated,
   Coproc1Related, Coproc1xRelated

(* Which of the switches a word has passed.                                *)
DecodeStages ==
  {"recorded", "stopped", "traced", "accepted", "interpreted", "wrapped", "exited",
   "known", "died", "compiled"}

DecodeInv ==
  LET class == getInsn(word) IN
  /\ word \in Word
  /\ stage \in DecodeStages
  /\ stage = "stopped" => done = None
  /\ stage \notin {"recorded", "stopped"} =>
       done = Skipped \/ (done = execMips(word) /\ done # None)
  /\ stage \in {"accepted", "wrapped", "known", "compiled", "exited", "died"} =>
       canCompileInstr(word)
  /\ stage \in {"wrapped", "known", "compiled"} => class # "none" /\ canCompile(class)
  /\ stage \in {"known", "compiled"} => RecordsFormats(class, word)
  /\ stage = "interpreted" =>
       ~canCompileInstr(word) \/ (class # "none" /\ ~canCompile(class))
  /\ stage = "exited" => class = "none"
  /\ stage = "died" => ~RecordsFormats(class, word) \/ generateIR(class, word) = None
  /\ stage = "compiled" => emitted = generateIR(class, word) /\ emitted # None

LEMMA DecodeInvInit == DecodeInit => DecodeInv
BY EncodingsAreWords DEF DecodeInit, DecodeInv, DecodeStages

LEMMA DecodeInvStep == DecodeInv /\ [DecodeNext]_decodeVars => DecodeInv'
<1> SUFFICES ASSUME DecodeInv, [DecodeNext]_decodeVars
             PROVE  DecodeInv'
  OBVIOUS
<1> DEFINE class == getInsn(word)
<1>1. ASSUME UNCHANGED <<ipo, word>>
      PROVE  /\ canCompileInstr(word)' <=> canCompileInstr(word)
             /\ class' = class
             /\ RecordsFormats(class, word)' <=> RecordsFormats(class, word)
             /\ generateIR(class, word)' = generateIR(class, word)
             /\ canCompile(class)' <=> canCompile(class)
             /\ execMips(word)' = execMips(word)
  <2>1. canCompileInstr(word)' <=> canCompileInstr(word)
    BY <1>1 DEF canCompileInstr, canCompileRType
  <2> QED BY <1>1, <2>1
<1>2. CASE Execute
  BY <1>2 DEF Execute, DecodeInv, DecodeStages
<1>3. CASE SkipSlot
  BY <1>3 DEF SkipSlot, DecodeInv, DecodeStages
<1>4. CASE Filter
  BY <1>4, <1>1 DEF Filter, DecodeInv, DecodeStages
<1>5. CASE Wrap
  BY <1>5, <1>1 DEF Wrap, DecodeInv, DecodeStages
<1>6. CASE Record
  BY <1>6, <1>1 DEF Record, DecodeInv, DecodeStages
<1>7. CASE Generate
  BY <1>7, <1>1 DEF Generate, DecodeInv, DecodeStages
<1>8. CASE UNCHANGED decodeVars
  BY <1>8, <1>1 DEF decodeVars, DecodeInv
<1> QED BY <1>2, <1>3, <1>4, <1>5, <1>6, <1>7, <1>8 DEF DecodeNext

LEMMA DecodeInvariant == DecodeSpec => []DecodeInv
BY DecodeInvInit, DecodeInvStep, PTL DEF DecodeSpec

(* Compiled code performs the operation the interpreter performed on the   *)
(* word, in the same format, whatever the word.                            *)
THEOREM CodeDoesTheSame == DecodeSpec => []SameOperation
<1>1. DecodeInv => SameOperation
  <2> SUFFICES ASSUME DecodeInv, stage = "compiled", done # Skipped
               PROVE  emitted = IF done = <<"teq", 0>> THEN <<"nothing", 0>> ELSE done
    BY DEF SameOperation
  <2>1. /\ word \in Word
        /\ done = execMips(word) /\ done # None
        /\ canCompileInstr(word)
        /\ getInsn(word) # "none" /\ canCompile(getInsn(word))
        /\ RecordsFormats(getInsn(word), word)
        /\ emitted = generateIR(getInsn(word), word) /\ emitted # None
    BY DEF DecodeInv
  <2>2. SameOperationOf(word)
    BY <2>1, AllRelated DEF Related
  <2> QED BY <2>1, <2>2 DEF SameOperationOf
<1> QED BY <1>1, DecodeInvariant, PTL

(* The translator stops the simulator only over a word that was never      *)
(* executed and could not have been, or over one of those listed.          *)
THEOREM StopsWhereListed == DecodeSpec => []TranslatorStops
<1>1. DecodeInv => TranslatorStops
  <2> SUFFICES ASSUME DecodeInv, stage \in {"exited", "died"}
               PROVE  \/ execMips(word) = None /\ done = Skipped
                      \/ execMips(word)[1] \in {"add", "addi", "maddu", "stay"}
                      \/ execMips(word)[1] = "c.eq" /\ word.funct % 16 \in {1, 3}
    BY DEF TranslatorStops
  <2>1. /\ word \in Word
        /\ canCompileInstr(word)
        /\ done = Skipped \/ (done = execMips(word) /\ done # None)
        /\ \/ getInsn(word) = "none"
           \/ ~RecordsFormats(getInsn(word), word)
           \/ generateIR(getInsn(word), word) = None
    BY DEF DecodeInv
  <2>2. StopsOver(word)
    BY <2>1, AllRelated DEF Related
  <2> QED BY <2>1, <2>2 DEF StopsOver, Untranslatable
<1> QED BY <1>1, DecodeInvariant, PTL

(* A word executed has a delay slot, and ends its block, exactly when      *)
(* isBranchOrJump says so.                                                 *)
THEOREM DelaySlotsAreFound == DecodeSpec => []EndsTheBlock
<1>1. DecodeInv => EndsTheBlock
  <2> SUFFICES ASSUME DecodeInv, stage # "recorded", done \notin {Skipped, None}
               PROVE  isBranchOrJump(word) <=> done[1] \in Branches
    BY DEF EndsTheBlock, Branches
  <2>1. word \in Word /\ done = execMips(word)
    BY DEF DecodeInv
  <2>2. BranchKnown(word)
    BY <2>1, AllRelated DEF Related
  <2> QED BY <2>1, <2>2 DEF BranchKnown
<1> QED BY <1>1, DecodeInvariant, PTL

(* No word that acts on the host is ever compiled, and none is left to the *)
(* interpreter that the translator could have taken.                       *)
THEOREM FilterIsExact == DecodeSpec => []FilterExact
<1>1. DecodeInv => HostWordsInterpreted
  <2> SUFFICES ASSUME DecodeInv, stage = "compiled"
               PROVE  /\ getInsnType(word) \notin {"cp0", "cp2", "ll", "sc"}
                      /\ getInsnType(word) = "rtype" =>
                           getInsn(word) \notin {"monitor", "syscall", "break", "sync", "tge"}
    BY DEF HostWordsInterpreted
  <2>1. HostWord(word) /\ canCompileInstr(word)
    BY AllRelated DEF DecodeInv, Related
  <2> QED BY <2>1 DEF HostWord
<1>2. DecodeInv => FilterTight
  <2> SUFFICES ASSUME DecodeInv, stage = "interpreted"
               PROVE  \/ getInsn(word) \in {"none", "tge"}
                      \/ getInsn(word) \in {"jr", "jalr"} /\ ~ipo
                      \/ ~RecordsFormats(getInsn(word), word)
                      \/ generateIR(getInsn(word), word) = None
    BY DEF FilterTight
  <2>1. /\ RejectedForGood(word)
        /\ ~canCompileInstr(word) \/ (getInsn(word) # "none" /\ ~canCompile(getInsn(word)))
    BY AllRelated DEF DecodeInv, Related
  <2> QED BY <2>1 DEF RejectedForGood
<1> QED BY <1>1, <1>2, DecodeInvariant, PTL DEF FilterExact

-----------------------------------------------------------------------------
(***************************************************************************)
(* Loads and stores. A host value is a function on 1 .. n; what the        *)
(* operators on sequences make of it is said pointwise, and the steps      *)
(* compared byte by byte.                                                  *)
(***************************************************************************)
IsBytes(v, n) == v = [i \in 1 .. n |-> v[i]]

LEMMA BytesAreSeq ==
  ASSUME NEW n \in Nat, NEW v, IsBytes(v, n)
  PROVE  \E S : v \in Seq(S) /\ Len(v) = n /\ \A i \in 1 .. n : v[i] \in S
<1> DEFINE S == {v[i] : i \in 1 .. n}
<1>1. v \in [1 .. n -> S]
  BY DEF IsBytes
<1>2. v \in Seq(S) /\ Len(v) = n
  BY <1>1
<1>3. \A i \in 1 .. n : v[i] \in S
  OBVIOUS
<1> QED BY <1>2, <1>3

LEMMA BytesReverse ==
  ASSUME NEW n \in Nat, NEW v, IsBytes(v, n)
  PROVE  /\ Len(v) = n
         /\ Reverse(v) = [i \in 1 .. n |-> v[n - i + 1]]
         /\ IsBytes(Reverse(v), n)
         /\ Len(Reverse(v)) = n
<1>1. Len(v) = n
  BY BytesAreSeq
<1>2. Reverse(v) = [i \in 1 .. n |-> v[n - i + 1]]
  BY <1>1 DEF Reverse
<1>3. IsBytes(Reverse(v), n)
  BY <1>2 DEF IsBytes
<1>4. Len(Reverse(v)) = n
  BY <1>3, BytesAreSeq
<1> QED BY <1>1, <1>2, <1>3, <1>4

Cat(v, w) == v \o w

LEMMA BytesConcat ==
  ASSUME NEW m \in Nat, NEW n \in Nat, NEW v, NEW w, IsBytes(v, m), IsBytes(w, n)
  PROVE  /\ IsBytes(Cat(v, w), m + n)
         /\ \A i \in 1 .. m : Cat(v, w)[i] = v[i]
         /\ \A i \in m + 1 .. m + n : Cat(v, w)[i] = w[i - m]
<1>1. Len(v) = m /\ Len(w) = n
  BY BytesReverse
<1> DEFINE S == {v[i] : i \in 1 .. m} \cup {w[i] : i \in 1 .. n}
<1>2. v \in [1 .. m -> S] /\ w \in [1 .. n -> S]
  BY DEF IsBytes
<1> HIDE DEF S
<1>3. v \in Seq(S) /\ w \in Seq(S)
  BY ONLY <1>2, m \in Nat, n \in Nat
<1>4. v \o w \in Seq(S) /\ Len(v \o w) = m + n
  BY <1>1, <1>3
<1>5. v \o w \in [1 .. m + n -> S]
  BY <1>4, LenProperties
<1>6. /\ \A i \in 1 .. m : (v \o w)[i] = v[i]
      /\ \A i \in m + 1 .. m + n : (v \o w)[i] = w[i - m]
  BY <1>1, <1>3
<1>7. IsBytes(v \o w, m + n)
  BY <1>5 DEF IsBytes
<1> QED BY <1>6, <1>7 DEF Cat

LEMMA SameBytes ==
  ASSUME NEW n \in Nat, NEW v, NEW w, IsBytes(v, n), IsBytes(w, n),
         \A i \in 1 .. n : v[i] = w[i]
  PROVE  v = w
BY DEF IsBytes

LEMMA BytesSub ==
  ASSUME NEW n \in Nat, NEW v, IsBytes(v, n), NEW j \in 1 .. n, NEW k \in j .. n
  PROVE  SubSeq(v, j, k) = [i \in 1 .. k - j + 1 |-> v[j + i - 1]]
<1> PICK S : v \in Seq(S) /\ Len(v) = n
  BY BytesAreSeq
<1> QED OBVIOUS

-----------------------------------------------------------------------------
LoadStoreInv ==
  /\ isMipsEL \in BOOLEAN
  /\ IsBytes(gpr, 4)
  /\ cpr1 = [r \in {0, 1} |-> cpr1[r]]
  /\ IsBytes(cpr1[0], 4) /\ IsBytes(cpr1[1], 4)
  /\ DOMAIN bytes = 0 .. MemBytes - 1

(* What the host has loaded, swapped, is the guest's value from the other  *)
(* end.                                                                    *)
LEMMA SwappedLoad ==
  ASSUME LoadStoreInv, NEW n \in 1 .. 8, NEW a \in Nat
  PROVE  /\ bswap(HostLoad(a, n)) = [i \in 1 .. n |-> GuestView!Value(a, n)[n - i + 1]]
         /\ IsBytes(bswap(HostLoad(a, n)), n)
         /\ IsBytes(GuestView!Value(a, n), n)
         /\ Reverse(bswap(HostLoad(a, n))) = GuestView!Value(a, n)
<1> DEFINE h == HostLoad(a, n)
<1> DEFINE x == GuestView!Value(a, n)
<1>1. h = [i \in 1 .. n |-> bytes[a + i - 1]] /\ IsBytes(h, n)
  BY DEF HostLoad, IsBytes
<1>3. x = [i \in 1 .. n |-> bytes[IF ~isMipsEL THEN a + i - 1 ELSE a + n - i]] /\ IsBytes(x, n)
  BY DEF GuestView!Value, GuestView!ByteAt, IsBytes
<1> HIDE DEF h, x
<1>2. Reverse(h) = [i \in 1 .. n |-> h[n - i + 1]]
  <2>1. n \in Nat /\ IsBytes(h, n)
    BY <1>1
  <2> QED BY ONLY <2>1, BytesReverse
<1>4. bswap(h) = [i \in 1 .. n |-> x[n - i + 1]]
  <2>1. CASE isMipsEL
    <3>1. \A i \in 1 .. n : h[i] = x[n - i + 1]
      BY <2>1, <1>1, <1>3
    <3> QED BY <2>1, <3>1, <1>1 DEF bswap
  <2>2. CASE ~isMipsEL
    <3>1. \A i \in 1 .. n : h[n - i + 1] = x[n - i + 1]
      BY <2>2, <1>1, <1>3
    <3> QED BY <2>2, <3>1, <1>2 DEF bswap
  <2> QED BY <2>1, <2>2
<1>5. IsBytes(bswap(h), n)
  BY <1>4 DEF IsBytes
<1>6. Reverse(bswap(h)) = x
  <2>1. Reverse(bswap(h)) = [i \in 1 .. n |-> bswap(h)[n - i + 1]]
    BY <1>5, BytesReverse
  <2>2. \A i \in 1 .. n : bswap(h)[n - i + 1] = x[i]
    BY <1>4
  <2> QED BY <2>1, <2>2, <1>3
<1> QED BY <1>3, <1>4, <1>5, <1>6 DEF h, x

(* What the host stores, swapped, is what the guest writes.                *)
LEMMA SwappedStore ==
  ASSUME LoadStoreInv, NEW n \in 1 .. 8, NEW a \in Nat, NEW v, IsBytes(v, n)
  PROVE  HostStore(a, bswap(v)) = GuestView!Written(a, Reverse(v))
<1> DEFINE x == Reverse(v)
<1> DEFINE at(i) == IF ~isMipsEL THEN a + i - 1 ELSE a + n - i
<1>1. /\ Len(v) = n /\ Len(x) = n
      /\ x = [i \in 1 .. n |-> v[n - i + 1]]
  BY BytesReverse
<1>2. GuestView!Written(a, x) =
        [b \in DOMAIN bytes |->
           IF \E i \in 1 .. n : at(i) = b THEN x[CHOOSE i \in 1 .. n : at(i) = b] ELSE bytes[b]]
  BY <1>1 DEF GuestView!Written, GuestView!ByteAt
<1>3. Len(bswap(v)) = n
  BY <1>1 DEF bswap
<1>4. HostStore(a, bswap(v)) =
        [b \in DOMAIN bytes |-> IF b \in a .. a + n - 1 THEN bswap(v)[b - a + 1] ELSE bytes[b]]
  BY <1>3 DEF HostStore
<1>5. ASSUME NEW b \in DOMAIN bytes
      PROVE  IF b \in a .. a + n - 1
             THEN /\ \E i \in 1 .. n : at(i) = b
                  /\ x[CHOOSE i \in 1 .. n : at(i) = b] = bswap(v)[b - a + 1]
             ELSE ~ \E i \in 1 .. n : at(i) = b
  <2>1. b \in Int
    BY DEF LoadStoreInv
  <2>2. CASE b \notin a .. a + n - 1
    BY <2>1, <2>2
  <2>3. CASE b \in a .. a + n - 1
    <3> DEFINE j == IF isMipsEL THEN a + n - b ELSE b - a + 1
    <3>1. j \in 1 .. n /\ at(j) = b /\ \A i \in 1 .. n : at(i) = b => i = j
      BY <2>1, <2>3
    <3>2. (CHOOSE i \in 1 .. n : at(i) = b) = j
      BY <3>1
    <3>3. x[j] = bswap(v)[b - a + 1]
      <4>1. CASE isMipsEL
        <5>1. n - j + 1 = b - a + 1 /\ j \in 1 .. n
          BY <4>1, <2>1, <2>3
        <5>2. x[j] = v[n - j + 1]
          BY <5>1, <1>1
        <5> QED BY <4>1, <5>1, <5>2 DEF bswap
      <4>2. CASE ~isMipsEL
        BY <4>2, <2>1, <2>3, <1>1 DEF bswap
      <4> QED BY <4>1, <4>2
    <3> QED BY <2>3, <3>1, <3>2, <3>3
  <2> QED BY <2>2, <2>3
<1> HIDE DEF x, at
<1> QED BY <1>2, <1>4, <1>5 DEF x

(* Filling up a host value on the right is filling up the guest's on the   *)
(* left.                                                                   *)
Fill(n, f) == [i \in 1 .. 4 - n |-> f]

LEMMA FillBytes ==
  ASSUME NEW n \in 1 .. 4, NEW f
  PROVE  /\ 4 - n \in Nat
         /\ IsBytes(Fill(n, f), 4 - n)
         /\ \A i \in 1 .. 4 - n : Fill(n, f)[i] = f
BY DEF Fill, IsBytes

LEMMA FillRight ==
  ASSUME NEW n \in 1 .. 4, NEW v, IsBytes(v, n), NEW f
  PROVE  /\ IsBytes(Cat(v, Fill(n, f)), 4)
         /\ \A i \in 1 .. 4 : Cat(v, Fill(n, f))[i] = IF i <= n THEN v[i] ELSE f
<1> PICK w : w = Fill(n, f)
  OBVIOUS
<1> PICK k \in Nat : k = 4 - n
  OBVIOUS
<1> PICK x : x = Cat(v, w)
  OBVIOUS
<1>1. IsBytes(w, k) /\ \A i \in 1 .. k : w[i] = f
  BY FillBytes
<1>2. n \in Nat
  OBVIOUS
<1>3. /\ IsBytes(x, n + k)
      /\ \A i \in 1 .. n : x[i] = v[i]
      /\ \A i \in n + 1 .. n + k : x[i] = w[i - n]
  BY <1>1, <1>2, BytesConcat
<1>4. n + k = 4
  OBVIOUS
<1>5. ASSUME NEW i \in 1 .. 4
      PROVE  x[i] = IF i <= n THEN v[i] ELSE f
  <2>1. CASE i <= n
    BY <2>1, <1>3
  <2>2. CASE i > n
    <3>1. i \in n + 1 .. n + k /\ i - n \in 1 .. k
      BY <2>2, <1>4
    <3> QED BY <2>2, <3>1, <1>1, <1>3
  <2> QED BY <2>1, <2>2
<1> QED BY <1>3, <1>4, <1>5

LEMMA FillLeft ==
  ASSUME NEW n \in 1 .. 4, NEW r, IsBytes(r, n), NEW f
  PROVE  /\ IsBytes(Cat(Fill(n, f), r), 4)
         /\ \A i \in 1 .. 4 :
              Cat(Fill(n, f), r)[i] = IF i <= 4 - n THEN f ELSE r[i - (4 - n)]
<1> PICK w : w = Fill(n, f)
  OBVIOUS
<1> PICK k \in Nat : k = 4 - n
  OBVIOUS
<1> PICK x : x = Cat(w, r)
  OBVIOUS
<1>1. IsBytes(w, k) /\ \A i \in 1 .. k : w[i] = f
  BY FillBytes
<1>2. n \in Nat
  OBVIOUS
<1>3. /\ IsBytes(x, k + n)
      /\ \A i \in 1 .. k : x[i] = w[i]
      /\ \A i \in k + 1 .. k + n : x[i] = r[i - k]
  BY <1>1, <1>2, BytesConcat
<1>4. k + n = 4
  OBVIOUS
<1>5. ASSUME NEW i \in 1 .. 4
      PROVE  x[i] = IF i <= k THEN f ELSE r[i - k]
  <2>1. CASE i <= k
    BY <2>1, <1>1, <1>3
  <2>2. CASE i > k
    <3>1. i \in k + 1 .. k + n
      BY <2>2, <1>4
    <3> QED BY <2>2, <3>1, <1>3
  <2> QED BY <2>1, <2>2
<1> QED BY <1>3, <1>4, <1>5

LEMMA Filled ==
  ASSUME NEW n \in 1 .. 4, NEW v, IsBytes(v, n), NEW f
  PROVE  /\ IsBytes(Cat(v, Fill(n, f)), 4)
         /\ Reverse(Cat(v, Fill(n, f))) = Cat(Fill(n, f), Reverse(v))
         /\ n = 4 => Cat(v, Fill(n, f)) = v
<1> PICK r : r = Reverse(v)
  OBVIOUS
<1> PICK x : x = Cat(v, Fill(n, f))
  OBVIOUS
<1> PICK y : y = Cat(Fill(n, f), r)
  OBVIOUS
<1>1. n \in Nat /\ 4 \in Nat
  OBVIOUS
<1>2. r = [i \in 1 .. n |-> v[n - i + 1]] /\ IsBytes(r, n)
  BY <1>1, BytesReverse
<1>3. IsBytes(x, 4) /\ \A i \in 1 .. 4 : x[i] = IF i <= n THEN v[i] ELSE f
  BY FillRight
<1>4. IsBytes(y, 4) /\ \A i \in 1 .. 4 : y[i] = IF i <= 4 - n THEN f ELSE r[i - (4 - n)]
  BY <1>2, FillLeft
<1>5. Reverse(x) = [i \in 1 .. 4 |-> x[4 - i + 1]] /\ IsBytes(Reverse(x), 4)
  <2>1. IsBytes(x, 4)
    BY <1>3
  <2> QED BY ONLY <1>1, <2>1, BytesReverse
<1>6. ASSUME NEW i \in 1 .. 4
      PROVE  Reverse(x)[i] = y[i]
  <2>1. Reverse(x)[i] = x[5 - i] /\ 5 - i \in 1 .. 4
    BY <1>5
  <2>2. CASE i <= 4 - n
    BY <2>1, <2>2, <1>3, <1>4
  <2>3. CASE i > 4 - n
    <3>1. x[5 - i] = v[5 - i]
      BY <2>1, <2>3, <1>3
    <3>2. i - (4 - n) \in 1 .. n /\ n - (i - (4 - n)) + 1 = 5 - i
      BY <2>3
    <3> QED BY <2>1, <2>3, <3>1, <3>2, <1>2, <1>4
  <2> QED BY <2>2, <2>3
<1>7. Reverse(x) = y
  BY <1>1, <1>4, <1>5, <1>6, SameBytes
<1>8. ASSUME n = 4
      PROVE  x = v
  BY <1>1, <1>3, <1>8, SameBytes
<1> QED BY <1>3, <1>7, <1>8

(* Narrow loads extend alike.                                              *)
LEMMA LoadExtends ==
  ASSUME LoadStoreInv, NEW n \in {1, 2, 4}, NEW a \in Nat
  PROVE  LET v == bswap(HostLoad(a, n))
             x == GuestView!Value(a, n)
         IN /\ IsBytes(SExt(v), 4) /\ Reverse(SExt(v)) = GuestView!Extended(x, TRUE)
            /\ IsBytes(ZExt(v), 4) /\ Reverse(ZExt(v)) = GuestView!Extended(x, FALSE)
            /\ n = 4 => SExt(v) = v
            /\ n = 1 => v = HostLoad(a, 1)
<1> PICK v : v = bswap(HostLoad(a, n))
  OBVIOUS
<1> PICK x : x = GuestView!Value(a, n)
  OBVIOUS
<1>1. /\ v = [i \in 1 .. n |-> x[n - i + 1]]
      /\ IsBytes(v, n) /\ IsBytes(x, n) /\ Reverse(v) = x
  <2>1. n \in 1 .. 8
    OBVIOUS
  <2> QED BY <2>1, SwappedLoad
<1>2. n \in Nat /\ n \in 1 .. 4
  OBVIOUS
<1>3. n = 1 => v = HostLoad(a, 1)
  <2> SUFFICES ASSUME n = 1
               PROVE  v = HostLoad(a, 1)
    OBVIOUS
  <2>1. IsBytes(HostLoad(a, 1), 1)
    BY DEF IsBytes, HostLoad
  <2>2. 1 \in Nat
    OBVIOUS
  <2>3. Reverse(HostLoad(a, 1)) = [i \in 1 .. 1 |-> HostLoad(a, 1)[1 - i + 1]]
    BY ONLY <2>1, <2>2, BytesReverse
  <2>4. \A i \in 1 .. 1 : HostLoad(a, 1)[1 - i + 1] = HostLoad(a, 1)[i]
    OBVIOUS
  <2>5. Reverse(HostLoad(a, 1)) = HostLoad(a, 1)
    BY <2>1, <2>3, <2>4 DEF IsBytes
  <2> QED BY <2>5 DEF bswap
<1>4. Len(v) = n /\ Len(x) = n
  BY ONLY <1>1, <1>2, BytesReverse
<1>5. v[n] = x[1]
  BY <1>1, <1>2
<1>6. SExt(v) = Cat(v, Fill(n, Sign(x[1]))) /\ ZExt(v) = Cat(v, Fill(n, Zero))
  BY <1>4, <1>5 DEF SExt, ZExt, Fill, Cat
<1>7. /\ GuestView!Extended(x, TRUE) = Cat(Fill(n, Sign(x[1])), x)
      /\ GuestView!Extended(x, FALSE) = Cat(Fill(n, Zero), x)
  BY <1>4 DEF GuestView!Extended, Fill, Cat
<1>9. ASSUME NEW f
      PROVE  /\ IsBytes(Cat(v, Fill(n, f)), 4)
             /\ Reverse(Cat(v, Fill(n, f))) = Cat(Fill(n, f), Reverse(v))
             /\ n = 4 => Cat(v, Fill(n, f)) = v
  BY <1>1, <1>2, Filled
<1>10. IsBytes(SExt(v), 4) /\ Reverse(SExt(v)) = GuestView!Extended(x, TRUE)
       /\ (n = 4 => SExt(v) = v)
  BY <1>1, <1>6, <1>7, <1>9
<1>11. IsBytes(ZExt(v), 4) /\ Reverse(ZExt(v)) = GuestView!Extended(x, FALSE)
  BY <1>1, <1>6, <1>7, <1>9
<1> QED BY <1>3, <1>10, <1>11

(* The low bytes of a register are the guest's last.                       *)
LEMMA StoreTruncates ==
  ASSUME NEW v, IsBytes(v, 4), NEW n \in {1, 2, 4}
  PROVE  /\ IsBytes(Trunc(v, n), n)
         /\ Reverse(Trunc(v, n)) = SubSeq(Reverse(v), 5 - n, 4)
         /\ n = 4 => Trunc(v, n) = v
         /\ n = 1 => bswap(Trunc(v, n)) = Trunc(v, n)
<1>1. n \in Nat /\ 4 \in Nat /\ 1 \in 1 .. 4 /\ n \in 1 .. 4 /\ 5 - n \in 1 .. 4
      /\ 4 \in (5 - n) .. 4
  OBVIOUS
<1>2. Trunc(v, n) = [i \in 1 .. n - 1 + 1 |-> v[1 + i - 1]]
  BY <1>1, BytesSub DEF Trunc
<1>3. Trunc(v, n) = [i \in 1 .. n |-> v[i]]
  BY <1>2
<1>4. IsBytes(Trunc(v, n), n)
  BY <1>3 DEF IsBytes
<1>5. /\ Reverse(v) = [i \in 1 .. 4 |-> v[4 - i + 1]] /\ IsBytes(Reverse(v), 4)
      /\ Reverse(Trunc(v, n)) = [i \in 1 .. n |-> Trunc(v, n)[n - i + 1]]
  BY <1>1, <1>4, BytesReverse
<1>6. SubSeq(Reverse(v), 5 - n, 4) = [i \in 1 .. 4 - (5 - n) + 1 |-> Reverse(v)[5 - n + i - 1]]
  <2>1. IsBytes(Reverse(v), 4)
    BY <1>5
  <2> QED BY ONLY <1>1, <2>1, BytesSub
<1>7. Reverse(Trunc(v, n)) = SubSeq(Reverse(v), 5 - n, 4)
  <2>1. \A i \in 1 .. n : Trunc(v, n)[n - i + 1] = v[n - i + 1]
    BY <1>3
  <2>2. \A i \in 1 .. n : Reverse(v)[5 - n + i - 1] = v[n - i + 1]
    BY <1>5
  <2>3. SubSeq(Reverse(v), 5 - n, 4) = [i \in 1 .. n |-> Reverse(v)[5 - n + i - 1]]
    <3>1. 4 - (5 - n) + 1 = n
      OBVIOUS
    <3> QED BY <3>1, <1>6
  <2>4. Reverse(Trunc(v, n)) = [i \in 1 .. n |-> v[n - i + 1]]
    BY <2>1, <1>5
  <2> QED BY <2>2, <2>3, <2>4
<1>8. n = 4 => Trunc(v, n) = v
  BY <1>3 DEF IsBytes
<1>9. n = 1 => bswap(Trunc(v, n)) = Trunc(v, n)
  <2> SUFFICES ASSUME n = 1
               PROVE  Reverse(Trunc(v, n)) = Trunc(v, n)
    BY DEF bswap
  <2>1. \A i \in 1 .. 1 : Trunc(v, n)[1 - i + 1] = v[i]
    BY <1>3
  <2> QED BY <2>1, <1>3, <1>5
<1> QED BY <1>4, <1>7, <1>8, <1>9

(* A double in a pair of registers.                                        *)
LEMMA PairSwapped ==
  ASSUME NEW lo, NEW hi, NEW d, NEW e,
         IsBytes(lo, 4), IsBytes(hi, 4), IsBytes(d, 8), IsBytes(e, 8),
         \A i \in 1 .. 4 : d[i] = lo[i] /\ d[i + 4] = hi[i],
         \A i \in 1 .. 4 : e[i] = Reverse(hi)[i] /\ e[i + 4] = Reverse(lo)[i]
  PROVE  Reverse(d) = e
<1>1. 4 \in Nat /\ 8 \in Nat
  OBVIOUS
<1>2. /\ Reverse(lo) = [i \in 1 .. 4 |-> lo[4 - i + 1]]
      /\ Reverse(hi) = [i \in 1 .. 4 |-> hi[4 - i + 1]]
      /\ Reverse(d) = [i \in 1 .. 8 |-> d[8 - i + 1]] /\ IsBytes(Reverse(d), 8)
  BY <1>1, BytesReverse
<1>3. ASSUME NEW i \in 1 .. 4
      PROVE  Reverse(d)[i] = e[i] /\ Reverse(d)[i + 4] = e[i + 4]
  <2>1. 5 - i \in 1 .. 4 /\ 8 - i + 1 = (5 - i) + 4 /\ 8 - (i + 4) + 1 = 5 - i
        /\ 4 - i + 1 = 5 - i /\ i \in 1 .. 8 /\ i + 4 \in 1 .. 8
    OBVIOUS
  <2>2. e[i] = hi[5 - i] /\ e[i + 4] = lo[5 - i]
    BY <2>1, <1>2
  <2>3. Reverse(d)[i] = d[(5 - i) + 4] /\ Reverse(d)[i + 4] = d[5 - i]
    BY <2>1, <1>2
  <2> QED BY <2>1, <2>2, <2>3
<1>4. ASSUME NEW i \in 1 .. 8
      PROVE  Reverse(d)[i] = e[i]
  <2>1. CASE i <= 4
    BY <2>1, <1>3
  <2>2. CASE i > 4
    <3>1. i - 4 \in 1 .. 4 /\ (i - 4) + 4 = i
      BY <2>2
    <3>2. Reverse(d)[(i - 4) + 4] = e[(i - 4) + 4]
      BY <3>1, <1>3
    <3> QED BY <3>1, <3>2
  <2> QED BY <2>1, <2>2
<1> QED BY <1>1, <1>2, <1>4, SameBytes

LEMMA PairBytes ==
  ASSUME NEW lo, NEW hi, IsBytes(lo, 4), IsBytes(hi, 4)
  PROVE  /\ IsBytes(Cat(lo, hi), 8)
         /\ \A i \in 1 .. 4 : Cat(lo, hi)[i] = lo[i] /\ Cat(lo, hi)[i + 4] = hi[i]
<1> PICK d : d = Cat(lo, hi)
  OBVIOUS
<1>1. 4 \in Nat
  OBVIOUS
<1>2. /\ IsBytes(d, 4 + 4)
      /\ \A i \in 1 .. 4 : d[i] = lo[i]
      /\ \A i \in 4 + 1 .. 4 + 4 : d[i] = hi[i - 4]
  BY <1>1, BytesConcat
<1>3. IsBytes(d, 8)
  BY ONLY <1>2
<1>4. \A i \in 1 .. 4 : d[i] = lo[i] /\ d[i + 4] = hi[i]
  BY ONLY <1>2
<1> QED BY <1>3, <1>4

LEMMA PairReverse ==
  ASSUME NEW lo, NEW hi, IsBytes(lo, 4), IsBytes(hi, 4)
  PROVE  /\ IsBytes(Cat(lo, hi), 8)
         /\ Reverse(Cat(lo, hi)) = Cat(Reverse(hi), Reverse(lo))
<1> PICK d : d = Cat(lo, hi)
  OBVIOUS
<1> PICK e : e = Cat(Reverse(hi), Reverse(lo))
  OBVIOUS
<1>1. IsBytes(d, 8) /\ \A i \in 1 .. 4 : d[i] = lo[i] /\ d[i + 4] = hi[i]
  BY PairBytes
<1>2. IsBytes(Reverse(lo), 4) /\ IsBytes(Reverse(hi), 4)
  <2>1. 4 \in Nat
    OBVIOUS
  <2> QED BY <2>1, BytesReverse
<1>3. /\ IsBytes(e, 8)
      /\ \A i \in 1 .. 4 : e[i] = Reverse(hi)[i] /\ e[i + 4] = Reverse(lo)[i]
  BY <1>2, PairBytes
<1>4. Reverse(d) = e
  BY <1>1, <1>3, PairSwapped
<1> QED BY <1>1, <1>4

LEMMA Doubles ==
  ASSUME LoadStoreInv
  PROVE  /\ IsBytes(Cpr(8, 0), 8)
         /\ Reverse(Cpr(8, 0)) = Cat(Reverse(cpr1[1]), Reverse(cpr1[0]))
<1>1. IsBytes(cpr1[0], 4) /\ IsBytes(cpr1[1], 4)
  BY DEF LoadStoreInv
<1>2. Cpr(8, 0) = Cat(cpr1[0], cpr1[1])
  BY DEF Cpr, Cat
<1>3. /\ IsBytes(Cat(cpr1[0], cpr1[1]), 8)
      /\ Reverse(Cat(cpr1[0], cpr1[1])) = Cat(Reverse(cpr1[1]), Reverse(cpr1[0]))
  BY ONLY <1>1, PairReverse
<1> QED BY <1>2, <1>3

LEMMA DoubleHalves ==
  ASSUME LoadStoreInv, NEW a \in Nat
  PROVE  LET v == bswap(HostLoad(a, 8))
             x == GuestView!Value(a, 8)
         IN /\ IsBytes(SubSeq(v, 1, 4), 4) /\ IsBytes(SubSeq(v, 5, 8), 4)
            /\ Reverse(SubSeq(v, 1, 4)) = SubSeq(x, 5, 8)
            /\ Reverse(SubSeq(v, 5, 8)) = SubSeq(x, 1, 4)
<1> DEFINE v == bswap(HostLoad(a, 8))
<1> DEFINE x == GuestView!Value(a, 8)
<1>1. /\ v = [i \in 1 .. 8 |-> x[8 - i + 1]]
      /\ IsBytes(v, 8) /\ IsBytes(x, 8)
  BY SwappedLoad
<1> HIDE DEF v, x
<1>2. /\ 8 \in Nat /\ 4 \in Nat
      /\ 1 \in 1 .. 8 /\ 4 \in 1 .. 8 /\ 5 \in 1 .. 8 /\ 8 \in 5 .. 8
  OBVIOUS
<1>3. /\ SubSeq(v, 1, 4) = [i \in 1 .. 4 - 1 + 1 |-> v[1 + i - 1]]
      /\ SubSeq(v, 5, 8) = [i \in 1 .. 8 - 5 + 1 |-> v[5 + i - 1]]
      /\ SubSeq(x, 1, 4) = [i \in 1 .. 4 - 1 + 1 |-> x[1 + i - 1]]
      /\ SubSeq(x, 5, 8) = [i \in 1 .. 8 - 5 + 1 |-> x[5 + i - 1]]
  BY <1>1, <1>2, BytesSub
<1>4. /\ SubSeq(v, 1, 4) = [i \in 1 .. 4 |-> x[9 - i]]
      /\ SubSeq(v, 5, 8) = [i \in 1 .. 4 |-> x[5 - i]]
  <2>1. \A i \in 1 .. 4 : v[1 + i - 1] = x[9 - i] /\ v[5 + i - 1] = x[5 - i]
    BY <1>1
  <2> QED BY <2>1, <1>3
<1>5. IsBytes(SubSeq(v, 1, 4), 4) /\ IsBytes(SubSeq(v, 5, 8), 4)
  BY <1>4 DEF IsBytes
<1>6. /\ Reverse(SubSeq(v, 1, 4)) = [i \in 1 .. 4 |-> SubSeq(v, 1, 4)[4 - i + 1]]
      /\ Reverse(SubSeq(v, 5, 8)) = [i \in 1 .. 4 |-> SubSeq(v, 5, 8)[4 - i + 1]]
  BY <1>2, <1>5, BytesReverse
<1>7. Reverse(SubSeq(v, 1, 4)) = SubSeq(x, 5, 8)
  <2>1. \A i \in 1 .. 4 : SubSeq(v, 1, 4)[4 - i + 1] = x[5 + i - 1]
    BY <1>4
  <2> QED BY <2>1, <1>3, <1>6
<1>8. Reverse(SubSeq(v, 5, 8)) = SubSeq(x, 1, 4)
  <2>1. \A i \in 1 .. 4 : SubSeq(v, 5, 8)[4 - i + 1] = x[1 + i - 1]
    BY <1>4
  <2> QED BY <2>1, <1>3, <1>6
<1> QED BY <1>5, <1>7, <1>8 DEF v, x

-----------------------------------------------------------------------------
(* Each access, in either engine, is one of the guest's.                   *)
LEMMA LoadIsGuests ==
  ASSUME LoadStoreInv, NEW n \in {1, 2, 4}, NEW a \in Aligned(n), NEW signed \in BOOLEAN,
         gpr' = IF signed THEN SExt(bswap(HostLoad(a, n))) ELSE ZExt(bswap(HostLoad(a, n))),
         UNCHANGED <<bytes, cpr1, isMipsEL>>
  PROVE  LoadStoreInv' /\ GuestView!Next
<1>1. a \in Nat
  BY LoadStoreAssumption DEF Aligned
<1>2. /\ IsBytes(gpr', 4)
      /\ Reverse(gpr') = GuestView!Extended(GuestView!Value(a, n), signed)
  BY <1>1, LoadExtends
<1>3. LoadStoreInv'
  BY <1>2 DEF LoadStoreInv
<1>4. GuestView!Load(n, signed, a)
  BY <1>2 DEF GuestView!Load
<1>5. n \in GuestView!Sizes /\ a \in GuestView!Addrs(n)
  BY DEF GuestView!Sizes, GuestView!Addrs, Aligned
<1>6. GuestView!Access
  BY <1>4, <1>5 DEF GuestView!Access
<1> QED BY <1>3, <1>6 DEF GuestView!Next

LEMMA StoreIsGuests ==
  ASSUME LoadStoreInv, NEW n \in {1, 2, 4}, NEW a \in Aligned(n),
         bytes' = HostStore(a, bswap(Trunc(gpr, n))),
         UNCHANGED <<gpr, cpr1, isMipsEL>>
  PROVE  LoadStoreInv' /\ GuestView!Next
<1>1. a \in Nat /\ n \in 1 .. 8
  BY LoadStoreAssumption DEF Aligned
<1>2. /\ IsBytes(Trunc(gpr, n), n)
      /\ Reverse(Trunc(gpr, n)) = SubSeq(Reverse(gpr), 5 - n, 4)
  BY StoreTruncates DEF LoadStoreInv
<1>3. bytes' = GuestView!Written(a, SubSeq(Reverse(gpr), 5 - n, 4))
  BY <1>1, <1>2, SwappedStore
<1>4. LoadStoreInv'
  BY DEF LoadStoreInv, HostStore
<1>5. GuestView!Store(n, a)
  BY <1>3 DEF GuestView!Store
<1>6. n \in GuestView!Sizes /\ a \in GuestView!Addrs(n)
  BY DEF GuestView!Sizes, GuestView!Addrs, Aligned
<1>7. GuestView!Access
  BY <1>5, <1>6 DEF GuestView!Access
<1> QED BY <1>4, <1>7 DEF GuestView!Next

LEMMA LoadSingleIsGuests ==
  ASSUME LoadStoreInv, NEW ft \in {0, 1}, NEW a \in Aligned(4),
         cpr1' = CprSet(4, ft, bswap(HostLoad(a, 4))),
         UNCHANGED <<bytes, gpr, isMipsEL>>
  PROVE  LoadStoreInv' /\ GuestView!Next
<1> PICK v : v = bswap(HostLoad(a, 4))
  OBVIOUS
<1> PICK x : x = GuestView!Value(a, 4)
  OBVIOUS
<1>1. a \in Nat /\ 4 \in 1 .. 8
  BY LoadStoreAssumption DEF Aligned
<1>2. IsBytes(v, 4) /\ Reverse(v) = x
  BY <1>1, SwappedLoad
<1>3. cpr1' = [cpr1 EXCEPT ![ft] = v]
  BY DEF CprSet
<1>4. cpr1' = [r \in {0, 1} |-> IF r = ft THEN v ELSE cpr1[r]]
  BY <1>3 DEF LoadStoreInv
<1>5. LoadStoreInv'
  BY <1>2, <1>4 DEF LoadStoreInv
<1>6. [r \in {0, 1} |-> Reverse(cpr1[r])]' =
        [[r \in {0, 1} |-> Reverse(cpr1[r])] EXCEPT ![ft] = x]
  BY <1>2, <1>4
<1>7. GuestView!LoadSingle(ft, a)
  BY <1>6 DEF GuestView!LoadSingle
<1>8. a \in GuestView!Addrs(4)
  BY DEF GuestView!Addrs, Aligned
<1>9. GuestView!Access
  BY <1>7, <1>8 DEF GuestView!Access
<1> QED BY <1>5, <1>9 DEF GuestView!Next

LEMMA StoreSingleIsGuests ==
  ASSUME LoadStoreInv, NEW ft \in {0, 1}, NEW a \in Aligned(4),
         bytes' = HostStore(a, bswap(cpr1[ft])),
         UNCHANGED <<gpr, cpr1, isMipsEL>>
  PROVE  LoadStoreInv' /\ GuestView!Next
<1>1. a \in Nat /\ 4 \in 1 .. 8
  BY LoadStoreAssumption DEF Aligned
<1>2. IsBytes(cpr1[ft], 4)
  BY DEF LoadStoreInv
<1>3. bytes' = GuestView!Written(a, Reverse(cpr1[ft]))
  BY <1>1, <1>2, SwappedStore
<1>4. LoadStoreInv'
  BY DEF LoadStoreInv, HostStore
<1>5. GuestView!StoreSingle(ft, a)
  BY <1>3 DEF GuestView!StoreSingle
<1>6. a \in GuestView!Addrs(4)
  BY DEF GuestView!Addrs, Aligned
<1>7. GuestView!Access
  BY <1>5, <1>6 DEF GuestView!Access
<1> QED BY <1>4, <1>7 DEF GuestView!Next

LEMMA LoadDoubleIsGuests ==
  ASSUME LoadStoreInv, NEW a \in Aligned(8),
         cpr1' = CprSet(8, 0, bswap(HostLoad(a, 8))),
         UNCHANGED <<bytes, gpr, isMipsEL>>
  PROVE  LoadStoreInv' /\ GuestView!Next
<1> PICK v : v = bswap(HostLoad(a, 8))
  OBVIOUS
<1> PICK x : x = GuestView!Value(a, 8)
  OBVIOUS
<1>1. a \in Nat
  BY LoadStoreAssumption DEF Aligned
<1>2. /\ IsBytes(SubSeq(v, 1, 4), 4) /\ IsBytes(SubSeq(v, 5, 8), 4)
      /\ Reverse(SubSeq(v, 1, 4)) = SubSeq(x, 5, 8)
      /\ Reverse(SubSeq(v, 5, 8)) = SubSeq(x, 1, 4)
  BY <1>1, DoubleHalves
<1>3. cpr1' = [r \in {0, 1} |-> SubSeq(v, 4 * r + 1, 4 * r + 4)]
  BY DEF CprSet
<1>4. /\ cpr1' = [r \in {0, 1} |-> cpr1'[r]]
      /\ cpr1'[0] = SubSeq(v, 1, 4) /\ cpr1'[1] = SubSeq(v, 5, 8)
  BY <1>3
<1>5. LoadStoreInv'
  BY <1>2, <1>4 DEF LoadStoreInv
<1>6. [r \in {0, 1} |-> Reverse(cpr1[r])]' =
        [r \in {0, 1} |-> IF r = 0 THEN SubSeq(x, 5, 8) ELSE SubSeq(x, 1, 4)]
  BY <1>2, <1>4
<1>7. GuestView!LoadDouble(a)
  BY <1>6 DEF GuestView!LoadDouble
<1>8. a \in GuestView!Addrs(8)
  BY DEF GuestView!Addrs, Aligned
<1>9. GuestView!Access
  BY <1>7, <1>8 DEF GuestView!Access
<1> QED BY <1>5, <1>9 DEF GuestView!Next

LEMMA StoreDoubleIsGuests ==
  ASSUME LoadStoreInv, NEW a \in Aligned(8),
         bytes' = HostStore(a, bswap(Cpr(8, 0))),
         UNCHANGED <<gpr, cpr1, isMipsEL>>
  PROVE  LoadStoreInv' /\ GuestView!Next
<1>1. a \in Nat /\ 8 \in 1 .. 8
  BY LoadStoreAssumption DEF Aligned
<1>2. IsBytes(Cpr(8, 0), 8) /\ Reverse(Cpr(8, 0)) = Cat(Reverse(cpr1[1]), Reverse(cpr1[0]))
  BY Doubles
<1>3. bytes' = GuestView!Written(a, Cat(Reverse(cpr1[1]), Reverse(cpr1[0])))
  BY <1>1, <1>2, SwappedStore
<1>4. LoadStoreInv'
  BY DEF LoadStoreInv, HostStore
<1>5. GuestView!StoreDouble(a)
  BY <1>3 DEF GuestView!StoreDouble, Cat
<1>6. a \in GuestView!Addrs(8)
  BY DEF GuestView!Addrs, Aligned
<1>7. GuestView!Access
  BY <1>5, <1>6 DEF GuestView!Access
<1> QED BY <1>4, <1>7 DEF GuestView!Next

LEMMA InterpretedIsGuests ==
  LoadStoreInv /\ Interpreted => LoadStoreInv' /\ GuestView!Next
<1> SUFFICES ASSUME LoadStoreInv, Interpreted
             PROVE  LoadStoreInv' /\ GuestView!Next
  OBVIOUS
<1>1. ASSUME NEW n \in {1, 2, 4}, NEW a \in Aligned(n), itype_load_helper(n, a)
      PROVE  LoadStoreInv' /\ GuestView!Next
  <2>1. /\ gpr' = SExt(bswap(HostLoad(a, n)))
        /\ UNCHANGED <<bytes, cpr1, isMipsEL>>
    BY <1>1 DEF itype_load_helper, Count
  <2> QED BY <2>1, LoadIsGuests
<1>2. ASSUME NEW n \in {1, 2, 4}, NEW a \in Aligned(n), itype_store_helper(n, a)
      PROVE  LoadStoreInv' /\ GuestView!Next
  <2>1. /\ bytes' = HostStore(a, bswap(Trunc(gpr, n)))
        /\ UNCHANGED <<gpr, cpr1, isMipsEL>>
    BY <1>2 DEF itype_store_helper, Count
  <2> QED BY <2>1, StoreIsGuests
<1>3. ASSUME NEW n \in {1, 2}, NEW a \in Aligned(n), itype_loadu_helper(n, a)
      PROVE  LoadStoreInv' /\ GuestView!Next
  <2>1. /\ gpr' = ZExt(bswap(HostLoad(a, n)))
        /\ UNCHANGED <<bytes, cpr1, isMipsEL>>
    BY <1>3 DEF itype_loadu_helper, Count
  <2> QED BY <2>1, LoadIsGuests
<1>4. ASSUME NEW isLoad \in BOOLEAN, NEW ft \in {0, 1}, NEW a \in Aligned(4),
             fpMemOp(isLoad, 4, ft, a)
      PROVE  LoadStoreInv' /\ GuestView!Next
  <2>1. CASE isLoad
    BY <1>4, <2>1, LoadSingleIsGuests DEF fpMemOp, Count
  <2>2. CASE ~isLoad
    BY <1>4, <2>2, StoreSingleIsGuests DEF fpMemOp, Count, Cpr
  <2> QED BY <2>1, <2>2
<1>5. ASSUME NEW isLoad \in BOOLEAN, NEW a \in Aligned(8), fpMemOp(isLoad, 8, 0, a)
      PROVE  LoadStoreInv' /\ GuestView!Next
  <2>1. CASE isLoad
    BY <1>5, <2>1, LoadDoubleIsGuests DEF fpMemOp, Count
  <2>2. CASE ~isLoad
    BY <1>5, <2>2, StoreDoubleIsGuests DEF fpMemOp, Count
  <2> QED BY <2>1, <2>2
<1> QED BY <1>1, <1>2, <1>3, <1>4, <1>5 DEF Interpreted

LEMMA CompiledIsGuests ==
  LoadStoreInv /\ Compiled => LoadStoreInv' /\ GuestView!Next
<1> SUFFICES ASSUME LoadStoreInv, Compiled
             PROVE  LoadStoreInv' /\ GuestView!Next
  OBVIOUS
<1>1. ASSUME NEW v
      PROVE  byteSwap(v) = bswap(v)
  BY DEF byteSwap, bswap
<1>2. \A n \in {1, 2, 4} : \A a \in Aligned(n) : a \in Nat
  BY LoadStoreAssumption DEF Aligned
<1>3. IsBytes(gpr, 4)
  BY DEF LoadStoreInv
<1>4. ASSUME NEW a \in Aligned(1), insn_lb(a) \/ insn_lbu(a)
      PROVE  LoadStoreInv' /\ GuestView!Next
  <2>1. bswap(HostLoad(a, 1)) = HostLoad(a, 1)
    BY <1>2, LoadExtends
  <2>2. /\ gpr' = SExt(bswap(HostLoad(a, 1))) \/ gpr' = ZExt(bswap(HostLoad(a, 1)))
        /\ UNCHANGED <<bytes, cpr1, isMipsEL>>
    BY <1>4, <2>1 DEF insn_lb, insn_lbu, Count
  <2> QED BY <2>2, LoadIsGuests
<1>5. ASSUME NEW a \in Aligned(2), insn_lh(a) \/ insn_lhu(a)
      PROVE  LoadStoreInv' /\ GuestView!Next
  <2>1. /\ gpr' = SExt(bswap(HostLoad(a, 2))) \/ gpr' = ZExt(bswap(HostLoad(a, 2)))
        /\ UNCHANGED <<bytes, cpr1, isMipsEL>>
    BY <1>1, <1>5 DEF insn_lh, insn_lhu, Count
  <2> QED BY <2>1, LoadIsGuests
<1>6. ASSUME NEW a \in Aligned(4), insn_lw(a)
      PROVE  LoadStoreInv' /\ GuestView!Next
  <2>1. SExt(bswap(HostLoad(a, 4))) = bswap(HostLoad(a, 4))
    BY <1>2, LoadExtends
  <2>2. /\ gpr' = SExt(bswap(HostLoad(a, 4)))
        /\ UNCHANGED <<bytes, cpr1, isMipsEL>>
    BY <1>1, <1>6, <2>1 DEF insn_lw, Count
  <2> QED BY <2>2, LoadIsGuests
<1>7. ASSUME NEW a \in Aligned(1), insn_sb(a)
      PROVE  LoadStoreInv' /\ GuestView!Next
  <2>1. bswap(Trunc(gpr, 1)) = Trunc(gpr, 1)
    BY <1>3, StoreTruncates
  <2>2. /\ bytes' = HostStore(a, bswap(Trunc(gpr, 1)))
        /\ UNCHANGED <<gpr, cpr1, isMipsEL>>
    BY <1>7, <2>1 DEF insn_sb, Count
  <2> QED BY <2>2, StoreIsGuests
<1>8. ASSUME NEW a \in Aligned(2), insn_sh(a)
      PROVE  LoadStoreInv' /\ GuestView!Next
  <2>1. /\ bytes' = HostStore(a, bswap(Trunc(gpr, 2)))
        /\ UNCHANGED <<gpr, cpr1, isMipsEL>>
    BY <1>1, <1>8 DEF insn_sh, Count
  <2> QED BY <2>1, StoreIsGuests
<1>9. ASSUME NEW a \in Aligned(4), insn_sw(a)
      PROVE  LoadStoreInv' /\ GuestView!Next
  <2>1. Trunc(gpr, 4) = gpr
    BY <1>3, StoreTruncates
  <2>2. /\ bytes' = HostStore(a, bswap(Trunc(gpr, 4)))
        /\ UNCHANGED <<gpr, cpr1, isMipsEL>>
    BY <1>1, <1>9, <2>1 DEF insn_sw, Count
  <2> QED BY <2>2, StoreIsGuests
<1>10. ASSUME NEW a \in Aligned(4), NEW ft \in {0, 1}, insn_lwc1(ft, a) \/ insn_swc1(ft, a)
       PROVE  LoadStoreInv' /\ GuestView!Next
  <2>1. CASE insn_lwc1(ft, a)
    BY <1>1, <2>1, LoadSingleIsGuests DEF insn_lwc1, Count
  <2>2. CASE insn_swc1(ft, a)
    BY <1>1, <2>2, StoreSingleIsGuests DEF insn_swc1, Count
  <2> QED BY <1>10, <2>1, <2>2
<1>11. ASSUME NEW a \in Aligned(8), insn_ldc1(a) \/ insn_sdc1(a)
       PROVE  LoadStoreInv' /\ GuestView!Next
  <2>1. CASE insn_ldc1(a)
    BY <1>1, <2>1, LoadDoubleIsGuests DEF insn_ldc1, Count
  <2>2. CASE insn_sdc1(a)
    BY <1>1, <2>2, StoreDoubleIsGuests DEF insn_sdc1, Count
  <2> QED BY <1>11, <2>1, <2>2
<1> QED BY <1>4, <1>5, <1>6, <1>7, <1>8, <1>9, <1>10, <1>11 DEF Compiled

LEMMA EachCounted ==
  LoadStoreNext => ops' = ops + 1
<1>1. Interpreted => ops' = ops + 1
  BY DEF Interpreted, itype_load_helper, itype_loadu_helper, itype_store_helper, fpMemOp, Count
<1>2. Compiled => ops' = ops + 1
  BY DEF Compiled, insn_lb, insn_lbu, insn_lh, insn_lhu, insn_lw, insn_sb, insn_sh, insn_sw,
         insn_lwc1, insn_ldc1, insn_swc1, insn_sdc1, Count
<1> QED BY <1>1, <1>2 DEF LoadStoreNext

(* Every step of any mixture of interpreted and compiled accesses is a     *)
(* load or store of the guest's, for every size of memory and in both byte *)
(* orders.                                                                 *)
THEOREM AccessesAreGuests == LoadStoreSpec => GuestSteps
<1>1. LoadStoreInit => LoadStoreInv
  BY DEF LoadStoreInit, LoadStoreInv, IsBytes
<1>2. LoadStoreInv /\ [LoadStoreNext]_loadStoreVars
        => LoadStoreInv' /\ [ops' = ops + 1 /\ GuestView!Next]_loadStoreVars
  <2>1. CASE LoadStoreNext
    BY <2>1, EachCounted, InterpretedIsGuests, CompiledIsGuests DEF LoadStoreNext
  <2>2. CASE UNCHANGED loadStoreVars
    BY <2>2 DEF loadStoreVars, LoadStoreInv
  <2> QED BY <2>1, <2>2
<1> QED BY <1>1, <1>2, PTL DEF LoadStoreSpec, GuestSteps

-----------------------------------------------------------------------------
(***************************************************************************)
(* Unaligned accesses. A word is followed byte by byte: Digit(x, q) is its *)
(* byte of significance q, what a shift by whole bytes moves and a mask of *)
(* whole bytes keeps or drops.                                             *)
(***************************************************************************)
Digit(x, q) == {j \in 0 .. B - 1 : B * q + j \in x}

(* The byte of significance q lies in the word for q from 0 to 3.          *)
LEMMA BitBounds ==
  ASSUME NEW q \in Int, NEW j \in 0 .. B - 1
  PROVE  B * q + j \in Int /\ (B * q + j \in Bits <=> q \in 0 .. 3)
<1>1. B \in Nat /\ B > 0 /\ j \in Nat /\ j < B
  BY UnalignedAssumption
<1>2. B * q \in Int
  BY <1>1
<1>3. q < 0 => B * q <= -B
  <2>1. q < 0 => B * (-1 - q) >= 0
    BY <1>1
  <2>2. B * (-1 - q) = -B - B * q
    BY <1>1
  <2> QED BY <1>1, <1>2, <2>1, <2>2
<1>4. q > 3 => B * q >= 4 * B
  <2>1. q > 3 => B * (q - 4) >= 0
    BY <1>1
  <2>2. B * (q - 4) = B * q - 4 * B
    BY <1>1
  <2> QED BY <1>1, <1>2, <2>1, <2>2
<1>5. q \in 0 .. 3 => B * q >= 0 /\ B * q <= 3 * B
  BY <1>1
<1> QED BY <1>1, <1>2, <1>3, <1>4, <1>5 DEF Bits, W

(* A word is its four bytes.                                               *)
LEMMA DigitsAreAll ==
  ASSUME NEW x \in SUBSET Bits, NEW y \in SUBSET Bits,
         \A q \in 0 .. 3 : Digit(x, q) = Digit(y, q)
  PROVE  x = y
<1>1. ASSUME NEW b \in Bits
      PROVE  \E q \in 0 .. 3 : \E j \in 0 .. B - 1 : b = B * q + j
  <2>1. B \in Nat /\ b \in Nat /\ b < 4 * B
    BY UnalignedAssumption DEF Bits, W
  <2>2. CASE b < B
    <3> WITNESS 0 \in 0 .. 3
    <3>1. b \in 0 .. B - 1
      BY <2>1, <2>2
    <3> WITNESS b \in 0 .. B - 1
    <3> QED BY <2>1
  <2>3. CASE B <= b /\ b < 2 * B
    <3> WITNESS 1 \in 0 .. 3
    <3>1. b - B \in 0 .. B - 1
      BY <2>1, <2>3
    <3> WITNESS b - B \in 0 .. B - 1
    <3> QED BY <2>1
  <2>4. CASE 2 * B <= b /\ b < 3 * B
    <3> WITNESS 2 \in 0 .. 3
    <3>1. b - 2 * B \in 0 .. B - 1
      BY <2>1, <2>4
    <3> WITNESS b - 2 * B \in 0 .. B - 1
    <3> QED BY <2>1
  <2>5. CASE 3 * B <= b
    <3> WITNESS 3 \in 0 .. 3
    <3>1. b - 3 * B \in 0 .. B - 1
      BY <2>1, <2>5
    <3> WITNESS b - 3 * B \in 0 .. B - 1
    <3> QED BY <2>1
  <2> QED BY <2>1, <2>2, <2>3, <2>4, <2>5
<1>2. ASSUME NEW b \in Bits
      PROVE  b \in x <=> b \in y
  <2>1. PICK q \in 0 .. 3, j \in 0 .. B - 1 : b = B * q + j
    BY <1>1
  <2>2. j \in Digit(x, q) <=> j \in Digit(y, q)
    OBVIOUS
  <2> QED BY <2>1, <2>2 DEF Digit
<1> QED BY <1>2

LEMMA DigitBounds ==
  ASSUME NEW x, NEW q
  PROVE  Digit(x, q) \in Byte
BY DEF Digit, Byte

-----------------------------------------------------------------------------
(* The two merges: the bytes of y moved up by s, those of z below them; and *)
(* the bytes of y moved down by s, those of z above them.                  *)
Up(y, z, s) == Shl(y, B * s) \cup (z \cap Ones(B * s))
Down(y, z, s) == LShr(y, B * s) \cup (z \ Ones(B * (4 - s)))

LEMMA InShl ==
  ASSUME NEW y \in SUBSET Bits, NEW n \in Int, NEW c \in Bits
  PROVE  c \in Shl(y, n) <=> c - n \in y
<1>1. c \in Int /\ \A b \in y : b \in Int
  BY UnalignedAssumption DEF Bits, W
<1>2. ASSUME c - n \in y
      PROVE  c \in Shl(y, n)
  <2>1. c = (c - n) + n
    BY <1>1
  <2> QED BY <1>2, <2>1 DEF Shl
<1>3. ASSUME c \in Shl(y, n)
      PROVE  c - n \in y
  <2>1. PICK b \in y : c = b + n
    BY <1>3 DEF Shl
  <2>2. c - n = b
    BY <1>1, <2>1
  <2> QED BY <2>2
<1> QED BY <1>2, <1>3

LEMMA InLShr ==
  ASSUME NEW y \in SUBSET Bits, NEW n \in Int, NEW c \in Bits
  PROVE  c \in LShr(y, n) <=> c + n \in y
<1>1. c \in Int /\ \A b \in y : b \in Int
  BY UnalignedAssumption DEF Bits, W
<1>2. ASSUME c + n \in y
      PROVE  c \in LShr(y, n)
  <2>1. c = (c + n) - n
    BY <1>1
  <2> QED BY <1>2, <2>1 DEF LShr
<1>3. ASSUME c \in LShr(y, n)
      PROVE  c + n \in y
  <2>1. PICK b \in y : c = b - n
    BY <1>3 DEF LShr
  <2>2. c + n = b
    BY <1>1, <2>1
  <2> QED BY <2>2
<1> QED BY <1>2, <1>3

LEMMA InOnes ==
  ASSUME NEW n \in 0 .. 4, NEW q \in 0 .. 3, NEW j \in 0 .. B - 1
  PROVE  B * q + j \in Ones(B * n) <=> q < n
<1>1. B \in Nat /\ B > 0 /\ j \in Nat /\ j < B
  BY UnalignedAssumption
<1>2. B * q \in Nat /\ B * n \in Nat
  BY <1>1
<1>3. q < n => B * q + B <= B * n
  <2>1. q < n => B * (n - q - 1) >= 0
    BY <1>1
  <2>2. B * (n - q - 1) = B * n - B * q - B
    BY <1>1
  <2> QED BY <1>1, <1>2, <2>1, <2>2
<1>4. q >= n => B * q >= B * n
  <2>1. q >= n => B * (q - n) >= 0
    BY <1>1
  <2>2. B * (q - n) = B * q - B * n
    BY <1>1
  <2> QED BY <1>1, <1>2, <2>1, <2>2
<1> QED BY <1>1, <1>2, <1>3, <1>4 DEF Ones

LEMMA UpDigits ==
  ASSUME NEW y \in SUBSET Bits, NEW z \in SUBSET Bits, NEW s \in 0 .. 3
  PROVE  /\ Up(y, z, s) \in SUBSET Bits
         /\ \A q \in 0 .. 3 :
              Digit(Up(y, z, s), q) = IF q >= s THEN Digit(y, q - s) ELSE Digit(z, q)
<1>1. Up(y, z, s) \in SUBSET Bits
  BY DEF Up, Shl
<1>2. ASSUME NEW q \in 0 .. 3, NEW j \in 0 .. B - 1
      PROVE  B * q + j \in Up(y, z, s)
               <=> IF q >= s THEN B * (q - s) + j \in y ELSE B * q + j \in z
  <2>1. B * q + j \in Bits
    BY BitBounds
  <2>2. B * s \in Int /\ (B * q + j) - B * s = B * (q - s) + j
    BY UnalignedAssumption
  <2>3. B * q + j \in Shl(y, B * s) <=> B * (q - s) + j \in y
    BY <2>1, <2>2, InShl
  <2>4. q < s => B * (q - s) + j \notin y
    BY BitBounds
  <2>5. B * q + j \in Ones(B * s) <=> q < s
    BY InOnes
  <2> QED BY <2>3, <2>4, <2>5 DEF Up
<1> QED BY <1>1, <1>2 DEF Digit

LEMMA DownDigits ==
  ASSUME NEW y \in SUBSET Bits, NEW z \in SUBSET Bits, NEW s \in 0 .. 3
  PROVE  /\ Down(y, z, s) \in SUBSET Bits
         /\ \A q \in 0 .. 3 :
              Digit(Down(y, z, s), q) = IF q + s <= 3 THEN Digit(y, q + s) ELSE Digit(z, q)
<1>1. Down(y, z, s) \in SUBSET Bits
  BY DEF Down, LShr
<1>2. ASSUME NEW q \in 0 .. 3, NEW j \in 0 .. B - 1
      PROVE  B * q + j \in Down(y, z, s)
               <=> IF q + s <= 3 THEN B * (q + s) + j \in y ELSE B * q + j \in z
  <2>1. B * q + j \in Bits
    BY BitBounds
  <2>2. B * s \in Int /\ (B * q + j) + B * s = B * (q + s) + j
    BY UnalignedAssumption
  <2>3. B * q + j \in LShr(y, B * s) <=> B * (q + s) + j \in y
    BY <2>1, <2>2, InLShr
  <2>4. q + s > 3 => B * (q + s) + j \notin y
    BY BitBounds
  <2>5. 4 - s \in 0 .. 4
    OBVIOUS
  <2>6. B * q + j \in Ones(B * (4 - s)) <=> q < 4 - s
    BY <2>5, InOnes
  <2> QED BY <2>3, <2>4, <2>6 DEF Down
<1> QED BY <1>1, <1>2 DEF Digit

-----------------------------------------------------------------------------
(* All eight merges, of both engines, are these two, but for the addresses *)
(* at which an instruction moves the whole word: there the code may leave  *)
(* the word or nothing of it.                                              *)
LEMMA Multiples ==
  /\ B * 0 = 0 /\ B * 1 = B /\ B * 2 = 2 * B /\ B * 3 = 3 * B /\ B * 4 = W
  /\ B \in Nat /\ B > 0 /\ W \in Nat
BY UnalignedAssumption DEF W

(* A mask that keeps what a shift up does not lose changes nothing.        *)
LEMMA MaskedUp ==
  ASSUME NEW y \in SUBSET Bits, NEW s \in 0 .. 3, NEW n \in Nat, n >= B * (4 - s)
  PROVE  Shl(y \cap Ones(n), B * s) = Shl(y, B * s)
<1>1. B * s \in Nat /\ B * (4 - s) \in Nat /\ B * (4 - s) = 4 * B - B * s
  BY Multiples
<1>2. ASSUME NEW b \in y, b + B * s \in Bits
      PROVE  b \in Ones(n)
  BY <1>1, <1>2, Multiples DEF Ones, Bits, W
<1>3. Shl(y, B * s) \subseteq Shl(y \cap Ones(n), B * s)
  BY <1>2 DEF Shl
<1>4. Shl(y \cap Ones(n), B * s) \subseteq Shl(y, B * s)
  BY DEF Shl
<1> QED BY <1>3, <1>4

LEMMA PartMask ==
  ASSUME NEW n \in 1 .. 3
  PROVE  Mask(B * n) = {Ones(B * n)}
<1>1. B * n < W
  BY Multiples DEF W
<1> QED BY <1>1 DEF Mask

LEMMA WholeMask == Mask(B * 4) = {{}, Bits}
BY Multiples DEF Mask

LEMMA LeftLoads ==
  ASSUME NEW r \in SUBSET Bits, NEW x \in SUBSET Bits, NEW ma \in 1 .. 3
  PROVE  _lwl(r, x, ma) = {Up(r, x, ma)} /\ insn_lwl(r, x, ma) = {Up(r, x, ma)}
<1>1. _lwl(r, x, ma) = {Up(r, x, ma)}
  <2>1. CASE ma = 1
    <3>1. Shl(r \cap Ones(3 * B), B * 1) = Shl(r, B * 1)
      BY Multiples, MaskedUp
    <3> QED BY <2>1, <3>1, Multiples DEF _lwl, Up
  <2>2. CASE ma = 2
    <3>1. Shl(r \cap Ones(2 * B), B * 2) = Shl(r, B * 2)
      BY Multiples, MaskedUp
    <3> QED BY <2>2, <3>1, Multiples DEF _lwl, Up
  <2>3. CASE ma = 3
    <3>1. Shl(r \cap Ones(3 * B), B * 3) = Shl(r, B * 3)
      BY Multiples, MaskedUp
    <3> QED BY <2>3, <3>1, Multiples DEF _lwl, Up
  <2> QED BY <2>1, <2>2, <2>3
<1>2. insn_lwl(r, x, ma) = {Up(r, x, ma)}
  <2>1. Mask(B * (4 - ma)) = {Ones(B * (4 - ma))}
    BY PartMask
  <2>2. Shl(r \cap Ones(B * (4 - ma)), B * ma) = Shl(r, B * ma)
    BY Multiples, MaskedUp
  <2> QED BY <2>1, <2>2 DEF insn_lwl, Up
<1> QED BY <1>1, <1>2

LEMMA RightLoads ==
  ASSUME NEW r \in SUBSET Bits, NEW x \in SUBSET Bits, NEW ma \in 0 .. 2
  PROVE  _lwr(r, x, ma) = {Down(r, x, 3 - ma)} /\ insn_lwr(r, x, ma) = {Down(r, x, 3 - ma)}
<1>1. _lwr(r, x, ma) = {Down(r, x, 3 - ma)}
  <2>1. CASE ma = 0
    BY <2>1, Multiples DEF _lwr, Down
  <2>2. CASE ma = 1
    BY <2>2, Multiples DEF _lwr, Down
  <2>3. CASE ma = 2
    BY <2>3, Multiples DEF _lwr, Down
  <2> QED BY <2>1, <2>2, <2>3
<1>2. insn_lwr(r, x, ma) = {Down(r, x, 3 - ma)}
  <2>1. Mask(B * (1 + ma)) = {Ones(B * (1 + ma))} /\ 4 - (3 - ma) = 1 + ma
    BY PartMask
  <2> QED BY <2>1 DEF insn_lwr, Down
<1> QED BY <1>1, <1>2

LEMMA LeftStores ==
  ASSUME NEW r \in SUBSET Bits, NEW x \in SUBSET Bits, NEW ma \in 1 .. 3
  PROVE  _swl(r, x, ma) = {Down(x, r, ma)} /\ insn_swl(r, x, ma) = {Down(x, r, ma)}
<1>1. Mask(B * (4 - ma)) = {Ones(B * (4 - ma))}
  BY PartMask
<1> QED BY <1>1 DEF _swl, insn_swl, Down

LEMMA RightStores ==
  ASSUME NEW r \in SUBSET Bits, NEW x \in SUBSET Bits, NEW ma \in 0 .. 3
  PROVE  _swr(r, x, ma) = {Up(x, r, 3 - ma)} /\ insn_swr(r, x, ma) = {Up(x, r, 3 - ma)}
BY DEF _swr, insn_swr, Up

LEMMA UnmovedWord ==
  ASSUME NEW y \in SUBSET Bits
  PROVE  Shl(y, B * 0) = y /\ LShr(y, B * 0) = y /\ Shl(y \cap {}, B * 0) = {}
<1>1. \A b \in y : b + 0 = b /\ b - 0 = b /\ b \in Bits
  BY Multiples DEF Bits
<1> QED BY <1>1, Multiples DEF Shl, LShr

LEMMA WholeLeftLoads ==
  ASSUME NEW r \in SUBSET Bits, NEW x \in SUBSET Bits,
         NEW o \in _lwl(r, x, 0) \cup insn_lwl(r, x, 0)
  PROVE  o \subseteq r
<1>1. CASE o \in _lwl(r, x, 0)
  BY <1>1 DEF _lwl
<1>2. CASE o \in insn_lwl(r, x, 0)
  <2>1. Ones(B * 0) = {} /\ B * (4 - 0) = B * 4
    BY Multiples DEF Ones
  <2>2. PICK m \in Mask(B * 4) : o = Shl(r \cap m, B * 0) \cup (x \cap {})
    BY <1>2, <2>1 DEF insn_lwl
  <2>3. m = {} \/ m = Bits
    BY <2>2, WholeMask
  <2>4. r \cap Bits = r
    OBVIOUS
  <2> QED BY <2>2, <2>3, <2>4, UnmovedWord
<1> QED BY <1>1, <1>2

LEMMA WholeRightLoads ==
  ASSUME NEW r \in SUBSET Bits, NEW x \in SUBSET r,
         NEW o \in _lwr(r, x, 3) \cup insn_lwr(r, x, 3)
  PROVE  o = r
<1>1. CASE o \in _lwr(r, x, 3)
  BY <1>1 DEF _lwr
<1>2. CASE o \in insn_lwr(r, x, 3)
  <2>1. PICK m : o = LShr(r, B * 0) \cup (x \ m)
    BY <1>2 DEF insn_lwr
  <2> QED BY <2>1, UnmovedWord
<1> QED BY <1>1, <1>2

(* What any of them leaves is a word.                                      *)
LEMMA LoadsAreWords ==
  ASSUME NEW r \in SUBSET Bits, NEW x \in SUBSET Bits, NEW ma \in 0 .. 3
  PROVE  /\ \A o \in _lwl(r, x, ma) \cup insn_lwl(r, x, ma) : o \in SUBSET Bits
         /\ \A o \in _lwr(r, x, ma) \cup insn_lwr(r, x, ma) : o \in SUBSET Bits
<1>1. \A y, n : Shl(y, n) \subseteq Bits /\ LShr(y, n) \subseteq Bits
  BY DEF Shl, LShr
<1>2. \A o \in _lwl(r, x, ma) \cup _lwr(r, x, ma) : o \in SUBSET Bits
  <2>1. ma = 0 \/ ma = 1 \/ ma = 2 \/ ma = 3
    OBVIOUS
  <2> QED BY <1>1, <2>1 DEF _lwl, _lwr
<1>3. \A o \in insn_lwl(r, x, ma) \cup insn_lwr(r, x, ma) : o \in SUBSET Bits
  BY <1>1 DEF insn_lwl, insn_lwr
<1> QED BY <1>2, <1>3

LEMMA StoresAreWords ==
  ASSUME NEW r \in SUBSET Bits, NEW x \in SUBSET Bits, NEW ma
  PROVE  \A o \in _swl(r, x, ma) \cup insn_swl(r, x, ma) : o \in SUBSET Bits
<1>1. \A y, n : Shl(y, n) \subseteq Bits /\ LShr(y, n) \subseteq Bits
  BY DEF Shl, LShr
<1> QED BY <1>1 DEF _swl, insn_swl

-----------------------------------------------------------------------------
(* Words in memory.                                                        *)
LEMMA PlaceTwice ==
  ASSUME NEW e \in BOOLEAN, NEW k \in 0 .. 3
  PROVE  Place(e, k) \in 0 .. 3 /\ Place(e, Place(e, k)) = k
BY DEF Place

LEMMA LoadedDigits ==
  ASSUME NEW m \in [Addresses -> Byte], NEW ea \in 0 .. 4, NEW e \in BOOLEAN
  PROVE  /\ LoadWord(m, ea, e) \in SUBSET Bits
         /\ \A q \in 0 .. 3 : Digit(LoadWord(m, ea, e), q) = m[ea + Place(e, q)]
<1>1. LoadWord(m, ea, e) \in SUBSET Bits
  BY DEF LoadWord, Shl
<1>2. \A k \in 0 .. 3 : ea + k \in Addresses /\ m[ea + k] \in SUBSET Bits /\ m[ea + k] \in Byte
  BY Multiples DEF Addresses, Byte, Bits, W
<1>3. ASSUME NEW q \in 0 .. 3, NEW j \in 0 .. B - 1, NEW k \in 0 .. 3
      PROVE  B * q + j \in Shl(m[ea + k], B * Place(e, k))
               <=> q = Place(e, k) /\ j \in m[ea + k]
  <2>1. PICK p \in 0 .. 3 : p = Place(e, k)
    BY PlaceTwice
  <2>2. B * q + j \in Bits /\ B * p \in Int /\ (B * q + j) - B * p = B * (q - p) + j
    BY BitBounds, Multiples
  <2>3. B * q + j \in Shl(m[ea + k], B * p) <=> B * (q - p) + j \in m[ea + k]
    BY <1>2, <2>2, InShl
  <2>4. B * (q - p) + j \in 0 .. B - 1 <=> q = p
    <3>1. q - p >= 1 => B * (q - p) >= B
      BY Multiples
    <3>2. q - p <= -1 => B * (q - p) <= -B
      <4>1. q - p <= -1 => B * (p - q) >= B
        BY Multiples
      <4>2. B * (p - q) = -(B * (q - p))
        BY Multiples
      <4> QED BY <4>1, <4>2, Multiples
    <3>3. q = p => B * (q - p) = 0
      BY Multiples
    <3>4. B * (q - p) \in Int
      BY Multiples
    <3> QED BY <3>1, <3>2, <3>3, <3>4, Multiples
  <2>5. q = p => B * (q - p) + j = j
    BY Multiples
  <2> QED BY <1>2, <2>1, <2>3, <2>4, <2>5 DEF Byte
<1>4. ASSUME NEW q \in 0 .. 3, NEW j \in 0 .. B - 1
      PROVE  B * q + j \in LoadWord(m, ea, e) <=> j \in m[ea + Place(e, q)]
  <2>1. B * q + j \in LoadWord(m, ea, e)
          <=> \E k \in 0 .. 3 : B * q + j \in Shl(m[ea + k], B * Place(e, k))
    BY DEF LoadWord
  <2>2. \A k \in 0 .. 3 : q = Place(e, k) <=> k = Place(e, q)
    BY DEF Place
  <2> QED BY <1>3, <2>1, <2>2, PlaceTwice
<1>5. \A q \in 0 .. 3 : m[ea + Place(e, q)] \in Byte
  BY <1>2, PlaceTwice
<1> QED BY <1>1, <1>4, <1>5 DEF Digit, Byte

LEMMA StoredDigits ==
  ASSUME NEW m \in [Addresses -> Byte], NEW ea \in 0 .. 4, NEW e \in BOOLEAN,
         NEW x \in SUBSET Bits
  PROVE  /\ StoreWord(m, ea, e, x) \in [Addresses -> Byte]
         /\ \A a \in Addresses :
              StoreWord(m, ea, e, x)[a] =
                IF a \in ea .. ea + 3 THEN Digit(x, Place(e, a - ea)) ELSE m[a]
<1>1. ASSUME NEW p \in 0 .. 3
      PROVE  LShr(x, B * p) \cap Ones(B) = Digit(x, p)
  <2>1. ASSUME NEW j \in 0 .. B - 1
        PROVE  j \in LShr(x, B * p) <=> B * p + j \in x
    <3>1. j \in Bits /\ B * p \in Int /\ j + B * p = B * p + j
      BY Multiples DEF Bits, W
    <3> QED BY <3>1, InLShr
  <2> QED BY <2>1 DEF Digit, Ones
<1>2. \A a \in ea .. ea + 3 : Place(e, a - ea) \in 0 .. 3
  BY PlaceTwice
<1> QED BY <1>1, <1>2, DigitBounds DEF StoreWord

-----------------------------------------------------------------------------
(* Between the halves: the left one has brought, or stored, the bytes of   *)
(* its aligned word, the upper ones of the unaligned word; if that was     *)
(* aligned, loading may have lost it, but brought nothing else. An inserted *)
(* field is where ext looks for it.                                        *)
UnalignedTypes ==
  /\ el \in BOOLEAN /\ half \in {"start", "half", "done"}
  /\ mem \in [Addresses -> Byte] /\ mem0 \in [Addresses -> Byte]
  /\ reg \in SUBSET Bits /\ reg0 \in SUBSET Bits
  /\ \/ task \in {"load", "store"} /\ place \in 0 .. 4
     \/ task = "field" /\ place \in Bits /\ size \in 1 .. W - place

LeftAlone ==
  /\ task # "store" \/ half = "start" => mem = mem0
  /\ task = "store" \/ half = "start" => reg = reg0

HalfLoaded ==
  half = "half" /\ task = "load" =>
    IF Ma(Left) = 0 THEN reg \subseteq LoadWord(mem0, place, el)
    ELSE \A q \in Ma(Left) .. 3 : Digit(reg, q) = mem0[place + Place(el, q)]

HalfStored ==
  half = "half" /\ task = "store" /\ Ma(Left) # 0 =>
    \A q \in Ma(Left) .. 3 : mem[place + Place(el, q)] = Digit(reg0, q)

FieldInserted ==
  half = "half" /\ task = "field" /\ size # W =>
    LShr(reg, place) \cap Ones(size) = reg0 \cap Ones(size)

UnalignedInv ==
  /\ UnalignedTypes /\ LeftAlone /\ HalfLoaded /\ HalfStored /\ FieldInserted
  /\ PairLoads /\ PairStores /\ NeighboursKept /\ FieldReturned

(* The two halves share the bytes of the word between them.                *)
LEMMA Alignment ==
  ASSUME UnalignedTypes, task \in {"load", "store"}
  PROVE  /\ Ma(Left) \in 0 .. 3 /\ Ma(Right) \in 0 .. 3
         /\ Ea(Left) \in 0 .. 4 /\ Ea(Right) \in 0 .. 4
         /\ Ma(Left) = 0 => Ma(Right) = 3 /\ Ea(Left) = place /\ Ea(Right) = place
         /\ Ma(Left) > 0 => Ma(Right) = Ma(Left) - 1
         /\ el => Ea(Left) = place + Ma(Left) /\ Ea(Right) = place - (3 - Ma(Right))
         /\ ~el => Ea(Left) = place - Ma(Left) /\ Ea(Right) = place + 3 - Ma(Right)
<1>1. el \in BOOLEAN /\ (place = 0 \/ place = 1 \/ place = 2 \/ place = 3 \/ place = 4)
  BY DEF UnalignedTypes
<1>2. CASE el
  BY <1>1, <1>2 DEF Ma, Ea, Left, Right
<1>3. CASE ~el
  BY <1>1, <1>3 DEF Ma, Ea, Left, Right
<1> QED BY <1>2, <1>3

LEMMA SharedBytes ==
  ASSUME UnalignedTypes, task \in {"load", "store"}
  PROVE  /\ \A q \in Ma(Left) .. 3 :
              place + Place(el, q) = Ea(Left) + Place(el, q - Ma(Left))
         /\ \A q \in 0 .. Ma(Right) :
              place + Place(el, q) = Ea(Right) + Place(el, q + (3 - Ma(Right)))
         /\ \A q \in 0 .. 3 :
              q > Ma(Right) => place + Place(el, q) \notin Ea(Right) .. Ea(Right) + 3
         /\ \A a \in Ea(Left) .. Ea(Left) + 3 :
              a \notin place .. place + 3 => Place(el, a - Ea(Left)) + Ma(Left) > 3
         /\ \A a \in Ea(Right) .. Ea(Right) + 3 :
              a \notin place .. place + 3 => Place(el, a - Ea(Right)) < 3 - Ma(Right)
<1>1. place \in 0 .. 4 /\ el \in BOOLEAN
  BY DEF UnalignedTypes
<1> QED BY <1>1, Alignment DEF Place

LEMMA WordsInMemory ==
  ASSUME UnalignedTypes, task \in {"load", "store"}
  PROVE  /\ WordAt(Left) \in SUBSET Bits /\ WordAt(Right) \in SUBSET Bits
         /\ \A q \in 0 .. 3 :
              /\ Digit(WordAt(Left), q) = mem[Ea(Left) + Place(el, q)]
              /\ Digit(WordAt(Right), q) = mem[Ea(Right) + Place(el, q)]
         /\ LoadWord(mem0, place, el) \in SUBSET Bits
         /\ \A q \in 0 .. 3 :
              Digit(LoadWord(mem0, place, el), q) = mem0[place + Place(el, q)]
<1>1. /\ place \in 0 .. 4 /\ el \in BOOLEAN
      /\ mem \in [Addresses -> Byte] /\ mem0 \in [Addresses -> Byte]
  BY DEF UnalignedTypes
<1> QED BY <1>1, Alignment, LoadedDigits DEF WordAt

LEMMA LeftLoad ==
  ASSUME UnalignedInv, half = "start", half' = "half",
         Loads(_lwl(WordAt(Left), reg, Ma(Left)) \cup insn_lwl(WordAt(Left), reg, Ma(Left)))
  PROVE  UnalignedInv'
<1>1. /\ UnalignedTypes /\ task = "load" /\ reg \in SUBSET Bits /\ mem = mem0
      /\ UNCHANGED <<el, task, place, size, mem, mem0, reg0>>
      /\ reg' \in _lwl(WordAt(Left), reg, Ma(Left)) \cup insn_lwl(WordAt(Left), reg, Ma(Left))
  BY DEF Loads, UnalignedInv, UnalignedTypes, LeftAlone
<1>2. reg' \in SUBSET Bits
  <2>1. WordAt(Left) \in SUBSET Bits /\ reg \in SUBSET Bits /\ Ma(Left) \in 0 .. 3
    BY <1>1, Alignment, WordsInMemory
  <2>2. \A o \in _lwl(WordAt(Left), reg, Ma(Left)) \cup insn_lwl(WordAt(Left), reg, Ma(Left)) :
          o \in SUBSET Bits
    BY ONLY <2>1, LoadsAreWords
  <2> QED BY <1>1, <2>2
<1>3. UnalignedTypes'
  BY <1>1, <1>2 DEF UnalignedTypes
<1>4. Ma(Left)' = Ma(Left)
  BY <1>1 DEF Ma, Left
<1>5. ASSUME Ma(Left) = 0
      PROVE  HalfLoaded'
  <2>1. WordAt(Left) = LoadWord(mem0, place, el)
    BY <1>1, <1>5, Alignment DEF WordAt
  <2>2. reg' \subseteq LoadWord(mem0, place, el)
    BY <1>1, <1>5, <2>1, WordsInMemory, WholeLeftLoads
  <2> QED BY <1>1, <1>4, <1>5, <2>2 DEF HalfLoaded
<1>6. ASSUME Ma(Left) # 0
      PROVE  HalfLoaded'
  <2>1. Ma(Left) \in 1 .. 3
    BY <1>1, <1>6, Alignment
  <2>2. reg' = Up(WordAt(Left), reg, Ma(Left))
    <3>1. WordAt(Left) \in SUBSET Bits /\ reg \in SUBSET Bits /\ Ma(Left) \in 1 .. 3
      BY <1>1, <2>1, WordsInMemory
    <3>2. /\ _lwl(WordAt(Left), reg, Ma(Left)) = {Up(WordAt(Left), reg, Ma(Left))}
          /\ insn_lwl(WordAt(Left), reg, Ma(Left)) = {Up(WordAt(Left), reg, Ma(Left))}
      BY ONLY <3>1, LeftLoads
    <3> QED BY <1>1, <3>2
  <2>3. \A q \in Ma(Left) .. 3 :
          /\ q \in 0 .. 3 /\ q - Ma(Left) \in 0 .. 3
          /\ Digit(reg', q) = Digit(WordAt(Left), q - Ma(Left))
    BY <1>1, <2>1, <2>2, WordsInMemory, UpDigits
  <2>4. \A q \in Ma(Left) .. 3 : Digit(reg', q) = mem0[place + Place(el, q)]
    BY <1>1, <2>3, WordsInMemory, SharedBytes
  <2> QED BY <1>1, <1>4, <1>6, <2>4 DEF HalfLoaded
<1>7. HalfLoaded'
  BY <1>5, <1>6
<1>8. HalfStored' /\ FieldInserted' /\ PairLoads' /\ PairStores' /\ FieldReturned'
  BY <1>1 DEF HalfStored, FieldInserted, PairLoads, PairStores, FieldReturned
<1>9. NeighboursKept' /\ LeftAlone'
  BY <1>1 DEF NeighboursKept, LeftAlone
<1> QED BY <1>3, <1>7, <1>8, <1>9 DEF UnalignedInv

LEMMA RightLoad ==
  ASSUME UnalignedInv, half = "half", half' = "done",
         Loads(_lwr(WordAt(Right), reg, Ma(Right)) \cup insn_lwr(WordAt(Right), reg, Ma(Right)))
  PROVE  UnalignedInv'
<1>1. /\ UnalignedTypes /\ task = "load" /\ reg \in SUBSET Bits /\ mem = mem0
      /\ UNCHANGED <<el, task, place, size, mem, mem0, reg0>>
      /\ reg' \in _lwr(WordAt(Right), reg, Ma(Right)) \cup insn_lwr(WordAt(Right), reg, Ma(Right))
  BY DEF Loads, UnalignedInv, UnalignedTypes, LeftAlone
<1>2. reg' \in SUBSET Bits
  <2>1. WordAt(Right) \in SUBSET Bits /\ reg \in SUBSET Bits /\ Ma(Right) \in 0 .. 3
    BY <1>1, Alignment, WordsInMemory
  <2>2. \A o \in _lwr(WordAt(Right), reg, Ma(Right))
                  \cup insn_lwr(WordAt(Right), reg, Ma(Right)) : o \in SUBSET Bits
    BY ONLY <2>1, LoadsAreWords
  <2> QED BY <1>1, <2>2
<1>3. UnalignedTypes'
  BY <1>1, <1>2 DEF UnalignedTypes
<1>4. ASSUME Ma(Left) = 0
      PROVE  reg' = LoadWord(mem0, place, el)
  <2>1. Ma(Right) = 3 /\ WordAt(Right) = LoadWord(mem0, place, el)
    BY <1>1, <1>4, Alignment DEF WordAt
  <2>2. reg \subseteq WordAt(Right)
    BY <1>1, <1>4, <2>1 DEF UnalignedInv, HalfLoaded
  <2>3. reg' = WordAt(Right)
    BY <1>1, <2>1, <2>2, WordsInMemory, WholeRightLoads
  <2> QED BY <2>1, <2>3
<1>5. ASSUME Ma(Left) # 0
      PROVE  reg' = LoadWord(mem0, place, el)
  <2>1. Ma(Left) \in 1 .. 3 /\ Ma(Right) = Ma(Left) - 1 /\ Ma(Right) \in 0 .. 2
    BY <1>1, <1>5, Alignment
  <2>2. reg' = Down(WordAt(Right), reg, 3 - Ma(Right))
    <3>1. WordAt(Right) \in SUBSET Bits /\ reg \in SUBSET Bits /\ Ma(Right) \in 0 .. 2
      BY <1>1, <2>1, WordsInMemory
    <3>2. /\ _lwr(WordAt(Right), reg, Ma(Right)) = {Down(WordAt(Right), reg, 3 - Ma(Right))}
          /\ insn_lwr(WordAt(Right), reg, Ma(Right)) = {Down(WordAt(Right), reg, 3 - Ma(Right))}
      BY ONLY <3>1, RightLoads
    <3> QED BY <1>1, <3>2
  <2>3. ASSUME NEW q \in 0 .. 3
        PROVE  Digit(reg', q) = mem0[place + Place(el, q)]
    <3>1. 3 - Ma(Right) \in 0 .. 3
      BY <2>1
    <3>2. CASE q <= Ma(Right)
      <4>1. q + (3 - Ma(Right)) \in 0 .. 3 /\ q \in 0 .. Ma(Right)
        BY <2>1, <3>2
      <4>2. Digit(reg', q) = Digit(WordAt(Right), q + (3 - Ma(Right)))
        BY <1>1, <2>2, <3>1, <4>1, WordsInMemory, DownDigits
      <4> QED BY <1>1, <4>1, <4>2, WordsInMemory, SharedBytes
    <3>3. CASE q > Ma(Right)
      <4>1. ~(q + (3 - Ma(Right)) <= 3) /\ q \in Ma(Left) .. 3
        BY <2>1, <3>3
      <4>2. Digit(reg', q) = Digit(reg, q)
        BY <1>1, <2>2, <3>1, <4>1, WordsInMemory, DownDigits
      <4> QED BY <1>1, <1>5, <4>1, <4>2 DEF UnalignedInv, HalfLoaded
    <3> QED BY <2>1, <3>2, <3>3
  <2> QED BY <1>1, <1>2, <2>3, WordsInMemory, DigitsAreAll
<1>6. reg' = LoadWord(mem0, place, el)
  BY <1>4, <1>5
<1>7. PairLoads' /\ PairStores' /\ FieldReturned' /\ HalfLoaded' /\ HalfStored' /\ FieldInserted'
  BY <1>1, <1>6
     DEF PairLoads, PairStores, FieldReturned, HalfLoaded, HalfStored, FieldInserted
<1>8. NeighboursKept' /\ LeftAlone'
  BY <1>1 DEF NeighboursKept, LeftAlone
<1> QED BY <1>3, <1>7, <1>8 DEF UnalignedInv

LEMMA LeftStore ==
  ASSUME UnalignedInv, half = "start", half' = "half",
         Stores(Left, _swl(WordAt(Left), reg, Ma(Left)) \cup insn_swl(WordAt(Left), reg, Ma(Left)))
  PROVE  UnalignedInv'
<1>1. /\ UnalignedTypes /\ task = "store" /\ reg \in SUBSET Bits /\ mem = mem0 /\ reg = reg0
      /\ el \in BOOLEAN /\ place \in 0 .. 4 /\ mem \in [Addresses -> Byte]
      /\ UNCHANGED <<el, task, place, size, reg, mem0, reg0>>
  BY DEF Stores, UnalignedInv, UnalignedTypes, LeftAlone
<1>2. /\ WordAt(Left) \in SUBSET Bits /\ Ma(Left) \in 0 .. 3 /\ Ea(Left) \in 0 .. 4
      /\ Ma(Left)' = Ma(Left)
  BY <1>1, Alignment, WordsInMemory DEF Ma, Left
<1>3. PICK x \in _swl(WordAt(Left), reg, Ma(Left)) \cup insn_swl(WordAt(Left), reg, Ma(Left)) :
        mem' = StoreWord(mem, Ea(Left), el, x)
  BY DEF Stores
<1>4. x \in SUBSET Bits
  <2>1. WordAt(Left) \in SUBSET Bits /\ reg \in SUBSET Bits
    BY <1>1, <1>2
  <2> QED BY ONLY <1>3, <2>1, StoresAreWords
<1>5. /\ mem' \in [Addresses -> Byte]
      /\ \A a \in Addresses :
           mem'[a] = IF a \in Ea(Left) .. Ea(Left) + 3
                     THEN Digit(x, Place(el, a - Ea(Left))) ELSE mem[a]
  BY <1>1, <1>2, <1>3, <1>4, StoredDigits
<1>6. UnalignedTypes'
  BY <1>1, <1>5 DEF UnalignedTypes
<1>7. ASSUME Ma(Left) # 0, NEW p \in 0 .. 3
      PROVE  Digit(x, p) = IF p + Ma(Left) <= 3 THEN Digit(reg, p + Ma(Left))
                           ELSE mem[Ea(Left) + Place(el, p)]
  <2>1. Ma(Left) \in 1 .. 3
    BY <1>2, <1>7
  <2>2. /\ _swl(WordAt(Left), reg, Ma(Left)) = {Down(reg, WordAt(Left), Ma(Left))}
        /\ insn_swl(WordAt(Left), reg, Ma(Left)) = {Down(reg, WordAt(Left), Ma(Left))}
    <3>1. WordAt(Left) \in SUBSET Bits /\ reg \in SUBSET Bits
      BY <1>1, <1>2
    <3> QED BY ONLY <2>1, <3>1, LeftStores
  <2>3. x = Down(reg, WordAt(Left), Ma(Left))
    BY <1>3, <2>2
  <2>4. Digit(x, p) = IF p + Ma(Left) <= 3 THEN Digit(reg, p + Ma(Left))
                      ELSE Digit(WordAt(Left), p)
    <3>1. WordAt(Left) \in SUBSET Bits /\ reg \in SUBSET Bits /\ Ma(Left) \in 0 .. 3
      BY <1>1, <1>2
    <3> QED BY ONLY <2>3, <3>1, p \in 0 .. 3, DownDigits
  <2>5. Digit(WordAt(Left), p) = mem[Ea(Left) + Place(el, p)]
    BY <1>1, WordsInMemory
  <2> QED BY <2>4, <2>5
<1>8. ASSUME Ma(Left) # 0, NEW q \in Ma(Left) .. 3
      PROVE  mem'[place + Place(el, q)] = Digit(reg0, q)
  <2>1. q - Ma(Left) \in 0 .. 3 /\ q \in 0 .. 3 /\ q - Ma(Left) + Ma(Left) = q
    BY <1>2, <1>8
  <2>2. place + Place(el, q) = Ea(Left) + Place(el, q - Ma(Left))
    BY <1>1, SharedBytes
  <2>3. PICK p \in 0 .. 3 : p = Place(el, q - Ma(Left)) /\ Place(el, p) = q - Ma(Left)
    BY <1>1, <2>1, PlaceTwice
  <2>4. PICK a \in Addresses : a = place + Place(el, q)
    BY <1>1, <2>1, PlaceTwice DEF Addresses
  <2>5. a \in Ea(Left) .. Ea(Left) + 3 /\ a - Ea(Left) = p
    BY <1>2, <2>2, <2>3, <2>4
  <2>6. mem'[a] = Digit(x, q - Ma(Left))
    BY <1>5, <2>3, <2>5
  <2>7. Digit(x, q - Ma(Left)) = Digit(reg, q)
    BY <1>7, <1>8, <2>1
  <2> QED BY <1>1, <2>4, <2>6, <2>7
<1>9. ASSUME NEW a \in Addresses, a \notin place .. place + 3
      PROVE  mem'[a] = mem[a]
  <2>1. CASE a \notin Ea(Left) .. Ea(Left) + 3
    BY <1>5, <2>1
  <2>2. CASE a \in Ea(Left) .. Ea(Left) + 3
    <3>1. Ma(Left) # 0
      BY <1>1, <1>2, <1>9, <2>2, Alignment
    <3>2. PICK p \in 0 .. 3 : p = Place(el, a - Ea(Left)) /\ Place(el, p) = a - Ea(Left)
      <4>1. a - Ea(Left) \in 0 .. 3
        BY <1>2, <2>2
      <4> QED BY <1>1, <4>1, PlaceTwice
    <3>3. p + Ma(Left) > 3
      BY <1>1, <1>9, <2>2, <3>2, SharedBytes
    <3>4. ~(p + Ma(Left) <= 3) /\ Ea(Left) + (a - Ea(Left)) = a
      BY <1>2, <2>2, <3>3
    <3>5. Digit(x, p) = mem[a]
      BY <1>7, <3>1, <3>2, <3>4
    <3> QED BY <1>5, <2>2, <3>2, <3>5
  <2> QED BY <2>1, <2>2
<1>10. NeighboursKept'
  BY <1>1, <1>9 DEF NeighboursKept
<1>11. HalfStored'
  BY <1>1, <1>2, <1>8 DEF HalfStored
<1>12. HalfLoaded' /\ FieldInserted' /\ PairLoads' /\ PairStores' /\ FieldReturned' /\ LeftAlone'
  BY <1>1 DEF HalfLoaded, FieldInserted, PairLoads, PairStores, FieldReturned, LeftAlone
<1> QED BY <1>6, <1>10, <1>11, <1>12 DEF UnalignedInv

LEMMA RightStore ==
  ASSUME UnalignedInv, half = "half", half' = "done",
         Stores(Right,
                _swr(WordAt(Right), reg, Ma(Right)) \cup insn_swr(WordAt(Right), reg, Ma(Right)))
  PROVE  UnalignedInv'
<1>1. /\ UnalignedTypes /\ task = "store" /\ reg \in SUBSET Bits /\ reg = reg0
      /\ el \in BOOLEAN /\ place \in 0 .. 4 /\ mem \in [Addresses -> Byte]
      /\ UNCHANGED <<el, task, place, size, reg, mem0, reg0>>
  BY DEF Stores, UnalignedInv, UnalignedTypes, LeftAlone
<1>2. /\ WordAt(Right) \in SUBSET Bits /\ Ma(Right) \in 0 .. 3 /\ Ea(Right) \in 0 .. 4
      /\ 3 - Ma(Right) \in 0 .. 3
  BY <1>1, Alignment, WordsInMemory
<1>3. PICK x \in _swr(WordAt(Right), reg, Ma(Right)) \cup insn_swr(WordAt(Right), reg, Ma(Right)) :
        mem' = StoreWord(mem, Ea(Right), el, x)
  BY DEF Stores
<1>4. x = Up(reg, WordAt(Right), 3 - Ma(Right))
  <2>1. WordAt(Right) \in SUBSET Bits /\ reg \in SUBSET Bits /\ Ma(Right) \in 0 .. 3
    BY <1>1, <1>2
  <2>2. /\ _swr(WordAt(Right), reg, Ma(Right)) = {Up(reg, WordAt(Right), 3 - Ma(Right))}
        /\ insn_swr(WordAt(Right), reg, Ma(Right)) = {Up(reg, WordAt(Right), 3 - Ma(Right))}
    BY ONLY <2>1, RightStores
  <2> QED BY <1>3, <2>2
<1>5. /\ x \in SUBSET Bits
      /\ \A p \in 0 .. 3 :
           Digit(x, p) = IF p >= 3 - Ma(Right) THEN Digit(reg, p - (3 - Ma(Right)))
                         ELSE Digit(WordAt(Right), p)
  <2>1. WordAt(Right) \in SUBSET Bits /\ reg \in SUBSET Bits /\ 3 - Ma(Right) \in 0 .. 3
    BY <1>1, <1>2
  <2> QED BY ONLY <1>4, <2>1, UpDigits
<1>6. /\ mem' \in [Addresses -> Byte]
      /\ \A a \in Addresses :
           mem'[a] = IF a \in Ea(Right) .. Ea(Right) + 3
                     THEN Digit(x, Place(el, a - Ea(Right))) ELSE mem[a]
  BY <1>1, <1>2, <1>3, <1>5, StoredDigits
<1>7. UnalignedTypes'
  BY <1>1, <1>6 DEF UnalignedTypes
<1>8. ASSUME NEW q \in 0 .. 3
      PROVE  mem'[place + Place(el, q)] = Digit(reg0, q)
  <2>1. place + Place(el, q) \in Addresses
    BY <1>1, PlaceTwice DEF Addresses
  <2>2. CASE q <= Ma(Right)
    <3>1. PICK u \in 0 .. 3 : u = q + (3 - Ma(Right))
      BY <1>2, <2>2
    <3>2. q \in 0 .. Ma(Right) /\ u >= 3 - Ma(Right) /\ u - (3 - Ma(Right)) = q
      BY <1>2, <2>2, <3>1
    <3>3. place + Place(el, q) = Ea(Right) + Place(el, u)
      BY <1>1, <3>1, <3>2, SharedBytes
    <3>4. PICK p \in 0 .. 3 : p = Place(el, u) /\ Place(el, p) = u
      BY <1>1, <3>1, PlaceTwice
    <3>5. PICK a \in Addresses : a = place + Place(el, q)
      BY <2>1
    <3>6. a \in Ea(Right) .. Ea(Right) + 3 /\ a - Ea(Right) = p
      BY <1>2, <3>3, <3>4, <3>5
    <3>7. mem'[a] = Digit(x, u)
      BY <1>6, <3>4, <3>6
    <3>8. Digit(x, u) = Digit(reg, q)
      BY <1>5, <3>2
    <3> QED BY <1>1, <3>5, <3>7, <3>8
  <2>3. CASE q > Ma(Right)
    <3>1. place + Place(el, q) \notin Ea(Right) .. Ea(Right) + 3
      BY <1>1, <2>3, SharedBytes
    <3>2. mem'[place + Place(el, q)] = mem[place + Place(el, q)]
      BY <1>6, <2>1, <3>1
    <3>3. Ma(Left) \in 0 .. 3 /\ Ma(Left) # 0 /\ q \in Ma(Left) .. 3
      BY <1>1, <1>2, <2>3, Alignment
    <3> QED BY <1>1, <3>2, <3>3 DEF UnalignedInv, HalfStored
  <2> QED BY <1>2, <2>2, <2>3
<1>9. LoadWord(mem', place, el) = reg0
  <2>1. /\ LoadWord(mem', place, el) \in SUBSET Bits
        /\ \A q \in 0 .. 3 : Digit(LoadWord(mem', place, el), q) = mem'[place + Place(el, q)]
    BY <1>1, <1>6, LoadedDigits
  <2> QED BY <1>1, <1>8, <2>1, DigitsAreAll
<1>10. ASSUME NEW a \in Addresses, a \notin place .. place + 3
       PROVE  mem'[a] = mem[a]
  <2>1. CASE a \notin Ea(Right) .. Ea(Right) + 3
    BY <1>6, <2>1
  <2>2. CASE a \in Ea(Right) .. Ea(Right) + 3
    <3>1. PICK p \in 0 .. 3 : p = Place(el, a - Ea(Right)) /\ Place(el, p) = a - Ea(Right)
      <4>1. a - Ea(Right) \in 0 .. 3
        BY <1>2, <2>2
      <4> QED BY <1>1, <4>1, PlaceTwice
    <3>2. p < 3 - Ma(Right)
      BY <1>1, <1>10, <2>2, <3>1, SharedBytes
    <3>3. ~(p >= 3 - Ma(Right)) /\ Ea(Right) + (a - Ea(Right)) = a
      BY <1>2, <2>2, <3>2
    <3>4. Digit(x, p) = mem[a]
      BY <1>1, <1>5, <3>1, <3>3, WordsInMemory
    <3> QED BY <1>6, <2>2, <3>1, <3>4
  <2> QED BY <2>1, <2>2
<1>11. NeighboursKept'
  BY <1>1, <1>10 DEF NeighboursKept, UnalignedInv
<1>12. PairStores'
  BY <1>1, <1>9 DEF PairStores
<1>13. /\ HalfLoaded' /\ HalfStored' /\ FieldInserted' /\ PairLoads' /\ FieldReturned'
       /\ LeftAlone'
  BY <1>1 DEF HalfLoaded, HalfStored, FieldInserted, PairLoads, FieldReturned, LeftAlone
<1> QED BY <1>7, <1>11, <1>12, <1>13 DEF UnalignedInv

LEMMA FieldIn ==
  ASSUME UnalignedInv,
         Field("start", "half", _ins(reg, Bits \ reg, place, size)
                                  \cup insn_ins(reg, Bits \ reg, place, size))
  PROVE  UnalignedInv'
<1>1. /\ task = "field" /\ half = "start" /\ half' = "half" /\ mem = mem0 /\ reg = reg0
      /\ UNCHANGED <<el, task, place, size, mem, mem0, reg0>>
      /\ reg \in SUBSET Bits /\ place \in Bits /\ size \in 1 .. W - place
  BY DEF Field, UnalignedInv, UnalignedTypes, LeftAlone
<1>2. PICK m \in Mask(size) : reg' = ((Bits \ reg) \ Shl(m, place)) \cup Shl(reg \cap m, place)
  BY <1>1 DEF Field, _ins, insn_ins
<1>3. reg' \in SUBSET Bits
  BY <1>2 DEF Shl
<1>4. UnalignedTypes'
  BY <1>1, <1>3 DEF UnalignedInv, UnalignedTypes
<1>5. ASSUME size # W
      PROVE  LShr(reg', place) \cap Ones(size) = reg0 \cap Ones(size)
  <2>1. size \in Nat /\ place \in Nat /\ size + place <= W /\ size < W /\ W \in Nat
    BY <1>1, <1>5, Multiples DEF Bits
  <2>2. m = Ones(size) /\ m \in SUBSET Bits
    BY <1>2, <2>1 DEF Mask, Ones, Bits
  <2>3. ASSUME NEW b \in Ones(size)
        PROVE  b \in LShr(reg', place) <=> b \in reg
    <3>1. b \in Bits /\ b + place \in Bits /\ (b + place) - place = b /\ place \in Int
      BY <2>1 DEF Ones, Bits
    <3>2. b \in LShr(reg', place) <=> b + place \in reg'
      BY <1>3, <3>1, InLShr
    <3>3. b + place \in Shl(m, place)
      BY <2>2, <3>1, InShl
    <3>4. b + place \in Shl(reg \cap m, place) <=> b \in reg
      BY <1>1, <2>2, <3>1, InShl
    <3> QED BY <1>2, <3>2, <3>3, <3>4
  <2> QED BY <1>1, <2>3
<1>6. FieldInserted'
  BY <1>1, <1>5 DEF FieldInserted
<1>7. /\ HalfLoaded' /\ HalfStored' /\ PairLoads' /\ PairStores' /\ FieldReturned'
      /\ LeftAlone' /\ NeighboursKept'
  BY <1>1 DEF HalfLoaded, HalfStored, PairLoads, PairStores, FieldReturned, LeftAlone,
              NeighboursKept
<1> QED BY <1>4, <1>6, <1>7 DEF UnalignedInv

LEMMA FieldOut ==
  ASSUME UnalignedInv,
         Field("half", "done", _ext(reg, place, size) \cup insn_ext(reg, place, size))
  PROVE  UnalignedInv'
<1>1. /\ task = "field" /\ half = "half" /\ half' = "done" /\ mem = mem0
      /\ UNCHANGED <<el, task, place, size, mem, mem0, reg0>>
      /\ place \in Bits /\ size \in 1 .. W - place
  BY DEF Field, UnalignedInv, UnalignedTypes, LeftAlone
<1>2. PICK m \in Mask(size) : reg' = LShr(reg, place) \cap m
  BY <1>1 DEF Field, _ext, insn_ext
<1>3. reg' \in SUBSET Bits
  BY <1>2 DEF LShr
<1>4. UnalignedTypes'
  BY <1>1, <1>3 DEF UnalignedInv, UnalignedTypes
<1>5. size # W => reg' = reg0 \cap Ones(size)
  <2>1. size # W => size < W
    BY <1>1, Multiples DEF Bits
  <2> QED BY <1>1, <1>2, <2>1 DEF Mask, UnalignedInv, FieldInserted
<1>6. FieldReturned'
  BY <1>1, <1>5 DEF FieldReturned
<1>7. /\ HalfLoaded' /\ HalfStored' /\ FieldInserted' /\ PairLoads' /\ PairStores'
      /\ LeftAlone' /\ NeighboursKept'
  BY <1>1 DEF HalfLoaded, HalfStored, FieldInserted, PairLoads, PairStores, LeftAlone,
              NeighboursKept
<1> QED BY <1>4, <1>6, <1>7 DEF UnalignedInv

(* The engines agree in any state with such values.                        *)
LEMMA EnginesAgree == UnalignedTypes => HalvesAgree
<1> SUFFICES ASSUME UnalignedTypes, task \in {"load", "store"}
             PROVE  /\ Ma(Left) # 0 => _lwl(WordAt(Left), reg, Ma(Left))
                                         = insn_lwl(WordAt(Left), reg, Ma(Left))
                    /\ Ma(Right) # 3 => _lwr(WordAt(Right), reg, Ma(Right))
                                          = insn_lwr(WordAt(Right), reg, Ma(Right))
                    /\ _swl(WordAt(Left), reg, Ma(Left)) = insn_swl(WordAt(Left), reg, Ma(Left))
                    /\ _swr(WordAt(Right), reg, Ma(Right)) = insn_swr(WordAt(Right), reg, Ma(Right))
  BY DEF HalvesAgree
<1>1. /\ WordAt(Left) \in SUBSET Bits /\ WordAt(Right) \in SUBSET Bits /\ reg \in SUBSET Bits
      /\ Ma(Left) \in 0 .. 3 /\ Ma(Right) \in 0 .. 3
  BY Alignment, WordsInMemory DEF UnalignedTypes
<1>2. Ma(Left) # 0 => Ma(Left) \in 1 .. 3
  BY <1>1
<1>3. Ma(Right) # 3 => Ma(Right) \in 0 .. 2
  BY <1>1
<1>4. Ma(Left) # 0 => _lwl(WordAt(Left), reg, Ma(Left)) = insn_lwl(WordAt(Left), reg, Ma(Left))
  <2> SUFFICES ASSUME Ma(Left) \in 1 .. 3
               PROVE  _lwl(WordAt(Left), reg, Ma(Left)) = insn_lwl(WordAt(Left), reg, Ma(Left))
    BY <1>2
  <2>1. /\ _lwl(WordAt(Left), reg, Ma(Left)) = {Up(WordAt(Left), reg, Ma(Left))}
        /\ insn_lwl(WordAt(Left), reg, Ma(Left)) = {Up(WordAt(Left), reg, Ma(Left))}
    BY ONLY <1>1, Ma(Left) \in 1 .. 3, LeftLoads
  <2> QED BY <2>1
<1>5. Ma(Right) # 3 => _lwr(WordAt(Right), reg, Ma(Right)) = insn_lwr(WordAt(Right), reg, Ma(Right))
  <2> SUFFICES ASSUME Ma(Right) \in 0 .. 2
               PROVE  _lwr(WordAt(Right), reg, Ma(Right)) = insn_lwr(WordAt(Right), reg, Ma(Right))
    BY <1>3
  <2>1. /\ _lwr(WordAt(Right), reg, Ma(Right)) = {Down(WordAt(Right), reg, 3 - Ma(Right))}
        /\ insn_lwr(WordAt(Right), reg, Ma(Right)) = {Down(WordAt(Right), reg, 3 - Ma(Right))}
    BY ONLY <1>1, Ma(Right) \in 0 .. 2, RightLoads
  <2> QED BY <2>1
<1>6. _swl(WordAt(Left), reg, Ma(Left)) = insn_swl(WordAt(Left), reg, Ma(Left))
  BY DEF _swl, insn_swl
<1>7. _swr(WordAt(Right), reg, Ma(Right)) = insn_swr(WordAt(Right), reg, Ma(Right))
  BY DEF _swr, insn_swr
<1> QED BY <1>4, <1>5, <1>6, <1>7

LEMMA UnalignedStep == UnalignedInv /\ [UnalignedNext]_unalignedVars => UnalignedInv'
<1> SUFFICES ASSUME UnalignedInv, [UnalignedNext]_unalignedVars
             PROVE  UnalignedInv'
  OBVIOUS
<1>1. CASE InterpretLeft \/ RunLeft
  BY <1>1, LeftLoad, LeftStore DEF InterpretLeft, RunLeft, Loads, Stores
<1>2. CASE InterpretRight \/ RunRight
  BY <1>2, RightLoad, RightStore DEF InterpretRight, RunRight, Loads, Stores
<1>3. CASE InterpretField \/ RunField
  BY <1>3, FieldIn, FieldOut DEF InterpretField, RunField, Field
<1>4. CASE UNCHANGED unalignedVars
  BY <1>4 DEF unalignedVars, UnalignedInv, UnalignedTypes, LeftAlone, HalfLoaded, HalfStored,
              FieldInserted, PairLoads, PairStores, NeighboursKept, FieldReturned, Ma, Left
<1> QED BY <1>1, <1>2, <1>3, <1>4 DEF UnalignedNext

(* Whichever half of an unaligned copy was compiled, the guest's word is   *)
(* copied and its neighbours are not touched; both engines merge the same  *)
(* bytes; and ext returns what ins put in: for bytes of any width.         *)
THEOREM UnalignedIsCopied == UnalignedSpec => []UnalignedCopies
<1>1. UnalignedInit => UnalignedInv
  BY Multiples
     DEF UnalignedInit, UnalignedInv, UnalignedTypes, LeftAlone, HalfLoaded, HalfStored,
         FieldInserted, PairLoads, PairStores, NeighboursKept, FieldReturned
<1>2. UnalignedInv => UnalignedCopies
  BY EnginesAgree DEF UnalignedInv, UnalignedCopies
<1> QED BY <1>1, <1>2, UnalignedStep, PTL DEF UnalignedSpec

=============================================================================
