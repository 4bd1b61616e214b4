----------------------------- MODULE RegionSSA -----------------------------
(***************************************************************************)
(* How a region's registers become SSA values: which blocks define and     *)
(* read a register, whether a pair of floating-point registers is used as  *)
(* two singles, a double or both, where phis go, and the renaming down the *)
(* dominator tree, in which every block starts from a copy of the table    *)
(* its dominator left. Then the code runs along any path of the region     *)
(* beside the interpreter, and may leave it after any block.               *)
(*                                                                         *)
(* The registers are one of each kind: $1, lo, hi, the condition codes and *)
(* the pair $f0, $f1. What an instruction computes is a term over what it  *)
(* read. A double is the two words of the pair.                            *)
(***************************************************************************)
EXTENDS Dominance

CONSTANTS
  Cases,      \* the regions under study, with the instructions of each block
  MaxRun      \* bound on the blocks run

Gpr == "gpr"
Lo == "lo"
Hi == "hi"
Fcr == "fcr"
F0 == "f0"
F1 == "f1"
Icnt == "icnt"
Regs == {Gpr, Lo, Hi, Fcr, F0, F1}
Fprs == {F0, F1}

Insns == {"li", "addu", "mult", "mflo", "mfhi", "mthi", "c.d", "movci",
          "mfc1", "add.s0", "add.s1", "add.d"}

ASSUME RegionSSAAssumption ==
  /\ \A c \in Cases : c[2] \in [cfgBlocks(c[1]) \ {entryBlock} -> Seq(Insns)]
  /\ MaxRun \in Nat

(* What an instruction reads and writes, in words.                         *)
Uses(i) ==
  CASE i = "li" -> <<>>
    [] i \in {"addu", "mult", "mthi"} -> <<Gpr>>
    [] i = "mflo" -> <<Lo>>
    [] i = "mfhi" -> <<Hi>>
    [] i \in {"c.d", "add.d"} -> <<F0, F1>>
    [] i = "movci" -> <<Fcr, Gpr>>
    [] i \in {"mfc1", "add.s0"} -> <<F0>>
    [] i = "add.s1" -> <<F1>>

Writes(i) ==
  CASE i \in {"li", "addu", "mflo", "mfhi", "movci", "mfc1"} -> <<Gpr>>
    [] i = "mult" -> <<Lo, Hi>>
    [] i = "mthi" -> <<Hi>>
    [] i = "c.d" -> <<Fcr>>
    [] i = "add.s0" -> <<F0>>
    [] i = "add.s1" -> <<F1>>
    [] i = "add.d" -> <<F0, F1>>

(* mfhi and its like only rename a value.                                  *)
Copies == {"mflo", "mfhi", "mthi"}
Double(i) == i \in {"c.d", "add.d"}
Result(i, k, words) == IF i \in Copies THEN words[1] ELSE <<i, k, words>>

-----------------------------------------------------------------------------
(* recDefines, recUses: what an instruction tells the region it writes and *)
(* reads. A write of hi or lo is one of both, and a double's register is   *)
(* its even one.                                                           *)
recDefines(i) ==
  CASE i \in {"mult", "mthi"} -> {Lo, Hi}
    [] i = "add.d" -> {F0}
    [] OTHER -> {Writes(i)[k] : k \in DOMAIN Writes(i)}

recUses(i) ==
  IF Double(i) THEN {F0} ELSE {Uses(i)[k] : k \in DOMAIN Uses(i)}

Both == [f \in Fprs |-> "both"]
Unused == [f \in Fprs |-> "unused"]

(* updateFPRTouched: the pair's use so far, and one more, of reg.          *)
updateFPRTouched(t, reg, use) ==
  IF use = "double"
  THEN CASE t[reg] = "unused" /\ t[F1] = "single" -> Both
         [] t[reg] = "unused" /\ t[F1] # "single" ->
              [t EXCEPT ![F0] = "double", ![F1] = IF @ = "unused" THEN "double" ELSE @]
         [] t[reg] = "single" -> Both
         [] OTHER -> t
  ELSE CASE t[reg] = "unused" -> [t EXCEPT ![reg] = "single"]
         [] t[reg] = "double" -> Both
         [] OTHER -> t

Touches(i) ==
  IF Double(i) THEN {<<F0, "double">>}
  ELSE {<<f, "single">> : f \in Fprs \cap (recUses(i) \cup recDefines(i))}

(* cfgBasicBlock::fprTouched after the block's instructions.               *)
fprTouched(insns) ==
  FoldLeft(LAMBDA t, i : FoldSet(LAMBDA x, u : updateFPRTouched(u, x[1], x[2]), t, Touches(i)),
           Unused, insns)

(* Mutant: the first block to use a register decides its use.              *)
mergeFirst(all, t) ==
  [f \in Fprs |-> IF all[f] = "unused" THEN t[f] ELSE all[f]]

(* getRegDefBlocks merges a block's uses into the region's, even register  *)
(* first.                                                                  *)
merge(all, t) ==
  LET one(a, f) ==
        IF a[f] = "both" \/ t[f] = "unused" \/ a[f] = t[f] THEN a
        ELSE IF a[f] = "unused" THEN [a EXCEPT ![f] = t[f]]
        ELSE Both
  IN one(one(all, F0), F1)

(* hi's bit is not among those that are united.                            *)
getRegDefBlocks(code) ==
  LET defs(r) == {b \in DOMAIN code : \E k \in DOMAIN code[b] : r \in recDefines(code[b][k])}
      read(r) == \E b \in DOMAIN code : \E k \in DOMAIN code[b] : r \in recUses(code[b][k])
  IN [defs |-> [r \in Regs |-> defs(r)],
      reads |-> {r \in Regs \ {Hi} : read(r)},
      touched |-> FoldLeft(LAMBDA a, b : merge(a, fprTouched(code[b])), Unused,
                           InOrder(DOMAIN code))]

-----------------------------------------------------------------------------
(* insertPhis *)

(* inducePhis: the blocks that get a phi for what is defined in defs, and  *)
(* in the blocks with a phi.                                               *)
RECURSIVE inducePhis(_, _)
inducePhis(front, defs) ==
  LET more == UNION {front[b] : b \in defs}
  IN IF more \subseteq defs THEN more ELSE inducePhis(front, defs \cup more)

PhisOf(front, defs) == inducePhis(front, defs)

(* The entry block defines whatever is defined at all; the registers of a  *)
(* pair used as both share their definitions.                              *)
insertPhis(front, d) ==
  LET entered == [r \in Regs |-> IF d.defs[r] = {} THEN {} ELSE d.defs[r] \cup {entryBlock}]
      shared == IF d.touched[F0] = "both"
                THEN [entered EXCEPT ![F0] = entered[F0] \cup entered[F1],
                                     ![F1] = entered[F0] \cup entered[F1]]
                ELSE entered
  IN [defs |-> shared,
      phis |-> [r \in Regs \cup {Icnt} |->
                  PhisOf(front, IF r = Icnt THEN DOMAIN front ELSE shared[r])]]

-----------------------------------------------------------------------------
(* traverseAndRename. A table gives each register's value a name; nullptr  *)
(* is one without. Names are of a load, a phi, or an instruction's result. *)
nullptr == <<"nullptr">>

(* The entry block loads what is read or defined, and hi and lo together,  *)
(* when lo's bit says so.                                                  *)
(* Mutant: what is only written is not loaded.                             *)
EntryTableRead(d, p) ==
  LET loaded(r) == IF r \in {Lo, Hi} THEN Lo \in d.reads ELSE r \in d.reads
  IN [r \in Regs \cup {Icnt} |->
        IF r = Icnt \/ loaded(r) THEN <<"load", r>> ELSE nullptr]

EntryTable(d, p) ==
  LET loaded(r) == IF r \in {Lo, Hi} THEN Lo \in d.reads \/ p.defs[Lo] # {}
                   ELSE r \in d.reads \/ p.defs[r] # {}
  IN [r \in Regs \cup {Icnt} |->
        IF r = Icnt \/ loaded(r) THEN <<"load", r>> ELSE nullptr]

(* getFPR of a double loads the second half of a pair that has none yet.   *)
loadFPR(d, tbl, i) ==
  IF Double(i) /\ d.touched[F0] = "both" /\ tbl[F1] = nullptr
  THEN [tbl EXCEPT ![F1] = <<"load", F1>>] ELSE tbl

(* A double typed as one has a single name.                                *)
Paired(d, i) == Double(i) /\ d.touched[F0] = "double"
getFPR(d, tbl, i) ==
  IF Paired(d, i) THEN <<tbl[F0]>> ELSE [k \in DOMAIN Uses(i) |-> tbl[Uses(i)[k]]]
setFPR(d, i) == IF Paired(d, i) /\ i = "add.d" THEN <<F0>> ELSE Writes(i)

(* A value asked for as a single when it is a double, or the other way.    *)
Mistyped(d, i) ==
  \E x \in Touches(i) : d.touched[x[1]] \notin {x[2], "both"}

(* generateIR of one instruction, the k-th of block b.                     *)
codeGen(d, b, g, k, i) ==
  LET tbl == loadFPR(d, g.tbl, i)
      args == getFPR(d, tbl, i)
      to == setFPR(d, i)
      name(r) == <<"insn", b, k, r>>
      renamed == [r \in DOMAIN tbl |-> IF \E j \in DOMAIN to : to[j] = r THEN name(r) ELSE tbl[r]]
  IN IF i \in Copies THEN [g EXCEPT !.tbl = [tbl EXCEPT ![to[1]] = args[1]]]
     ELSE [g EXCEPT !.tbl = renamed,
                    !.code = Append(@, [insn |-> i, args |-> args,
                                        to |-> [j \in DOMAIN to |-> name(to[j])]]),
                    !.dies = @ \/ (\E j \in DOMAIN args : args[j] = nullptr) \/ Mistyped(d, i)]

(* A block: its phis, the count of its instructions, the instructions.     *)
Rename(d, p, insns, b, above) ==
  LET phied == [r \in DOMAIN above |-> IF b \in p.phis[r] THEN <<"phi", b, r>> ELSE above[r]]
  IN FoldLeft(LAMBDA g, k : codeGen(d, b, g, k, insns[k]),
              [tbl |-> [phied EXCEPT ![Icnt] = <<"count", b>>], code |-> <<>>, dies |-> FALSE,
               counted |-> phied[Icnt]],
              [k \in DOMAIN insns |-> k])

(* Before the walk every block stands for the entry block's table.         *)
Unrenamed(g, d, p) ==
  [b \in cfgBlocks(g) |-> [tbl |-> EntryTable(d, p), code |-> <<>>, dies |-> FALSE,
                        counted |-> nullptr]]

traverseAndRename(g, tree, d, p, insns) ==
  FoldLeft(LAMBDA t, b : [t EXCEPT ![b] = Rename(d, p, insns[b], b, t[tree[b]].tbl)],
           Unrenamed(g, d, p), Tail(preOrder(g)))

(* addIncomingEdge and the stores of generateAbortBasicBlock die over a    *)
(* register that has to have a value and has none.                         *)
MissingValue(g, p, t) ==
  \E r \in Regs, b \in cfgBlocks(g) \ {entryBlock} :
    \/ b \in p.phis[r] /\ \E x \in Preds(g, b) : t[x].tbl[r] = nullptr
    \/ p.defs[r] # {} /\ t[b].tbl[r] = nullptr

-----------------------------------------------------------------------------
VARIABLES
  code,     \* the instructions of each block
  region,   \* uses: what the blocks define and read; ssa: the phis; blocks: their code
  cpu,      \* the registers as interpreted
  run       \* the compiled code running: its block, its values, what it stored

shape == <<succs, idom, dfn, df, loops>>
vars == <<shape, phase, code, region, cpu, run>>

Start == [r \in Regs \cup {Icnt} |-> IF r = Icnt THEN 0 ELSE <<"start", r>>]

Init ==
  /\ \E c \in Cases : Built(c[1]) /\ code = c[2]
  /\ region = <<>>
  /\ cpu = Start
  /\ run = [at |-> entryBlock, env |-> <<>>, blocks |-> 0, out |-> <<>>]

(* The values the entry block loads. A value is the sequence of its words. *)
Loads(d) ==
  [x \in {<<"load", r>> : r \in Regs \cup {Icnt}} |->
     IF x[2] = F0 /\ d.touched[F0] = "double" THEN <<Start[F0], Start[F1]>> ELSE <<Start[x[2]]>>]

AnalyzeShape ==
  /\ \/ ComputeDominance \/ ComputeLengauerTarjan \/ FastDominance
     \/ ComputeFrontiers \/ FindNaturalLoops
  /\ UNCHANGED <<code, region, cpu, run>>

InsertPhis ==
  /\ phase = "loops"
  /\ phase' = "phis"
  /\ region' = LET uses == getRegDefBlocks(code)
               IN [uses |-> uses, ssa |-> insertPhis(df, uses)]
  /\ UNCHANGED <<shape, code, cpu, run>>

(* generateMachineCode: traverseAndRename, patchUpPhiNodes.                *)
GenerateMachineCode ==
  /\ phase = "phis"
  /\ LET t == traverseAndRename(succs, idom, region.uses, region.ssa, code)
         dies == (\E b \in DOMAIN code : t[b].dies) \/ MissingValue(succs, region.ssa, t)
     IN /\ phase' = IF dies THEN "died" ELSE "compiled"
        /\ region' = region @@ [blocks |-> t]
  /\ run' = [run EXCEPT !.env = Loads(region.uses)]
  /\ UNCHANGED <<shape, code, cpu>>

(* The interpreter runs an instruction.                                    *)
InterpretInsn(s, i) ==
  LET words == [k \in DOMAIN Uses(i) |-> s[Uses(i)[k]]]
      writer(r) == {k \in DOMAIN Writes(i) : Writes(i)[k] = r}
  IN [r \in DOMAIN s |->
        IF r = Icnt THEN s[Icnt] + 1
        ELSE IF writer(r) = {} THEN s[r]
        ELSE Result(i, CHOOSE k \in writer(r) : TRUE, words)]

(* The code of block b, entered from block x: the phis read their values   *)
(* all at once.                                                            *)
Entered(x, b) ==
  LET new == {r \in Regs \cup {Icnt} : b \in region.ssa.phis[r]}
      phied == [n \in {<<"phi", b, r>> : r \in new} |-> run.env[region.blocks[x].tbl[n[3]]]]
               @@ run.env
  IN (<<"count", b>> :> <<phied[region.blocks[b].counted][1] + Len(code[b])>>) @@ phied

RunInsn(env, e) ==
  LET words == FoldLeft(LAMBDA w, a : w \o env[a], <<>>, e.args)
      value(j) == IF e.insn = "add.d" /\ Len(e.to) = 1
                  THEN <<Result(e.insn, 1, words), Result(e.insn, 2, words)>>
                  ELSE <<Result(e.insn, j, words)>>
  IN [n \in {e.to[j] : j \in DOMAIN e.to} |-> value(CHOOSE j \in DOMAIN e.to : e.to[j] = n)] @@ env

RunBlock(b) ==
  /\ phase = "compiled"
  /\ run.out = <<>>
  /\ run.blocks < MaxRun
  /\ b \in succs[run.at]
  /\ run' = [run EXCEPT !.at = b, !.blocks = @ + 1,
                        !.env = FoldLeft(RunInsn, Entered(run.at, b), region.blocks[b].code)]
  /\ cpu' = FoldLeft(InterpretInsn, cpu, code[b])
  /\ UNCHANGED <<shape, phase, code, region>>

(* storeFPR of a double stores both halves.                                *)
Stored(r) ==
  LET tbl == region.blocks[run.at].tbl
      pair == region.uses.touched[F0] = "double" /\ region.ssa.defs[F0] # {}
  IN IF r = Icnt THEN run.env[tbl[Icnt]][1]
     ELSE IF r = F1 /\ pair THEN run.env[tbl[F0]][2]
     ELSE IF region.ssa.defs[r] # {} THEN run.env[tbl[r]][1]
     ELSE Start[r]

(* generateAbortBasicBlock: whatever the region defines is stored back.    *)
Abort ==
  /\ phase = "compiled"
  /\ run.out = <<>>
  /\ run.at # entryBlock
  /\ run' = [run EXCEPT !.out = [r \in Regs \cup {Icnt} |-> Stored(r)]]
  /\ UNCHANGED <<shape, phase, code, region, cpu>>

Next ==
  \/ AnalyzeShape \/ InsertPhis \/ GenerateMachineCode
  \/ Abort
  \/ \E b \in DOMAIN code : RunBlock(b)

Spec == Init /\ [][Next]_vars

-----------------------------------------------------------------------------
(* Wherever the region is left, on whatever path, the registers and the    *)
(* instruction count are those the interpreter has there: the phis are     *)
(* where values meet, no table of one path leaks into another, and the two *)
(* halves of a pair are never mixed up.                                    *)
SameState == run.out # <<>> => run.out = cpu

(* Every register has a value wherever the generator asks for one, and of  *)
(* the type it asks for, but for one case: a region that reads hi and      *)
(* neither reads lo nor writes either.                                     *)
DiesOnlyOverHi ==
  phase = "died" =>
    /\ \E b \in DOMAIN code : \E k \in DOMAIN code[b] : Hi \in recUses(code[b][k])
    /\ Lo \notin region.uses.reads
    /\ region.ssa.defs[Hi] = {}

(* getRegDefBlocks says of the reads of its blocks: "Union bitvectors".    *)
ReadsAreUnited ==
  region # <<>> =>
    \A b \in DOMAIN code : \A k \in DOMAIN code[b] : recUses(code[b][k]) \subseteq region.uses.reads
=============================================================================
