# Verification of mips32-bt

mips32-bt simulates a 32-bit MIPS. It interprets the guest, builds basic blocks
while it interprets, watches for hot loops, records the blocks a hot loop
executes, compiles such a *region* with LLVM and runs the compiled code until
control leaves the region. This directory holds TLA+ models of that program, TLC
configurations and TLAPS proofs.

The program is single-threaded. What makes it hard is, first, one mutable graph
of blocks to which five parties hold references: the main loop (`cBB`), the
interpreter's instruction map, the region finder's tables, the traces recorded in
the blocks and the compiled code. The interpreter splits blocks under all of
them, and SIGINT `longjmp`s out of any of them. Second, everything is written
twice: a guest instruction has a handler and a code generator, a block is left by
the interpreter or by a terminator, the count of instructions is kept by each
engine in its own way, and the guest must not notice which of them is at work.

## The system

| Component (source) | State | Operations | Correct when |
|---|---|---|---|
| Main loop (`main.cc`, `executeJIT`) | `cBB`, `s->pc`, `s->brk` | `executeJIT`, else interpret and build; SIGINT; shutdown; load an executable or a dump | the pc is always where `cBB` begins or grows; the guest executes as in the plain simulator |
| Interpreter (`interpret.cc`) | guest registers, memory, count | one handler per instruction; jumps end in `getNextBlock` | every way out of a block finds or creates the block it goes to |
| Block graph (`basicBlock.*`) | `bbMap`, `insMap`, per block: instructions, `termAddr`, edges, flags, regions, code | `addIns`, `setReadOnly`, `split`, `findBlock`, `addRegion`, `dropAllBBs` | blocks are runs of words that end at the first jump, maps and edges agree, a split invalidates what it must |
| Region finder (`region.*`) | `regionHeads`, `regionCounts`, `blockCache`, `currRegionHead` | `updateRegionHeads`, `update`, `getRegion`, `disableRegionCollection` | a region is one trip round one loop and goes to the block it starts with |
| Compile filter (`compile.cc`) | none | `canCompileInstr` | what it accepts has a translation |
| Region CFG (`regionCFG.*`, `cfgBasicBlock.cc`) | blocks of a region, edges, dominance, phis | `buildCFG`, `splitBBs`, `patchLikely`, `analyzeGraph`, `run` | one head, the edges the code takes and no other, every phi where values meet |
| Code generation (`mipsInstruction.*`) | LLVM IR | `codeGen` per instruction | does what the interpreter does; leaves through an edge of the region or stores the pc and aborts |
| Monitor calls (`monitor.hh`) | open files | system services, return to the caller | time as the guest's instructions take it |
| Save and restore (`saveState.cc`) | the dump file | `dumpState`, `loadState` | a dump that loads is the machine it was taken of |
| SimPoints (`simPoints.cc`) | `last_icnt`, `last_slice`, `simLog` | `log_bb` | every instruction is counted once |
| Perf map (`perfmap.cc`) | `theInstance`, `refs`, `perfLog` | `getReference`, `addEntry`, `relReference` | all code that can run has its name |

`executeJIT` is where they meet. It shows the block to the finder; if that
closes a region it counts the region in the block and, once it has been seen
often enough, compiles it; it then runs the compiled code or interprets the
block; finally it looks up or creates the next block and counts it as a possible
head. Hard behaviours, listed with their lines as `hazards` in `PROJECT.json`:

* a jump into the middle of a block that is being traced, is compiled, is in
  others' compiled code, is still being built, or is the block executing;
* a jump into a delay slot, blocks that overlap because control fell into code
  already known, blocks without a jump at their end, branch-likelies;
* a trap, a `sync` or SIGINT at any point of all this;
* bounds: the capacity of `blockCache`, shared slots of `regionHeads`,
  `termAddr` as the last word `run` interprets, shifts by the width of a word;
* `die()` and `exit` calls in `addSuccessor`, `buildCFG` and the code generator
  that take consistency of the graph, or of four decoders, for granted;
* a dump that is cut short, a count that is kept in three places.

## Modules

| Module | Models | |
|---|---|---|
| `Words` | | the address space, shared by the modules about blocks |
| `HotRegion` | `region.cc` | the finder's operations on a finder record |
| `RegionFinder` | its callers, abstractly | the finder under the most general client |
| `Guest` | instruction kinds, `isBranchOrJump`, branch handlers | the guest program: for each word its kind and targets |
| `Iss` | the `--cfg=false` loop | abstract specification: one instruction per step |
| `BlockGraph` | `basicBlock.cc`, `getNextBlock`, region part of `buildCFG` | operations on the graph record |
| `Dispatch` | `main.cc`, `executeJIT`, `run`, `regionCFG::run` | the machine: the operators above put together |
| `DispatchProps` | | its invariants and the refinement of `Iss` |
| `DispatchFinder` | | the refinement of `RegionFinder` |
| `RegionBuild` | `buildCFG`, `splitBBs`, `repairBrokenEdges`, `patchLikely`, the terminators of the generated code | the CFG of a region, edge by edge |
| `BuildProps` | | every region `Dispatch` compiles, built with `RegionBuild` |
| `Decode` | `execMips`, `canCompileInstr`, `getInsn`, the instruction classes | one word through the four places that take it apart |
| `Semantics` | integer instructions, both engines | side by side on the same registers |
| `Unaligned` | `lwl`, `lwr`, `swl`, `swr`, `ext`, `ins`, both engines | on words as sets of bits |
| `GuestMemory` | | abstract specification of loads and stores: a row of bytes in the guest's order |
| `LoadStore` | loads and stores of every width, both engines | on a little-endian host; refines `GuestMemory` |
| `Dominators` | `computeDominance`, Lengauer-Tarjan, `dfrontier`, `naturalLoops` | as operators on a graph |
| `Dominance` | `analyzeGraph` up to the loops | one action per pass |
| `RegionSSA` | `getRegDefBlocks`, `insertPhis`, `traverseAndRename`, the register tables | a region compiled and run beside the interpreter |
| `Checkpoint` | `saveState.cc`, its callers | dumps, kills and restarts |
| `Counting` | `s->icnt` and `iCnt`, `log_bb`, `gettimeofday` | the instruction count in three engines |
| `PerfMap` | `perfmap.cc`, its callers | the reference-counted log |
| `BlockGraphProofs` | | what each operation on the graph preserves, as lemmas |
| `RegionFinderProofs`, `DispatchProofs`, `PathProofs`, `RefinementProofs` | | theorems about the finder, the main loop, compiled code and paths of blocks, and the two refinements |
| `BuildProofs` | | theorems about `RegionBuild` on what `Dispatch` compiles |
| `InstructionProofs` | | theorems about `Decode`, `LoadStore`, `Unaligned` |
| `HostProofs` | | theorems about `Checkpoint`, `PerfMap` and `Counting` |
| `MCPrograms`, `MC*` | | guest programs and instances for TLC |

`MCInstructions` and `MCHost` check modules that have nothing to do with each
other in one run: a variable `part` names the module at work and the variables of
the others stand still, at one of their initial values.

**Correspondence: dispatch.** A `basicBlock*` is the block's entry address in
words. That is sound since `bbMap` holds one block per entry address and only
`dropAllBBs` deletes blocks; the pointers that survive in `regionHeads` become
`Stale`, and a comparison with one may go either way because an allocator reuses
memory. A `Dispatch` step is one guest instruction with its delay slot
(interpreted: `BuildPlain`, `BuildEnd`, `BuildSync`, `BuildStop` while a block is
built, `RunPlain`, `RunTrap`, `RunEnd` inside `basicBlock::run`; compiled:
`CfgWithin`, `CfgEdge`, `CfgAbort`) or one of the pieces of `executeJIT` between
them (`ExecuteJIT` up to the choice of engine, `RunReturn` for the look-up at the
end of `run`, `Post` for what follows both engines). `BuildEnd` and `RunEnd`
perform all of `getNextBlock`, with whatever split it leads to, in one step.
The order in which `aug_dfs` visits successors (by how hot they are) is either of
two orders. Register values are dropped: a branch goes either way, `jr`, `jalr`
and monitor calls go to any of the listed targets, `teq` traps or not. The guest
is any well-formed program: no instruction transfers to itself, and a delay slot
holds a plain instruction (a jump, trap or `sync` there is unpredictable in the
architecture). The checksum that tells regions apart is taken to be injective.

**Correspondence: the build of a region.** In `Dispatch` the compiled code is a
copy of the blocks' instructions and the edges between them. `RegionBuild` says
where these edges come from: cfgBasicBlocks are made (without the delay slot of a
branch-likely), split (`--splitCFGBBs`), joined by the recorded edges, by the
guess that a register jump returns to the head and by what their branches say,
checked, and given a patch block per branch-likely. `Transfers` is what the
terminators LLVM is given do, a branch or an abort per pc the guest may reach.
`EmitsTheEdges` ties the three together at every step that compiles a region: the
edges are those the terminators take, a terminator enters the block that begins
at the pc the guest reaches, and without splitting the edges are the ones
`Dispatch` runs on. `repairBrokenEdges` erases edges from the blocks of the graph
themselves, not from the copies: `repairBrokenEdges` in `RegionBuild` gives the
graphs it may leave, and `RepairsGoUnnoticed` compares what any later build makes of
such a graph with what it makes of the graph as drawn.

**Correspondence: instructions.** `Decode` follows a word, reduced to the fields
the switches read, from being recorded to being executed, filtered, wrapped,
asked for its registers and translated. `Semantics` executes one instruction by
the interpreter's C++ and by the generated LLVM operations, from the same
registers, until they differ; words have 3 bits and immediates 2. `Unaligned` and
`LoadStore` do the same for memory, the first with words that are sets of bits,
the second with bytes that are symbols, so that no byte can be mistaken for
another. A shift by the width of a word is undefined in C++ and LLVM and has
either outcome in the models.

**Correspondence: a region's values.** What an instruction of `RegionSSA` computes
is a term over what it read; the registers are one of each kind (`$1`, `lo`, `hi`,
the condition codes, the pair `$f0`, `$f1`) and the count. After the passes of
`analyzeGraph` the code runs along any path, phi by phi, and leaves after any
block; the interpreter's registers are kept beside it.

**Correspondence: the host.** In `Checkpoint` one register stands for all; the file
is a header, if written, and the pages written so far, so that `Stop` between two
writes is a dump cut short. `Counting` keeps the instructions really executed
(`retired`) beside the two counts. `PerfMap` has the regionCFG objects alive with
their code addresses, which may be reused once freed.

## Runs

| Run | Question | Instance |
|---|---|---|
| `region_finder` | the finder under every client: its invariants, and every collection ends | 3 blocks, 2 slots (two blocks share one), capacity 4, threshold 2 |
| `dispatch` | block graph, traces and code stay consistent; every region is built, with the edges its code takes, with and without `--splitCFGBBs`; the edges repaired away in one build change no later one | a program per hazard, all 463 placements of conditional branches in five words, and all four-word programs of two jumps, branch-likelies, register jumps or monitor calls among plain and non-compiling instructions; one sighting per region |
| `dispatch_refines` | the machine implements `Iss`, with progress, and is a client of `RegionFinder` | the programs of the hazards and one with two ways round a loop, `--aug=1` |
| `dispatch_regions` | regions that wait in their head stay loops; compiled once; every step is one of `Iss` (`StepsAsIss`) | the programs of the hazards and the 463, two sightings per region, capacity 3, `--both=false` |
| `instructions` | decoding, integer arithmetic, unaligned and aligned memory | every opcode, function, format and regimm code; 3-bit registers; 1-bit bytes in 4-byte words, every offset, both byte orders; 8 bytes of memory and 3 loads or stores |
| `region` | dominators (two algorithms), frontiers, loops, phis, renaming | every region of three blocks with two instructions, of four blocks with one; every order of addresses |
| `host` | dumps, perf map, counts, log, clock | 2 pages of 2 words; 2 heads and addresses, 4 log entries; 7 instructions, slices of 2 |
| `aug_heads`, `trap_successors`, `split_build`, `region_reads`, `resume` | disagreements, below | |

*Bounds.* Five words hold two overlapping loops, a jump into every word of a
block (its delay slot too) and a fall-through into known code, so every case of
`findBlock` and `split` occurs, in every order the program's control flow
allows. Three or four region-head slots (`NRegionHeads`) make blocks share slots.
A capacity of 4 lets traces of up to three blocks be recorded and longer ones be
given up. A threshold of 1 and one sighting per region make the compiler run as
early as possible; `dispatch_regions` makes regions wait. `NumEntries` is
`blockCache`'s size, `MaxOps`, `MaxRun`, `MaxIcnt`, `MaxRetired` and `MaxLog`
bound the loads and stores, the blocks run, the instructions of one run and the
entries of one log. Three words of
memory operations are enough for one to overwrite part of another and a third to
read the mixture; four blocks are enough for a definition whose phi makes
another necessary, and for Lengauer-Tarjan to defer a dominator. Registers of
3 bits have every case of sign, carry and most negative value, and a product that
fills two words. Nothing else is bounded: the state spaces are finite as they
stand.

*Fairness.* `Dispatch` has weak fairness of the main loop as a whole: the
program has one thread and never waits, so it takes a step whenever it can. It
does not assume that branches go any particular way, that a trap or SIGINT ever
happens, or that a region is ever compiled. `Iss` has the matching promise,
written out as `Progress`. `RegionFinder` assumes the same of its client;
`Split`, which happens during a block's run, may not be repeated for ever because
a block's run is finite. The other modules state no liveness.

*Deadlock* is checked where the system should go on: `region_finder` and all
`dispatch` runs (after the shutdown `Dispatch` stutters in `Exited`). The others
end: an instruction has been compared, a region left, the simulator stopped.

## What was found

* **`aug_heads`.** With the default `--aug=1`, blocks that `aug_dfs` adds to a region
  do not get the region's head into `cfgInRegions` (`basicBlock.hh:57`: "heads of
  regions that include this block"). When such a block is split later, the old
  compiled code stays. `dispatch_refines` shows for the programs it runs that the
  guest still executes as in the plain simulator; leaving the old code does,
  however, add edges to a block that no longer ends in the branch.
* **`trap_successors`.** A `teq` at the entry of a finished block that ends in a
  branch adds the block as its own third successor when it traps, and
  `addSuccessor` ends the program with an error. `EdgesRealizable` is therefore
  stated for as long as nothing has stopped the simulation.
* **`split_build`.** With `--splitCFGBBs`, `splitBBs` starts a block wherever a
  branch of the region goes. When that is the delay slot of another block's
  branch, the branch is cut off from its slot, and `buildCFG` dies of a "found
  impossible edge".
* **`region_reads`.** `getRegDefBlocks` unites what the blocks read, but of the pair
  hi and lo only bit 0, lo. A region that reads `hi`, and neither reads `lo` nor
  writes either, never loads it and its code generation meets a null value.
  `DiesOnlyOverHi` says that this is the one way for a value to be missing.
* **`resume`.** A dump restores the pc, and `main` overwrites it with the entry
  point, which is 0 without an executable. The byte order is not in the dump at
  all.

What the properties of `instructions` except is a list of differences between
the engines: `teq` compiles to nothing; the trapping additions, `maddu`, two
unordered comparisons and a regimm branch the interpreter loops on have no code
and end the simulator when they are in a region (`TranslatorStops`); division by
zero, `clz` of 0, `jalr` through `$31` and a result into `$0` differ or end the
interpreter (`Divergent`); a load or field shifted by the width of a word
(`HalvesAgree`, `FieldReturned`); `madd` and `msub` read a `lo` with its top
bit set as negative, which makes `hi` all ones whatever it was, in both engines:
`MaddAccumulates` says so for every `lo`.

Also seen while reading, and not the subject of a run:

* `region.cc:16` comments the test `bb_ea > lbb_ea` "forward branch...", but after an
  interpreted jump `getNextBlock` has already moved `cBB`, which `executeJIT` passes as
  the last block, so forward transfers are counted too.
* `regionCFG.hh:331` says of `isNestedLoop` that the other loop's head dominates this
  one's; the code asks the opposite.
* `splitBBs` takes a `j` to go past its delay slot as well and adds that edge, for
  which no code is generated (`AfterJump` in `BuildProps`).
* With a collection in progress at the shutdown, `dropAllBBs` deletes the blocks
  before `disableRegionCollection` reads the head's address (`basicBlock.cc:88-95`).
* `log_bb` is called with the count before a block by the interpreter and with the
  count after it by compiled code: the interpreter credits a block with the
  instructions of what ran before it.
* A later `perfmap` object writes over the file of an earlier one, with an empty log
  if all it saw was a region that failed to compile.
* `--dumpicnt` ends with `exit(-1)`, which loses the SimPoints log; `max_icnt` is
  ignored with the JIT; SIGINT inside compiled code loses its count.
* `times` sets no result with the guest's clock; `getargs` copies at most `MARGS`
  arguments and returns up to `MARGS + 1`.

## Proofs

| Module | Theorem | Statement |
|---|---|---|
| `RegionFinderProofs` | `TypeCorrect` | `Spec => []TypeOK` (with the bound on the trace) |
| | `OwnsSlot` | `Spec => []CollectingOwnsSlot` |
| | `TraceStartsAtHead` | `Spec => []TraceBeginsAtHead` |
| | `RegionsWellFormed` | `Spec => []RegionWellFormed` |
| | `RegionsGoToHead` | `Spec => RegionGoesToHead` |
| `DispatchProofs` | `DispatchAtBlock` | `Spec => []LoopAtBlock` |
| | `RunStaysInBlock` | `Spec => []RunCoversBlock` |
| | `BlocksStayWellFormed` | `Spec => []BlocksWellFormed` |
| | `EdgesStaySymmetric` | `Spec => []EdgesSymmetric` |
| | `CompiledOnlyOnce` | `Spec => []CompiledOnce` |
| `PathProofs` | `HeadsAlwaysRecorded` | `Aug = "none" => (Spec => []RegionHeadsRecorded)` |
| | `CodeStaysCurrent` | `Aug = "none" => (Spec => []CodeIsCurrent)` |
| | `TraceStaysPath` | `Spec => []TraceIsPath` |
| | `RegionsStayLoops` | `Spec => []RegionsAreLoops` |
| | `EdgesStayRealizable` | `Aug = "none" => (Spec => []EdgesRealizable)` |
| `BuildProofs` | `BuildNeverGivesUp` | `Aug = "none" => (Spec => BuildNeverDies)` |
| | `CodeGoesWhereTheEdgesSay` | `Aug = "none" => (Spec => EmitsTheEdges)` |
| | `RepairsNeverShow` | `Spec => RepairsGoUnnoticed` |
| `RefinementProofs` | `ExecutesAsIss` | `Spec => StepsAsIss` |
| | `UsesFinderAsClient` | `HistorySpec => ImplementsRegionFinder` |
| `InstructionProofs` | `CodeDoesTheSame` | `DecodeSpec => []SameOperation` |
| | `StopsWhereListed` | `DecodeSpec => []TranslatorStops` |
| | `DelaySlotsAreFound` | `DecodeSpec => []EndsTheBlock` |
| | `FilterIsExact` | `DecodeSpec => []FilterExact` |
| | `AccessesAreGuests` | `LoadStoreSpec => GuestSteps` |
| | `UnalignedIsCopied` | `UnalignedSpec => []UnalignedCopies` |
| `HostProofs` | `DumpsRestore` | `CheckpointSpec => []RestoredAsSaved` |
| | `MapNamesCode` | `PerfSpec => []LogNamesCode` |
| | `CountIsRight` | `CountingSpec => []CountsRetired` |
| | `ClockIsRight` | `CountingSpec => GuestClock` |
| | `LogIsRight` | `CountingSpec => []LogAccounts` |

*The finder*, for every set of blocks, number of slots, capacity and threshold; the
only assumption is `RegionFinderAssumption` on the constants. None of the invariants
but the type is inductive alone: that a trace starts with its head needs that an
empty trace awaits its head, which needs that an unfinished block and a split both
end the collection; `IInv` is their conjunction. The lemmas say of each operation of
`HotRegion` that it preserves `FinderOK`, the part of `IInv` that speaks of the finder
record alone; `NextIInv` then has one step per action of the client.
`UsesFinderAsClient` says that the main loop is such a client, so the theorems apply
to the finder inside `Dispatch`.

*Blocks and dispatch*, for every set of well-formed programs, size of the finder's
tables, threshold, number of sightings and choice of `--aug` and `--both`. The
assumptions are those on the constants (`ProgramsAssumption` says what a well-formed
program is). `GraphOK` is the invariant of the graph: types; every block `BlockOK` (a
run of words; if finished, one that ends at `termAddr` with its first jump; flags that
agree; recorded regions and code of finished blocks only, code without an instruction
that does not compile); `InsMapOK`; `Linked`; `TraceOK`. `BlockGraphProofs` shows for
each operation of `BlockGraph` what it needs of the graph and that it keeps `GraphOK`.
Most operations change one block (`Put`), or several without their instructions
(`Remap`); a split also moves a tail (`MoveTail`), whose two halves end where a block
may end (`HeadOK`, `TailOK`). A split is only right if the block it cuts is finished, so
`GraphOK` is not inductive alone. What the main loop adds is `BlocksOK`: only `cBB` can
be unfinished; `AtEntry`: once a block has run, `cBB` is finished or still empty, so
that the look-up which follows never cuts a block that is being built; and, per mode,
where the pc is (`LoopOK`, `RunOK`, `CfgOK`, `PostOK`). `NextIInv` has one lemma per
action. That a trace with nothing in it is about to record its head, the fact the
finder's proof has about its general client, is here again in `LoopOK`: without it a
region might not start with the block it is recorded in, and `buildCFG` not contain its
own head.

*Compiled code is never stale*, from the same assumptions and for `--aug=0` (not the
default): otherwise the statement is false (`aug_heads` above), because the blocks
`aug_dfs` adds never learn of the head. Neither half is inductive alone: code stays
current only if each block it was copied from knows its head, since `split` discards
the code of the heads a block knows and no other. `Fresh` is both halves together.
That a single field survives an operation is not enough to say why they survive it, so
the first lemmas of `PathProofs` say how a graph may follow another: `Follows(h, n)` holds if
`n` records and compiles nothing new, no finished block forgets a head, and a finished
block whose instructions differ has no head left with code. It is reflexive on equal
blocks, transitive, and keeps `Fresh` (`FollowsOK`, which needs from `GraphOK` that
code is made of finished blocks). Every operation is a `Follows` step but two: a new
region, sound because `joinRegions` comes before `addRegion`, and `buildCFG`, which
copies the blocks of recorded regions as they are at that moment.

*Traces and regions stay paths*, for every program and choice of the options. The
properties say nothing about why a path survives: edges come and go while it is
collected and long after. `Trails(h, n)` adds to `Follows` what does not depend on any
path (`Steady`): a finished block loses an edge only if the collection has ended and
the heads it knows have no region left, and a collection that goes on has the same
finder. Every operation that is not the recording of a region is a `Trails` step; the
split is the only one that takes an edge away, and it pays for it. That is enough for
the regions because each block of a region knows its head (`LoopIn`), and for the trace
together with `OnTrail`: the edge to the next block is there before the finder is told
of it, whichever of the interpreter, `getNextBlock` and compiled code drew it. While
a block is run the trace ends with it.

*Edges are transfers of the guest*, for `--aug=0`. `OnEdge` is inductive only with
`Fresh` and `Trailing`: an edge drawn when compiled code is left starts at the block
whose copy was left, and what the copy executed last is the `termAddr` of the block
only if the copy is as the block is now (`LeavesAtTerm`), which is `CodeIsCurrent`. It
also needs that compiled code never stands behind a jump of its copy, and that an edge
still to be drawn (a run at its end, or compiled code left for a pc without a block) is
already one the last instruction can take.

*Building a region*, for `--aug=0`. When `executeJIT` compiles a head, what it has is a
`Source`: finished blocks that compile and lie word after word, each with a successor
in the region, and none out of reach of the head. That follows from the theorems
before: the recorded regions are loops (`LoopIn`), their edges transfers (`OnEdge`). From
it `WholeSurvives` shows that nothing in `buildCFG` gives up: edges drawn are targets
of their branch, and a jump whose one target is its only possible edge has it. It needs
the delay slot of every finished block to be in the block, which is why `Ended`, the
part of `GraphOK` on where a block ends, says that a jump is never its last word.
`CodeGoesWhereTheEdgesSay` goes through the steps of `buildCFG` in order. `Shape` is what
each of them needs of a CFG, `EdgesOK` that a block has no edge its terminator does not
account for; `EdgedOK` takes both through the edges `buildCFG` adds, `PatchedIs` and
`EmitsAll` through the patch blocks to the terminators. With `--splitCFGBBs`, `EdgesOK`
is not kept by every split: one that falls between a branch and its delay slot leaves
the branch with an edge that is not its own. The code generator refuses such a CFG, so
the invariant of the splits, `Cut`, promises `EdgesOK` only if no branch is cut off
(`Whole`), and that a split never mends an earlier one is the step that makes it
inductive (`SplitCut`). Splitting ends because each split starts a block at another
word, and the words are finitely many: the number of blocks is at least the number of
splits, by induction (below). The assumptions are `ProgramsAssumption` (now with finitely
many words, and one target for each direct branch) and that patch blocks have names of
their own (`PatchAssumption`). `RepairsNeverShow` holds for `--aug=1` too. It rests on
`RepairedKeeps`: what a repair leaves of a block is what the next repair leaves of it,
so that a choice made on the repaired graph is one that could have been made on the
graph as drawn. That no edge keeps one end is `Linked`, of `GraphOK`.

*The guest executes as in the plain simulator*, for every program and choice of the
options, `--aug=1` included, where compiled code may be stale. `StepsAsIss` is the
safety part of the refinement of `Iss`: where `Dispatch` is in compiled code the guest's
pc is `CodePc`, the instruction of the copy about to execute, otherwise `pc`, and every
step executes the instruction there, stops the guest, or leaves `prog`, that pc and
`brk` alone. That stale code does no harm rests on two facts of `CodeOK`, the part of
`GraphOK` about code: the copy of a block is consecutive words of the text from the
block's entry (`CodePlaced`), so what is executed is what the text has there; and an
edge is taken only to where the text's instruction goes. The interpreter's steps need
the invariants of dispatch (`RunOK`: the words left are those of the block), the steps
without an instruction that the pc of the next one is the same.

*The main loop is a client of the finder*, for every program and choice of the options.
A step of `Dispatch` calls the finder several times or not at all: each `*Serves` lemma
names the one action of `RegionFinder` that does the same (`executeJIT`'s `update` with
or without `getRegion`, a split, the end of `executeJIT`, the longjmp). What `BlockGraph`
does to the finder on its own account is either nothing or `disableRegionCollection`
(the last conjunct of `Evolves`, proved of every operation), and `UnitOK` ties the block
whose run is in progress to the finder's current block.

*Instruction words*, for any set of words (`EncodingsAreWords` says that they have the
fields of a word). TLC reads the tables for one word of each kind; the proofs read them
for every value of every field. Four decoders written separately have no reason to
agree but their entries, so the lemmas of `InstructionProofs` go class by class: of each
table of the interpreter, of `getInsn` and of the filter they say which words have an
entry and which one (`*Related`), and `AllRelated` joins them for a word of any type. The
invariant `DecodeInv` says what is known at each stage: that `done` is what the
interpreter does with this word, that an accepted word passed the filter, and that
a known one has its registers recorded. The theorems are what `AllRelated` says of the
stage at which each property speaks.

*Loads and stores*, for any size of memory and number of operations (`LoadStoreAssumption`).
Every step of `LoadStore` is a step of `GuestMemory` seen through `GuestView`. The host
sees a value in its own order and the guest in the other, so each lemma compares
one value byte by byte: what the host loads and swaps, read backwards, is the row of
bytes at that address, forwards if the guest is big-endian (`SwappedLoad`); so is what
a store leaves (`SwappedStore`); and an extension is in front when the value is read
backwards (`Filled`). The only invariant needed is `LoadStoreInv`: memory and registers have their sizes.

*Unaligned accesses*, for bytes of any width (`UnalignedAssumption`). With a width that
is not fixed, shifts and masks are products of variables; so a word is followed by its
bytes. `Digit` is the byte of a significance, `UpDigits` and `DownDigits` say where two
kinds of merge put the bytes, and `LeftLoads` to `RightStores` that all eight merges are
of these kinds unless an instruction moves the whole word. There the shift by
the width of a word loses it, and the pair is right only because the other half brings
it again: `HalfLoaded` says that after `lwl` at an aligned address the register holds a part of
the word and nothing else, all that `lwr` needs. `UnalignedInv` adds the bytes the left half
brought or stored, which are those the right half leaves alone (`SharedBytes`).

*Dumps*, for any finite number of pages, and any words, values and monitor vectors
(`CheckpointAssumption`). `RestoredAsSaved` speaks of a later run of the simulator; the
invariant must carry what it needs across the kill: the pages in the file are pages
of the machine as it was when the dump was begun, none of them zero, and the header
has their full number (`BlobOfWas`); while the dump is written the machine stands
still and the pages left are among those (`Dumping`). A file with as many pages as its header
says then has all of them, by a fact on subsets of equal cardinality, and the pages
it leaves out were zero.

*The perf map*, for any heads, addresses and length of the log, with no assumption.
The log is given up with the last reference, so the invariant `PerfInv` says that the
references counted are as many as the live regions; two lemmas say that a new entry
names its code and leaves the names of code at other addresses alone.

*The count and the clock*, for any blocks, slices and speed of the guest, from
`CountingAssumption` (no block is empty, a second has some instructions). `CountingInv` says
what an engine's count is when it hands over to another (compiled code starts from
the interpreter's and is never behind it), and that the time the guest read last is
the time of an earlier count. That the clock never goes back then rests on two facts
of arithmetic: seconds and microseconds together are the count's time rounded down
once (`ClockExact`), and division is monotone. `LogAccounts` needs besides that no engine
logs a block at a count behind the last one logged, which `CountingInv` gives as SimPoints
turns `countInsns` on, and that without SimPoints nothing is logged (`LogInv`). `LogBlock`
then says that log_bb leaves a log whose sum is the count, whether the block's entry is
new or one already there: it rests on a sum being that of one element, any of them, and
of the others (`SumWithout`), which the library, having no theorem about its sums,
leaves to prove from their definition.

*Induction.* The induction theorems of the library take an operator, which the provers
cannot instantiate. Where induction is needed it is by the least counterexample: a set of
numbers that is not empty has a least member (`Least`, from `WFMin`). `StagesExist`
shows in this way that the recursive function `splitBBs` is defined by exists, and
`StagesOK` what all its values satisfy; `SumsExist` and `SumWithout` say as much of sums.

Model-checked only: `Dominators` and `RegionSSA`, which have RECURSIVE operators, and `Dominance`
with them; `Semantics`, which uses bitwise operators; and all liveness
(`CollectionEnds`, the progress of `ImplementsIss`) and `ENABLED`, which are out of this prover's
reach.

## Not modelled

* What the floating-point operations compute, and LLVM's own translation: `Decode`
  has their names, `RegionSSA` their operands.
* The file services of the monitor, which hand their arguments to the host, and the
  ELF loader, a parser: `Boot` takes any memory it may leave.
* Statistics and reports (edge counts, inlining search, toposort, perfect nests),
  `--replay`, `--profile`, `--aug=2` and `3`, option parsing, debug symbols, the
  disassembler.
* SIGINT in the middle of a step of `Dispatch` (inside a split, say), after which only
  `dropAllBBs` runs.
* What `--splitCFGBBs` (off by default) does to the main loop. `Dispatch` is the main
  loop without the option: its compiled code is not cut by `splitBBs`, so its steps do
  not enter a block of the graph in the middle, and `repairBrokenEdges` does not touch
  its graph, as it would a block that ends in `jalr` and has several successors. The
  erased edges stay in `succsMap`, where `findBlock` looks (a split of the block drops
  them, and they are drawn again when met), so the guest's way across them is the same,
  and no later build sees the difference (`RepairsGoUnnoticed`); but
  `aug_dfs` (`--aug=1`) walks the edges that are left and may find fewer blocks.
* The choice between LLVM versions: only with LLVM before 5 is `log_bb` among the
  functions compiled code can call (`regionCFG.cc:933-947`, `cfgBasicBlock.cc:604`).
  `Counting` has it call `log_bb`; with a later LLVM the blocks compiled code runs are
  not in the log, and the next interpreted block is credited with their instructions.
* Collisions of the region checksum.
