------------------------------ MODULE Counting ------------------------------
(***************************************************************************)
(* The count of executed instructions, which three engines keep: the       *)
(* interpreter counts one at a time, building blocks or running them, and  *)
(* compiled code adds the length of each block it enters to a count of its *)
(* own (iCnt), loaded where it enters a region and stored where it leaves. *)
(* SimPoints' log (simPoints.cc) and the guest's clock (monitor.hh) read   *)
(* the count.                                                              *)
(*                                                                         *)
(* A block is [pc, len, end]: len instructions, with the delay slot of the *)
(* "branch" or "likely" that ends it; a "monitor" call has none, nor has a *)
(* "plain" instruction.                                                    *)
(***************************************************************************)
EXTENDS Integers, Functions

CONSTANTS
  Blocks,          \* the guest's blocks
  simPointsSlice,  \* globals::simPointsSlice
  mips,            \* instructions in a second of guest time
  Micro,           \* microseconds in a second
  MaxRetired       \* bound: instructions executed

ASSUME CountingAssumption ==
  /\ \A b \in Blocks : b.len \in Nat \ {0}
  /\ simPointsSlice \in Nat /\ MaxRetired \in Nat
  /\ mips \in Nat \ {0} /\ Micro \in Nat \ {0}

VARIABLES
  options,         \* globals::countInsns and globals::simPoints
  where,           \* "loop" the main loop, "block" basicBlock::run,
                   \* "region" compiled code, "stopped"
  block,           \* the block run or compiled code is in
  todo,            \* instructions run has left to interpret
  icnt,            \* s->icnt
  iCnt,            \* the count of the compiled code
  sim,             \* last_icnt, last_slice and simLog, by <<slice, pc>>
  retired,         \* how many instructions the guest has executed
  clock            \* the time the guest read last

countingVars == <<options, where, block, todo, icnt, iCnt, sim, retired, clock>>

NoBlock == [pc |-> 0, len |-> 0, end |-> "plain"]

(* simPoints turns countInsns on.                                          *)
CountingInit ==
  /\ options \in {o \in [countInsns: BOOLEAN, simPoints: BOOLEAN] :
                    o.simPoints => o.countInsns}
  /\ where = "loop"
  /\ block = NoBlock
  /\ todo = 0
  /\ icnt = 0 /\ iCnt = 0 /\ retired = 0
  /\ sim = [last_icnt |-> 0, last_slice |-> 0, simLog |-> [k \in {} |-> 0]]
  /\ clock = [tv_sec |-> 0, tv_usec |-> 0]

-----------------------------------------------------------------------------
log_bb(m, a, n) ==
  LET slice == IF n >= m.last_slice + simPointsSlice THEN n ELSE m.last_slice
      k == <<slice, a>>
      old == IF k \in DOMAIN m.simLog THEN m.simLog[k] ELSE 0
  IN [last_icnt |-> n, last_slice |-> slice,
      simLog |-> [j \in DOMAIN m.simLog \cup {k} |->
                    IF j = k THEN old + (n - m.last_icnt) ELSE m.simLog[j]]]

Logged(a, n) == IF options.simPoints THEN log_bb(sim, a, n) ELSE sim

(* Mutant: microseconds since the start, not since the second.             *)
gettimeofdayTotal(n) == [tv_sec |-> n \div mips, tv_usec |-> (n * Micro) \div mips]

gettimeofday(n) ==
  [tv_sec |-> n \div mips, tv_usec |-> ((n % mips) * Micro) \div mips]

(* execMips counts the instruction, and a delay slot it executes; it skips *)
(* the slot of a branch-likely that is not taken.                          *)
Executes(end) ==
  CASE end = "branch" -> {2}
    [] end = "likely" -> {1, 2}
    [] OTHER -> {1}

execMips(end) ==
  /\ \E n \in Executes(end) :
       /\ icnt + n <= MaxRetired
       /\ icnt' = icnt + n
       /\ retired' = retired + n
  /\ clock' = IF end = "monitor" THEN gettimeofday(icnt') ELSE clock

(* interpretAndBuildCFG.                                                   *)
Build ==
  /\ where = "loop"
  /\ \E end \in {"plain", "branch", "likely", "monitor"} : execMips(end)
  /\ UNCHANGED <<options, where, block, todo, iCnt, sim>>

(* basicBlock::run logs the block at the count before it, and interprets   *)
(* up to its last instruction but the delay slot.                          *)
RunBlock ==
  /\ where = "loop"
  /\ \E b \in Blocks :
       /\ block' = b
       /\ todo' = IF b.end \in {"branch", "likely"} THEN b.len - 1 ELSE b.len
       /\ sim' = Logged(b.pc, icnt)
  /\ where' = "block"
  /\ UNCHANGED <<options, icnt, iCnt, retired, clock>>

Interpret ==
  /\ where = "block"
  /\ execMips(IF todo = 1 THEN block.end ELSE "plain")
  /\ todo' = todo - 1
  /\ where' = IF todo = 1 THEN "loop" ELSE where
  /\ UNCHANGED <<options, block, iCnt, sim>>

-----------------------------------------------------------------------------
(* The code of a block counts what the cfgBasicBlock holds, all at once,   *)
(* and logs the count it has then.  A branch-likely's delay slot is in a   *)
(* block of its own.                                                       *)
(* Mutant: the delay slot of a branch-likely is counted with its block.    *)
InsnsAndSlot(b) == b.len

Insns(b) == IF b.end = "likely" THEN b.len - 1 ELSE b.len

ExecutedBy(b) == IF b.end = "likely" THEN b.len - 1 ELSE b.len

PatchOf(b) == [pc |-> b.pc + b.len - 1, len |-> 1, end |-> "plain"]

incrIcnt(n, b) == IF options.countInsns THEN n + Insns(b) ELSE n

EnterBlock(b, n) ==
  /\ retired + ExecutedBy(b) <= MaxRetired
  /\ block' = b
  /\ iCnt' = incrIcnt(n, b)
  /\ sim' = Logged(b.pc, iCnt')
  /\ retired' = retired + ExecutedBy(b)
  /\ UNCHANGED <<options, todo, icnt, clock>>

(* canCompileInstr refuses monitor calls.                                  *)
Compilable == {b \in Blocks : b.end # "monitor"}

EnterRegion ==
  /\ where = "loop"
  /\ \E b \in Compilable : EnterBlock(b, icnt)
  /\ where' = "region"

NextBlock ==
  /\ where = "region"
  /\ \E b \in Compilable : EnterBlock(b, iCnt)
  /\ UNCHANGED where

LikelyIsTaken ==
  /\ where = "region"
  /\ block.end = "likely"
  /\ EnterBlock(PatchOf(block), iCnt)
  /\ UNCHANGED where

(* Mutant: the count stays behind in the compiled code.                    *)
AbortWithoutStore ==
  /\ where = "region"
  /\ where' = "loop"
  /\ UNCHANGED <<options, block, todo, icnt, iCnt, sim, retired, clock>>

(* An abort block stores the count, if the code keeps one.                 *)
Abort ==
  /\ where = "region"
  /\ where' = "loop"
  /\ icnt' = IF options.countInsns THEN iCnt ELSE icnt
  /\ UNCHANGED <<options, block, todo, iCnt, sim, retired, clock>>

(* The guest stops, or SIGINT gives up what the compiled code has counted. *)
Quit ==
  /\ where # "stopped"
  /\ where' = "stopped"
  /\ UNCHANGED <<options, block, todo, icnt, iCnt, sim, retired, clock>>

CountingNext ==
  \/ Build \/ RunBlock \/ Interpret
  \/ EnterRegion \/ NextBlock \/ LikelyIsTaken \/ Abort
  \/ Quit

CountingSpec == CountingInit /\ [][CountingNext]_countingVars

-----------------------------------------------------------------------------
Count == IF where = "region" THEN iCnt ELSE icnt

(* With countInsns the count is the number of instructions executed,       *)
(* however they were divided between the engines, skipped delay slots and  *)
(* all; only SIGINT loses some, those of the region it strikes.            *)
CountsRetired ==
  options.countInsns =>
    IF where = "stopped" THEN icnt <= retired ELSE Count = retired

(* SimPoints' log accounts for every instruction up to the last block      *)
(* logged once, in whichever engine it ran: no difference of counts wraps  *)
(* round, and their sum is the count.                                      *)
LogAccounts ==
  /\ \A k \in DOMAIN sim.simLog : sim.simLog[k] >= 0
  /\ SumFunction(sim.simLog) = sim.last_icnt
  /\ sim.last_icnt <= retired
  /\ where # "stopped" => sim.last_icnt <= Count

(* The guest's clock shows the time its instructions take, to the          *)
(* microsecond, and never goes back.                                       *)
Micros(t) == t.tv_sec * Micro + t.tv_usec

ClockTells ==
  clock' # clock =>
    /\ Micros(clock') >= Micros(clock)
    /\ clock'.tv_usec < Micro
    /\ options.countInsns => Micros(clock') = (retired' * Micro) \div mips

GuestClock == [][ClockTells]_countingVars
=============================================================================
