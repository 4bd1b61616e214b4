----------------------------- MODULE Checkpoint -----------------------------
(***************************************************************************)
(* Machine states on disk: a guest that makes a syscall, or a region that  *)
(* takes the count past --dumpicnt, dumps the machine (saveState.cc) and   *)
(* ends the simulator; a later one started with --isdump resumes from the  *)
(* dump.  The simulator may be killed at any point, between two writes of  *)
(* a dump included.                                                        *)
(*                                                                         *)
(* One register stands for all of them.  blob is the file: its header,     *)
(* None until that is written, and the pages written so far.  A write that *)
(* is cut short counts as not done: loadState asserts the size of each     *)
(* read.                                                                   *)
(***************************************************************************)
EXTENDS Naturals, FiniteSets

CONSTANTS
  Page, Word,       \* pages of guest memory and words of a page
  Value,            \* contents of a word or register
  Vectors,          \* the words mkMonitorVectors fills, as <<page, word>>
  Vector(_),        \* what it fills them with, by byte order
  Pc, EntryPoint,        \* guest pcs, and the entry points of executables
  MaxIcnt,          \* bound: instructions of one run
  dumpicnt,         \* globals::dumpicnt
  None

ASSUME CheckpointAssumption ==
  /\ IsFiniteSet(Page)
  /\ 0 \in Value
  /\ Vectors \subseteq Page \X Word
  /\ Vector(TRUE) \in Value /\ Vector(FALSE) \in Value
  /\ 0 \in Pc /\ EntryPoint \subseteq Pc
  /\ MaxIcnt \in Nat /\ dumpicnt \in Nat

VARIABLES
  phase,  \* "off" no simulator, "restored" a dump is loaded and nothing run,
          \* "up" the guest runs, "dumping" dumpState is at work
  s,      \* state_t
  el,     \* globals::isMipsEL
  blob,   \* the file globals::blobName
  left,   \* pages dumpState has still to write
  was     \* the machine as it was when the dump was begun

checkpointVars == <<phase, s, el, blob, left, was>>

Memory == [Page -> [Word -> Value]]
State == [pc: Pc, reg: Value, icnt: 0 .. MaxIcnt, mem: Memory]

ZeroPage == [w \in Word |-> 0]
ZeroMemory == [p \in Page |-> ZeroPage]
InitState == [pc |-> 0, reg |-> 0, icnt |-> 0, mem |-> ZeroMemory]

NoBlob == [head |-> None, pages |-> [p \in {} |-> ZeroPage]]

CheckpointInit ==
  /\ phase = "off"
  /\ s = InitState
  /\ el = FALSE
  /\ blob = NoBlob
  /\ left = {}
  /\ was = [s |-> InitState, el |-> FALSE]

-----------------------------------------------------------------------------
mkMonitorVectors(mem, e) ==
  [p \in Page |-> [w \in Word |-> IF <<p, w>> \in Vectors THEN Vector(e)
                                  ELSE mem[p][w]]]

(* load_elf finds the byte order, the entry point and the memory's         *)
(* contents; main then writes the vectors.                                 *)
Boot ==
  /\ phase = "off"
  /\ phase' = "up"
  /\ el' \in BOOLEAN
  /\ \E entry \in EntryPoint, p \in Page, text \in [Word -> Value] :
       s' = [InitState EXCEPT
               !.pc = entry,
               !.mem = mkMonitorVectors([@ EXCEPT ![p] = text], el')]
  /\ UNCHANGED <<blob, left, was>>

(* Mutant: pages are read until there are no more.                         *)
CompleteIfAny(b) == b.head # None

(* loadState, whose asserts end the simulator when the file is short.      *)
Complete(b) == b.head # None /\ Cardinality(DOMAIN b.pages) = b.head.nPages

loadState(b) ==
  [pc |-> b.head.pc, reg |-> b.head.reg, icnt |-> b.head.icnt,
   mem |-> [p \in Page |-> IF p \in DOMAIN b.pages THEN b.pages[p] ELSE ZeroPage]]

(* main then clears the count and, as for an executable, sets the pc to    *)
(* entry_p, which is 0 without one, and writes the vectors.                *)
Resume ==
  /\ phase = "off"
  /\ Complete(blob)
  /\ phase' = "restored"
  /\ el' = FALSE
  /\ s' = [loadState(blob) EXCEPT !.icnt = 0, !.pc = 0,
                                  !.mem = mkMonitorVectors(@, FALSE)]
  /\ UNCHANGED <<blob, left, was>>

Running == phase \in {"up", "restored"}

(* An instruction writes a register or a word of memory.                   *)
GuestStep ==
  /\ Running
  /\ s.icnt < MaxIcnt
  /\ phase' = "up"
  /\ \E q \in Pc, v \in Value :
       \/ s' = [s EXCEPT !.pc = q, !.icnt = @ + 1, !.reg = v]
       \/ \E p \in Page, w \in Word :
            s' = [s EXCEPT !.pc = q, !.icnt = @ + 1, !.mem[p][w] = v]
  /\ UNCHANGED <<el, blob, left, was>>

-----------------------------------------------------------------------------
NonZero(mem) == {p \in Page : \E w \in Word : mem[p][w] # 0}

(* dumpState marks the pages, and opens the file anew.  It writes them by  *)
(* address; here they come in any order.                                   *)
BeginDump(m) ==
  /\ phase' = "dumping"
  /\ s' = m
  /\ blob' = NoBlob
  /\ left' = NonZero(m.mem)
  /\ was' = [s |-> m, el |-> el]
  /\ UNCHANGED el

(* The interpreter dumps on a syscall, with the pc past it.                *)
Syscall ==
  /\ Running
  /\ s.icnt < MaxIcnt
  /\ \E q \in Pc : BeginDump([s EXCEPT !.icnt = @ + 1, !.pc = q])

(* regionCFG::run dumps after the region that reaches dumpicnt.            *)
RegionDump ==
  /\ phase = "up"
  /\ s.icnt >= dumpicnt
  /\ BeginDump(s)

WriteHeader ==
  /\ phase = "dumping" /\ blob.head = None
  /\ blob' = [blob EXCEPT !.head = [pc |-> s.pc, reg |-> s.reg, icnt |-> s.icnt,
                                    nPages |-> Cardinality(left)]]
  /\ UNCHANGED <<phase, s, el, left, was>>

WritePage ==
  /\ phase = "dumping" /\ blob.head # None
  /\ \E p \in left :
       /\ blob' = [blob EXCEPT !.pages =
                     [q \in DOMAIN @ \cup {p} |-> IF q = p THEN s.mem[p] ELSE @[q]]]
       /\ left' = left \ {p}
  /\ UNCHANGED <<phase, s, el, was>>

(* The simulator ends: the dump is written, or the guest exits, or SIGINT  *)
(* or a kill cuts short whatever was going on.                             *)
Stop ==
  /\ phase # "off"
  /\ phase' = "off"
  /\ left' = {}
  /\ UNCHANGED <<s, el, blob, was>>

CheckpointNext ==
  \/ Boot \/ Resume \/ GuestStep
  \/ Syscall \/ RegionDump \/ WriteHeader \/ WritePage
  \/ Stop

CheckpointSpec == CheckpointInit /\ [][CheckpointNext]_checkpointVars

-----------------------------------------------------------------------------
(* Registers and memory come back as they were when the dump was begun,    *)
(* pages left out as zero included, however many dumps were cut short on   *)
(* the way.  Only the monitor vectors are written anew.                    *)
RestoredAsSaved ==
  phase = "restored" =>
    /\ s.reg = was.s.reg
    /\ \A p \in Page, w \in Word :
         <<p, w>> \notin Vectors => s.mem[p][w] = was.s.mem[p][w]

(* A dump is resumed where it was taken, in the guest's byte order: what   *)
(* loadState reads the saved pc for (s.pc = h.pc).                         *)
ResumesWhereSaved ==
  phase = "restored" => s.pc = was.s.pc /\ el = was.el
=============================================================================
