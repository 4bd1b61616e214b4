---------------------------- MODULE RegionFinder ----------------------------
(***************************************************************************)
(* The hot-region finder under the most general client: executeJIT, split, *)
(* dropAllBBs and the signal handler may call it in every order the main   *)
(* loop of main.cc allows, with any blocks.                                *)
(***************************************************************************)
EXTENDS HotRegion

-----------------------------------------------------------------------------
(***************************************************************************)
(* The client.  cur is the block globals::cBB->executeJIT is called on or  *)
(* is running; phase says where the main loop is:                          *)
(*   "dispatch"  about to call executeJIT on cur,                          *)
(*   "running"   executing cur's instructions,                             *)
(*   "stopped"   after a break or SIGINT.                                  *)
(* out is the region getRegion returned last.                              *)
(***************************************************************************)
VARIABLES rf, cur, phase, out

vars == <<rf, cur, phase, out>>

Finder ==
  [on: BOOLEAN, head: Addr \cup {None}, hist: Seq(Addr),
   heads: [Idx -> Addr \cup {None, Stale}], counts: [Idx -> Nat]]

TypeOK ==
  /\ rf \in Finder
  /\ Len(rf.hist) <= NumEntries - 1
  /\ cur \in Addr
  /\ phase \in {"dispatch", "running", "stopped"}
  /\ out \in Seq(Addr)

Init ==
  /\ rf = NewFinder
  /\ cur \in Addr
  /\ phase = "dispatch"
  /\ out = <<>>

(* executeJIT on a sealed block whose entry is the pc: update, and on the  *)
(* block that closes the loop getRegion.                                   *)
Execute ==
  /\ phase = "dispatch"
  /\ phase' = "running"
  /\ UNCHANGED cur
  /\ IF RegionComplete(rf, cur)
     THEN /\ rf' = getRegion(update(rf, cur))
          /\ out' = rf.hist
     ELSE /\ rf' = update(rf, cur)
          /\ UNCHANGED out

(* Mutant: an unfinished block does not end the collection.                *)
BuildKeepsCollecting ==
  /\ phase = "dispatch"
  /\ rf' = rf
  /\ cur' \in Addr
  /\ phase' \in {"dispatch", "stopped"}
  /\ UNCHANGED out

(* executeJIT on a block still being built, and the interpreter step that  *)
(* follows; a sync among them drops every block.                           *)
Build ==
  /\ phase = "dispatch"
  /\ rf' \in {disableRegionCollection(rf),
              HeadsGoStale(disableRegionCollection(rf))}
  /\ cur' \in Addr
  /\ phase' \in {"dispatch", "stopped"}
  /\ UNCHANGED out

(* A block is split while cur runs.                                        *)
Split ==
  /\ phase = "running"
  /\ rf' = disableRegionCollection(rf)
  /\ UNCHANGED <<cur, phase, out>>

(* cur has run and bb is next; a block that already has compiled code is   *)
(* not counted.                                                            *)
Finish(bb, lbb) ==
  /\ phase = "running"
  /\ \/ \E reused \in BOOLEAN : rf' = updateRegionHeads(rf, bb, lbb, reused)
     \/ rf' = rf
  /\ cur' = bb
  /\ phase' \in {"dispatch", "stopped"}
  /\ UNCHANGED out

(* SIGINT: longjmp back to the main loop, which then ends.                 *)
Interrupt ==
  /\ phase' = "stopped"
  /\ cur' \in Addr
  /\ UNCHANGED <<rf, out>>

Shutdown ==
  /\ phase = "stopped"
  /\ rf' = HeadsGoStale(disableRegionCollection(rf))
  /\ cur' \in Addr
  /\ UNCHANGED <<phase, out>>

Next ==
  \/ Execute
  \/ Build
  \/ Split
  \/ \E bb, lbb \in Addr : Finish(bb, lbb)
  \/ Interrupt
  \/ Shutdown

(* The main loop never blocks: as long as it runs it takes steps.  Split   *)
(* alone may not be repeated for ever, since a block's run ends.           *)
Running == Execute \/ Build \/ \E bb, lbb \in Addr : Finish(bb, lbb)

Spec == Init /\ [][Next]_vars

FairSpec == Spec /\ WF_vars(Running)

-----------------------------------------------------------------------------
(* A region being collected belongs to one head, whose slot is free, so    *)
(* that no other count is lost when the slot is reset.                     *)
CollectingOwnsSlot ==
  rf.on => rf.head \in Addr /\ rf.heads[computeIndex(rf.head)] = None

(* Collection that has recorded nothing yet is about to record its head:   *)
(* no step of the main loop between updateRegionHeads and the next         *)
(* executeJIT may slip another block in front.                             *)
EmptyTraceAwaitsHead ==
  rf.on /\ rf.hist = <<>> =>
    \/ phase = "dispatch" /\ cur = rf.head
    \/ phase = "stopped"

LoopsOnce(t) == \A i \in 2 .. Len(t) : t[i] # t[1]

(* While collecting, the trace starts with its head and meets it once.     *)
TraceFromHead ==
  rf.on => LoopsOnce(rf.hist) /\ (rf.hist # <<>> => rf.hist[1] = rf.head)

(* A trace begins with its head, from before its first block on.           *)
TraceBeginsAtHead == TraceFromHead /\ EmptyTraceAwaitsHead

(* What getRegion hands to the compiler is one trip round one loop and     *)
(* never fills blockCache.  basicBlock::addRegion counts such regions and  *)
(* regionCFG::buildCFG dies unless all of a block's regions share a head.  *)
RegionWellFormed ==
  out # <<>> => LoopsOnce(out) /\ Len(out) <= NumEntries - 1

(* A region is handed out only to the block it starts with: executeJIT     *)
(* records it in its own bbRegions.                                        *)
RegionGoesToHead ==
  [][out' # out => out' # <<>> /\ out'[1] = cur]_vars

(* Collection never goes on for ever: the head comes round, blockCache is  *)
(* full, or something invalidates the trace.                               *)
CollectionEnds == rf.on ~> (~rf.on \/ phase = "stopped")
=============================================================================
