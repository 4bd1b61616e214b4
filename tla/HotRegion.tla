------------------------------ MODULE HotRegion ------------------------------
(***************************************************************************)
(* The operations of the hot-region finder of region.cc / region.hh, as    *)
(* operators on a finder record.  The finder counts how often a block is   *)
(* reached by a backward transfer (updateRegionHeads); once a block is hot *)
(* it records the blocks executed from there until that block comes round  *)
(* again (update), which yields one region (getRegion).                    *)
(*                                                                         *)
(* A basicBlock pointer is modelled by the block's entry address, counted  *)
(* in words.  RegionFinder puts these operators under the most general     *)
(* client the main loop allows; Dispatch calls them where executeJIT,      *)
(* split and dropAllBBs do.                                                *)
(***************************************************************************)
EXTENDS Words, Integers, Sequences

CONSTANTS
  NRegionHeads,  \* slots of regionHeads (1024 in the code)
  NumEntries,    \* 1 << lgNumEntries, the capacity of blockCache
  HotThresh,     \* sightings that make a block hot
  None,          \* nullptr
  Stale          \* a pointer to a block that dropAllBBs has deleted

ASSUME RegionFinderAssumption ==
  /\ Addr \subseteq Nat
  /\ NRegionHeads \in Nat \ {0}
  /\ NumEntries \in Nat \ {0}
  /\ HotThresh \in Nat
  /\ None \notin Addr
  /\ Stale \notin Addr \cup {None}

Idx == 0 .. NRegionHeads - 1

computeIndex(bb) == bb % NRegionHeads

(***************************************************************************)
(* A finder record: on is enHistCollection, head is currRegionHead, hist   *)
(* is blockCache[0 .. histBufPos-1], heads and counts are regionHeads and  *)
(* regionCounts.                                                           *)
(***************************************************************************)
NewFinder ==
  [on |-> FALSE, head |-> None, hist |-> <<>>,
   heads |-> [i \in Idx |-> None], counts |-> [i \in Idx |-> 0]]

(* The slot still holds a pointer equal to bb.  Comparing with a deleted   *)
(* block's pointer goes either way: the allocator may have reused it.      *)
SlotHolds(r, bb, reused) ==
  LET h == r.heads[computeIndex(bb)] IN h = bb \/ (h = Stale /\ reused)

(* Mutants: the slot is kept, or the old trace is.                         *)
StartKeepsSlot(r, bb) ==
  [r EXCEPT !.on = TRUE, !.head = bb, !.hist = <<>>,
            !.counts[computeIndex(bb)] = @ + 1]

StartKeepsTrace(r, bb) ==
  [r EXCEPT !.on = TRUE, !.head = bb,
            !.heads[computeIndex(bb)] = None,
            !.counts[computeIndex(bb)] = @ + 1]

StartCollection(r, bb) ==
  [r EXCEPT !.on = TRUE, !.head = bb, !.hist = <<>>,
            !.heads[computeIndex(bb)] = None,
            !.counts[computeIndex(bb)] = @ + 1]

updateRegionHeads(r, bb, lbb, reused) ==
  LET idx == computeIndex(bb) IN
  IF bb > lbb \/ r.on
  THEN r
  ELSE IF SlotHolds(r, bb, reused)
       THEN IF r.counts[idx] + 1 >= HotThresh
            THEN StartCollection(r, bb)
            ELSE [r EXCEPT !.heads[idx] = bb, !.counts[idx] = @ + 1]
       ELSE [r EXCEPT !.heads[idx] = bb, !.counts[idx] = 1]

ResetSlot(r, bb) ==
  [r EXCEPT !.heads[computeIndex(bb)] = None, !.counts[computeIndex(bb)] = 0]

disableRegionCollection(r) ==
  IF r.on
  THEN [(IF r.head # None THEN ResetSlot(r, r.head) ELSE r)
          EXCEPT !.on = FALSE, !.head = None, !.hist = <<>>]
  ELSE r

(* Mutant: a trace of one block cannot close.                              *)
CompleteOffByOne(r, bb) == r.on /\ bb = r.head /\ Len(r.hist) > 1

(* update(bb) returns true: bb closes the loop.                            *)
RegionComplete(r, bb) == r.on /\ bb = r.head /\ r.hist # <<>>

(* Mutants: blockCache grows past its end, or fills up and stays on.       *)
UpdateUnbounded(r, bb) ==
  IF ~r.on THEN r
  ELSE IF RegionComplete(r, bb) THEN [r EXCEPT !.on = FALSE]
  ELSE [r EXCEPT !.hist = Append(@, bb)]

UpdateStaysOn(r, bb) ==
  IF ~r.on \/ Len(r.hist) = NumEntries - 1 THEN r
  ELSE IF RegionComplete(r, bb) THEN [r EXCEPT !.on = FALSE]
  ELSE [r EXCEPT !.hist = Append(@, bb)]

update(r, bb) ==
  IF ~r.on THEN r
  ELSE IF RegionComplete(r, bb) THEN [r EXCEPT !.on = FALSE]
  ELSE IF Len(r.hist) = NumEntries - 1 THEN [r EXCEPT !.on = FALSE]
  ELSE [r EXCEPT !.hist = Append(@, bb)]

(* What getRegion leaves behind; the region it returns is r.hist.          *)
getRegion(r) == [ResetSlot(r, r.head) EXCEPT !.hist = <<>>, !.head = None]

(* dropAllBBs deletes the blocks under the finder's feet.                  *)
HeadsGoStale(r) ==
  [r EXCEPT !.heads = [i \in Idx |-> IF @[i] = None THEN None ELSE Stale]]
=============================================================================
