------------------------- MODULE RegionFinderProofs -------------------------
(***************************************************************************)
(* RegionFinder's invariants, proved for every set of blocks, table size,  *)
(* capacity and threshold.                                                 *)
(***************************************************************************)
EXTENDS RegionFinder, TLAPS

(* A slot index is a slot.                                                 *)
LEMMA IndexInRange ==
  ASSUME NEW b \in Addr
  PROVE  computeIndex(b) \in Idx
<1>1. b \in Nat /\ NRegionHeads \in Nat \ {0}
  BY RegionFinderAssumption
<1>2. b % NRegionHeads \in 0 .. NRegionHeads - 1
  BY <1>1
<1> QED BY <1>2 DEF computeIndex, Idx

(* The finder's part of the invariant: its type, and the shape of the      *)
(* trace being recorded.                                                   *)
FinderOK(r) ==
  /\ r \in Finder
  /\ Len(r.hist) <= NumEntries - 1
  /\ r.on => r.head \in Addr /\ r.heads[computeIndex(r.head)] = None
  /\ r.on => LoopsOnce(r.hist) /\ (r.hist # <<>> => r.hist[1] = r.head)

(* Overwriting the trace of a finder record changes nothing else.          *)
LEMMA SetHist ==
  ASSUME NEW r \in Finder, NEW t \in Seq(Addr)
  PROVE  /\ [r EXCEPT !.hist = t] \in Finder
         /\ [r EXCEPT !.hist = t].on = r.on
         /\ [r EXCEPT !.hist = t].hist = t
         /\ [r EXCEPT !.hist = t].head = r.head
         /\ [r EXCEPT !.hist = t].heads = r.heads
BY DEF Finder

(* Resetting the slot of a head keeps the record a finder.                 *)
LEMMA ResetSlotOK ==
  ASSUME NEW r \in Finder, NEW b \in Addr
  PROVE  /\ ResetSlot(r, b) \in Finder
         /\ ResetSlot(r, b).hist = r.hist
         /\ ResetSlot(r, b).head = r.head
         /\ ResetSlot(r, b).on = r.on
BY IndexInRange DEF ResetSlot, Finder

(* disableRegionCollection preserves FinderOK and ends the collection.     *)
LEMMA DisableOK ==
  ASSUME NEW r, FinderOK(r)
  PROVE  FinderOK(disableRegionCollection(r)) /\ ~disableRegionCollection(r).on
<1>1. r \in Finder /\ NumEntries \in Nat \ {0}
  BY RegionFinderAssumption DEF FinderOK
<1>2. CASE ~r.on
  BY <1>2 DEF disableRegionCollection, FinderOK
<1>3. CASE r.on
  <2>1. r.head \in Addr /\ r.head # None
    BY <1>3, RegionFinderAssumption DEF FinderOK
  <2> DEFINE q == ResetSlot(r, r.head)
             d == [q EXCEPT !.on = FALSE, !.head = None, !.hist = <<>>]
  <2>2. q \in Finder
    BY <1>1, <2>1, ResetSlotOK
  <2>3. disableRegionCollection(r) = d
    BY <1>3, <2>1 DEF disableRegionCollection
  <2> HIDE DEF q
  <2>4. d \in Finder /\ d.on = FALSE /\ d.hist = <<>>
    <3> DEFINE t == <<>>
    <3>1. t \in Seq(Addr) /\ t = <<>>
      OBVIOUS
    <3>2. d = [q EXCEPT !.on = FALSE, !.head = None, !.hist = t]
      OBVIOUS
    <3> HIDE DEF t, d
    <3> QED BY <2>2, <3>1, <3>2 DEF Finder
  <2> HIDE DEF d
  <2> QED
    BY <2>3, <2>4, <1>1 DEF FinderOK
<1> QED BY <1>2, <1>3, <1>1 DEF Finder

(* Deleting the blocks leaves free slots free.                             *)
LEMMA StaleOK ==
  ASSUME NEW r, FinderOK(r)
  PROVE  FinderOK(HeadsGoStale(r)) /\ HeadsGoStale(r).on = r.on
<1> DEFINE h == [i \in Idx |-> IF r.heads[i] = None THEN None ELSE Stale]
<1>1. r \in Finder
  BY DEF FinderOK
<1>2. HeadsGoStale(r) = [r EXCEPT !.heads = h]
  BY DEF HeadsGoStale
<1>3. h \in [Idx -> Addr \cup {None, Stale}]
  OBVIOUS
<1>4. [r EXCEPT !.heads = h] \in Finder
  BY <1>1, <1>3 DEF Finder
<1>5. r.on => h[computeIndex(r.head)] = None
  BY <1>1, IndexInRange DEF FinderOK
<1> HIDE DEF h
<1> QED BY <1>1, <1>2, <1>4, <1>5 DEF FinderOK, Finder

(* updateRegionHeads preserves FinderOK; a collection it starts is empty   *)
(* and headed by bb.                                                       *)
LEMMA UpdateHeadsOK ==
  ASSUME NEW r, FinderOK(r), NEW bb \in Addr, NEW lbb \in Addr,
         NEW reused \in BOOLEAN
  PROVE  LET q == updateRegionHeads(r, bb, lbb, reused) IN
         /\ FinderOK(q)
         /\ q.on => q = r \/ (q.head = bb /\ q.hist = <<>>)
<1> DEFINE idx == computeIndex(bb)
           cold == [r EXCEPT !.heads[idx] = bb, !.counts[idx] = @ + 1]
           first == [r EXCEPT !.heads[idx] = bb, !.counts[idx] = 1]
<1>1. r \in Finder /\ idx \in Idx /\ NumEntries \in Nat \ {0}
  BY IndexInRange, RegionFinderAssumption DEF FinderOK
<1>2. CASE bb > lbb \/ r.on
  BY <1>2 DEF updateRegionHeads
<1>3. ASSUME ~r.on PROVE FinderOK(StartCollection(r, bb))
                         /\ StartCollection(r, bb).head = bb
                         /\ StartCollection(r, bb).hist = <<>>
  <2> DEFINE s == StartCollection(r, bb)
  <2>1. s \in Finder /\ s.head = bb /\ s.hist = <<>> /\ s.heads[idx] = None
    <3> DEFINE t == <<>>
               n == r.counts[idx] + 1
    <3>1. t \in Seq(Addr) /\ t = <<>>
      OBVIOUS
    <3>2. n \in Nat
      BY <1>1 DEF Finder
    <3>3. s = [r EXCEPT !.on = TRUE, !.head = bb, !.hist = t,
                        !.heads[idx] = None, !.counts[idx] = n]
      BY <1>1 DEF StartCollection, Finder
    <3> HIDE DEF t, n, idx, s
    <3> QED BY <1>1, <3>1, <3>2, <3>3 DEF Finder
  <2>2. LoopsOnce(<<>>)
    BY DEF LoopsOnce
  <2> QED BY <2>1, <2>2, <1>1 DEF FinderOK
<1>4. ASSUME ~r.on PROVE /\ FinderOK(cold) /\ ~cold.on
                         /\ FinderOK(first) /\ ~first.on
  <2>1. cold \in Finder /\ cold.on = r.on /\ cold.hist = r.hist
    <3> DEFINE n == r.counts[idx] + 1
    <3>1. n \in Nat
      BY <1>1 DEF Finder
    <3>2. cold = [r EXCEPT !.heads[idx] = bb, !.counts[idx] = n]
      BY <1>1 DEF Finder
    <3> HIDE DEF n, cold, idx
    <3> QED BY <1>1, <3>1, <3>2 DEF Finder
  <2>2. first \in Finder /\ first.on = r.on /\ first.hist = r.hist
    BY <1>1 DEF Finder
  <2> HIDE DEF cold, first
  <2> QED BY <1>4, <2>1, <2>2 DEF FinderOK
<1>5. CASE ~(bb > lbb \/ r.on)
  <2>1. updateRegionHeads(r, bb, lbb, reused) \in
          {StartCollection(r, bb), cold, first}
    BY <1>5 DEF updateRegionHeads
  <2> HIDE DEF cold, first
  <2> QED BY <1>3, <1>4, <1>5, <2>1
<1> QED BY <1>2, <1>5, <1>1

(* update preserves FinderOK; the trace is non-empty, or collection has    *)
(* ended, afterwards.                                                      *)
LEMMA UpdateOK ==
  ASSUME NEW r, FinderOK(r), NEW bb \in Addr,
         r.on /\ r.hist = <<>> => bb = r.head
  PROVE  /\ FinderOK(update(r, bb))
         /\ update(r, bb).on => update(r, bb).hist # <<>>
         /\ RegionComplete(r, bb) => update(r, bb) = [r EXCEPT !.on = FALSE]
<1> DEFINE off == [r EXCEPT !.on = FALSE]
           app == [r EXCEPT !.hist = Append(@, bb)]
<1>1. r \in Finder /\ r.hist \in Seq(Addr) /\ NumEntries \in Nat \ {0}
  BY RegionFinderAssumption DEF FinderOK, Finder
<1>2. FinderOK(off) /\ ~off.on
  BY <1>1 DEF FinderOK, Finder
<1>3. ASSUME r.on, ~RegionComplete(r, bb), Len(r.hist) # NumEntries - 1
      PROVE  FinderOK(app) /\ app.hist # <<>>
  <2>1. app \in Finder /\ app.on = r.on /\ app.head = r.head
        /\ app.heads = r.heads /\ app.hist = Append(r.hist, bb)
    <3>1. Append(r.hist, bb) \in Seq(Addr)
      BY <1>1
    <3> QED BY <1>1, <3>1, SetHist
  <2>2. Len(Append(r.hist, bb)) <= NumEntries - 1
    BY <1>1, <1>3 DEF FinderOK
  <2>3. Append(r.hist, bb)[1] = r.head
    <3>1. CASE r.hist = <<>>
      BY <3>1, <1>3
    <3>2. CASE r.hist # <<>>
      BY <3>2, <1>1, <1>3 DEF FinderOK
    <3> QED BY <3>1, <3>2
  <2>4. LoopsOnce(Append(r.hist, bb))
    <3>1. CASE r.hist = <<>>
      BY <3>1 DEF LoopsOnce
    <3>2. CASE r.hist # <<>>
      <4>1. bb # r.head /\ LoopsOnce(r.hist)
        BY <3>2, <1>3 DEF RegionComplete, FinderOK
      <4>2. Append(r.hist, bb)[1] = r.head /\ r.hist[1] = r.head
        BY <2>3, <3>2, <1>3 DEF FinderOK
      <4>3. ASSUME NEW i \in 2 .. Len(Append(r.hist, bb))
            PROVE  Append(r.hist, bb)[i] # r.head
        <5>1. CASE i = Len(r.hist) + 1
          BY <5>1, <1>1, <4>1
        <5>2. CASE i \in 2 .. Len(r.hist)
          BY <5>2, <1>1, <4>1, <4>2 DEF LoopsOnce
        <5> QED BY <5>1, <5>2, <1>1
      <4> QED BY <4>2, <4>3 DEF LoopsOnce
    <3> QED BY <3>1, <3>2
  <2> HIDE DEF app
  <2>5. Append(r.hist, bb) # <<>>
    BY <1>1
  <2> QED BY <2>1, <2>2, <2>3, <2>4, <2>5, <1>3 DEF FinderOK
<1>4. update(r, bb) \in {r, off, app}
  BY DEF update
<1>5. RegionComplete(r, bb) => update(r, bb) = off
  BY DEF update, RegionComplete
<1>6. CASE ~r.on
  BY <1>6 DEF update, RegionComplete
<1>7. CASE r.on
  <2> HIDE DEF off, app
  <2>1. CASE RegionComplete(r, bb)
    BY <2>1, <1>5, <1>2 DEF off
  <2>2. CASE ~RegionComplete(r, bb) /\ Len(r.hist) = NumEntries - 1
    BY <2>2, <1>7, <1>2 DEF update, off
  <2>3. CASE ~RegionComplete(r, bb) /\ Len(r.hist) # NumEntries - 1
    BY <2>3, <1>7, <1>3 DEF update, app
  <2>4. RegionComplete(r, bb) => update(r, bb) = [r EXCEPT !.on = FALSE]
    BY <1>5 DEF off
  <2> QED BY <2>1, <2>2, <2>3, <2>4
<1> QED BY <1>6, <1>7, <1>1 DEF Finder

-----------------------------------------------------------------------------
(***************************************************************************)
(* The inductive invariant.  TraceFromHead is not inductive alone: the     *)
(* first block update appends is the head only because of                  *)
(* EmptyTraceAwaitsHead, and RegionWellFormed follows from the trace's     *)
(* shape at the moment it is handed out.                                   *)
(***************************************************************************)
IInv ==
  /\ TypeOK
  /\ CollectingOwnsSlot
  /\ TraceFromHead
  /\ EmptyTraceAwaitsHead
  /\ RegionWellFormed

(* FinderOK is what IInv says of the finder record alone.                  *)
LEMMA IInvSplit ==
  IInv <=> /\ FinderOK(rf)
           /\ cur \in Addr /\ phase \in {"dispatch", "running", "stopped"}
           /\ out \in Seq(Addr)
           /\ EmptyTraceAwaitsHead /\ RegionWellFormed
BY DEF IInv, FinderOK, TypeOK, CollectingOwnsSlot, TraceFromHead

(* A new finder satisfies the invariant.                                   *)
LEMMA InitIInv == Init => IInv
<1> SUFFICES ASSUME Init PROVE IInv
  OBVIOUS
<1> DEFINE t == <<>>
           h == [i \in Idx |-> None]
           c == [i \in Idx |-> 0]
<1>1. t \in Seq(Addr) /\ h \in [Idx -> Addr \cup {None, Stale}]
      /\ c \in [Idx -> Nat] /\ Len(t) = 0 /\ t = <<>>
  OBVIOUS
<1>2. rf = [on |-> FALSE, head |-> None, hist |-> t, heads |-> h, counts |-> c]
  BY DEF Init, NewFinder
<1>3. NumEntries \in Nat \ {0}
  BY RegionFinderAssumption
<1> HIDE DEF t, h, c
<1>4. FinderOK(rf)
  BY <1>1, <1>2, <1>3 DEF FinderOK, Finder
<1>5. ~rf.on /\ out = <<>> /\ out \in Seq(Addr)
  BY <1>1, <1>2 DEF Init
<1> QED
  BY <1>4, <1>5, IInvSplit DEF Init, EmptyTraceAwaitsHead, RegionWellFormed

(* getRegion leaves the finder idle.                                       *)
LEMMA CompleteOK ==
  ASSUME NEW r, FinderOK(r), NEW bb \in Addr, RegionComplete(r, bb)
  PROVE  LET q == getRegion(update(r, bb)) IN FinderOK(q) /\ ~q.on
<1> DEFINE off == [r EXCEPT !.on = FALSE]
           w == ResetSlot(off, off.head)
           t == <<>>
<1>1. r \in Finder /\ r.on /\ r.head = bb /\ NumEntries \in Nat \ {0}
  BY RegionFinderAssumption DEF FinderOK, RegionComplete
<1>2. update(r, bb) = off
  BY DEF update, RegionComplete
<1>3. off \in Finder /\ off.head = bb /\ ~off.on
  BY <1>1 DEF Finder
<1> HIDE DEF off
<1>4. w \in Finder /\ ~w.on
  BY <1>3, ResetSlotOK
<1>5. t \in Seq(Addr) /\ t = <<>> /\ Len(t) = 0
  OBVIOUS
<1>6. getRegion(off) = [w EXCEPT !.hist = t, !.head = None]
  BY DEF getRegion
<1> HIDE DEF w, t
<1>7. [w EXCEPT !.hist = t, !.head = None] \in Finder
      /\ [w EXCEPT !.hist = t, !.head = None].on = w.on
      /\ [w EXCEPT !.hist = t, !.head = None].hist = t
  BY <1>4, <1>5 DEF Finder
<1> QED
  BY <1>1, <1>2, <1>4, <1>5, <1>6, <1>7 DEF FinderOK

(* Every call on the finder, and every step of its client, preserves it.   *)
LEMMA NextIInv == IInv /\ [Next]_vars => IInv'
<1> SUFFICES ASSUME IInv, [Next]_vars PROVE IInv'
  OBVIOUS
<1>1. FinderOK(rf) /\ cur \in Addr /\ out \in Seq(Addr)
  BY IInvSplit
<1>2. CASE Execute
  <2>1. rf.on /\ rf.hist = <<>> => cur = rf.head
    BY <1>2 DEF IInv, EmptyTraceAwaitsHead, Execute
  <2>2. CASE RegionComplete(rf, cur)
    <3>1. /\ FinderOK(rf') /\ ~rf'.on /\ out' = rf.hist
          /\ cur' = cur /\ phase' = "running"
      BY <1>1, <1>2, <2>2, CompleteOK DEF Execute
    <3>2. out' \in Seq(Addr)
      BY <1>1, <3>1 DEF FinderOK, Finder
    <3>3. RegionWellFormed'
      BY <1>1, <2>2, <3>1 DEF RegionWellFormed, FinderOK, RegionComplete
    <3> QED
      BY <1>1, <3>1, <3>2, <3>3, IInvSplit
         DEF IInv, FinderOK, TypeOK, CollectingOwnsSlot, TraceFromHead,
             EmptyTraceAwaitsHead
  <2>3. CASE ~RegionComplete(rf, cur)
    <3>1. /\ FinderOK(rf') /\ (rf'.on => rf'.hist # <<>>) /\ out' = out
          /\ cur' = cur /\ phase' = "running"
      BY <1>1, <1>2, <2>1, <2>3, UpdateOK DEF Execute
    <3> QED
      BY <1>1, <3>1
         DEF IInv, FinderOK, TypeOK, CollectingOwnsSlot, TraceFromHead,
             EmptyTraceAwaitsHead, RegionWellFormed
  <2> QED BY <2>2, <2>3
<1>3. CASE Build
  <2> DEFINE d == disableRegionCollection(rf)
  <2>1. FinderOK(d) /\ ~d.on
    BY <1>1, DisableOK
  <2>2. FinderOK(HeadsGoStale(d)) /\ ~HeadsGoStale(d).on
    BY <2>1, StaleOK
  <2>3. FinderOK(rf') /\ ~rf'.on /\ cur' \in Addr /\ out' = out
        /\ phase' \in {"dispatch", "stopped"}
    BY <1>3, <2>1, <2>2 DEF Build
  <2> QED
    BY <1>1, <2>3
       DEF IInv, FinderOK, TypeOK, CollectingOwnsSlot, TraceFromHead,
           EmptyTraceAwaitsHead, RegionWellFormed
<1>4. CASE Split
  <2>1. FinderOK(rf') /\ ~rf'.on /\ UNCHANGED <<cur, phase, out>>
    BY <1>1, <1>4, DisableOK DEF Split
  <2> QED
    BY <1>1, <2>1
       DEF IInv, FinderOK, TypeOK, CollectingOwnsSlot, TraceFromHead,
           EmptyTraceAwaitsHead, RegionWellFormed
<1>5. ASSUME NEW bb \in Addr, NEW lbb \in Addr, Finish(bb, lbb)
      PROVE  IInv'
  <2>1. /\ phase = "running" /\ phase' \in {"dispatch", "stopped"}
        /\ cur' = bb /\ out' = out
    BY <1>5 DEF Finish
  <2>2. FinderOK(rf') /\ (rf'.on => rf' = rf \/ (rf'.head = bb /\ rf'.hist = <<>>))
    <3>1. CASE rf' = rf
      BY <1>1, <3>1
    <3>2. ASSUME NEW reused \in BOOLEAN,
                 rf' = updateRegionHeads(rf, bb, lbb, reused)
          PROVE  FinderOK(rf')
                 /\ (rf'.on => rf' = rf \/ (rf'.head = bb /\ rf'.hist = <<>>))
      BY <1>1, <3>2, UpdateHeadsOK
    <3> QED BY <1>5, <3>1, <3>2 DEF Finish
  <2>3. rf.on => rf.hist # <<>>
    BY <2>1 DEF IInv, EmptyTraceAwaitsHead
  <2>4. EmptyTraceAwaitsHead'
    BY <2>1, <2>2, <2>3 DEF EmptyTraceAwaitsHead
  <2> QED
    BY <1>1, <2>1, <2>2, <2>4
       DEF IInv, FinderOK, TypeOK, CollectingOwnsSlot, TraceFromHead,
           RegionWellFormed
<1>6. CASE Interrupt
  BY <1>6
     DEF IInv, TypeOK, CollectingOwnsSlot, TraceFromHead, EmptyTraceAwaitsHead,
         RegionWellFormed, Interrupt
<1>7. CASE Shutdown
  <2> DEFINE d == disableRegionCollection(rf)
  <2>1. FinderOK(d) /\ ~d.on
    BY <1>1, DisableOK
  <2>2. /\ FinderOK(rf') /\ ~rf'.on
        /\ cur' \in Addr /\ UNCHANGED <<phase, out>>
    BY <1>7, <2>1, StaleOK DEF Shutdown
  <2> QED
    BY <1>1, <2>2
       DEF IInv, FinderOK, TypeOK, CollectingOwnsSlot, TraceFromHead,
           EmptyTraceAwaitsHead, RegionWellFormed
<1>8. CASE UNCHANGED vars
  BY <1>8
     DEF vars, IInv, TypeOK, CollectingOwnsSlot, TraceFromHead,
         EmptyTraceAwaitsHead, RegionWellFormed
<1> QED
  BY <1>2, <1>3, <1>4, <1>5, <1>6, <1>7, <1>8 DEF Next

(* The inductive invariant holds throughout.                               *)
LEMMA Invariance == Spec => []IInv
BY InitIInv, NextIInv, PTL DEF Spec

(* Whatever executeJIT, split and dropAllBBs call, in any order the main   *)
(* loop allows, the finder's fields keep their types and blockCache is     *)
(* never written past its last but one entry.                              *)
THEOREM TypeCorrect == Spec => []TypeOK
<1>1. IInv => TypeOK
  BY DEF IInv
<1> QED BY <1>1, Invariance, PTL

(* The slot that getRegion and disableRegionCollection reset is free, so   *)
(* the count of another block that shares it is never lost.                *)
THEOREM OwnsSlot == Spec => []CollectingOwnsSlot
<1>1. IInv => CollectingOwnsSlot
  BY DEF IInv
<1> QED BY <1>1, Invariance, PTL

(* A trace starts with the hot block and meets it once.                    *)
THEOREM TraceStartsAtHead == Spec => []TraceBeginsAtHead
<1>1. IInv => TraceBeginsAtHead
  BY DEF IInv, TraceBeginsAtHead
<1> QED BY <1>1, Invariance, PTL

(* The regions the compiler receives are single trips round a loop.        *)
THEOREM RegionsWellFormed == Spec => []RegionWellFormed
<1>1. IInv => RegionWellFormed
  BY DEF IInv
<1> QED BY <1>1, Invariance, PTL

(* A region goes to the block it starts with.                              *)
THEOREM RegionsGoToHead == Spec => RegionGoesToHead
<1>1. IInv /\ [Next]_vars => [out' # out => out' # <<>> /\ out'[1] = cur]_vars
  <2> SUFFICES ASSUME IInv, [Next]_vars, out' # out
               PROVE  out' # <<>> /\ out'[1] = cur
    OBVIOUS
  <2>1. Execute /\ RegionComplete(rf, cur) /\ out' = rf.hist
    BY DEF Next, vars, Execute, Build, Split, Finish, Interrupt, Shutdown
  <2> QED BY <2>1 DEF IInv, TraceFromHead, RegionComplete
<1> QED BY <1>1, Invariance, PTL DEF Spec, RegionGoesToHead
=============================================================================
