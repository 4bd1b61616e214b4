-------------------------- MODULE RefinementProofs --------------------------
(***************************************************************************)
(* The main loop implements the two abstract specifications, for every     *)
(* program and every choice of the options: each of its steps is a step of *)
(* the plain simulator, and a call its client may make on the finder, or   *)
(* a stutter.                                                              *)
(***************************************************************************)
EXTENDS DispatchProofs, DispatchFinder

(* Compiled code is at an instruction that compiles, and that is where in  *)
(* the text the copy says it is.                                           *)
CodePlaced ==
  mode = "cfg" =>
    /\ CodePc = at[1] + at[2] - 1
    /\ at[1] \in Nat /\ at[2] \in Nat
    /\ canCompileInstr(prog[CodePc].kind)

LEMMA CodePlace == IInv => CodePlaced
<1> SUFFICES ASSUME IInv, mode = "cfg"
             PROVE  /\ CodePc = at[1] + at[2] - 1
                    /\ at[1] \in Nat /\ at[2] \in Nat
                    /\ canCompileInstr(prog[CodePc].kind)
  BY DEF CodePlaced
<1>1. /\ Code \in CodeType /\ CodeOK(prog, Done(g), unit, Code)
      /\ at[1] \in Code.blocks /\ at[2] \in 1 .. Len(Code.ins[at[1]])
  BY CodeShape
<1> DEFINE s == Code.ins[at[1]]
<1>2. s \in Seq(Addr) /\ Len(s) \in Nat /\ at[1] \in Nat
  <2>1. Code.blocks \subseteq Addr /\ Code.ins \in [Addr -> Seq(Addr)]
    BY <1>1 DEF CodeType
  <2>2. at[1] \in Addr
    BY <1>1, <2>1
  <2>3. s \in Seq(Addr)
    BY <2>1, <2>2
  <2>4. at[1] \in Nat
    BY <2>2, ProgramsAssumption
  <2> HIDE DEF s
  <2> QED BY <2>3, <2>4
<1>3. /\ \A i \in 1 .. Len(s) : s[i] = at[1] + i - 1
      /\ \A a \in ToSet(s) : canCompileInstr(prog[a].kind)
  BY <1>1 DEF CodeOK
<1> HIDE DEF s
<1>4. at[2] \in 1 .. Len(s) /\ CodePc = s[at[2]]
  BY <1>1 DEF s, CodePc
<1>5. s[at[2]] \in ToSet(s)
  BY <1>2, <1>4, ToSetIndex
<1> QED BY <1>2, <1>3, <1>4, <1>5

-----------------------------------------------------------------------------
(* The steps of the main loop, seen by the simulator.                      *)
Simulates == [ISS!Next]_(ISS!vars)

(* The guest stands still.                                                 *)
LEMMA GuestStands ==
  ASSUME UNCHANGED <<prog, brk>>, GuestPc' = GuestPc
  PROVE  Simulates
BY DEF Simulates, ISS!vars

(* The guest executes an instruction.                                      *)
LEMMA GuestSteps ==
  ASSUME ~brk, prog[GuestPc].kind # "halt", GuestPc' \in NextPcs(prog, GuestPc),
         UNCHANGED <<prog, brk>>
  PROVE  Simulates
BY DEF Simulates, ISS!Next, ISS!Step, ISS!NextPcs, NextPcs

LEMMA BuildSimulates ==
  ASSUME IInv, BuildPlain \/ BuildEnd \/ BuildSync \/ BuildStop
  PROVE  Simulates
<1>1. NotReady /\ mode = "loop" /\ ~brk /\ mode' = "loop" /\ GuestPc = pc /\ GuestPc' = pc'
  BY DEF BuildPlain, BuildEnd, BuildSync, BuildStop, NotReady, GuestPc
<1>2. CASE BuildPlain
  <2>1. /\ prog[pc].kind \in {"alu", "nc", "teq"} /\ pc' = pc + 1
        /\ UNCHANGED <<prog, brk>>
    BY <1>2 DEF BuildPlain, Kind
  <2>2. pc' \in NextPcs(prog, pc)
    BY <2>1, PlainNext DEF EndsBlock, isBranchOrJump
  <2> QED BY <1>1, <2>1, <2>2, GuestSteps
<1>3. CASE BuildEnd
  <2>1. EndsBlock(prog[pc].kind) /\ pc' \in NextPcs(prog, pc) /\ UNCHANGED <<prog, brk>>
    BY <1>3 DEF BuildEnd, Kind
  <2> QED BY <1>1, <2>1, GuestSteps DEF EndsBlock, isBranchOrJump
<1>4. CASE BuildSync
  <2>1. prog[pc].kind = "sync" /\ pc' = pc + 1 /\ UNCHANGED <<prog, brk>>
    BY <1>4 DEF BuildSync, Kind
  <2>2. pc' \in NextPcs(prog, pc)
    BY <2>1, PlainNext DEF EndsBlock, isBranchOrJump
  <2> QED BY <1>1, <2>1, <2>2, GuestSteps
<1>5. CASE BuildStop
  <2>1. /\ prog[pc].kind \in {"halt", "teq"} /\ brk' = TRUE /\ UNCHANGED prog
        /\ pc' \in IF prog[pc].kind = "halt" THEN {pc, pc + 1} ELSE {pc}
    BY <1>5 DEF BuildStop, Kind
  <2>2. CASE prog[pc].kind = "halt"
    <3>1. ISS!Halt
      BY <1>1, <2>1, <2>2 DEF ISS!Halt
    <3> QED BY <3>1 DEF Simulates, ISS!Next
  <2>3. CASE prog[pc].kind = "teq"
    <3>1. ISS!Trap
      BY <1>1, <2>1, <2>3 DEF ISS!Trap
    <3> QED BY <3>1 DEF Simulates, ISS!Next
  <2> QED BY <2>1, <2>2, <2>3
<1> QED BY <1>2, <1>3, <1>4, <1>5

(* Dispatching is no step of the guest: compiled code begins with the      *)
(* first instruction of its head.                                          *)
LEMMA DispatchSimulates ==
  ASSUME IInv, ExecuteJIT
  PROVE  Simulates
<1>1. IInv'
  BY ExecuteJITKeeps
<1>2. /\ mode = "loop" /\ pc = cBB /\ UNCHANGED <<prog, cBB, pc, brk>>
      /\ mode' = "run" \/ (mode' = "cfg" /\ at' = <<cBB, 1>>)
  BY DEF ExecuteJIT
<1>3. CASE mode' = "run"
  BY <1>2, <1>3, GuestStands DEF GuestPc
<1>4. CASE mode' = "cfg"
  <2>1. CodePlaced'
    BY <1>1, CodePlace, PTL
  <2>2. CodePc' = cBB
    BY <1>2, <1>4, <2>1 DEF CodePlaced
  <2> QED BY <1>2, <1>4, <2>2, GuestStands DEF GuestPc
<1> QED BY <1>2, <1>3, <1>4

LEMMA RunSimulates ==
  ASSUME IInv, RunPlain \/ RunTrap \/ RunEnd \/ RunReturn
  PROVE  Simulates
<1>1. mode = "run" /\ mode' \in {"run", "post"} /\ GuestPc = pc /\ GuestPc' = pc'
  BY DEF RunPlain, RunTrap, RunEnd, RunReturn, Interpreting, GuestPc
<1>2. CASE RunPlain
  <2>1. /\ prog[pc].kind \in {"alu", "nc", "teq"} /\ pc' = pc + 1 /\ ~brk
        /\ UNCHANGED <<prog, brk>>
    BY <1>2 DEF RunPlain, Kind, Interpreting
  <2>2. pc' \in NextPcs(prog, pc)
    BY <2>1, PlainNext DEF EndsBlock, isBranchOrJump
  <2> QED BY <1>1, <2>1, <2>2, GuestSteps
<1>3. CASE RunTrap
  <2>1. ~brk /\ prog[pc].kind = "teq" /\ brk' = TRUE /\ UNCHANGED <<prog, pc>>
    BY <1>3 DEF RunTrap, Interpreting, Kind
  <2> QED BY <1>1, <2>1 DEF Simulates, ISS!Next, ISS!Trap
<1>4. CASE RunEnd
  <2>1. /\ EndsBlock(prog[pc].kind) /\ pc' \in NextPcs(prog, pc) /\ ~brk
        /\ UNCHANGED <<prog, brk>>
    BY <1>4 DEF RunEnd, Kind, Interpreting
  <2> QED BY <1>1, <2>1, GuestSteps DEF EndsBlock, isBranchOrJump
<1>5. CASE RunReturn
  BY <1>1, <1>5, GuestStands DEF RunReturn
<1> QED BY <1>2, <1>3, <1>4, <1>5

(* Compiled code: on within the block, along an edge to the next one, or   *)
(* out.                                                                    *)
LEMMA CfgSimulates ==
  ASSUME IInv, CfgWithin \/ CfgEdge \/ CfgAbort
  PROVE  Simulates
<1>1. mode = "cfg" /\ GuestPc = CodePc /\ UNCHANGED <<prog, brk>>
  BY DEF CfgWithin, CfgEdge, CfgAbort, GuestPc
<1>2. /\ CodePc = at[1] + at[2] - 1 /\ at[1] \in Nat /\ at[2] \in Nat
      /\ canCompileInstr(prog[CodePc].kind)
  BY <1>1, CodePlace DEF CodePlaced
<1>3. ~brk
  BY <1>1 DEF IInv, CfgOK
<1>4. prog[CodePc].kind # "halt"
  BY <1>2 DEF canCompileInstr
<1>5. CASE CfgWithin
  <2>1. /\ ~LeavesBlock /\ mode' = "cfg" /\ at' = <<at[1], at[2] + 1>>
        /\ UNCHANGED <<g, unit>>
    BY <1>5 DEF CfgWithin
  <2>2. CodePlaced'
    <3>1. IInv'
      BY <1>5, CfgWithinKeeps
    <3> QED BY <3>1, CodePlace, PTL
  <2>3. CodePc' = CodePc + 1
    BY <1>2, <2>1, <2>2 DEF CodePlaced
  <2>4. ~EndsBlock(prog[CodePc].kind)
    BY <1>2, <2>1 DEF LeavesBlock, Kind, EndsBlock, canCompileInstr
  <2> QED BY <1>1, <1>3, <1>4, <2>1, <2>3, <2>4, PlainNext, GuestSteps DEF GuestPc
<1>6. CASE CfgEdge
  <2>1. PICK q \in NextPcs(prog, CodePc) : at' = <<q, 1>>
    BY <1>6 DEF CfgEdge
  <2>2. mode' = "cfg"
    BY <1>1, <1>6 DEF CfgEdge
  <2>3. CodePlaced'
    <3>1. IInv'
      BY <1>6, CfgEdgeKeeps
    <3> QED BY <3>1, CodePlace, PTL
  <2>4. CodePc' = q
    BY <2>1, <2>2, <2>3 DEF CodePlaced
  <2> QED BY <1>1, <1>3, <1>4, <2>1, <2>2, <2>4, GuestSteps DEF GuestPc
<1>7. CASE CfgAbort
  <2>1. mode' = "post" /\ pc' \in NextPcs(prog, CodePc)
    BY <1>7 DEF CfgAbort
  <2> QED BY <1>1, <1>3, <1>4, <2>1, GuestSteps DEF GuestPc
<1> QED BY <1>5, <1>6, <1>7

LEMMA PostSimulates ==
  ASSUME Post
  PROVE  Simulates
<1>1. mode = "post" /\ mode' = "loop" /\ UNCHANGED <<prog, pc, brk>>
  BY DEF Post
<1> QED BY <1>1, GuestStands DEF GuestPc

(* SIGINT between two instructions of compiled code leaves the pc of the   *)
(* region's head.                                                          *)
LEMMA InterruptSimulates ==
  ASSUME IInv, Interrupt
  PROVE  Simulates
<1>1. ~brk /\ brk' = TRUE /\ mode' = "loop" /\ UNCHANGED <<prog, pc>>
  BY DEF Interrupt
<1>2. GuestPc' = pc
  BY <1>1 DEF GuestPc
<1>3. pc \in Addr
  BY <1>1 DEF IInv, BlocksOK
<1>4. ISS!Interrupt
  BY <1>1, <1>2, <1>3 DEF ISS!Interrupt
<1> QED BY <1>4 DEF Simulates, ISS!Next

LEMMA ShutdownSimulates ==
  ASSUME Shutdown
  PROVE  Simulates
<1>1. mode = "loop" /\ mode' = "exit" /\ UNCHANGED <<prog, pc, brk>>
  BY DEF Shutdown
<1> QED BY <1>1, GuestStands DEF GuestPc

LEMMA StutterSimulates ==
  ASSUME UNCHANGED vars
  PROVE  Simulates
<1>1. UNCHANGED <<prog, brk>> /\ GuestPc' = GuestPc
  BY DEF vars, GuestPc, CodePc, Code
<1> QED BY <1>1, GuestStands

LEMMA NextSimulates ==
  ASSUME IInv, [Next]_vars
  PROVE  Simulates
<1>1. CASE BuildPlain \/ BuildEnd \/ BuildSync \/ BuildStop
  BY <1>1, BuildSimulates
<1>2. CASE ExecuteJIT
  BY <1>2, DispatchSimulates
<1>3. CASE RunPlain \/ RunTrap \/ RunEnd \/ RunReturn
  BY <1>3, RunSimulates
<1>4. CASE CfgWithin \/ CfgEdge \/ CfgAbort
  BY <1>4, CfgSimulates
<1>5. CASE Post
  BY <1>5, PostSimulates
<1>6. CASE Interrupt
  BY <1>6, InterruptSimulates
<1>7. CASE Shutdown
  BY <1>7, ShutdownSimulates
<1>8. CASE Exited \/ UNCHANGED vars
  BY <1>8, StutterSimulates DEF Exited
<1> QED BY <1>1, <1>2, <1>3, <1>4, <1>5, <1>6, <1>7, <1>8 DEF Next

LEMMA InitSimulates == Init => ISS!Init
BY DEF Init, ISS!Init, GuestPc

(* Whichever engine executes it, every instruction the guest executes is   *)
(* the one the plain simulator (--cfg=false) would execute next: blocks    *)
(* being built, run, split, compiled and abandoned half-way never skip,    *)
(* repeat or invent one.                                                   *)
THEOREM ExecutesAsIss == Spec => StepsAsIss
<1>1. Init => ISS!Init
  BY InitSimulates
<1>2. IInv /\ [Next]_vars => [ISS!Next]_(ISS!vars)
  BY NextSimulates DEF Simulates
<1> QED BY <1>1, <1>2, InvariantHolds, PTL DEF Spec, StepsAsIss

-----------------------------------------------------------------------------
(* The finder.  The operators RegionFinder applies to its record are the   *)
(* ones Dispatch applies to the graph's.                                   *)
LEMMA SameOperators ==
  /\ RF!NewFinder = NewFinder
  /\ \A r : RF!disableRegionCollection(r) = disableRegionCollection(r)
  /\ \A r : RF!HeadsGoStale(r) = HeadsGoStale(r)
  /\ \A r : RF!getRegion(r) = getRegion(r)
  /\ \A r, bb : RF!RegionComplete(r, bb) <=> RegionComplete(r, bb)
  /\ \A r, bb : RF!update(r, bb) = update(r, bb)
  /\ \A r, bb, lbb, reused :
       RF!updateRegionHeads(r, bb, lbb, reused) = updateRegionHeads(r, bb, lbb, reused)
<1>1. RF!NewFinder = NewFinder
  BY DEF RF!NewFinder, RF!Idx, NewFinder, Idx
<1>2. \A bb : RF!computeIndex(bb) = computeIndex(bb)
  BY DEF RF!computeIndex, computeIndex
<1>3. \A r, bb : RF!ResetSlot(r, bb) = ResetSlot(r, bb)
  BY <1>2 DEF RF!ResetSlot, ResetSlot
<1>4. \A r : RF!disableRegionCollection(r) = disableRegionCollection(r)
  BY <1>3 DEF RF!disableRegionCollection, disableRegionCollection
<1>5. \A r : RF!HeadsGoStale(r) = HeadsGoStale(r)
  BY DEF RF!HeadsGoStale, RF!Idx, HeadsGoStale, Idx
<1>6. \A r : RF!getRegion(r) = getRegion(r)
  BY <1>3 DEF RF!getRegion, getRegion
<1>7. \A r, bb : RF!RegionComplete(r, bb) <=> RegionComplete(r, bb)
  BY DEF RF!RegionComplete, RegionComplete
<1>8. \A r, bb : RF!update(r, bb) = update(r, bb)
  BY <1>7 DEF RF!update, update
<1>9. \A r, bb, reused : RF!SlotHolds(r, bb, reused) <=> SlotHolds(r, bb, reused)
  BY <1>2 DEF RF!SlotHolds, SlotHolds
<1>10. \A r, bb : RF!StartCollection(r, bb) = StartCollection(r, bb)
  BY <1>2 DEF RF!StartCollection, StartCollection
<1>11. \A r, bb, lbb, reused :
         RF!updateRegionHeads(r, bb, lbb, reused) = updateRegionHeads(r, bb, lbb, reused)
  <2> TAKE r, bb, lbb, reused
  <2>1. /\ RF!computeIndex(bb) = computeIndex(bb)
        /\ RF!SlotHolds(r, bb, reused) <=> SlotHolds(r, bb, reused)
        /\ RF!StartCollection(r, bb) = StartCollection(r, bb)
    BY <1>2, <1>9, <1>10
  <2> QED BY <2>1 DEF RF!updateRegionHeads, updateRegionHeads
<1> QED BY <1>1, <1>4, <1>5, <1>6, <1>7, <1>8, <1>11

(* executeJIT works for a block exactly while one is being run.            *)
UnitOK ==
  /\ mode \in {"run", "cfg", "post"} => unit \in Addr
  /\ mode \in {"loop", "exit"} => unit = None

LEMMA UnitKeeps ==
  ASSUME IInv, UnitOK, [Next]_vars
  PROVE  UnitOK'
<1>1. CASE BuildPlain \/ BuildEnd \/ BuildSync \/ BuildStop
  BY <1>1 DEF UnitOK, BuildPlain, BuildEnd, BuildSync, BuildStop
<1>2. CASE ExecuteJIT
  <2>1. cBB \in Addr
    BY <1>2, AtDispatch
  <2> QED BY <1>2, <2>1 DEF UnitOK, ExecuteJIT
<1>3. CASE RunPlain \/ RunTrap \/ RunEnd \/ RunReturn
  BY <1>3 DEF UnitOK, RunPlain, RunTrap, RunEnd, RunReturn, Interpreting
<1>4. CASE CfgWithin \/ CfgEdge \/ CfgAbort
  BY <1>4 DEF UnitOK, CfgWithin, CfgEdge, CfgAbort
<1>5. CASE Post \/ Interrupt \/ Shutdown
  BY <1>5 DEF UnitOK, Post, Interrupt, Shutdown
<1>6. CASE Exited \/ UNCHANGED vars
  BY <1>6 DEF UnitOK, Exited, vars
<1> QED BY <1>1, <1>2, <1>3, <1>4, <1>5, <1>6 DEF Next

-----------------------------------------------------------------------------
(* The steps of the main loop, seen by the finder.                         *)
Serves == [RF!Next]_(RF!vars)

(* The main loop leaves the finder alone and stays where it is.            *)
LEMMA FinderStands ==
  ASSUME g'.rf = g.rf, out' = out, Phase' = Phase, Current' = Current
  PROVE  Serves
BY DEF Serves, RF!vars

(* While blocks are built.                                                 *)
LEMMA FinderBuilds ==
  ASSUME UnitOK, IInv', mode = "loop", ~brk, mode' = "loop", unit' = unit, out' = out,
         g'.rf \in {disableRegionCollection(g.rf),
                    HeadsGoStale(disableRegionCollection(g.rf))}
  PROVE  Serves
<1>1. Phase = "dispatch" /\ Phase' \in {"dispatch", "stopped"}
  BY DEF Phase
<1>2. Current' \in Addr
  <2>1. (cBB \in Addr)'
    BY DEF IInv, BlocksOK, Live
  <2>2. (unit = None)'
    BY DEF UnitOK
  <2> QED BY <2>1, <2>2, RegionFinderAssumption DEF Current
<1>3. RF!Build
  BY <1>1, <1>2, SameOperators DEF RF!Build
<1> QED BY <1>3 DEF Serves, RF!Next

LEMMA AppendedFinder ==
  ASSUME IInv, NotReady, prog[pc].kind # "brl"
  PROVE  Appended.rf = disableRegionCollection(g.rf)
<1> DEFINE h == Building(g)
<1>1. Growing(prog, h, cBB, pc)
  BY BuildingOK
<1>2. h.rf = disableRegionCollection(g.rf)
  BY DEF NotReady, IInv, BlocksOK, GraphOK, GraphType, Building
<1>3. Appended = addIns(h, cBB, pc)
  BY DEF Appended
<1> HIDE DEF h
<1> QED BY <1>1, <1>2, <1>3, AddInsOK DEF HasGrown

LEMMA BuildServes ==
  ASSUME IInv, UnitOK, BuildPlain \/ BuildEnd \/ BuildSync \/ BuildStop, out' = out
  PROVE  Serves
<1>1. /\ NotReady /\ mode = "loop" /\ ~brk /\ mode' = "loop" /\ unit' = unit
  BY DEF BuildPlain, BuildEnd, BuildSync, BuildStop, NotReady
<1>2. IInv'
  BY NextIInv DEF Next
<1>3. CASE BuildPlain \/ BuildStop
  <2>1. g' = Appended /\ prog[pc].kind # "brl"
    BY <1>3 DEF BuildPlain, BuildStop, Kind
  <2> QED BY <1>1, <1>2, <2>1, AppendedFinder, FinderBuilds
<1>4. CASE BuildSync
  <2>1. g' = newBlock(dropAllBBs(Appended), pc + 1) /\ prog[pc].kind # "brl"
    BY <1>4 DEF BuildSync, Kind
  <2>2. Appended.rf = disableRegionCollection(g.rf)
    BY <1>1, <2>1, AppendedFinder
  <2>3. disableRegionCollection(disableRegionCollection(g.rf)) = disableRegionCollection(g.rf)
    <3>1. g.rf \in FinderType
      BY <1>1 DEF IInv, BlocksOK, GraphOK, GraphType
    <3>2. disableRegionCollection(g.rf).on = FALSE
      BY <3>1, DisableType
    <3> HIDE DEF disableRegionCollection
    <3> QED BY <3>2 DEF disableRegionCollection
  <2>4. g'.rf = HeadsGoStale(disableRegionCollection(Appended.rf))
    BY <2>1 DEF newBlock, dropAllBBs, EmptyGraph
  <2> QED BY <1>1, <1>2, <2>2, <2>3, <2>4, FinderBuilds
<1>5. CASE BuildEnd
  <2> DEFINE h == Building(g)
             d == Ending(prog, h, cBB, pc)
  <2>1. PICK q \in NextPcs(prog, pc) : g' = getNextBlock(prog, d, cBB, q) /\ CanEnd(h, d, q)
    BY <1>5, AtEnd
  <2> HIDE DEF h, d
  <2>2. /\ ~d.rf.on /\ d.rf = disableRegionCollection(g.rf)
        /\ HasNext(prog, d, cBB, q)
    BY <2>1, GetNextBlockOK DEF CanEnd
  <2>3. g'.rf = d.rf \/ g'.rf = disableRegionCollection(d.rf)
    BY <2>1, <2>2 DEF HasNext, Evolves
  <2>4. disableRegionCollection(d.rf) = d.rf
    BY <2>2 DEF disableRegionCollection
  <2> QED BY <1>1, <1>2, <2>2, <2>3, <2>4, FinderBuilds
<1> QED BY <1>3, <1>4, <1>5

(* A block becomes the one that runs, and its region may close.            *)
LEMMA ExecuteServes ==
  ASSUME IInv, UnitOK, ExecuteJIT, out' = IF HandsOut THEN g.rf.hist ELSE out
  PROVE  Serves
<1>1. mode = "loop" /\ ~brk /\ cBB \in Addr /\ cBB # None /\ unit = None
  BY AtDispatch, RegionFinderAssumption DEF UnitOK
<1>2. mode' \in {"run", "cfg"} /\ unit' = cBB
  BY DEF ExecuteJIT
<1>3. /\ Phase = "dispatch" /\ Phase' = "running"
      /\ Current = cBB /\ Current' = cBB
  BY <1>1, <1>2 DEF Phase, Current
<1>4. HandsOut <=> RegionComplete(g.rf, cBB)
  BY <1>1, <1>2 DEF HandsOut
<1>5. g.rf \in FinderType /\ g \in GraphType
  BY AtDispatch DEF GraphOK, GraphType
<1>6. CASE RegionComplete(g.rf, cBB)
  <2> DEFINE h == [g EXCEPT !.rf = getRegion(update(@, cBB))]
  <2>1. PICK typed \in {TRUE, EnableBoth}, up \in (IF Aug = "head" THEN BOOLEAN ELSE {TRUE}) :
          g' = RegionClosed(h, g.rf.hist, typed, up)
    BY <1>6 DEF ExecuteJIT, Dispatched
  <2>2. Alike(h, RegionClosed(h, g.rf.hist, typed, up))
    BY <1>6, ClosingOK
  <2>3. h.rf = getRegion(update(g.rf, cBB))
    BY <1>5 DEF GraphType
  <2> HIDE DEF h
  <2>4. g'.rf = getRegion(update(g.rf, cBB))
    BY <2>1, <2>2, <2>3 DEF Alike
  <2>5. out' = g.rf.hist
    BY <1>4, <1>6
  <2>6. RF!Execute
    BY <1>3, <1>6, <2>4, <2>5, SameOperators DEF RF!Execute
  <2> QED BY <2>6 DEF Serves, RF!Next
<1>7. CASE ~RegionComplete(g.rf, cBB)
  <2>1. g' = [g EXCEPT !.rf = update(@, cBB)]
    BY <1>7 DEF ExecuteJIT, Dispatched
  <2>2. g'.rf = update(g.rf, cBB)
    BY <1>5, <2>1 DEF GraphType
  <2>3. out' = out
    BY <1>4, <1>7
  <2>4. RF!Execute
    BY <1>3, <1>7, <2>2, <2>3, SameOperators DEF RF!Execute
  <2> QED BY <2>4 DEF Serves, RF!Next
<1> QED BY <1>6, <1>7

(* While a block runs, only a split reaches the finder.                    *)
LEMMA RunServes ==
  ASSUME IInv, RunPlain \/ RunTrap \/ RunEnd \/ RunReturn \/ CfgWithin \/ CfgEdge \/ CfgAbort,
         UnitOK, out' = out
  PROVE  Serves
<1>1. mode \in {"run", "cfg"} /\ mode' \in {"run", "cfg", "post"} /\ unit' = unit
  BY DEF RunPlain, RunTrap, RunEnd, RunReturn, CfgWithin, CfgEdge, CfgAbort, Interpreting
<1>2. /\ Phase = "running" /\ Phase' = "running"
      /\ Current = unit /\ Current' = unit
  BY <1>1, RegionFinderAssumption DEF Phase, Current, UnitOK
<1>3. g'.rf = g.rf \/ g'.rf = disableRegionCollection(g.rf)
  <2>1. CASE RunEnd
    <3>1. PICK q : /\ g' = getNextBlock(prog, g, cBB, q)
                   /\ CanFind(prog, g, cBB, q) /\ Ended(prog, g.blk[cBB])
      BY <2>1, AtRunEnd
    <3> QED BY <3>1, GetNextBlockOK DEF HasNext, Evolves
  <2>2. CASE RunReturn
    <3>1. g' = findBlock(prog, g, unit, pc) /\ CanFind(prog, g, unit, pc)
      BY <2>2, AtRunReturn
    <3> QED BY <3>1, FindBlockOK DEF HasFound, Evolves
  <2>3. CASE RunPlain \/ RunTrap \/ CfgWithin \/ CfgEdge \/ CfgAbort
    BY <2>3 DEF RunPlain, RunTrap, CfgWithin, CfgEdge, CfgAbort
  <2> QED BY <2>1, <2>2, <2>3
<1>4. CASE g'.rf = g.rf
  BY <1>2, <1>4, FinderStands
<1>5. CASE g'.rf = disableRegionCollection(g.rf)
  <2>1. RF!Split
    BY <1>2, <1>5, SameOperators DEF RF!Split
  <2> QED BY <2>1 DEF Serves, RF!Next
<1> QED BY <1>3, <1>4, <1>5

(* The end of executeJIT counts the next block as a head, or does not.     *)
LEMMA PostServes ==
  ASSUME IInv, Post, out' = out, UnitOK
  PROVE  Serves
<1> DEFINE n == IF g.blk[pc] = None THEN newBlockAfter(g, pc, cBB) ELSE g
<1>1. /\ mode = "post" /\ mode' = "loop" /\ cBB' = pc /\ unit' = None
      /\ \/ g' = n
         \/ \E reused \in BOOLEAN : g' = [n EXCEPT !.rf = updateRegionHeads(n.rf, pc, cBB, reused)]
  BY DEF Post
<1>2. GraphOK(prog, g) /\ cBB \in Live(g) /\ cBB \in Addr /\ pc \in Addr
  BY <1>1 DEF IInv, BlocksOK, Live
<1>3. n.rf = g.rf /\ n \in GraphType
  <2>1. CASE g.blk[pc] = None
    <3> DEFINE m == newBlockAfter(g, pc, cBB)
    <3>1. GraphOK(prog, m) /\ m.rf = g.rf
      <4>1. HasNewAfter(prog, g, cBB, pc)
        BY <1>2, <2>1, NewBlockAfterOK
      <4> QED BY <4>1 DEF HasNewAfter
    <3>2. n = m
      BY <2>1
    <3> HIDE DEF m, n
    <3> QED BY <3>1, <3>2 DEF GraphOK
  <2>2. CASE g.blk[pc] # None
    <3>1. n = g
      BY <2>2
    <3> HIDE DEF n
    <3> QED BY <1>2, <3>1 DEF GraphOK
  <2> QED BY <2>1, <2>2
<1> HIDE DEF n
<1>4. \/ g'.rf = g.rf
      \/ \E reused \in BOOLEAN : g'.rf = updateRegionHeads(g.rf, pc, cBB, reused)
  BY <1>1, <1>3 DEF GraphType
<1>5. /\ Phase = "running" /\ Phase' \in {"dispatch", "stopped"}
      /\ Current' = pc
  BY <1>1, <1>2, RegionFinderAssumption DEF Phase, Current
<1>6. RF!Finish(pc, cBB)
  BY <1>4, <1>5, SameOperators DEF RF!Finish
<1> QED BY <1>2, <1>6 DEF Serves, RF!Next

LEMMA StopServes ==
  ASSUME IInv, UnitOK, Interrupt \/ Shutdown, out' = out
  PROVE  Serves
<1>1. CASE Interrupt
  <2>1. mode' = "loop" /\ brk' /\ unit' = None /\ UNCHANGED <<g, cBB>> /\ mode # "exit"
    BY <1>1 DEF Interrupt, IInv
  <2>2. cBB \in Addr
    BY <2>1 DEF IInv, BlocksOK, Live
  <2>3. Phase' = "stopped" /\ Current' \in Addr
    BY <2>1, <2>2, RegionFinderAssumption DEF Phase, Current
  <2>4. RF!Interrupt
    BY <1>1, <2>1, <2>3 DEF RF!Interrupt
  <2> QED BY <2>4 DEF Serves, RF!Next
<1>2. CASE Shutdown
  <2>1. /\ mode = "loop" /\ brk /\ mode' = "exit" /\ g' = dropAllBBs(g)
        /\ unit' = None /\ cBB' = None
    BY <1>2 DEF Shutdown, UnitOK
  <2>2. Phase = "stopped" /\ Phase' = "stopped" /\ Current' \in Addr
    BY <2>1, ProgramsAssumption DEF Phase, Current
  <2>3. g'.rf = HeadsGoStale(disableRegionCollection(g.rf))
    BY <2>1 DEF dropAllBBs, EmptyGraph
  <2>4. RF!Shutdown
    BY <2>2, <2>3, SameOperators DEF RF!Shutdown
  <2> QED BY <2>4 DEF Serves, RF!Next
<1> QED BY <1>1, <1>2

LEMMA NextServes ==
  ASSUME IInv, UnitOK, [HistoryNext]_<<vars, out>>
  PROVE  Serves
<1>1. CASE UNCHANGED <<vars, out>>
  BY <1>1, FinderStands DEF vars, Phase, Current
<1>2. CASE HistoryNext /\ ExecuteJIT
  BY <1>2, ExecuteServes DEF HistoryNext
<1>3. CASE HistoryNext /\ ~ExecuteJIT
  <2>1. Next /\ out' = IF HandsOut THEN g.rf.hist ELSE out
    BY <1>3 DEF HistoryNext
  <2>2. out' = out
    <3>1. mode # "loop" \/ unit' = None
      BY <1>3, <2>1 DEF Next, UnitOK, BuildPlain, BuildEnd, BuildSync, BuildStop, RunPlain,
        RunTrap, RunEnd, RunReturn, Interpreting, CfgWithin, CfgEdge, CfgAbort, Post, Interrupt,
        Shutdown, Exited
    <3> QED BY <2>1, <3>1 DEF HandsOut
  <2>3. CASE BuildPlain \/ BuildEnd \/ BuildSync \/ BuildStop
    BY <2>2, <2>3, BuildServes
  <2>4. CASE RunPlain \/ RunTrap \/ RunEnd \/ RunReturn \/ CfgWithin \/ CfgEdge \/ CfgAbort
    BY <2>2, <2>4, RunServes
  <2>5. CASE Post
    BY <2>2, <2>5, PostServes
  <2>6. CASE Interrupt \/ Shutdown
    BY <2>2, <2>6, StopServes
  <2>7. CASE Exited
    BY <2>2, <2>7, FinderStands DEF Exited, vars, Phase, Current
  <2> QED BY <1>3, <2>1, <2>3, <2>4, <2>5, <2>6, <2>7 DEF Next
<1> QED BY <1>1, <1>2, <1>3

LEMMA InitServes == HistoryInit => RF!Init /\ UnitOK
<1> SUFFICES ASSUME HistoryInit PROVE RF!Init /\ UnitOK
  OBVIOUS
<1>1. /\ g = newBlock(EmptyGraph, 0) /\ cBB = 0 /\ mode = "loop" /\ brk = FALSE
      /\ unit = None /\ out = <<>>
  BY DEF HistoryInit, Init
<1>2. g.rf = NewFinder
  BY <1>1 DEF newBlock, EmptyGraph
<1>3. Current \in Addr /\ Phase = "dispatch"
  BY <1>1, ProgramsAssumption DEF Current, Phase
<1> QED BY <1>1, <1>2, <1>3, SameOperators DEF RF!Init, UnitOK

(* executeJIT, split, the end of executeJIT, dropAllBBs and the signal     *)
(* handler's longjmp call the finder of region.cc only as the client of    *)
(* RegionFinder may, whatever the program, the options and the             *)
(* interleaving: what is proved there of every such client holds of the    *)
(* finder inside the main loop.                                            *)
THEOREM UsesFinderAsClient == HistorySpec => ImplementsRegionFinder
<1>1. HistoryInit => Init /\ RF!Init /\ UnitOK
  BY InitServes DEF HistoryInit
<1>2. [HistoryNext]_<<vars, out>> => [Next]_vars
  BY DEF HistoryNext
<1>3. IInv /\ UnitOK /\ [HistoryNext]_<<vars, out>> => UnitOK'
  BY <1>2, UnitKeeps
<1>4. IInv /\ UnitOK /\ [HistoryNext]_<<vars, out>> => [RF!Next]_(RF!vars)
  BY NextServes DEF Serves
<1>5. Init => IInv
  BY InitIInv
<1>6. IInv /\ [Next]_vars => IInv'
  BY NextIInv
<1> QED BY <1>1, <1>2, <1>3, <1>4, <1>5, <1>6, PTL DEF HistorySpec, ImplementsRegionFinder, RF!Spec
=============================================================================
