--------------------------- MODULE DispatchProofs ---------------------------
(***************************************************************************)
(* Dispatch's invariants on blocks, edges and compiled code, proved for    *)
(* every program, every size of the finder's tables, every threshold and   *)
(* every choice of the options.                                            *)
(***************************************************************************)
EXTENDS DispatchProps, BlockGraphProofs

(* A block nothing has been appended to.                                   *)
Empty(B) == B.ins = <<>> /\ B.term = None

(* The next dispatch is at cBB, finished or not yet begun.                 *)
AtEntry == g.blk[cBB].ro \/ (pc = cBB /\ Empty(g.blk[cBB]))

LoopOK ==
  mode = "loop" /\ ~brk =>
    /\ LoopAtBlock
    /\ ~g.blk[cBB].ro =>
         /\ Open(prog, g.blk[cBB])
         /\ \A a \in ToSet(g.blk[cBB].ins) : prog[a].kind \notin {"sync", "halt"}
    /\ g.rf.on /\ g.rf.hist = <<>> => cBB = g.rf.head

RunOK ==
  mode = "run" =>
    /\ unit \in Done(g)
    /\ todo \in Nat
    /\ todo > 0 /\ ~brk =>
         /\ cBB = unit
         /\ pc >= unit
         /\ pc + todo - 1 = g.blk[unit].term
    /\ AtEntry
    /\ g.rf.on /\ ~brk => g.rf.hist # <<>>

CfgOK ==
  mode = "cfg" =>
    /\ ~brk
    /\ unit \in Done(g) /\ cBB = unit
    /\ g.blk[unit].code # None
    /\ at[1] \in Code.blocks
    /\ at[2] \in 1 .. Len(Code.ins[at[1]])
    /\ ~g.rf.on

PostOK ==
  mode = "post" => AtEntry /\ (g.rf.on /\ ~brk => g.rf.hist # <<>>)

(* Only cBB can be unfinished.                                             *)
BlocksOK ==
  /\ prog \in Programs
  /\ GraphOK(prog, g)
  /\ mode # "exit" =>
       /\ cBB \in Live(g)
       /\ Live(g) \subseteq Done(g) \cup {cBB}
       /\ (mode = "loop" /\ brk) \/ pc \in Addr

IInv ==
  /\ brk \in BOOLEAN
  /\ mode \in {"loop", "run", "cfg", "post", "exit"}
  /\ mode = "exit" => brk
  /\ BlocksOK
  /\ LoopOK /\ RunOK /\ CfgOK /\ PostOK

-----------------------------------------------------------------------------
(* The initial state: an empty block at 0.                                 *)
LEMMA InitIInv == Init => IInv
<1> SUFFICES ASSUME Init PROVE IInv
  OBVIOUS
<1> DEFINE e == EmptyGraph
<1>1. e \in GraphType /\ e.rf.on = FALSE /\ e.blk[0] = None /\ Live(e) = {} /\ 0 \in Addr
  <2>1. 0 \in Addr
    BY ProgramsAssumption
  <2>2. e.blk = [a \in Addr |-> None] /\ e.insMap = [a \in Addr |-> None] /\ e.rf = NewFinder
    BY DEF EmptyGraph
  <2>3. NewFinder \in FinderType /\ NewFinder.on = FALSE
    <3>1. <<>> \in Seq(Addr)
      OBVIOUS
    <3>2. [i \in Idx |-> 0] \in [Idx -> Nat]
      OBVIOUS
    <3> QED BY <3>1, <3>2 DEF NewFinder, FinderType
  <2>4. e \in GraphType
    <3> DEFINE F == NewFinder
    <3>1. e = [blk |-> [a \in Addr |-> None], insMap |-> [a \in Addr |-> None], rf |-> F]
      BY DEF EmptyGraph
    <3>2. F \in FinderType
      BY <2>3
    <3> HIDE DEF F, e
    <3> QED BY <3>1, <3>2 DEF GraphType
  <2> HIDE DEF e
  <2>5. Live(e) = {}
    BY <2>2 DEF Live
  <2> QED BY <2>1, <2>2, <2>3, <2>4, <2>5
<1> HIDE DEF e
<1>2. \A p : GraphOK(p, e)
  <2>1. InsMapOK(e) /\ Linked(e) /\ TraceOK(e)
    <3>1. \A a \in Addr : e.insMap[a] = None
      BY DEF e, EmptyGraph
    <3> QED BY <1>1, <3>1 DEF InsMapOK, Linked, TraceOK
  <2> QED BY <1>1, <2>1 DEF GraphOK
<1>3. /\ g = newBlock(e, 0) /\ prog \in Programs /\ cBB = 0 /\ pc = 0 /\ brk = FALSE
      /\ mode = "loop"
  BY DEF Init, e
<1>4. /\ GraphOK(prog, g) /\ Live(g) = Live(e) \cup {0}
      /\ g.blk[0] = FreshBlock /\ g.rf = e.rf
  BY <1>1, <1>2, <1>3, NewBlockOK
<1>5. BlocksOK
  BY <1>1, <1>3, <1>4 DEF BlocksOK
<1>6. LoopOK
  <2>1. /\ ~FreshBlock.ro /\ FreshBlock.ins = <<>> /\ Len(FreshBlock.ins) = 0
    BY DEF FreshBlock
  <2>2. Open(prog, FreshBlock)
    BY FreshBlockOK
  <2>3. ToSet(<<>>) = {}
    BY DEF ToSet
  <2> QED BY <2>1, <2>2, <2>3, <1>1, <1>3, <1>4 DEF LoopOK, LoopAtBlock
<1> QED BY <1>3, <1>5, <1>6 DEF IInv, RunOK, CfgOK, PostOK

-----------------------------------------------------------------------------
(* Interpreting an instruction of an unfinished block.                     *)
LEMMA BuildingOK ==
  ASSUME IInv, NotReady
  PROVE  /\ Growing(prog, Building(g), cBB, pc)
         /\ Building(g).blk = g.blk /\ ~Building(g).rf.on /\ Building(g).rf \in FinderType
         /\ Live(Building(g)) = Live(g) /\ Done(Building(g)) = Done(g)
         /\ Live(g) \subseteq Done(g) \cup {cBB} /\ cBB \in Live(g)
<1> DEFINE h == Building(g)
<1>1. /\ mode = "loop" /\ ~brk /\ prog \in Programs /\ GraphOK(prog, g)
      /\ cBB \in Live(g) /\ Live(g) \subseteq Done(g) \cup {cBB} /\ pc \in Addr
  BY DEF IInv, BlocksOK, NotReady
<1>2. /\ ~g.blk[cBB].ro /\ pc = cBB + Len(g.blk[cBB].ins) /\ Open(prog, g.blk[cBB])
      /\ \A a \in ToSet(g.blk[cBB].ins) : prog[a].kind \notin {"sync", "halt"}
  BY <1>1 DEF IInv, LoopOK, LoopAtBlock, NotReady
<1>3. GraphOK(prog, h) /\ h.rf.on = FALSE /\ h.blk = g.blk /\ h.insMap = g.insMap
  BY <1>1, DisableOK DEF Building
<1> HIDE DEF h
<1>4. Live(h) = Live(g) /\ Done(h) = Done(g)
  BY <1>3 DEF Live, Done
<1>5. Growing(prog, h, cBB, pc)
  BY <1>1, <1>2, <1>3, <1>4 DEF Growing
<1>6. h.rf \in FinderType
  BY <1>3 DEF GraphOK, GraphType
<1> QED BY <1>1, <1>3, <1>4, <1>5, <1>6 DEF h

(* Where the word after an instruction is.                                 *)
LEMMA NextWord ==
  ASSUME NEW p \in Programs, NEW a \in Addr, p[a].kind \notin {"halt", "mon"}
  PROVE  a + 1 \in Addr
BY ProgramsAssumption DEF WellFormed

(* A plain instruction goes on to the next word.                           *)
LEMMA PlainNext ==
  ASSUME NEW p, NEW a, ~EndsBlock(p[a].kind)
  PROVE  NextPcs(p, a) = {a + 1}
BY DEF EndsBlock, isBranchOrJump, NextPcs

LEMMA NextPcsType ==
  ASSUME NEW p \in Programs, NEW a \in Addr, p[a].kind # "halt"
  PROVE  NextPcs(p, a) \subseteq Addr
<1>1. WellFormed(p) /\ p[a] \in [kind : Kinds, to : SUBSET Addr]
  BY ProgramsAssumption DEF Program
<1>2. p[a].to \subseteq Addr
  BY <1>1
<1>3. p[a].kind \in {"br", "brl"} => a + 2 \in Addr
  BY <1>1 DEF WellFormed
<1>4. p[a].kind \notin {"br", "brl", "j", "jal", "jr", "jalr", "mon"} => a + 1 \in Addr
  BY <1>1 DEF WellFormed
<1> QED BY <1>2, <1>3, <1>4 DEF NextPcs

(* The step to a loop state or out of it, by parts.                        *)
LEMMA LoopKeeps ==
  ASSUME brk' \in BOOLEAN, mode' = "loop", BlocksOK', LoopOK'
  PROVE  IInv'
BY DEF IInv, RunOK, CfgOK, PostOK

LEMMA AppendedOK ==
  ASSUME IInv, NotReady, prog[pc].kind # "brl"
  PROVE  LET n == Appended IN
         /\ GraphOK(prog, n) /\ ~n.rf.on
         /\ cBB \in Live(n) /\ Live(n) \subseteq Done(n) \cup {cBB}
         /\ ~n.blk[cBB].ro /\ n.blk[cBB].ins = Append(g.blk[cBB].ins, pc)
         /\ n.blk[cBB].term = g.blk[cBB].term
<1> DEFINE h == Building(g)
           n == Appended
<1>1. /\ Growing(prog, h, cBB, pc)
      /\ h.blk = g.blk /\ ~h.rf.on
      /\ Live(h) = Live(g) /\ Done(h) = Done(g)
      /\ Live(g) \subseteq Done(g) \cup {cBB} /\ cBB \in Live(g)
  BY BuildingOK
<1>2. n = addIns(h, cBB, pc)
  BY DEF Appended
<1> HIDE DEF h, n
<1>3. HasGrown(prog, h, cBB, pc)
  BY <1>1, AddInsOK
<1> QED BY <1>1, <1>2, <1>3 DEF HasGrown, n

LEMMA BuildPlainKeeps ==
  ASSUME IInv, BuildPlain
  PROVE  IInv'
<1>1. /\ NotReady /\ prog[pc].kind \in {"alu", "nc", "teq"} /\ g' = Appended /\ pc' = pc + 1
      /\ UNCHANGED <<prog, cBB, brk, mode>>
  BY DEF BuildPlain, Kind
<1>2. /\ mode = "loop" /\ ~brk /\ prog \in Programs /\ pc \in Addr
      /\ cBB \in Addr /\ g.blk[cBB].ins \in Seq(Addr)
      /\ pc = cBB + Len(g.blk[cBB].ins) /\ Open(prog, g.blk[cBB])
      /\ \A a \in ToSet(g.blk[cBB].ins) : prog[a].kind \notin {"sync", "halt"}
  <2>1. Growing(prog, Building(g), cBB, pc) /\ Building(g).blk = g.blk /\ cBB \in Live(g)
    BY <1>1, BuildingOK
  <2>2. mode = "loop" /\ ~brk /\ GraphOK(prog, g) /\ cBB \in Addr /\ g.blk[cBB] # None
    BY <1>1, <2>1 DEF NotReady, IInv, BlocksOK, Live
  <2>3. g.blk[cBB] \in BlockType
    BY <2>2 DEF GraphOK, GraphType
  <2> QED BY <2>1, <2>2, <2>3 DEF Growing, BlockType
<1>3. /\ GraphOK(prog, g') /\ ~g'.rf.on
      /\ cBB \in Live(g') /\ Live(g') \subseteq Done(g') \cup {cBB}
      /\ ~g'.blk[cBB].ro /\ g'.blk[cBB].ins = Append(g.blk[cBB].ins, pc)
      /\ g'.blk[cBB].term = g.blk[cBB].term
  BY <1>1, AppendedOK
<1>4. pc + 1 \in Addr
  BY <1>1, <1>2, NextWord
<1>5. BlocksOK'
  BY <1>1, <1>2, <1>3, <1>4 DEF BlocksOK
<1>6. LoopOK'
  <2> DEFINE s == g.blk[cBB].ins
             t == Append(s, pc)
  <2>1. pc + 1 = cBB + Len(t)
    <3>1. cBB \in Nat /\ Len(t) = Len(s) + 1 /\ Len(s) \in Nat
      BY <1>2, ProgramsAssumption
    <3> QED BY <3>1, <1>2
  <2>2. \A x : x \in ToSet(t) <=> x \in ToSet(s) \/ x = pc
    BY <1>2, AppendMembers
  <2> HIDE DEF t
  <2>3. ~EndsBlock(prog[pc].kind)
    BY <1>1 DEF EndsBlock, isBranchOrJump
  <2> QED BY <2>1, <2>2, <2>3, <1>1, <1>2, <1>3 DEF LoopOK, LoopAtBlock, Open, t
<1>7. brk' \in BOOLEAN /\ mode' = "loop"
  BY <1>1, <1>2 DEF IInv
<1> QED BY <1>5, <1>6, <1>7, LoopKeeps

(* break, syscall or a trap.                                               *)
LEMMA BuildStopKeeps ==
  ASSUME IInv, BuildStop
  PROVE  IInv'
<1>1. /\ NotReady /\ prog[pc].kind \in {"halt", "teq"} /\ g' = Appended /\ brk' = TRUE
      /\ UNCHANGED <<prog, cBB, mode>>
  BY DEF BuildStop, Kind
<1>2. mode = "loop" /\ prog \in Programs
  BY <1>1 DEF NotReady, IInv, BlocksOK
<1>3. GraphOK(prog, g') /\ cBB \in Live(g') /\ Live(g') \subseteq Done(g') \cup {cBB}
  BY <1>1, AppendedOK
<1>4. BlocksOK'
  BY <1>1, <1>2, <1>3 DEF BlocksOK
<1>5. LoopOK' /\ brk' \in BOOLEAN /\ mode' = "loop"
  BY <1>1, <1>2 DEF LoopOK
<1> QED BY <1>4, <1>5, LoopKeeps

(* A step that leaves the next dispatch at an entry, with no collection in *)
(* progress.                                                               *)
LEMMA EntryLoop ==
  ASSUME mode' = "loop", ~g'.rf.on, pc' = cBB', pc' \in Nat,
         g'.blk[cBB'].ro \/ Empty(g'.blk[cBB'])
  PROVE  LoopOK'
<1>1. ToSet(<<>>) = {} /\ Len(<<>>) = 0
  BY DEF ToSet
<1>2. Empty(g'.blk[cBB']) => /\ g'.blk[cBB'].term = None
                             /\ ToSet(g'.blk[cBB'].ins) = {}
                             /\ Len(g'.blk[cBB'].ins) = 0
  BY <1>1 DEF Empty
<1>3. LoopAtBlock'
  BY <1>2 DEF LoopAtBlock
<1>4. Empty(g'.blk[cBB']) => Open(prog, g.blk[cBB])'
  BY <1>2 DEF Open
<1> QED BY <1>2, <1>3, <1>4 DEF LoopOK

(* sync.                                                                   *)
LEMMA BuildSyncKeeps ==
  ASSUME IInv, BuildSync
  PROVE  IInv'
<1> DEFINE h == Appended
           d == dropAllBBs(h)
<1>1. /\ NotReady /\ prog[pc].kind = "sync" /\ g' = newBlock(d, pc + 1)
      /\ cBB' = pc + 1 /\ pc' = pc + 1
      /\ UNCHANGED <<prog, brk, mode>>
  BY DEF BuildSync, Kind
<1>2. mode = "loop" /\ ~brk /\ prog \in Programs /\ pc \in Addr
  BY <1>1 DEF NotReady, IInv, BlocksOK
<1>3. h.rf \in FinderType
  <2>1. GraphOK(prog, h)
    BY <1>1, AppendedOK
  <2> HIDE DEF h
  <2> QED BY <2>1 DEF GraphOK, GraphType
<1>4. pc + 1 \in Addr /\ pc + 1 \in Nat
  BY <1>1, <1>2, NextWord, ProgramsAssumption
<1>5. GraphOK(prog, d) /\ Live(d) = {} /\ ~d.rf.on /\ d.blk = [a \in Addr |-> None]
  BY <1>3, DropAllOK
<1> HIDE DEF d
<1>6. d.blk[pc + 1] = None
  BY <1>4, <1>5
<1>7. /\ GraphOK(prog, g') /\ Live(g') = {pc + 1} /\ ~g'.rf.on
      /\ g'.blk[pc + 1] = FreshBlock
  BY <1>1, <1>4, <1>5, <1>6, NewBlockOK
<1>8. Empty(FreshBlock)
  BY DEF FreshBlock, Empty
<1>9. BlocksOK'
  BY <1>1, <1>2, <1>4, <1>7 DEF BlocksOK
<1>10. LoopOK'
  BY <1>1, <1>2, <1>4, <1>7, <1>8, EntryLoop
<1>11. brk' \in BOOLEAN /\ mode' = "loop"
  BY <1>1, <1>2 DEF IInv
<1> QED BY <1>9, <1>10, <1>11, LoopKeeps

(* A branch, jump or monitor call finishes the block, and the next one is  *)
(* looked up at q.                                                         *)
CanEnd(h, d, q) ==
  /\ h.blk = g.blk /\ ~h.rf.on /\ h.rf = disableRegionCollection(g.rf)
  /\ Growing(prog, h, cBB, pc) /\ d = Ending(prog, h, cBB, pc) /\ d.rf = h.rf
  /\ Ended(prog, d.blk[cBB]) /\ CanFind(prog, d, cBB, q)
  /\ Live(d) = Live(g) /\ \A x \in Addr \ {cBB} : d.blk[x] = g.blk[x]
  /\ Live(g) \subseteq Done(g) \cup {cBB}

LEMMA AtEnd ==
  ASSUME IInv, BuildEnd
  PROVE  LET h == Building(g)
             d == Ending(prog, h, cBB, pc)
         IN \E q \in NextPcs(prog, pc) :
              /\ g' = getNextBlock(prog, d, cBB, q) /\ cBB' = q /\ pc' = q
              /\ q \in Addr /\ CanEnd(h, d, q)
<1> DEFINE h == Building(g)
           d == Ending(prog, h, cBB, pc)
<1>1. NotReady /\ EndsBlock(prog[pc].kind)
  BY DEF BuildEnd, Kind
<1>2. PICK q \in NextPcs(prog, pc) :
        g' = getNextBlock(prog, d, cBB, q) /\ cBB' = q /\ pc' = q
  BY DEF BuildEnd, Kind, Ending, Appended
<1>3. prog \in Programs /\ pc \in Addr /\ g \in GraphType
  BY <1>1 DEF NotReady, IInv, BlocksOK, GraphOK
<1>4. /\ Growing(prog, h, cBB, pc) /\ h.blk = g.blk /\ ~h.rf.on
      /\ Live(h) = Live(g) /\ Done(h) = Done(g)
      /\ Live(g) \subseteq Done(g) \cup {cBB} /\ cBB \in Live(g)
  BY <1>1, BuildingOK
<1>5. h.rf = disableRegionCollection(g.rf)
  BY <1>3 DEF GraphType, Building
<1> HIDE DEF h
<1>6. /\ GraphOK(prog, d) /\ Live(d) = Live(h) /\ Ended(prog, d.blk[cBB]) /\ d.rf = h.rf
      /\ \A x \in Addr \ {cBB} : d.blk[x] = h.blk[x]
  BY <1>1, <1>4, EndingOK DEF HasEnded
<1>7. d = Ending(prog, h, cBB, pc)
  OBVIOUS
<1> HIDE DEF d
<1>8. q \in Addr
  <2>1. prog[pc].kind # "halt"
    BY <1>1 DEF EndsBlock, isBranchOrJump
  <2> QED BY <1>2, <1>3, <2>1, NextPcsType
<1>9. \A x \in Live(d) : Ended(prog, d.blk[x])
  <2> SUFFICES ASSUME NEW x \in Live(d), x # cBB PROVE Ended(prog, d.blk[x])
    BY <1>6
  <2>1. x \in Addr /\ x \in Done(h) /\ d.blk[x] = h.blk[x]
    BY <1>4, <1>6 DEF Live
  <2>2. BlockOK(prog, Live(h), Done(h), x, h.blk[x]) /\ h.blk[x].ro
    BY <1>4, <2>1 DEF Growing, GraphOK, Done
  <2> QED BY <2>1, <2>2 DEF BlockOK
<1>10. CanFind(prog, d, cBB, q)
  BY <1>3, <1>4, <1>6, <1>8, <1>9 DEF CanFind
<1>11. CanEnd(h, d, q)
  BY <1>4, <1>5, <1>6, <1>7, <1>10 DEF CanEnd
<1> QED BY <1>2, <1>8, <1>11 DEF h, d

LEMMA BuildEndKeeps ==
  ASSUME IInv, BuildEnd
  PROVE  IInv'
<1> DEFINE h == Building(g)
           d == Ending(prog, h, cBB, pc)
<1>1. UNCHANGED <<prog, brk, mode>> /\ mode = "loop" /\ brk \in BOOLEAN /\ ~brk
  BY DEF BuildEnd, NotReady, IInv
<1>2. PICK q \in NextPcs(prog, pc) :
        /\ g' = getNextBlock(prog, d, cBB, q) /\ cBB' = q /\ pc' = q
        /\ q \in Addr /\ CanEnd(h, d, q)
  BY AtEnd
<1> HIDE DEF h, d
<1>3. /\ ~d.rf.on /\ Ended(prog, d.blk[cBB]) /\ CanFind(prog, d, cBB, q)
      /\ Live(d) = Live(g) /\ Live(g) \subseteq Done(g) \cup {cBB}
      /\ \A x \in Addr \ {cBB} : d.blk[x] = g.blk[x]
  BY <1>2 DEF CanEnd
<1>4. prog \in Programs /\ q \in Nat
  BY <1>2, <1>3, ProgramsAssumption DEF CanFind
<1> DEFINE n == getNextBlock(prog, d, cBB, q)
<1>5. /\ GraphOK(prog, n) /\ Evolves(d, n)
      /\ cBB \in Done(n) /\ q \in Live(n) /\ Live(n) \subseteq Live(d) \cup {q}
      /\ \A a \in Live(n) \ Live(d) : \/ a \in Done(n)
                                      \/ n.blk[a].ins = <<>> /\ n.blk[a].term = None
  BY <1>3, GetNextBlockOK DEF HasNext
<1>6. g' = n /\ cBB' = q /\ pc' = q
  BY <1>2
<1> HIDE DEF n
<1>7. \A x \in Live(d) : x \in Done(n)
  <2> SUFFICES ASSUME NEW x \in Live(d), x # cBB PROVE x \in Done(n)
    BY <1>5
  <2>1. x \in Done(g) /\ d.blk[x] = g.blk[x]
    BY <1>3 DEF Live
  <2>2. x \in Done(d)
    BY <2>1 DEF Done
  <2> QED BY <1>5, <2>2 DEF Evolves
<1>8. ~n.rf.on
  BY <1>3, <1>5 DEF Evolves
<1>9. n.blk[q].ro \/ Empty(n.blk[q])
  BY <1>5, <1>7 DEF Done, Empty
<1>10. BlocksOK'
  BY <1>1, <1>2, <1>4, <1>5, <1>6, <1>7 DEF BlocksOK
<1>11. LoopOK'
  BY <1>1, <1>4, <1>6, <1>8, <1>9, EntryLoop
<1> QED BY <1>1, <1>10, <1>11, LoopKeeps

-----------------------------------------------------------------------------
(* Where a finished block ends.                                            *)
LEMMA DoneBlock ==
  ASSUME BlocksOK, NEW b \in Done(g)
  PROVE  LET B == g.blk[b] IN
         /\ b \in Addr /\ b \in Nat /\ B \in BlockType /\ B.ins \in Seq(Addr) /\ B.ins # <<>>
         /\ Ended(prog, B) /\ Consecutive(b, B)
         /\ B.term \in Nat /\ B.term >= b /\ B.term < b + Len(B.ins)
<1> DEFINE B == g.blk[b]
<1>1. /\ b \in Live(g) /\ b \in Addr /\ B # None /\ B.ro /\ GraphOK(prog, g)
  BY DEF Done, Live, BlocksOK
<1>2. B \in BlockType /\ BlockOK(prog, Live(g), Done(g), b, B)
  BY <1>1 DEF GraphOK, GraphType
<1>3. B.ins \in Seq(Addr) /\ Ended(prog, B) /\ Consecutive(b, B) /\ B.ins # <<>>
  BY <1>1, <1>2 DEF BlockType, BlockOK, Ended
<1>4. b \in Nat
  BY <1>1, ProgramsAssumption
<1> HIDE DEF B
<1>5. B.term \in Nat /\ B.term >= b /\ B.term < b + Len(B.ins)
  <2>1. /\ Len(B.ins) \in Nat \ {0}
        /\ \/ Len(B.ins) >= 2 /\ B.term = b + Len(B.ins) - 2
           \/ B.term = b + Len(B.ins) - 1
    BY <1>1, <1>2, <1>3, TermPlace
  <2> QED BY <1>4, <2>1
<1> QED BY <1>1, <1>2, <1>3, <1>4, <1>5 DEF B

(* The words run interprets.                                               *)
LEMMA DoneWord ==
  ASSUME BlocksOK, NEW b \in Done(g), NEW a \in Nat, a >= b, a <= g.blk[b].term
  PROVE  /\ a \in Addr /\ a \in ToSet(g.blk[b].ins) /\ prog[a].kind \notin {"sync", "halt"}
         /\ EndsBlock(prog[a].kind) => a = g.blk[b].term
<1> DEFINE s == g.blk[b].ins
<1>1. /\ b \in Nat /\ s \in Seq(Addr) /\ Ended(prog, g.blk[b]) /\ Consecutive(b, g.blk[b])
      /\ g.blk[b].term \in Nat /\ g.blk[b].term < b + Len(s)
      /\ \A i \in 1 .. Len(s) : s[i] = b + i - 1
  BY DoneBlock DEF Consecutive
<1> HIDE DEF s
<1>2. a - b + 1 \in 1 .. Len(s) /\ Len(s) \in Nat
  <2>1. Len(s) \in Nat
    BY <1>1
  <2> QED BY <1>1, <2>1
<1>3. s[a - b + 1] = b + (a - b + 1) - 1
  BY <1>1, <1>2
<1>4. s[a - b + 1] = a
  BY <1>1, <1>3
<1>5. a \in ToSet(s) /\ a \in Addr
  BY <1>1, <1>2, <1>4, ToSetIndex
<1> QED BY <1>1, <1>5 DEF Ended, s

(* A step of basicBlock::run within a block or from its last instruction.  *)
LEMMA Interpreted ==
  ASSUME IInv, Interpreting
  PROVE  /\ mode = "run" /\ todo \in Nat \ {0} /\ brk = FALSE
         /\ unit \in Done(g) /\ cBB = unit /\ BlocksOK
         /\ pc \in Addr /\ pc \in Nat /\ pc >= unit /\ pc + todo - 1 = g.blk[unit].term
         /\ pc \in ToSet(g.blk[unit].ins) /\ prog[pc].kind \notin {"sync", "halt"}
         /\ EndsBlock(prog[pc].kind) => todo = 1
         /\ g.rf.on => g.rf.hist # <<>>
<1>1. /\ mode = "run" /\ todo > 0 /\ brk = FALSE /\ todo \in Nat /\ BlocksOK
      /\ unit \in Done(g) /\ cBB = unit /\ pc >= unit /\ pc + todo - 1 = g.blk[unit].term
      /\ g.rf.on => g.rf.hist # <<>>
  BY DEF Interpreting, IInv, RunOK
<1>2. pc \in Addr /\ pc \in Nat
  BY <1>1, ProgramsAssumption DEF BlocksOK
<1>3. pc <= g.blk[unit].term
  BY <1>1, <1>2
<1>4. /\ pc \in ToSet(g.blk[unit].ins) /\ prog[pc].kind \notin {"sync", "halt"}
      /\ EndsBlock(prog[pc].kind) => pc = g.blk[unit].term
  BY <1>1, <1>2, <1>3, DoneWord
<1>5. EndsBlock(prog[pc].kind) => todo = 1
  BY <1>1, <1>2, <1>4
<1> QED BY <1>1, <1>2, <1>4, <1>5

LEMMA RunKeeps ==
  ASSUME brk' \in BOOLEAN, mode' = "run", BlocksOK', RunOK'
  PROVE  IInv'
BY DEF IInv, LoopOK, CfgOK, PostOK

LEMMA RunPlainKeeps ==
  ASSUME IInv, RunPlain
  PROVE  IInv'
<1>1. /\ Interpreting /\ prog[pc].kind \in {"alu", "nc", "teq"} /\ pc' = pc + 1
      /\ todo' = todo - 1 /\ UNCHANGED <<prog, g, cBB, brk, mode, unit>>
  BY DEF RunPlain, Kind
<1>2. /\ mode = "run" /\ todo \in Nat \ {0} /\ brk = FALSE
      /\ unit \in Done(g) /\ cBB = unit /\ BlocksOK
      /\ pc \in Addr /\ pc \in Nat /\ pc >= unit /\ pc + todo - 1 = g.blk[unit].term
      /\ g.rf.on => g.rf.hist # <<>>
  BY <1>1, Interpreted
<1>3. pc + 1 \in Addr
  BY <1>1, <1>2, NextWord DEF BlocksOK
<1>4. BlocksOK'
  BY <1>1, <1>2, <1>3 DEF BlocksOK
<1>5. RunOK'
  <2>1. unit' \in Done(g)' /\ todo' \in Nat /\ pc' >= unit' /\ cBB' = unit'
    <3>1. unit \in Nat
      BY <1>2, DoneBlock
    <3> QED BY <1>1, <1>2, <3>1
  <2>2. pc' + todo' - 1 = g'.blk[unit'].term
    BY <1>1, <1>2
  <2>3. AtEntry'
    BY <1>1, <1>2 DEF AtEntry, Done
  <2> QED BY <1>1, <1>2, <2>1, <2>2, <2>3 DEF RunOK
<1>6. brk' \in BOOLEAN /\ mode' = "run"
  BY <1>1, <1>2
<1> QED BY <1>4, <1>5, <1>6, RunKeeps

LEMMA RunTrapKeeps ==
  ASSUME IInv, RunTrap
  PROVE  IInv'
<1>1. /\ Interpreting /\ brk' = TRUE /\ todo' = todo - 1
      /\ UNCHANGED <<prog, g, cBB, pc, mode, unit>>
  BY DEF RunTrap
<1>2. /\ mode = "run" /\ todo \in Nat \ {0}
      /\ unit \in Done(g) /\ cBB = unit /\ BlocksOK
  BY <1>1, Interpreted
<1>3. BlocksOK'
  BY <1>1, <1>2 DEF BlocksOK
<1>4. AtEntry'
  BY <1>1, <1>2 DEF AtEntry, Done
<1>5. todo' \in Nat
  BY <1>1, <1>2
<1>6. RunOK'
  BY <1>1, <1>2, <1>4, <1>5 DEF RunOK
<1> QED BY <1>1, <1>2, <1>3, <1>6, RunKeeps

(* When every block but an empty cBB is finished, the next one can be      *)
(* looked up.                                                              *)
LEMMA LookUp ==
  ASSUME BlocksOK, mode # "exit", AtEntry, NEW b \in Live(g), NEW q \in Addr
  PROVE  CanFind(prog, g, b, q)
<1>1. \A x \in Live(g) : Ended(prog, g.blk[x]) \/ g.blk[x].ins = <<>>
  <2> SUFFICES ASSUME NEW x \in Live(g) PROVE Ended(prog, g.blk[x]) \/ g.blk[x].ins = <<>>
    OBVIOUS
  <2>1. CASE x \in Done(g)
    BY <2>1, DoneBlock
  <2>2. CASE x \notin Done(g)
    <3>1. x = cBB /\ ~g.blk[x].ro
      BY <2>2 DEF BlocksOK, Done
    <3> QED BY <3>1 DEF AtEntry, Empty
  <2> QED BY <2>1, <2>2
<1> QED BY <1>1 DEF BlocksOK, CanFind

LEMMA AtRunEnd ==
  ASSUME IInv, RunEnd
  PROVE  /\ Ended(prog, g.blk[cBB])
         /\ \E q \in NextPcs(prog, pc) :
              /\ g' = getNextBlock(prog, g, cBB, q) /\ cBB' = q /\ pc' = q
              /\ q \in Addr /\ CanFind(prog, g, cBB, q)
<1>1. Interpreting /\ EndsBlock(prog[pc].kind)
  BY DEF RunEnd, Kind
<1>2. PICK q \in NextPcs(prog, pc) :
        g' = getNextBlock(prog, g, cBB, q) /\ cBB' = q /\ pc' = q
  BY DEF RunEnd
<1>3. mode = "run" /\ unit \in Done(g) /\ cBB = unit /\ BlocksOK /\ pc \in Addr
  BY <1>1, Interpreted
<1>4. prog \in Programs /\ GraphOK(prog, g) /\ cBB \in Live(g)
  BY <1>3 DEF BlocksOK
<1>5. q \in Addr
  <2>1. prog[pc].kind # "halt"
    BY <1>1 DEF EndsBlock, isBranchOrJump
  <2> QED BY <1>2, <1>3, <1>4, <2>1, NextPcsType
<1>6. CanFind(prog, g, cBB, q)
  <2>1. AtEntry
    BY <1>3 DEF AtEntry, Done
  <2> QED BY <1>3, <1>4, <1>5, <2>1, LookUp
<1>7. Ended(prog, g.blk[cBB])
  BY <1>3, DoneBlock
<1> QED BY <1>2, <1>5, <1>6, <1>7

LEMMA RunEndKeeps ==
  ASSUME IInv, RunEnd
  PROVE  IInv'
<1>1. /\ Interpreting /\ EndsBlock(prog[pc].kind) /\ todo' = todo - 1
      /\ UNCHANGED <<prog, brk, mode, unit>>
  BY DEF RunEnd, Kind
<1>2. /\ Ended(prog, g.blk[cBB])
      /\ \E q \in NextPcs(prog, pc) :
           /\ g' = getNextBlock(prog, g, cBB, q) /\ cBB' = q /\ pc' = q
           /\ q \in Addr /\ CanFind(prog, g, cBB, q)
  BY AtRunEnd
<1>3. /\ mode = "run" /\ todo = 1 /\ brk = FALSE
      /\ unit \in Done(g) /\ cBB = unit /\ BlocksOK
      /\ g.rf.on => g.rf.hist # <<>>
  BY <1>1, Interpreted
<1>4. prog \in Programs /\ GraphOK(prog, g) /\ cBB \in Live(g) /\ Live(g) \subseteq Done(g)
  BY <1>3 DEF BlocksOK
<1>5. PICK q \in Addr : /\ g' = getNextBlock(prog, g, cBB, q) /\ cBB' = q /\ pc' = q
                        /\ CanFind(prog, g, cBB, q)
  BY <1>2
<1>7. HasNext(prog, g, cBB, q)
  BY <1>2, <1>5, GetNextBlockOK
<1> DEFINE n == getNextBlock(prog, g, cBB, q)
<1>8. /\ GraphOK(prog, n) /\ Evolves(g, n) /\ q \in Live(n) /\ Live(n) \subseteq Live(g) \cup {q}
      /\ \A a \in Live(n) \ Live(g) : \/ a \in Done(n)
                                      \/ n.blk[a].ins = <<>> /\ n.blk[a].term = None
  BY <1>7 DEF HasNext
<1>9. g' = n /\ cBB' = q /\ pc' = q
  BY <1>5
<1> HIDE DEF n
<1>10. Live(n) \subseteq Done(n) \cup {q} /\ unit \in Done(n)
  BY <1>3, <1>4, <1>8 DEF Evolves
<1>11. n.blk[q].ro \/ Empty(n.blk[q])
  BY <1>4, <1>8 DEF Evolves, Done, Empty
<1>12. BlocksOK'
  BY <1>1, <1>3, <1>4, <1>5, <1>8, <1>9, <1>10 DEF BlocksOK
<1>13. g'.rf.on => g'.rf.hist # <<>>
  BY <1>3, <1>8, <1>9 DEF Evolves
<1>14. RunOK'
  BY <1>1, <1>3, <1>9, <1>10, <1>11, <1>13 DEF RunOK, AtEntry
<1>15. brk' \in BOOLEAN /\ mode' = "run"
  BY <1>1, <1>3
<1> QED BY <1>12, <1>14, <1>15, RunKeeps

(* The end of the block, or an interrupted one.                            *)
LEMMA AtRunReturn ==
  ASSUME IInv, RunReturn
  PROVE  g' = findBlock(prog, g, unit, pc) /\ CanFind(prog, g, unit, pc)
<1>1. mode = "run" /\ g' = findBlock(prog, g, unit, pc)
  BY DEF RunReturn
<1>2. BlocksOK /\ unit \in Done(g) /\ AtEntry
  BY <1>1 DEF IInv, RunOK
<1>3. pc \in Addr /\ unit \in Live(g)
  BY <1>1, <1>2 DEF BlocksOK, Done
<1> QED BY <1>1, <1>2, <1>3, LookUp

LEMMA RunReturnKeeps ==
  ASSUME IInv, RunReturn
  PROVE  IInv'
<1>1. /\ mode = "run" /\ g' = findBlock(prog, g, unit, pc) /\ mode' = "post"
      /\ UNCHANGED <<prog, cBB, pc, brk, unit>>
  BY DEF RunReturn
<1>2. /\ BlocksOK /\ unit \in Done(g) /\ AtEntry /\ brk \in BOOLEAN
      /\ g.rf.on /\ ~brk => g.rf.hist # <<>>
  BY <1>1 DEF IInv, RunOK
<1>3. prog \in Programs /\ pc \in Addr /\ unit \in Live(g) /\ cBB \in Live(g)
      /\ Live(g) \subseteq Done(g) \cup {cBB}
  BY <1>1, <1>2 DEF BlocksOK, Done
<1>5. HasFound(prog, g, unit, pc)
  BY AtRunReturn, FindBlockOK
<1>6. GraphOK(prog, g') /\ Evolves(g, g') /\ Live(g') \subseteq Live(g) \cup Done(g')
  BY <1>1, <1>5 DEF HasFound
<1>7. BlocksOK'
  BY <1>1, <1>3, <1>6 DEF BlocksOK, Evolves
<1>8. AtEntry'
  BY <1>1, <1>2, <1>3, <1>6 DEF AtEntry, Evolves, Done, Empty
<1>9. g'.rf.on /\ ~brk' => g'.rf.hist # <<>>
  BY <1>1, <1>2, <1>6 DEF Evolves
<1> QED BY <1>1, <1>2, <1>7, <1>8, <1>9 DEF IInv, LoopOK, RunOK, CfgOK, PostOK

-----------------------------------------------------------------------------
(* Compiled code.                                                          *)
LEMMA CodeShape ==
  ASSUME IInv, mode = "cfg"
  PROVE  /\ BlocksOK /\ brk = FALSE /\ prog \in Programs
         /\ unit \in Done(g) /\ cBB = unit /\ Live(g) \subseteq Done(g)
         /\ g.blk[unit].code # None /\ Code \in CodeType /\ CodeOK(prog, Done(g), unit, Code)
         /\ at[1] \in Code.blocks /\ at[2] \in 1 .. Len(Code.ins[at[1]]) /\ ~g.rf.on
<1>1. /\ BlocksOK /\ brk = FALSE /\ unit \in Done(g) /\ cBB = unit
      /\ g.blk[unit].code # None /\ at[1] \in Code.blocks
      /\ at[2] \in 1 .. Len(Code.ins[at[1]]) /\ ~g.rf.on
  BY DEF IInv, CfgOK
<1>2. prog \in Programs /\ GraphOK(prog, g) /\ Live(g) \subseteq Done(g)
  BY <1>1 DEF BlocksOK
<1>3. unit \in Live(g) /\ g.blk[unit] \in BlockType
  BY <1>1, DoneBlock DEF Done
<1>4. BlockOK(prog, Live(g), Done(g), unit, g.blk[unit])
  BY <1>2, <1>3 DEF GraphOK
<1>5. Code \in CodeType
  BY <1>1, <1>3 DEF Code, BlockType
<1>6. CodeOK(prog, Done(g), unit, Code)
  BY <1>1, <1>4 DEF BlockOK, Code
<1> QED BY <1>1, <1>2, <1>5, <1>6

LEMMA CfgKeeps ==
  ASSUME brk' \in BOOLEAN, mode' = "cfg", BlocksOK', CfgOK'
  PROVE  IInv'
BY DEF IInv, LoopOK, RunOK, PostOK

LEMMA CfgWithinKeeps ==
  ASSUME IInv, CfgWithin
  PROVE  IInv'
<1>1. /\ mode = "cfg" /\ ~LeavesBlock /\ at' = <<at[1], at[2] + 1>>
      /\ UNCHANGED <<prog, g, cBB, pc, brk, mode, unit>>
  BY DEF CfgWithin
<1>2. /\ BlocksOK /\ brk = FALSE /\ unit \in Done(g) /\ cBB = unit
      /\ g.blk[unit].code # None /\ Code \in CodeType
      /\ at[1] \in Code.blocks /\ at[2] \in 1 .. Len(Code.ins[at[1]]) /\ ~g.rf.on
  BY <1>1, CodeShape
<1>3. Code' = Code /\ Done(g)' = Done(g)
  BY <1>1 DEF Code, Done, Live
<1>4. at[2] # Len(Code.ins[at[1]])
  BY <1>1 DEF LeavesBlock
<1> DEFINE s == Code.ins[at[1]]
<1>5. Len(s) \in Nat
  BY <1>2 DEF CodeType
<1> HIDE DEF s
<1>6. at[2] + 1 \in 1 .. Len(s)
  BY <1>2, <1>4, <1>5 DEF s
<1>7. at'[1] = at[1] /\ at'[2] = at[2] + 1
  BY <1>1
<1>8. CfgOK'
  BY <1>1, <1>2, <1>3, <1>6, <1>7 DEF CfgOK, s
<1>9. BlocksOK'
  BY <1>1, <1>2 DEF BlocksOK
<1> QED BY <1>1, <1>2, <1>8, <1>9, CfgKeeps

(* Where control goes after a block of compiled code.                      *)
LEMMA CodeTargets ==
  ASSUME IInv, mode = "cfg"
  PROVE  NextPcs(prog, CodePc) \subseteq Addr
<1>1. /\ prog \in Programs /\ Code \in CodeType /\ CodeOK(prog, Done(g), unit, Code)
      /\ at[1] \in Code.blocks /\ at[2] \in 1 .. Len(Code.ins[at[1]])
  BY CodeShape
<1> DEFINE s == Code.ins[at[1]]
<1>2. s \in Seq(Addr) /\ Len(s) \in Nat
  BY <1>1 DEF CodeType
<1>3. \A a \in ToSet(s) : canCompileInstr(prog[a].kind)
  BY <1>1 DEF CodeOK
<1> HIDE DEF s
<1>4. s[at[2]] \in ToSet(s) /\ s[at[2]] \in Addr
  BY <1>1, <1>2, ToSetIndex DEF s
<1>5. prog[CodePc].kind # "halt" /\ CodePc \in Addr
  BY <1>3, <1>4 DEF canCompileInstr, CodePc, s
<1> QED BY <1>1, <1>5, NextPcsType

LEMMA CfgEdgeKeeps ==
  ASSUME IInv, CfgEdge
  PROVE  IInv'
<1>1. /\ mode = "cfg" /\ UNCHANGED <<prog, g, cBB, pc, brk, mode, unit>>
  BY DEF CfgEdge
<1>2. PICK q \in Code.next[at[1]] : at' = <<q, 1>>
  BY DEF CfgEdge
<1>3. /\ BlocksOK /\ brk = FALSE /\ unit \in Done(g) /\ cBB = unit
      /\ g.blk[unit].code # None /\ Code \in CodeType /\ CodeOK(prog, Done(g), unit, Code)
      /\ at[1] \in Code.blocks /\ ~g.rf.on
  BY <1>1, CodeShape
<1>4. q \in Code.blocks /\ Code.ins[q] # <<>> /\ q \in Addr
  BY <1>2, <1>3 DEF CodeOK, CodeType
<1>5. 1 \in 1 .. Len(Code.ins[q])
  <2> DEFINE s == Code.ins[q]
  <2>1. s \in Seq(Addr) /\ s # <<>>
    BY <1>3, <1>4 DEF CodeType
  <2> HIDE DEF s
  <2>2. 1 \in 1 .. Len(s)
    BY <2>1
  <2> QED BY <2>2 DEF s
<1>6. Code' = Code /\ Done(g)' = Done(g) /\ at'[1] = q /\ at'[2] = 1
  BY <1>1, <1>2 DEF Code, Done, Live
<1>7. CfgOK'
  BY <1>1, <1>3, <1>4, <1>5, <1>6 DEF CfgOK
<1>8. BlocksOK'
  BY <1>1, <1>3 DEF BlocksOK
<1> QED BY <1>1, <1>3, <1>7, <1>8, CfgKeeps

LEMMA CfgAbortKeeps ==
  ASSUME IInv, CfgAbort
  PROVE  IInv'
<1>1. /\ mode = "cfg" /\ pc' \in NextPcs(prog, CodePc) /\ cBB' = at[1] /\ mode' = "post"
      /\ UNCHANGED <<prog, g, brk>>
  BY DEF CfgAbort
<1>2. /\ BlocksOK /\ brk \in BOOLEAN /\ Live(g) \subseteq Done(g)
      /\ CodeOK(prog, Done(g), unit, Code) /\ at[1] \in Code.blocks /\ ~g.rf.on
  BY <1>1, CodeShape
<1>3. at[1] \in Done(g) /\ pc' \in Addr
  BY <1>1, <1>2, CodeTargets DEF CodeOK
<1>4. BlocksOK'
  BY <1>1, <1>2, <1>3 DEF BlocksOK, Done
<1>5. PostOK'
  BY <1>1, <1>2, <1>3 DEF PostOK, AtEntry, Done
<1> QED BY <1>1, <1>2, <1>4, <1>5 DEF IInv, LoopOK, RunOK, CfgOK

-----------------------------------------------------------------------------
(* The end of executeJIT.                                                  *)
LEMMA PostKeeps ==
  ASSUME IInv, Post
  PROVE  IInv'
<1> DEFINE n == IF g.blk[pc] = None THEN newBlockAfter(g, pc, cBB) ELSE g
<1>1. mode = "post" /\ cBB' = pc /\ mode' = "loop" /\ UNCHANGED <<prog, pc, brk>>
  BY DEF Post
<1>2. /\ BlocksOK /\ brk \in BOOLEAN /\ AtEntry /\ (g.rf.on /\ ~brk => g.rf.hist # <<>>)
      /\ prog \in Programs /\ GraphOK(prog, g) /\ cBB \in Live(g)
      /\ Live(g) \subseteq Done(g) \cup {cBB} /\ pc \in Addr /\ pc \in Nat
  BY <1>1, ProgramsAssumption DEF IInv, PostOK, BlocksOK
<1>3. \/ n.blk[pc].has /\ g' = n
      \/ /\ ~n.blk[pc].has
         /\ \E reused \in BOOLEAN : g' = [n EXCEPT !.rf = updateRegionHeads(n.rf, pc, cBB, reused)]
  BY DEF Post
<1>4. /\ GraphOK(prog, n) /\ Evolves(g, n) /\ Live(n) = Live(g) \cup {pc} /\ n.rf = g.rf
      /\ n.blk[pc].ro \/ Empty(n.blk[pc])
      /\ Live(n) \subseteq Done(n) \cup {pc}
  <2>1. CASE g.blk[pc] = None
    <3> DEFINE m == newBlockAfter(g, pc, cBB)
    <3>1. /\ GraphOK(prog, m) /\ Evolves(g, m) /\ Live(m) = Live(g) \cup {pc}
          /\ m.blk[pc].ins = <<>> /\ m.blk[pc].term = None /\ m.rf = g.rf
      <4>1. HasNewAfter(prog, g, cBB, pc)
        BY <1>2, <2>1, NewBlockAfterOK
      <4> QED BY <4>1 DEF HasNewAfter
    <3>2. n = m
      BY <2>1
    <3>3. cBB \in Done(g)
      BY <1>2, <2>1 DEF AtEntry, Live, Done
    <3> HIDE DEF m, n
    <3> QED BY <1>2, <3>1, <3>2, <3>3 DEF Evolves, Empty
  <2>2. CASE g.blk[pc] # None
    <3>1. n = g /\ pc \in Live(g)
      BY <1>2, <2>2 DEF Live
    <3> HIDE DEF n
    <3>2. pc = cBB \/ pc \in Done(g)
      BY <1>2, <3>1
    <3> QED BY <1>2, <3>1, <3>2 DEF Evolves, AtEntry, Done
  <2> QED BY <2>1, <2>2
<1> HIDE DEF n
<1>5. /\ GraphOK(prog, g') /\ g'.blk = n.blk
      /\ g'.rf.on /\ ~brk /\ g'.rf.hist = <<>> => g'.rf.head = pc
  <2>1. CASE g' = n
    BY <1>2, <1>4, <2>1
  <2>2. ASSUME ~n.blk[pc].has, NEW reused \in BOOLEAN,
               g' = [n EXCEPT !.rf = updateRegionHeads(n.rf, pc, cBB, reused)]
        PROVE  /\ GraphOK(prog, g') /\ g'.blk = n.blk
               /\ g'.rf.on /\ ~brk /\ g'.rf.hist = <<>> => g'.rf.head = pc
    <3> DEFINE r == updateRegionHeads(n.rf, pc, cBB, reused)
    <3>1. n.rf \in FinderType /\ n \in GraphType
      BY <1>4 DEF GraphOK, GraphType
    <3>2. r \in FinderType /\ (r = n.rf \/ ~r.on \/ (r.head = pc /\ r.hist = <<>>))
      BY <1>2, <3>1, UpdateHeadsType
    <3> HIDE DEF r
    <3>3. g' = [n EXCEPT !.rf = r] /\ g'.rf = r /\ g'.blk = n.blk
      BY <2>2, <3>1 DEF r, GraphType
    <3>4. n.blk[pc].code = None
      BY <1>4, <2>2 DEF GraphOK, BlockOK
    <3>5. Live(g') = Live(n) /\ Done(g') = Done(n)
      BY <3>3 DEF Live, Done
    <3>6. TraceOK(g')
      <4>1. ToSet(<<>>) = {}
        BY DEF ToSet
      <4>2. CASE r = n.rf
        BY <1>4, <3>3, <3>5, <4>2 DEF GraphOK, TraceOK
      <4>3. CASE ~r.on
        BY <3>3, <4>3 DEF TraceOK
      <4>4. CASE r.head = pc /\ r.hist = <<>>
        BY <1>4, <3>3, <3>4, <3>5, <4>1, <4>4 DEF TraceOK
      <4> QED BY <3>2, <4>2, <4>3, <4>4
    <3>7. GraphOK(prog, g')
      BY <1>4, <3>2, <3>3, <3>6, FinderFrame
    <3> QED BY <1>2, <1>4, <3>2, <3>3, <3>7
  <2> QED BY <1>3, <2>1, <2>2
<1>6. Live(g') = Live(n) /\ Done(g') = Done(n)
  BY <1>5 DEF Live, Done
<1>7. BlocksOK'
  BY <1>1, <1>2, <1>4, <1>5, <1>6 DEF BlocksOK
<1>8. LoopOK'
  <2>1. ToSet(<<>>) = {} /\ Len(<<>>) = 0
    BY DEF ToSet
  <2> DEFINE B == g'.blk[pc]
  <2>2. B.ro \/ Empty(B)
    BY <1>4, <1>5
  <2>3. Empty(B) => B.term = None /\ ToSet(B.ins) = {} /\ Len(B.ins) = 0
    BY <2>1 DEF Empty
  <2> HIDE DEF B
  <2>4. LoopAtBlock'
    BY <1>1, <1>2, <2>2, <2>3 DEF LoopAtBlock, B
  <2>5. ~B.ro => Open(prog, B)
    BY <2>2, <2>3 DEF Open
  <2> QED BY <1>1, <1>5, <2>2, <2>3, <2>4, <2>5 DEF LoopOK, B
<1> QED BY <1>1, <1>2, <1>7, <1>8, LoopKeeps

-----------------------------------------------------------------------------
(* executeJIT on a finished block.                                         *)
LEMMA AtDispatch ==
  ASSUME IInv, ExecuteJIT
  PROVE  /\ mode = "loop" /\ brk = FALSE /\ BlocksOK /\ prog \in Programs
         /\ GraphOK(prog, g) /\ cBB \in Done(g) /\ cBB \in Addr /\ pc = cBB
         /\ Live(g) = Done(g)
         /\ g.rf.on /\ g.rf.hist = <<>> => cBB = g.rf.head
<1>1. mode = "loop" /\ brk = FALSE /\ BlocksOK /\ g.blk[cBB].ro /\ pc = cBB
  BY DEF ExecuteJIT, IInv
<1>2. /\ prog \in Programs /\ GraphOK(prog, g) /\ cBB \in Live(g)
      /\ Live(g) \subseteq Done(g) \cup {cBB}
  BY <1>1 DEF BlocksOK
<1>3. cBB \in Done(g) /\ cBB \in Addr
  BY <1>1, <1>2 DEF Done, Live
<1>4. Live(g) = Done(g)
  BY <1>2, <1>3 DEF Done
<1>5. g.rf.on /\ g.rf.hist = <<>> => cBB = g.rf.head
  BY <1>1 DEF IInv, LoopOK
<1> QED BY <1>1, <1>2, <1>3, <1>4, <1>5

(* The finder sees the block.                                              *)
LEMMA SeenOK ==
  ASSUME IInv, ExecuteJIT, ~RegionComplete(g.rf, cBB)
  PROVE  LET n == [g EXCEPT !.rf = update(@, cBB)] IN
         /\ GraphOK(prog, n) /\ n.blk = g.blk
         /\ n.rf.on => n.rf.hist # <<>>
<1> DEFINE r == update(g.rf, cBB)
           n == [g EXCEPT !.rf = r]
<1>1. /\ prog \in Programs /\ GraphOK(prog, g) /\ cBB \in Done(g) /\ cBB \in Addr
      /\ g.rf.on /\ g.rf.hist = <<>> => cBB = g.rf.head
  BY AtDispatch
<1>2. g \in GraphType /\ g.rf \in FinderType /\ TraceOK(g)
  BY <1>1 DEF GraphOK, GraphType
<1>3. r \in FinderType /\ (r.on => g.rf.on /\ r.head = g.rf.head /\ r.hist = Append(g.rf.hist, cBB))
  BY <1>1, <1>2, UpdateType
<1> HIDE DEF r
<1>4. n.rf = r /\ n.blk = g.blk
  BY <1>2
<1>5. Live(n) = Live(g) /\ Done(n) = Done(g)
  BY <1>4 DEF Live, Done
<1> DEFINE s == g.rf.hist
           t == Append(s, cBB)
<1>6. /\ s \in Seq(Addr) /\ t # <<>> /\ \A x : x \in ToSet(t) <=> x \in ToSet(s) \/ x = cBB
      /\ s # <<>> => t[1] = s[1]
      /\ s = <<>> => t[1] = cBB
  <2>1. s \in Seq(Addr)
    BY <1>2 DEF FinderType
  <2>2. \A x : x \in ToSet(t) <=> x \in ToSet(s) \/ x = cBB
    BY <1>1, <2>1, AppendMembers
  <2> HIDE DEF s
  <2> QED BY <1>1, <2>1, <2>2
<1> HIDE DEF s, t
<1>7. TraceOK(n)
  <2> SUFFICES ASSUME r.on
               PROVE  /\ r.head \in Live(g) /\ g.blk[r.head].code = None
                      /\ ToSet(r.hist) \subseteq Done(g)
                      /\ r.hist # <<>> => r.hist[1] = r.head
    BY <1>4, <1>5 DEF TraceOK
  <2>1. g.rf.on /\ r.head = g.rf.head /\ r.hist = t
    BY <1>3 DEF s, t
  <2>2. /\ g.rf.head \in Live(g) /\ g.blk[g.rf.head].code = None
        /\ ToSet(s) \subseteq Done(g) /\ (s # <<>> => s[1] = g.rf.head)
    BY <1>2, <2>1 DEF TraceOK, s
  <2>3. s = <<>> => cBB = g.rf.head
    BY <1>1, <2>1 DEF s
  <2> QED BY <1>1, <1>6, <2>1, <2>2, <2>3
<1>8. GraphOK(prog, n)
  BY <1>1, <1>3, <1>7, FinderFrame
<1>9. n.rf.on => n.rf.hist # <<>>
  BY <1>3, <1>4, <1>6 DEF s, t
<1> QED BY <1>4, <1>8, <1>9 DEF r

(* The block u gets the code, flag and recorded regions of C.              *)
Recoded(B, C) ==
  /\ C \in BlockType
  /\ C.ins = B.ins /\ C.term = B.term /\ C.ro = B.ro /\ C.likely = B.likely
  /\ C.succs = B.succs /\ C.preds = B.preds /\ C.heads = B.heads

(* The region that closes at u has been recorded, and u is not compiled.   *)
CanClose(p, r, u) ==
  /\ GraphOK(p, r) /\ ~r.rf.on
  /\ u \in Done(r) /\ Live(r) = Done(r) /\ r.blk[u].code = None

(* C is the block at u once the region on blocks has been counted: with    *)
(* their code, or with none.                                               *)
Closes(p, r, u, blocks, C) ==
  /\ Recoded(r.blk[u], C) /\ C.traces \subseteq r.blk[u].traces
  /\ C.has <=> C.code # None
  /\ C.code # None =>
       /\ CodeOK(p, Done(r), u, C.code)
       /\ C.code.blocks = blocks /\ \A x \in blocks : C.code.ins[x] = r.blk[x].ins

ClosesTo(p, r, u, blocks, n) ==
  \E C : Closes(p, r, u, blocks, C) /\ n = Record(r, u, C)

HasClosed(p, r, n) == GraphOK(p, n) /\ Alike(r, n)

LEMMA ClosedOK ==
  ASSUME NEW p, NEW r, NEW u, NEW blocks, NEW C,
         CanClose(p, r, u), Closes(p, r, u, blocks, C)
  PROVE  CanRecord(p, r, u, C) /\ HasClosed(p, r, Record(r, u, C))
<1>1. GraphOK(p, r) /\ ~r.rf.on /\ u \in Live(r)
  BY DEF CanClose, Done
<1>2. TracesOK(Done(r), u, r.blk[u])
  BY <1>1 DEF GraphOK, BlockOK
<1>3. TracesOK(Done(r), u, C)
  BY <1>2 DEF Closes, TracesOK
<1>4. CanRecord(p, r, u, C)
  BY <1>1, <1>3 DEF CanRecord, Closes, Recoded
<1>5. HasRecord(p, r, u, C)
  BY <1>4, RecordOK
<1> QED BY <1>4, <1>5 DEF HasRecord, HasClosed

(* What becomes of the block at u.                                         *)
Uncoded(r, u) == [r EXCEPT !.blk[u].code = None]
Disowned(r, u, T) == [r EXCEPT !.blk[u].has = FALSE, !.blk[u].traces = T]
Coded(r, u, c) == [r EXCEPT !.blk[u].code = c, !.blk[u].has = TRUE, !.blk[u].traces = {}]

LEMMA UncompiledOK ==
  ASSUME NEW p, NEW r, NEW u, NEW blocks, NEW T, CanClose(p, r, u), T \subseteq r.blk[u].traces
  PROVE  /\ ClosesTo(p, r, u, blocks, Uncoded(r, u))
         /\ ClosesTo(p, r, u, blocks, Disowned(r, u, T))
<1> DEFINE B == r.blk[u]
           C == [B EXCEPT !.code = None]
           D == [B EXCEPT !.has = FALSE, !.traces = T]
<1>1. /\ GraphOK(p, r) /\ u \in Live(r) /\ u \in Addr /\ B # None /\ B.code = None
  BY DEF CanClose, Live, Done
<1>2. B \in BlockType /\ r \in GraphType /\ r.blk \in [Addr -> BlockType \cup {None}]
  BY <1>1 DEF GraphOK, GraphType
<1>3. BlockOK(p, Live(r), Done(r), u, B)
  BY <1>1 DEF GraphOK
<1>4. B.has = FALSE
  BY <1>1, <1>2, <1>3 DEF BlockOK, BlockType
<1>5. Uncoded(r, u) = Record(r, u, C) /\ Disowned(r, u, T) = Record(r, u, D)
  BY <1>1, <1>2 DEF Record, GraphType, Uncoded, Disowned
<1> HIDE DEF B
<1>6. Recoded(B, C) /\ C.traces = B.traces /\ C.has = B.has /\ C.code = None
  BY <1>2 DEF Recoded, BlockType
<1>7. Recoded(B, D) /\ D.traces = T /\ D.has = FALSE /\ D.code = B.code
  <2>1. T \subseteq B.traces
    BY DEF B
  <2> QED BY <1>2, <2>1 DEF Recoded, BlockType
<1> HIDE DEF C, D
<1>8. Closes(p, r, u, blocks, C)
  BY <1>4, <1>6 DEF Closes, B
<1>9. Closes(p, r, u, blocks, D)
  BY <1>1, <1>7 DEF Closes, B
<1> QED BY <1>5, <1>8, <1>9 DEF ClosesTo

LEMMA CompiledOK ==
  ASSUME NEW p, NEW r, NEW u, NEW c, CanClose(p, r, u),
         c \in CodeType, CodeOK(p, Done(r), u, c),
         \A x \in c.blocks : c.ins[x] = r.blk[x].ins
  PROVE  ClosesTo(p, r, u, c.blocks, Coded(r, u, c))
<1> DEFINE B == r.blk[u]
           C == [B EXCEPT !.code = c, !.has = TRUE, !.traces = {}]
<1>1. /\ GraphOK(p, r) /\ u \in Live(r) /\ u \in Addr /\ B # None
  BY DEF CanClose, Live, Done
<1>2. B \in BlockType /\ r \in GraphType /\ r.blk \in [Addr -> BlockType \cup {None}]
  BY <1>1 DEF GraphOK, GraphType
<1>3. Coded(r, u, c) = Record(r, u, C)
  BY <1>1, <1>2 DEF Record, GraphType, Coded
<1> HIDE DEF B
<1>4. Recoded(B, C) /\ C.traces = {} /\ C.has = TRUE /\ C.code = c
  BY <1>2 DEF Recoded, BlockType
<1>5. c # None
  BY NullAssumption
<1> HIDE DEF C
<1>6. Closes(p, r, u, c.blocks, C)
  BY <1>4, <1>5 DEF Closes, B
<1> QED BY <1>3, <1>6 DEF ClosesTo

(* The blocks a region is compiled from.                                   *)
LEMMA RegionBlocks ==
  ASSUME NEW p, NEW r, NEW u, NEW up, CanClose(p, r, u), enoughRegions(r, u)
  PROVE  /\ u \in TraceBlocks(r, u) /\ TraceBlocks(r, u) \subseteq Done(r)
         /\ AugBlocks(p, r, u, up) \subseteq Done(r)
<1>1. /\ GraphOK(p, r) /\ u \in Live(r) /\ Live(r) = Done(r) /\ r.blk[u] \in BlockType
  BY DEF CanClose, Live, Done, GraphOK, GraphType
<1>2. TracesOK(Done(r), u, r.blk[u])
  BY <1>1 DEF GraphOK, BlockOK
<1>3. PICK t \in r.blk[u].traces : t[1] # <<>> /\ t[1][1] = u
  BY <1>2 DEF TracesOK, enoughRegions
<1>4. t[1] \in Seq(Addr)
  BY <1>1 DEF BlockType
<1>5. u \in ToSet(t[1])
  <2> DEFINE s == t[1]
  <2>1. s \in Seq(Addr) /\ s # <<>> /\ s[1] = u
    BY <1>3, <1>4
  <2> HIDE DEF s
  <2>2. 1 \in 1 .. Len(s) /\ Len(s) \in Nat
    BY <2>1
  <2>3. u \in ToSet(s)
    BY <2>1, <2>2, ToSetIndex
  <2> QED BY <2>3 DEF s
<1>6. u \in TraceBlocks(r, u)
  BY <1>5 DEF TraceBlocks
<1>7. TraceBlocks(r, u) \subseteq Done(r)
  BY <1>2 DEF TraceBlocks, TracesOK
<1>8. AugBlocks(p, r, u, up) \subseteq Done(r)
  BY <1>1 DEF AugBlocks
<1> QED BY <1>6, <1>7, <1>8

(* Whatever becomes of the region, the head is the only block that changes *)
(* once the region has been recorded.                                      *)
Recorded(h, u, region) == addRegion(joinRegions(h, u, region), u, region)

RegionOf(r, up) ==
  TraceBlocks(r, cBB) \cup (IF Aug = "head" THEN AugBlocks(prog, r, cBB, up) ELSE {})

LEMMA RecordedOK ==
  ASSUME NEW p, NEW h, NEW u, CanClose(p, h, u),
         NEW region \in Seq(Addr), region # <<>>, region[1] = u,
         ToSet(region) \subseteq Done(h)
  PROVE  CanClose(p, Recorded(h, u, region), u) /\ Alike(h, Recorded(h, u, region))
<1> DEFINE j == joinRegions(h, u, region)
           r == addRegion(j, u, region)
<1>1. /\ GraphOK(p, h) /\ u \in Live(h) /\ Live(h) = Done(h) /\ ~h.rf.on
      /\ h.blk[u].code = None /\ u \in Done(h)
  BY DEF CanClose, Done
<1>2. GraphOK(p, j) /\ Alike(h, j) /\ j.blk[u].code = None
  BY <1>1, JoinOK
<1> HIDE DEF j
<1>3. GraphOK(p, r) /\ Alike(j, r) /\ r.blk[u].code = None
  <2>1. u \in Live(j) /\ ToSet(region) \subseteq Done(j)
    BY <1>1, <1>2 DEF Alike
  <2> QED BY <1>2, <2>1, AddRegionOK
<1>4. r = Recorded(h, u, region)
  BY DEF Recorded, j
<1> HIDE DEF r
<1>5. CanClose(p, r, u) /\ Alike(h, r)
  BY <1>1, <1>2, <1>3 DEF CanClose, Alike
<1> QED BY <1>4, <1>5

LEMMA RegionClosedIs ==
  ASSUME NEW h, CanClose(prog, h, cBB), cBB \in Addr,
         NEW region \in Seq(Addr), region # <<>>, region[1] = cBB,
         ToSet(region) \subseteq Done(h), NEW typed, NEW up
  PROVE  LET r == Recorded(h, cBB, region) IN
         ClosesTo(prog, r, cBB, RegionOf(r, up), RegionClosed(h, region, typed, up))
<1> DEFINE r == Recorded(h, cBB, region)
           can == canCompileRegion(prog, r, region)
           blocks == RegionOf(r, up)
           T == IF can THEN r.blk[cBB].traces ELSE {}
           n == RegionClosed(h, region, typed, up)
<1>1. CanClose(prog, r, cBB)
  BY RecordedOK
<1>2. GraphOK(prog, r)
  BY <1>1 DEF CanClose
<1>3. n = IF enoughRegions(r, cBB) /\ can
          THEN Compiled(r, blocks, typed)
          ELSE Disowned(r, cBB, T)
  <2>1. r \in GraphType /\ r.blk[cBB] \in BlockType
    <3>1. cBB \in Live(r)
      BY <1>1 DEF CanClose, Done
    <3> HIDE DEF r
    <3> QED BY <1>2, <3>1 DEF GraphOK, GraphType, Live
  <2> DEFINE B == r.blk[cBB]
  <2>2. [r EXCEPT !.blk[cBB].has = FALSE, !.blk[cBB].traces = IF can THEN @ ELSE {}]
          = [r EXCEPT !.blk[cBB].has = FALSE, !.blk[cBB].traces = T]
    OBVIOUS
  <2> QED BY <2>2 DEF RegionClosed, RegionOf, Recorded, Disowned
<1> HIDE DEF r
<1>4. CASE enoughRegions(r, cBB) /\ can
  <2>1. cBB \in blocks /\ blocks \subseteq Done(r)
    BY <1>1, <1>4, RegionBlocks DEF RegionOf
  <2> HIDE DEF blocks, can
  <2>2. n = Compiled(r, blocks, typed)
    BY <1>3, <1>4
  <2> HIDE DEF n
  <2>3. CASE typed /\ CanCompileAll(r, blocks)
    <3> DEFINE c == buildCFG(prog, r, cBB, blocks)
    <3>1. \A x \in blocks : \A a \in ToSet(r.blk[x].ins) : canCompileInstr(prog[a].kind)
      BY <2>3 DEF CanCompileAll, Kind
    <3>2. c \in CodeType /\ CodeOK(prog, Done(r), cBB, c)
      BY <1>2, <2>1, <3>1, BuildCFGOK
    <3>3. c.blocks = blocks /\ \A x \in blocks : c.ins[x] = r.blk[x].ins
      <4>1. c.blocks = blocks /\ blocks \subseteq Addr
        BY <2>1 DEF buildCFG, Done, Live
      <4>2. c.ins = [x \in Addr |-> IF x \in blocks THEN r.blk[x].ins ELSE <<>>]
        BY DEF buildCFG
      <4> HIDE DEF c
      <4> QED BY <4>1, <4>2
    <3>4. n = Coded(r, cBB, c)
      BY <2>2, <2>3 DEF Compiled, Coded
    <3> HIDE DEF c
    <3>5. ClosesTo(prog, r, cBB, c.blocks, n)
      BY <1>1, <3>2, <3>3, <3>4, CompiledOK
    <3> QED BY <3>3, <3>5 DEF n, r, blocks
  <2>4. CASE ~(typed /\ CanCompileAll(r, blocks))
    <3>1. n = Uncoded(r, cBB)
      BY <2>2, <2>4 DEF Compiled, Uncoded
    <3>2. {} \subseteq r.blk[cBB].traces
      OBVIOUS
    <3>3. ClosesTo(prog, r, cBB, blocks, n)
      BY <1>1, <3>1, <3>2, UncompiledOK
    <3> QED BY <3>3 DEF n, r, blocks
  <2> QED BY <2>3, <2>4
<1>5. CASE ~(enoughRegions(r, cBB) /\ can)
  <2>1. T \subseteq r.blk[cBB].traces
    OBVIOUS
  <2> HIDE DEF can, T, blocks
  <2>2. n = Disowned(r, cBB, T)
    BY <1>3, <1>5
  <2> HIDE DEF n
  <2>3. ClosesTo(prog, r, cBB, blocks, n)
    BY <1>1, <2>1, <2>2, UncompiledOK
  <2> QED BY <2>3 DEF n, r, blocks
<1> QED BY <1>4, <1>5

LEMMA RegionClosedOK ==
  ASSUME NEW h, CanClose(prog, h, cBB), cBB \in Addr,
         NEW region \in Seq(Addr), region # <<>>, region[1] = cBB,
         ToSet(region) \subseteq Done(h), NEW typed, NEW up
  PROVE  HasClosed(prog, h, RegionClosed(h, region, typed, up))
<1> DEFINE r == Recorded(h, cBB, region)
<1>1. CanClose(prog, r, cBB) /\ Alike(h, r)
  BY RecordedOK
<1>2. PICK C : /\ Closes(prog, r, cBB, RegionOf(r, up), C)
               /\ RegionClosed(h, region, typed, up) = Record(r, cBB, C)
  BY RegionClosedIs DEF ClosesTo
<1> HIDE DEF r
<1>3. HasClosed(prog, r, Record(r, cBB, C))
  BY <1>1, <1>2, ClosedOK
<1> QED BY <1>1, <1>2, <1>3 DEF HasClosed, Alike

(* The block that closes the loop.                                         *)
LEMMA ClosingOK ==
  ASSUME IInv, ExecuteJIT, RegionComplete(g.rf, cBB), NEW typed, NEW up
  PROVE  LET h == [g EXCEPT !.rf = getRegion(update(@, cBB))]
             n == RegionClosed(h, g.rf.hist, typed, up)
         IN GraphOK(prog, n) /\ Alike(h, n) /\ h.blk = g.blk /\ ~n.rf.on
<1> DEFINE r == getRegion(update(g.rf, cBB))
           h == [g EXCEPT !.rf = r]
           region == g.rf.hist
           n == RegionClosed(h, region, typed, up)
<1>1. /\ prog \in Programs /\ GraphOK(prog, g) /\ cBB \in Done(g) /\ cBB \in Addr
      /\ Live(g) = Done(g)
  BY AtDispatch
<1>2. g \in GraphType /\ g.rf \in FinderType /\ TraceOK(g)
  BY <1>1 DEF GraphOK, GraphType
<1>3. g.rf.on /\ cBB = g.rf.head /\ region # <<>>
  BY DEF RegionComplete
<1>4. /\ region \in Seq(Addr) /\ region[1] = cBB /\ ToSet(region) \subseteq Done(g)
      /\ g.blk[cBB].code = None
  BY <1>2, <1>3 DEF TraceOK, FinderType
<1>5. r \in FinderType /\ ~r.on
  <2>1. update(g.rf, cBB) \in FinderType /\ ~update(g.rf, cBB).on
    BY <1>1, <1>2, UpdateType
  <2> QED BY <2>1, GetRegionType
<1> HIDE DEF r
<1>6. h.rf = r /\ h.blk = g.blk
  BY <1>2
<1>7. Live(h) = Live(g) /\ Done(h) = Done(g)
  BY <1>6 DEF Live, Done
<1>8. TraceOK(h)
  BY <1>5, <1>6 DEF TraceOK
<1>9. GraphOK(prog, h)
  BY <1>1, <1>5, <1>8, FinderFrame
<1> HIDE DEF h
<1>10. CanClose(prog, h, cBB)
  BY <1>1, <1>4, <1>5, <1>6, <1>7, <1>9 DEF CanClose
<1> HIDE DEF region
<1>11. HasClosed(prog, h, n)
  BY <1>1, <1>3, <1>4, <1>7, <1>10, RegionClosedOK
<1> HIDE DEF n
<1>12. GraphOK(prog, n) /\ Alike(h, n) /\ h.blk = g.blk /\ ~n.rf.on
  BY <1>5, <1>6, <1>11 DEF HasClosed, Alike
<1> QED BY <1>12 DEF n, h, r, region

(* What every dispatch of a finished block leaves behind.                  *)
LEMMA DispatchedOK ==
  ASSUME IInv, ExecuteJIT
  PROVE  /\ GraphOK(prog, g') /\ Live(g') = Live(g) /\ Done(g') = Done(g)
         /\ g'.blk[cBB].term = g.blk[cBB].term
         /\ g'.rf.on => g'.rf.hist # <<>>
<1>1. Dispatched
  BY DEF ExecuteJIT
<1>2. cBB \in Live(g)
  BY AtDispatch
<1>3. CASE RegionComplete(g.rf, cBB)
  <2> DEFINE h == [g EXCEPT !.rf = getRegion(update(@, cBB))]
  <2>1. PICK typed \in {TRUE, EnableBoth}, up \in (IF Aug = "head" THEN BOOLEAN ELSE {TRUE}) :
          g' = RegionClosed(h, g.rf.hist, typed, up)
    BY <1>1, <1>3 DEF Dispatched
  <2>2. GraphOK(prog, g') /\ Alike(h, g') /\ h.blk = g.blk /\ ~g'.rf.on
    BY <1>3, <2>1, ClosingOK
  <2> HIDE DEF h
  <2>3. Live(h) = Live(g) /\ Done(h) = Done(g)
    BY <2>2 DEF Live, Done
  <2> QED BY <1>2, <2>2, <2>3 DEF Alike
<1>4. CASE ~RegionComplete(g.rf, cBB)
  <2>1. g' = [g EXCEPT !.rf = update(@, cBB)]
    BY <1>1, <1>4 DEF Dispatched
  <2>2. GraphOK(prog, g') /\ g'.blk = g.blk /\ (g'.rf.on => g'.rf.hist # <<>>)
    BY <1>4, <2>1, SeenOK
  <2> QED BY <2>2 DEF Live, Done
<1> QED BY <1>3, <1>4

LEMMA ExecuteJITKeeps ==
  ASSUME IInv, ExecuteJIT
  PROVE  IInv'
<1>1. /\ mode = "loop" /\ brk = FALSE /\ BlocksOK /\ prog \in Programs
      /\ GraphOK(prog, g) /\ cBB \in Done(g) /\ cBB \in Addr /\ pc = cBB
      /\ Live(g) = Done(g)
  BY AtDispatch
<1>2. /\ GraphOK(prog, g') /\ Live(g') = Live(g) /\ Done(g') = Done(g)
      /\ g'.blk[cBB].term = g.blk[cBB].term
      /\ g'.rf.on => g'.rf.hist # <<>>
  BY DispatchedOK
<1>3. /\ unit' = cBB /\ UNCHANGED <<prog, cBB, pc, brk>>
      /\ \/ /\ g'.blk[cBB].has /\ ~g'.rf.on /\ mode' = "cfg" /\ at' = <<cBB, 1>>
         \/ /\ ~g'.blk[cBB].has \/ g'.rf.on
            /\ mode' = "run" /\ todo' = g.blk[cBB].term - cBB + 1
  BY DEF ExecuteJIT
<1>4. GraphOK(prog, g)' /\ Live(g)' = Live(g) /\ Done(g)' = Done(g)
  BY <1>2, <1>3
<1>5. BlocksOK'
  <2>1. mode' \in {"cfg", "run"}
    BY <1>3
  <2> QED BY <1>1, <1>2, <1>3, <2>1 DEF BlocksOK
<1>6. CASE mode' = "cfg"
  <2>1. g'.blk[cBB].has /\ ~g'.rf.on /\ at' = <<cBB, 1>>
    BY <1>3, <1>6
  <2>2. BlockOK(prog, Live(g'), Done(g'), cBB, g'.blk[cBB]) /\ g'.blk[cBB] \in BlockType
    <3>1. cBB \in Live(g')
      BY <1>1, <1>2
    <3> QED BY <1>2, <3>1 DEF GraphOK, GraphType, Live
  <2> DEFINE c == g'.blk[cBB].code
  <2>3. c # None /\ CodeOK(prog, Done(g'), cBB, c) /\ c \in CodeType
    BY <2>1, <2>2 DEF BlockOK, BlockType
  <2> HIDE DEF c
  <2>4. cBB \in c.blocks /\ 1 \in 1 .. Len(c.ins[cBB])
    <3> DEFINE s == c.ins[cBB]
    <3>1. s \in Seq(Addr) /\ s # <<>> /\ cBB \in c.blocks
      BY <1>1, <2>3 DEF CodeOK, CodeType
    <3> HIDE DEF s
    <3>2. 1 \in 1 .. Len(s)
      BY <3>1
    <3> QED BY <3>1, <3>2 DEF s
  <2>5. Code' = c /\ at'[1] = cBB /\ at'[2] = 1
    BY <1>3, <2>1 DEF Code, c
  <2>6. CfgOK'
    BY <1>1, <1>2, <1>3, <2>1, <2>3, <2>4, <2>5 DEF CfgOK, c
  <2> QED BY <1>1, <1>3, <1>5, <1>6, <2>6, CfgKeeps
<1>7. CASE mode' = "run"
  <2>1. todo' = g.blk[cBB].term - cBB + 1
    BY <1>3, <1>7
  <2>2. g.blk[cBB].term \in Nat /\ cBB \in Nat /\ g.blk[cBB].term >= cBB
    BY <1>1, DoneBlock
  <2>3. todo' \in Nat /\ pc' + todo' - 1 = g'.blk[unit'].term /\ pc' >= unit'
    BY <1>1, <1>2, <1>3, <2>1, <2>2
  <2>4. AtEntry'
    BY <1>1, <1>2, <1>3 DEF AtEntry, Done
  <2>5. RunOK'
    BY <1>1, <1>2, <1>3, <2>3, <2>4 DEF RunOK
  <2> QED BY <1>1, <1>3, <1>5, <1>7, <2>5, RunKeeps
<1> QED BY <1>3, <1>6, <1>7

-----------------------------------------------------------------------------
LEMMA InterruptKeeps ==
  ASSUME IInv, Interrupt
  PROVE  IInv'
<1>1. ~brk /\ brk' = TRUE /\ mode' = "loop" /\ UNCHANGED <<prog, g, cBB>>
  BY DEF Interrupt
<1>2. mode # "exit" /\ BlocksOK
  BY <1>1 DEF IInv
<1>3. BlocksOK'
  BY <1>1, <1>2 DEF BlocksOK
<1>4. LoopOK'
  BY <1>1 DEF LoopOK
<1> QED BY <1>1, <1>3, <1>4, LoopKeeps

LEMMA ShutdownKeeps ==
  ASSUME IInv, Shutdown
  PROVE  IInv'
<1>1. /\ brk /\ mode' = "exit" /\ g' = dropAllBBs(g) /\ UNCHANGED <<prog, brk>>
  BY DEF Shutdown
<1>2. prog \in Programs /\ GraphOK(prog, g) /\ brk \in BOOLEAN
  BY DEF IInv, BlocksOK
<1>3. g.rf \in FinderType
  BY <1>2 DEF GraphOK, GraphType
<1>4. GraphOK(prog, g')
  BY <1>1, <1>3, DropAllOK
<1>5. BlocksOK'
  BY <1>1, <1>2, <1>4 DEF BlocksOK
<1> QED BY <1>1, <1>2, <1>5 DEF IInv, LoopOK, RunOK, CfgOK, PostOK

LEMMA StutterKeeps ==
  ASSUME IInv, UNCHANGED vars
  PROVE  IInv'
<1>1. UNCHANGED <<prog, g, cBB, pc, brk, mode, unit, todo, at>>
  BY DEF vars
<1> QED BY <1>1 DEF IInv, BlocksOK, LoopOK, RunOK, CfgOK, PostOK, LoopAtBlock, AtEntry, Code

LEMMA NextIInv ==
  ASSUME IInv, [Next]_vars
  PROVE  IInv'
<1>1. CASE BuildPlain
  BY <1>1, BuildPlainKeeps
<1>2. CASE BuildEnd
  BY <1>2, BuildEndKeeps
<1>3. CASE BuildSync
  BY <1>3, BuildSyncKeeps
<1>4. CASE BuildStop
  BY <1>4, BuildStopKeeps
<1>5. CASE ExecuteJIT
  BY <1>5, ExecuteJITKeeps
<1>6. CASE RunPlain
  BY <1>6, RunPlainKeeps
<1>7. CASE RunTrap
  BY <1>7, RunTrapKeeps
<1>8. CASE RunEnd
  BY <1>8, RunEndKeeps
<1>9. CASE RunReturn
  BY <1>9, RunReturnKeeps
<1>10. CASE CfgWithin
  BY <1>10, CfgWithinKeeps
<1>11. CASE CfgEdge
  BY <1>11, CfgEdgeKeeps
<1>12. CASE CfgAbort
  BY <1>12, CfgAbortKeeps
<1>13. CASE Post
  BY <1>13, PostKeeps
<1>14. CASE Interrupt
  BY <1>14, InterruptKeeps
<1>15. CASE Shutdown
  BY <1>15, ShutdownKeeps
<1>16. CASE Exited \/ UNCHANGED vars
  BY <1>16, StutterKeeps DEF Exited
<1> QED BY <1>1, <1>2, <1>3, <1>4, <1>5, <1>6, <1>7, <1>8, <1>9, <1>10, <1>11, <1>12,
           <1>13, <1>14, <1>15, <1>16 DEF Next

-----------------------------------------------------------------------------
(* What the parts of the invariant say of the properties the runs check.   *)
LEMMA IInvLoop == IInv => LoopAtBlock
BY DEF IInv, LoopOK, LoopAtBlock

LEMMA IInvRun == IInv => RunCoversBlock
<1> SUFFICES ASSUME IInv, mode = "run", todo > 0, ~brk
             PROVE  /\ g.blk[unit] # None
                    /\ pc + todo - 1 = g.blk[unit].term
                    /\ pc \in ToSet(g.blk[unit].ins)
                    /\ prog[pc].kind \notin {"sync", "halt"}
                    /\ EndsBlock(prog[pc].kind) => todo = 1
  BY DEF RunCoversBlock
<1>1. Interpreting
  BY DEF Interpreting
<1>2. /\ unit \in Done(g) /\ pc + todo - 1 = g.blk[unit].term
      /\ pc \in ToSet(g.blk[unit].ins) /\ prog[pc].kind \notin {"sync", "halt"}
      /\ EndsBlock(prog[pc].kind) => todo = 1
  BY <1>1, Interpreted
<1>3. g.blk[unit] # None
  BY <1>2 DEF Done, Live
<1> QED BY <1>2, <1>3

LEMMA IInvShape == IInv => BlocksWellFormed
<1> SUFFICES ASSUME IInv PROVE BlocksWellFormed
  OBVIOUS
<1>1. GraphOK(prog, g)
  BY DEF IInv, BlocksOK
<1>2. \A b \in Live(g) : g.blk[b] \in BlockType /\ BlockOK(prog, Live(g), Done(g), b, g.blk[b])
  BY <1>1 DEF GraphOK, GraphType, Live
<1>3. SealedShape
  <2> SUFFICES ASSUME NEW b \in Live(g)
               PROVE  LET B == g.blk[b]
                          n == Len(B.ins)
                      IN /\ \A i \in 1 .. n : B.ins[i] = b + i - 1
                         /\ B.ro =>
                              /\ n > 0
                              /\ B.term = BranchOf(prog, B.ins)
                              /\ \A a \in ToSet(B.ins) : EndsBlock(prog[a].kind) => a = B.term
    BY DEF SealedShape
  <2> DEFINE B == g.blk[b]
  <2>1. B \in BlockType /\ BlockOK(prog, Live(g), Done(g), b, B)
    BY <1>2
  <2>2. B.ins \in Seq(Addr)
    BY <2>1 DEF BlockType
  <2> HIDE DEF B
  <2>3. B.ins # <<>> => Len(B.ins) > 0
    BY <2>2
  <2> QED BY <2>1, <2>3 DEF BlockOK, Consecutive, Ended, B
<1>4. LikelyFlagAgrees
  BY <1>2 DEF LikelyFlagAgrees, BlockOK, LikelyOK
<1>5. InsMapCoherent
  BY <1>1 DEF GraphOK, InsMapOK, InsMapCoherent, Live
<1> QED BY <1>3, <1>4, <1>5 DEF BlocksWellFormed

LEMMA IInvEdges == IInv => EdgesSymmetric
<1> SUFFICES ASSUME IInv, NEW a \in Live(g), NEW b \in Live(g)
             PROVE  /\ b \in g.blk[a].succs <=> a \in g.blk[b].preds
                    /\ g.blk[a].succs \cup g.blk[a].preds \subseteq Live(g)
  BY DEF EdgesSymmetric
<1>1. Linked(g)
  BY DEF IInv, BlocksOK, GraphOK
<1> QED BY <1>1 DEF Linked

LEMMA IInvCompiled == IInv => CompiledOnce
<1> SUFFICES ASSUME IInv PROVE CompiledOnce
  OBVIOUS
<1>1. GraphOK(prog, g)
  BY DEF IInv, BlocksOK
<1>2. RegionFlagAgrees
  BY <1>1 DEF GraphOK, BlockOK, RegionFlagAgrees
<1>3. HeadNotCompiled
  BY <1>1 DEF GraphOK, TraceOK, HeadNotCompiled
<1> QED BY <1>2, <1>3 DEF CompiledOnce

-----------------------------------------------------------------------------
(* Whatever the program does, whichever blocks are split, compiled or      *)
(* dropped, and whenever SIGINT strikes, the invariant holds.              *)
THEOREM InvariantHolds == Spec => []IInv
<1>1. Init => IInv
  BY InitIInv
<1>2. IInv /\ [Next]_vars => IInv'
  BY NextIInv
<1> QED BY <1>1, <1>2, PTL DEF Spec

(* executeJIT's test of readOnly and of the pc never sends the main loop   *)
(* astray: it is at the entry of a finished block, or the interpreter has  *)
(* a block to append to.                                                   *)
THEOREM DispatchAtBlock == Spec => []LoopAtBlock
BY InvariantHolds, IInvLoop, PTL

(* basicBlock::run interprets exactly the words up to termAddr of the      *)
(* block it was called on, even if that block is split while it runs.      *)
THEOREM RunStaysInBlock == Spec => []RunCoversBlock
BY InvariantHolds, IInvRun, PTL

(* Interpreting, getNextBlock, split and dropAllBBs keep every block, the  *)
(* instruction map and the likely flags in the shape split, joinRegions    *)
(* and the code generator rely on.                                         *)
THEOREM BlocksStayWellFormed == Spec => []BlocksWellFormed
BY InvariantHolds, IInvShape, PTL

(* basicBlock::sanityCheck would never fail: successors and predecessors   *)
(* mirror each other, whatever findBlock, split and addSuccessor do.       *)
THEOREM EdgesStaySymmetric == Spec => []EdgesSymmetric
BY InvariantHolds, IInvEdges, PTL

(* hasRegion and cfgCplr go together, and no trace is collected for a      *)
(* block that has code: buildCFG never replaces code that is in use.       *)
THEOREM CompiledOnlyOnce == Spec => []CompiledOnce
BY InvariantHolds, IInvCompiled, PTL
=============================================================================
