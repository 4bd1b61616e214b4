---------------------------- MODULE BuildProofs ----------------------------
(***************************************************************************)
(* What buildCFG makes of the region the main loop compiles, with --aug=0: *)
(* it does not give up on it, and the code generated for it goes where the *)
(* edges of the CFG say.                                                   *)
(***************************************************************************)
EXTENDS PathProofs, BuildProps, WellFoundedInduction, FiniteSetTheorems

(* Induction, as it is used here: a set of numbers has a least one.        *)
LEMMA Least ==
  ASSUME NEW T \in SUBSET Nat, T # {}
  PROVE  \E n \in T : \A m \in T : n <= m
<1> DEFINE R == OpToRel(<, Nat)
<1>1. IsWellFoundedOn(R, Nat)
  BY NatLessThanWellFounded
<1>2. \A x, y \in Nat : <<x, y>> \in R <=> x < y
  BY DEF OpToRel
<1> HIDE DEF R
<1>3. PICK n \in T : \A m \in T : <<m, n>> \notin R
  BY <1>1, WFMin
<1>4. n \in Nat /\ \A m \in T : m \in Nat /\ ~(m < n)
  BY <1>2, <1>3
<1> QED BY <1>4

-----------------------------------------------------------------------------
(* The words of a CFG's block: they compile, and there is one jump or      *)
(* branch among them at most, with its delay slot or cut off from it.      *)
Lined(p, n, s) ==
  /\ s \in Seq(Addr) /\ s # <<>>
  /\ \A i \in 1 .. Len(s) : s[i] = n + i - 1
  /\ \A a \in ToSet(s) :
       /\ canCompileInstr(p[a].kind)
       /\ isBranchOrJump(p[a].kind) =>
            /\ a \in {Last(s) - 1, Last(s)}
            /\ p[a].kind = "brl" => a = Last(s)
            /\ \A b \in ToSet(s) : isBranchOrJump(p[b].kind) => b = a

Shape(p, C) ==
  /\ Nodes(C) \subseteq Addr
  /\ C.succs \in [Nodes(C) -> SUBSET Nodes(C)]
  /\ \A n \in Nodes(C) : Lined(p, n, C.ins[n])

(* The edges a block has no other way to account for than by where its     *)
(* last instruction goes.                                                  *)
EdgesOK(p, C, cut) ==
  \A n \in Nodes(C) :
    /\ Terminators(p, C, n) = {} => C.succs[n] \subseteq {Last(C.ins[n]) + 1}
    /\ \A a \in Terminators(p, C, n) :
         /\ p[a].kind = "jal" => C.succs[n] \subseteq p[a].to
         /\ p[a].kind = "j" =>
              C.succs[n] \subseteq p[a].to \cup (IF cut THEN {a + 2} ELSE {})

(* Where direct branches and jumps go.                                     *)
LEMMA DirectTo ==
  ASSUME NEW p \in Programs, NEW a \in Addr, p[a].kind \in {"br", "brl", "j", "jal"}
  PROVE  /\ TakenAddr(p, a) \in Addr /\ p[a].to = {TakenAddr(p, a)}
         /\ p[a].kind \in {"br", "brl"} => NextPcs(p, a) = {TakenAddr(p, a), a + 2}
         /\ p[a].kind \in {"j", "jal"} => NextPcs(p, a) = {TakenAddr(p, a)}
<1>1. WellFormed(p)
  BY ProgramsAssumption
<1>2. PICK t \in Addr : p[a].to = {t}
  BY <1>1 DEF WellFormed
<1>3. TakenAddr(p, a) = t
  BY <1>2 DEF TakenAddr
<1> QED BY <1>2, <1>3 DEF NextPcs

(* The first and the last word of a block.                                 *)
LEMMA LinedEnds ==
  ASSUME NEW p, NEW n \in Addr, NEW s, Lined(p, n, s)
  PROVE  /\ Len(s) \in Nat \ {0} /\ \A i \in 1 .. Len(s) : s[i] \in ToSet(s) /\ s[i] \in Addr
         /\ Last(s) = n + Len(s) - 1 /\ Last(s) \in ToSet(s) /\ Last(s) \in Addr
         /\ \A a \in ToSet(s) : a \in Addr /\ \E i \in 1 .. Len(s) : a = s[i]
<1>1. s \in Seq(Addr) /\ s # <<>> /\ \A i \in 1 .. Len(s) : s[i] = n + i - 1
  BY DEF Lined
<1>2. Len(s) \in Nat \ {0} /\ Len(s) \in 1 .. Len(s)
  BY <1>1
<1>3. /\ \A i \in 1 .. Len(s) : s[i] \in ToSet(s)
      /\ \A a \in ToSet(s) : \E i \in 1 .. Len(s) : a = s[i]
  BY <1>1, ToSetIndex
<1>4. \A i \in 1 .. Len(s) : s[i] \in Addr
  BY <1>1
<1>5. Last(s) = s[Len(s)]
  BY DEF Last
<1> QED BY <1>1, <1>2, <1>3, <1>4, <1>5

-----------------------------------------------------------------------------
(* buildCFG adds edges: what every block has after it.                     *)
Head2(p, C, u, n) ==
  C.succs[n] \cup (IF Nodes(C) = {u} THEN {u} ELSE {})
             \cup (IF Indirect(p, C, n) THEN {u}
                   ELSE DirectExits(p, C, n) \cap Nodes(C))

LEMMA SetSuccs ==
  ASSUME NEW I, NEW S, NEW T
  PROVE  [[ins |-> I, succs |-> S] EXCEPT !.succs = T] = [ins |-> I, succs |-> T]
OBVIOUS

LEMMA EdgedIs ==
  ASSUME NEW p, NEW u \in Addr, NEW C, Shape(p, C), u \in Nodes(C),
         C = [ins |-> C.ins, succs |-> C.succs]
  PROVE  Edged(p, u, C) = [ins |-> C.ins, succs |-> [n \in Nodes(C) |-> Head2(p, C, u, n)]]
<1> DEFINE N == Nodes(C)
           I == C.ins
           S == C.succs
           R(T) == [ins |-> I, succs |-> T]
           S1 == [n \in N |-> S[n] \cup (IF N = {u} THEN {u} ELSE {})]
           S2 == [n \in N |-> IF Indirect(p, C, n) THEN S1[n] \cup {u} ELSE S1[n]]
<1>1. N = DOMAIN I /\ S \in [N -> SUBSET N] /\ N \subseteq Nat /\ C = R(S)
  BY ProgramsAssumption DEF Shape, Nodes
<1>2. \A T : /\ Nodes(R(T)) = N
             /\ \A n \in N : /\ Indirect(p, R(T), n) <=> Indirect(p, C, n)
                             /\ DirectExits(p, R(T), n) = DirectExits(p, C, n)
  BY <1>1 DEF Nodes, Indirect, DirectExits, Terminators
<1>3. \A T : Entries(R(T)) = N
  BY <1>1, <1>2 DEF Entries, IsPatch
<1>4. selfLoop(C, u) = R(S1)
  <2>1. CASE N = {u}
    <3>1. [S EXCEPT ![u] = @ \cup {u}] = S1
      BY <1>1, <2>1
    <3> QED BY <1>1, <2>1, <3>1 DEF selfLoop, addEdge
  <2>2. CASE N # {u}
    <3>1. S = S1
      BY <1>1, <2>2
    <3> QED BY <1>1, <2>2, <3>1 DEF selfLoop
  <2> QED BY <2>1, <2>2
<1>5. speculate(p, R(S1), u) = R(S2)
  <2> DEFINE D == R(S1)
             X == [n \in Nodes(D) |-> IF Indirect(p, D, n) THEN D.succs[n] \cup {u}
                                      ELSE D.succs[n]]
  <2>1. Nodes(D) = N /\ (\A n \in N : Indirect(p, D, n) <=> Indirect(p, C, n)) /\ D.succs = S1
    BY <1>2
  <2>2. \A T : [D EXCEPT !.succs = T] = R(T)
    BY SetSuccs
  <2>3. speculate(p, D, u) = [D EXCEPT !.succs = X]
    BY DEF speculate
  <2> HIDE DEF D, S1
  <2>4. X = S2
    BY <2>1
  <2> QED BY <2>2, <2>3, <2>4 DEF D
<1>6. withInEdges(p, R(S2)) = R([n \in N |-> addWithInCFGEdges(p, R(S2), n)])
  <2> HIDE DEF S2
  <2> QED BY <1>2 DEF withInEdges
<1>7. \A n \in N : addWithInCFGEdges(p, R(S2), n) = Head2(p, C, u, n)
  <2> SUFFICES ASSUME NEW n \in N
               PROVE  addWithInCFGEdges(p, R(S2), n) = Head2(p, C, u, n)
    OBVIOUS
  <2>1. S2[n] = IF Indirect(p, C, n) THEN S1[n] \cup {u} ELSE S1[n]
    OBVIOUS
  <2>2. S1[n] = S[n] \cup (IF N = {u} THEN {u} ELSE {})
    OBVIOUS
  <2> HIDE DEF S1, S2
  <2>3. addWithInCFGEdges(p, R(S2), n)
          = S2[n] \cup (IF Indirect(p, C, n) THEN {} ELSE DirectExits(p, C, n) \cap N)
    BY <1>2, <1>3 DEF addWithInCFGEdges
  <2> QED BY <2>1, <2>2, <2>3 DEF Head2
<1> HIDE DEF S1, S2
<1> QED BY <1>4, <1>5, <1>6, <1>7 DEF Edged

-----------------------------------------------------------------------------
(* The patch blocks.                                                       *)
LEMMA LikelyLast ==
  ASSUME NEW p, NEW C, Shape(p, C), NEW n \in Likelies(p, C)
  PROVE  /\ n \in Nodes(C) /\ n \in Addr
         /\ Last(C.ins[n]) \in Addr /\ p[Last(C.ins[n])].kind = "brl"
         /\ Terminators(p, C, n) = {Last(C.ins[n])}
<1> DEFINE s == C.ins[n]
<1>1. n \in Nodes(C) /\ n \in Addr /\ Lined(p, n, s)
  BY DEF Likelies, Shape
<1>2. PICK a \in ToSet(s) : p[a].kind = "brl"
  BY DEF Likelies
<1>3. Last(s) \in Addr
  BY <1>1, LinedEnds
<1>4. a = Last(s) /\ \A b \in ToSet(s) : isBranchOrJump(p[b].kind) => b = a
  BY <1>1, <1>2 DEF Lined, isBranchOrJump
<1> QED BY <1>1, <1>2, <1>3, <1>4 DEF Terminators, isBranchOrJump

PatchedTo(p, C, n) ==
  IF n \in Likelies(p, C)
  THEN {Patch(n)} \cup (C.succs[n] \ {LikelyTaken(p, C, n)}) ELSE C.succs[n]

HasPatched(p, C, D) ==
  /\ Nodes(D) = Nodes(C) \cup {Patch(x) : x \in Likelies(p, C)}
  /\ \A n \in Nodes(C) :
       /\ ~IsPatch(n) /\ D.ins[n] = C.ins[n] /\ D.succs[n] = PatchedTo(p, C, n)
       /\ Terminators(p, D, n) = Terminators(p, C, n)
       /\ DirectExits(p, D, n) = DirectExits(p, C, n)
       /\ LikelyTaken(p, D, n) = LikelyTaken(p, C, n)
  /\ \A x \in Likelies(p, C) :
       /\ IsPatch(Patch(x)) /\ Owner(Patch(x)) = x /\ Patch(x) # None
       /\ Patch(x) \notin Nodes(C)
       /\ D.succs[Patch(x)] = C.succs[x] \cap {LikelyTaken(p, C, x)}

LEMMA PatchedIs ==
  ASSUME NEW p, NEW C, Shape(p, C)
  PROVE  HasPatched(p, C, patchLikely(p, C))
<1> DEFINE N == Nodes(C)
           L == Likelies(p, C)
           P == {Patch(x) : x \in L}
           D == patchLikely(p, C)
<1>1. N = DOMAIN C.ins /\ N = DOMAIN C.succs /\ N \subseteq Addr /\ L \subseteq N
  BY DEF Nodes, Shape, Likelies
<1>2. \A n \in N : n \in Nat
  BY <1>1, ProgramsAssumption
<1>3. \A n \in N : ~IsPatch(n)
  BY <1>2 DEF IsPatch
<1>4. \A x \in L : IsPatch(Patch(x)) /\ Owner(Patch(x)) = x /\ Patch(x) \notin N /\ Patch(x) # None
  <2> SUFFICES ASSUME NEW x \in L
               PROVE  IsPatch(Patch(x)) /\ Owner(Patch(x)) = x /\ Patch(x) \notin N /\ Patch(x) # None
    OBVIOUS
  <2>1. x \in Nat /\ x \in Addr
    BY <1>1, <1>2
  <2>2. Patch(x) = -1 - x /\ Patch(x) < 0 /\ -1 - Patch(x) = x
    BY <2>1 DEF Patch
  <2>3. Patch(x) # None
    BY <2>1, PatchAssumption
  <2>4. Patch(x) \notin N
    BY <1>2, <2>2
  <2> QED BY <2>2, <2>3, <2>4 DEF IsPatch, Owner
<1> DEFINE A == N \cup P
           I == [m \in A |-> IF IsPatch(m) THEN <<Last(C.ins[Owner(m)]) + 1>> ELSE C.ins[m]]
           S == [m \in A |->
                   IF IsPatch(m) THEN C.succs[Owner(m)] \cap {LikelyTaken(p, C, Owner(m))}
                   ELSE IF m \in L THEN patched(p, C, m) ELSE C.succs[m]]
<1>5. D = [ins |-> I, succs |-> S]
  BY DEF patchLikely
<1>6. DOMAIN D.ins = N \cup P /\ D.ins = I /\ D.succs = S
  BY <1>5
<1>7. \A n \in N : D.ins[n] = C.ins[n] /\ D.succs[n] = PatchedTo(p, C, n)
  <2> SUFFICES ASSUME NEW n \in N PROVE I[n] = C.ins[n] /\ S[n] = PatchedTo(p, C, n)
    BY <1>6
  <2>1. n \in A /\ ~IsPatch(n)
    BY <1>3
  <2> HIDE DEF A
  <2>2. I[n] = C.ins[n]
    BY <2>1
  <2>3. S[n] = IF n \in L THEN patched(p, C, n) ELSE C.succs[n]
    BY <2>1
  <2> QED BY <2>2, <2>3 DEF PatchedTo, patched
<1>8. \A x \in L : D.succs[Patch(x)] = C.succs[x] \cap {LikelyTaken(p, C, x)}
  <2> SUFFICES ASSUME NEW x \in L PROVE S[Patch(x)] = C.succs[x] \cap {LikelyTaken(p, C, x)}
    BY <1>6
  <2>1. Patch(x) \in A /\ IsPatch(Patch(x)) /\ Owner(Patch(x)) = x
    BY <1>4
  <2> HIDE DEF A
  <2> QED BY <2>1
<1> HIDE DEF I, S, D
<1>10. Nodes(D) = N \cup P
  BY <1>6 DEF Nodes
<1>11. \A n \in N : /\ Terminators(p, D, n) = Terminators(p, C, n)
                    /\ DirectExits(p, D, n) = DirectExits(p, C, n)
                    /\ LikelyTaken(p, D, n) = LikelyTaken(p, C, n)
  BY <1>7 DEF Terminators, DirectExits, LikelyTaken
<1>12. HasPatched(p, C, D)
  BY <1>3, <1>4, <1>7, <1>8, <1>10, <1>11 DEF HasPatched
<1> QED BY <1>12 DEF D

-----------------------------------------------------------------------------
(* Where the code of a block goes.                                         *)
LEMMA GoesTo ==
  ASSUME NEW C, NEW n, NEW Q, None \notin C.succs[n], NEW G,
         \A t : t \in G <=> \E q \in Q : t = Goes(C, n, q)
  PROVE  /\ {t.to : t \in G} \ {None} = Q \cap C.succs[n]
         /\ \A t \in G : t.to # None => t.to = t.pc
         /\ {t.pc : t \in G} = Q
<1>1. \A q : Goes(C, n, q).pc = q /\ Goes(C, n, q).to = IF q \in C.succs[n] THEN q ELSE None
  BY DEF Goes, getSuccLLVMBasicBlock
<1>3. \A t \in G : t.to # None => t.to = t.pc
  BY <1>1
<1>4. \A q : q \in Q <=> \E t \in G : q = t.pc
  BY <1>1
<1>5. \A q : q \in Q \cap C.succs[n] <=> q # None /\ \E t \in G : q = t.to
  BY <1>1
<1>6. {t.pc : t \in G} = Q
  BY <1>4
<1>7. {t.to : t \in G} \ {None} = Q \cap C.succs[n]
  BY <1>5
<1> QED BY <1>3, <1>6, <1>7

(* What EmitsTheEdges says of one block.                                   *)
Emits(p, C, n, extra) ==
  /\ Entered(p, C, n) \subseteq C.succs[n]
  /\ C.succs[n] \subseteq Entered(p, C, n) \cup extra
  /\ RightPlace(p, C, n)

(* A block from whose transfers one can choose by the pc alone.            *)
LEMMA EmitsGoes ==
  ASSUME NEW p, NEW C, NEW n, ~IsPatch(n), None \notin C.succs[n], NEW Q, NEW extra,
         \A t : t \in Transfers(p, C, n) <=> \E q \in Q : t = Goes(C, n, q),
         C.succs[n] \subseteq Q \cup extra, DirectExits(p, C, n) \subseteq Q
  PROVE  Emits(p, C, n, extra)
<1> DEFINE G == Transfers(p, C, n)
<1>0. \A t : t \in G <=> \E q \in Q : t = Goes(C, n, q)
  OBVIOUS
<1> HIDE DEF G
<1>1. /\ {t.to : t \in G} \ {None} = Q \cap C.succs[n]
      /\ \A t \in G : t.to # None => t.to = t.pc
      /\ {t.pc : t \in G} = Q
  BY <1>0, GoesTo
<1>2. Transfers(p, C, n) = G
  BY DEF G
<1>3. Entered(p, C, n) = Q \cap C.succs[n]
  BY <1>1, <1>2 DEF Entered
<1>4. RightPlace(p, C, n)
  BY <1>1, <1>2 DEF RightPlace
<1> QED BY <1>3, <1>4 DEF Emits

(* Past its delay slot is where splitBBs takes a j as well.                *)
Extra(p, C, n, cut) ==
  IF cut THEN {a + 2 : a \in {t \in Terminators(p, C, n) : p[t].kind = "j"}} ELSE {}

LEMMA EmitsPatch ==
  ASSUME NEW p \in Programs, NEW C, NEW D, Shape(p, C), HasPatched(p, C, D),
         NEW x \in Likelies(p, C), NEW cut
  PROVE  Emits(p, D, Patch(x), Extra(p, D, Patch(x), cut))
<1> DEFINE n == Patch(x)
           t == LikelyTaken(p, C, x)
           S == D.succs[n]
<1>1. /\ IsPatch(n) /\ Owner(n) = x
      /\ LikelyTaken(p, D, x) = t /\ S = C.succs[x] \cap {t}
  BY LikelyLast DEF HasPatched
<1>2. t # None
  <2>1. t \in Addr
    BY LikelyLast, DirectTo DEF LikelyTaken
  <2> QED BY <2>1, RegionFinderAssumption
<1> HIDE DEF n, t, S
<1>3. PatchGoes(p, D, n) = [pc |-> t, to |-> IF S = {} THEN None ELSE CHOOSE m \in S : TRUE]
  BY <1>1 DEF PatchGoes, S
<1>4. S = {} \/ S = {t}
  BY <1>1
<1>5. PatchGoes(p, D, n) = [pc |-> t, to |-> IF S = {} THEN None ELSE t]
  BY <1>3, <1>4
<1>6. Transfers(p, D, n) = {PatchGoes(p, D, n)}
  BY <1>1 DEF Transfers
<1>7. Entered(p, D, n) = S
  <2>1. {y.to : y \in Transfers(p, D, n)} = {IF S = {} THEN None ELSE t}
    BY <1>5, <1>6
  <2> QED BY <1>2, <1>4, <2>1 DEF Entered
<1>8. RightPlace(p, D, n)
  BY <1>1, <1>5, <1>6 DEF RightPlace
<1>9. Emits(p, D, n, Extra(p, D, n, cut))
  BY <1>7, <1>8 DEF Emits, S
<1> QED BY <1>9 DEF n

(* The branch-likely enters its patch block or the word past the slot.     *)
LEMMA EmitsLikely ==
  ASSUME NEW p \in Programs, NEW C, NEW D, Shape(p, C), HasPatched(p, C, D),
         NEW n \in Likelies(p, C), Plausible(p, C, n), NEW cut
  PROVE  Emits(p, D, n, Extra(p, D, n, cut))
<1> DEFINE a == Last(C.ins[n])
           t == TakenAddr(p, a)
           S == D.succs[n]
           m == Patch(n)
           G == Transfers(p, D, n)
<1>1. /\ n \in Nodes(C) /\ a \in Addr /\ p[a].kind = "brl" /\ Terminators(p, C, n) = {a}
      /\ Nodes(C) \subseteq Addr
  BY LikelyLast DEF Shape
<1>2. t \in Addr /\ NextPcs(p, a) = {t, a + 2} /\ t = LikelyTaken(p, C, n)
  BY <1>1, DirectTo DEF LikelyTaken
<1>3. /\ ~IsPatch(n) /\ S = {m} \cup (C.succs[n] \ {t}) /\ Terminators(p, D, n) = {a}
      /\ LikelyTaken(p, D, n) = t /\ IsPatch(m) /\ Owner(m) = n /\ m # None
  BY <1>1, <1>2 DEF HasPatched, PatchedTo
<1>4. C.succs[n] \subseteq {t, a + 2}
  BY <1>1, <1>2 DEF Plausible
<1>5. a + 2 \in Nat /\ a + 2 # m /\ a + 2 # None
  <2>1. a \in Nat /\ a + 2 \in Nat /\ m < 0
    BY <1>1, <1>3, ProgramsAssumption DEF IsPatch
  <2>2. a + 2 \in Addr
    BY <1>1, ProgramsAssumption DEF WellFormed
  <2> QED BY <2>1, <2>2, RegionFinderAssumption
<1> HIDE DEF a, t, S, m
<1>6. G = {[pc |-> t, to |-> m], Goes(D, n, a + 2)}
  <2>1. Jumps(p, D, n, a) = {[pc |-> t, to |-> m], Goes(D, n, a + 2)}
    BY <1>1 DEF Jumps, NotTakenAddr, t, m
  <2> QED BY <1>3, <2>1 DEF Transfers
<1>7. Goes(D, n, a + 2) = [pc |-> a + 2, to |-> IF a + 2 \in S THEN a + 2 ELSE None]
  BY DEF Goes, getSuccLLVMBasicBlock, S
<1> HIDE DEF G
<1> DEFINE r == IF a + 2 \in S THEN a + 2 ELSE None
           y1 == [pc |-> t, to |-> m]
           y2 == [pc |-> a + 2, to |-> r]
<1>8. G = {y1, y2}
  BY <1>6, <1>7
<1>9. y1.to = m /\ y1.pc = t /\ y2.to = r /\ y2.pc = a + 2
  OBVIOUS
<1> HIDE DEF r, y1, y2
<1>10. Entered(p, D, n) = S
  <2>1. {y.to : y \in G} = {m, r}
    BY <1>8, <1>9
  <2> QED BY <1>3, <1>4, <1>5, <2>1 DEF Entered, G, r
<1>11. RightPlace(p, D, n)
  <2>1. PatchGoes(p, D, m).pc = t
    BY <1>3 DEF PatchGoes
  <2>2. DirectExits(p, D, n) = {t, a + 2}
    BY <1>2, <1>3 DEF DirectExits
  <2>3. y2.to # None => y2.to = y2.pc
    BY <1>9 DEF r
  <2>4. \A y \in G : y.to # None => y.to = y.pc \/ (IsPatch(y.to) /\ PatchGoes(p, D, y.to).pc = y.pc)
    BY <1>3, <1>8, <1>9, <2>1, <2>3
  <2>5. {y.pc : y \in G} = {t, a + 2}
    BY <1>8, <1>9
  <2> QED BY <2>2, <2>4, <2>5 DEF RightPlace, G
<1> QED BY <1>10, <1>11 DEF Emits, S

LEMMA EmitsJump ==
  ASSUME NEW p \in Programs, NEW C, NEW D, Shape(p, C), HasPatched(p, C, D),
         NEW n \in Nodes(C) \ Likelies(p, C), Plausible(p, C, n),
         NEW cut, EdgesOK(p, C, cut), NEW a \in Terminators(p, C, n)
  PROVE  Emits(p, D, n, Extra(p, D, n, cut))
<1> DEFINE S == C.succs[n]
           k == p[a].kind
           t == TakenAddr(p, a)
           X == Extra(p, D, n, cut)
<1>1. /\ ~IsPatch(n) /\ D.succs[n] = S /\ Terminators(p, D, n) = Terminators(p, C, n)
      /\ S \subseteq Addr /\ None \notin S
  <2>1. S \subseteq Addr
    BY DEF Shape
  <2> QED BY <2>1, RegionFinderAssumption DEF HasPatched, PatchedTo
<1>2. a \in Addr /\ isBranchOrJump(k) /\ k # "brl" /\ Terminators(p, C, n) = {a}
  <2>1. Lined(p, n, C.ins[n]) /\ n \in Addr
    BY DEF Shape
  <2>2. a \in ToSet(C.ins[n]) /\ isBranchOrJump(k)
    BY DEF Terminators
  <2>3. a \in Addr
    BY <2>1, <2>2, LinedEnds
  <2>4. Terminators(p, C, n) = {a}
    BY <2>1, <2>2 DEF Terminators, Lined
  <2> QED BY <2>2, <2>3, <2>4 DEF Likelies
<1>3. DirectExits(p, D, n) = NextPcs(p, a) /\ Transfers(p, D, n) = Jumps(p, D, n, a)
  BY <1>1, <1>2 DEF DirectExits, Transfers
<1>4. k # "jal" => \A Q : S \subseteq Q \cup X /\ NextPcs(p, a) \subseteq Q
                          /\ Jumps(p, D, n, a) = {Goes(D, n, q) : q \in Q} => Emits(p, D, n, X)
  <2> SUFFICES ASSUME NEW Q, S \subseteq Q \cup X, NextPcs(p, a) \subseteq Q,
                      Jumps(p, D, n, a) = {Goes(D, n, q) : q \in Q}
               PROVE  Emits(p, D, n, X)
    OBVIOUS
  <2> HIDE DEF X, S
  <2>1. \A y : y \in Transfers(p, D, n) <=> \E q \in Q : y = Goes(D, n, q)
    BY <1>3
  <2> QED BY <1>1, <1>3, <2>1, EmitsGoes
<1>5. CASE k = "br"
  <2>1. S \subseteq NextPcs(p, a)
    BY <1>2, <1>5 DEF Plausible
  <2>2. Jumps(p, D, n, a) = {Goes(D, n, q) : q \in NextPcs(p, a)}
    BY <1>5 DEF Jumps
  <2> QED BY <1>4, <1>5, <2>1, <2>2
<1>6. CASE k = "j"
  <2>1. S \subseteq p[a].to \cup (IF cut THEN {a + 2} ELSE {})
    BY <1>2, <1>6 DEF EdgesOK
  <2>2. X = IF cut THEN {a + 2} ELSE {}
    <3>1. {y \in Terminators(p, D, n) : p[y].kind = "j"} = {a}
      BY <1>1, <1>2, <1>6
    <3> QED BY <3>1 DEF Extra
  <2>3. NextPcs(p, a) = p[a].to
    BY <1>6 DEF NextPcs
  <2>4. Jumps(p, D, n, a) = {Goes(D, n, q) : q \in NextPcs(p, a)}
    BY <1>6 DEF Jumps
  <2> QED BY <1>4, <1>6, <2>1, <2>2, <2>3, <2>4
<1>7. CASE k \in {"jr", "jalr"}
  <2>1. Jumps(p, D, n, a) = {Goes(D, n, q) : q \in NextPcs(p, a) \cup S}
    BY <1>1, <1>7 DEF Jumps
  <2> QED BY <1>4, <1>7, <2>1
<1>8. CASE k = "jal"
  <2>1. NextPcs(p, a) = {t} /\ t \in Addr /\ S \subseteq {t} /\ S # {}
    BY <1>2, <1>8, DirectTo DEF EdgesOK, Plausible
  <2> HIDE DEF S
  <2>2. S = {t}
    BY <2>1
  <2>3. Jumps(p, D, n, a) = {[pc |-> t, to |-> m] : m \in S}
    BY <1>1, <1>8 DEF Jumps
  <2>4. Transfers(p, D, n) = {[pc |-> t, to |-> t]}
    BY <1>3, <2>2, <2>3
  <2>5. {y.to : y \in Transfers(p, D, n)} = {t} /\ {y.pc : y \in Transfers(p, D, n)} = {t}
    BY <2>4
  <2>6. Entered(p, D, n) = {t}
    BY <1>1, <2>2, <2>5 DEF Entered
  <2>7. RightPlace(p, D, n)
    BY <1>3, <2>1, <2>4, <2>5 DEF RightPlace
  <2> QED BY <1>1, <2>2, <2>6, <2>7 DEF Emits
<1> QED BY <1>2, <1>5, <1>6, <1>7, <1>8 DEF isBranchOrJump

LEMMA EmitsAll ==
  ASSUME NEW p \in Programs, NEW C, Shape(p, C), NEW cut, EdgesOK(p, C, cut),
         \A n \in Nodes(C) : Plausible(p, C, n)
  PROVE  LET D == patchLikely(p, C) IN
         \A n \in Nodes(D) : Emits(p, D, n, Extra(p, D, n, cut))
<1> DEFINE D == patchLikely(p, C)
<1>1. HasPatched(p, C, D)
  BY PatchedIs
<1> HIDE DEF D
<1>2. SUFFICES ASSUME NEW n \in Nodes(D) PROVE Emits(p, D, n, Extra(p, D, n, cut))
  BY DEF D
<1>3. CASE n \notin Nodes(C)
  <2>1. PICK x \in Likelies(p, C) : n = Patch(x)
    BY <1>1, <1>3 DEF HasPatched
  <2> QED BY <1>1, <2>1, EmitsPatch
<1>4. CASE n \in Likelies(p, C)
  BY <1>1, <1>4, EmitsLikely DEF Likelies
<1>5. CASE n \in Nodes(C) \ Likelies(p, C) /\ Terminators(p, C, n) # {}
  BY <1>1, <1>5, EmitsJump
<1>6. CASE n \in Nodes(C) \ Likelies(p, C) /\ Terminators(p, C, n) = {}
  <2> DEFINE w == Last(C.ins[n]) + 1
             S == C.succs[n]
  <2>1. /\ ~IsPatch(n) /\ D.succs[n] = S /\ Terminators(p, D, n) = {} /\ D.ins[n] = C.ins[n]
        /\ S \subseteq Addr /\ S \subseteq {w}
    BY <1>1, <1>6 DEF HasPatched, PatchedTo, Shape, EdgesOK
  <2>2. None \notin S
    BY <2>1, RegionFinderAssumption
  <2>3. DirectExits(p, D, n) = {w} /\ Transfers(p, D, n) = {Goes(D, n, w)}
    BY <2>1 DEF DirectExits, Transfers
  <2> HIDE DEF S, w
  <2>4. \A y : y \in Transfers(p, D, n) <=> \E q \in {w} : y = Goes(D, n, q)
    BY <2>3
  <2>5. D.succs[n] \subseteq {w} \cup Extra(p, D, n, cut)
    BY <2>1
  <2> QED BY <2>1, <2>2, <2>3, <2>4, <2>5, EmitsGoes
<1> QED BY <1>3, <1>4, <1>5, <1>6

-----------------------------------------------------------------------------
(* The region that is compiled: its blocks are finished and compile, each  *)
(* goes on to one of them, and none is out of reach of the head.           *)
Closed(h, blocks, S) == \A x \in S : h.blk[x].succs \cap blocks \subseteq S

Good(p, B) ==
  /\ B \in BlockType /\ Ended(p, B) /\ LikelyOK(p, B)
  /\ \A a \in ToSet(B.ins) : canCompileInstr(p[a].kind)
  /\ B.succs \subseteq NextPcs(p, B.term)

Source(p, h, u, c) ==
  /\ c.blocks \subseteq Addr /\ u \in c.blocks
  /\ \A x \in c.blocks :
       /\ Good(p, h.blk[x]) /\ Consecutive(x, h.blk[x])
       /\ h.blk[x].succs \cap c.blocks # {}
       /\ c.next[x] = RegionEdges(p, h, u, c.blocks, x)
  /\ \A S \in SUBSET c.blocks : u \in S /\ Closed(h, c.blocks, S) => S = c.blocks

LEMMA SourceLives ==
  ASSUME NEW p, NEW h, NEW u, NEW c, Source(p, h, u, c)
  PROVE  c.blocks \subseteq Live(h)
  BY NullAssumption DEF Source, Good, Live

(* Along a recorded region, from its head.                                 *)
LEMMA AlongRegion ==
  ASSUME NEW h, NEW u, NEW t \in Seq(Addr), t # <<>>, t[1] = u, LoopIn(h, u, t),
         NEW blocks, ToSet(t) \subseteq blocks
  PROVE  /\ \A x \in ToSet(t) : h.blk[x].succs \cap blocks # {}
         /\ \A S : u \in S /\ Closed(h, blocks, S) => ToSet(t) \subseteq S
<1>1. /\ \A i \in 1 .. Len(t) - 1 : t[i + 1] \in h.blk[t[i]].succs
      /\ u \in h.blk[Last(t)].succs
  BY DEF LoopIn, IsPathIn
<1>2. /\ Len(t) \in Nat \ {0} /\ Last(t) = t[Len(t)]
      /\ \A i \in 1 .. Len(t) : t[i] \in ToSet(t)
      /\ \A x \in ToSet(t) : \E i \in 1 .. Len(t) : x = t[i]
  BY ToSetIndex DEF Last
<1>3. u \in ToSet(t)
  BY <1>2
<1>4. ASSUME NEW x \in ToSet(t) PROVE h.blk[x].succs \cap blocks # {}
  <2>1. PICK i \in 1 .. Len(t) : x = t[i]
    BY <1>2
  <2>2. CASE i = Len(t)
    BY <1>1, <1>2, <1>3, <2>1, <2>2
  <2>3. CASE i # Len(t)
    <3>1. i \in 1 .. Len(t) - 1 /\ i + 1 \in 1 .. Len(t)
      BY <1>2, <2>3
    <3> QED BY <1>1, <1>2, <2>1, <3>1
  <2> QED BY <2>2, <2>3
<1>5. ASSUME NEW S, u \in S, Closed(h, blocks, S), ~(ToSet(t) \subseteq S) PROVE FALSE
  <2> DEFINE T == {i \in 1 .. Len(t) : t[i] \notin S}
  <2>1. T \in SUBSET Nat /\ T # {}
    BY <1>2, <1>5
  <2>2. PICK n \in T : \A m \in T : n <= m
    BY <2>1, Least
  <2>3. n \in 1 .. Len(t) /\ t[n] \notin S /\ n # 1
    BY <1>5, <2>2
  <2>4. n - 1 \in 1 .. Len(t) /\ n - 1 \in 1 .. Len(t) - 1 /\ n - 1 \notin T
    BY <1>2, <2>2, <2>3
  <2>5. t[n - 1] \in S /\ t[(n - 1) + 1] = t[n] /\ t[n] \in blocks
    BY <1>2, <2>3, <2>4
  <2> QED BY <1>1, <1>5, <2>3, <2>4, <2>5 DEF Closed
<1> QED BY <1>4, <1>5

(* The compilation: the recorded graph, in which the head gets its code.   *)
IsCompiled(r) ==
  /\ CanClose(prog, r, cBB) /\ PathsOK(r) /\ enoughRegions(r, cBB)
  /\ g' = Coded(r, cBB, buildCFG(prog, r, cBB, TraceBlocks(r, cBB)))

LEMMA CompiledIs ==
  ASSUME Aug = "none", IInv, Trailing, ExecuteJIT,
         g.blk[cBB].code = None, g'.blk[cBB].code # None
  PROVE  \E r : IsCompiled(r)
<1>1. /\ prog \in Programs /\ GraphOK(prog, g) /\ cBB \in Done(g) /\ cBB \in Addr
      /\ Live(g) = Done(g) /\ mode = "loop" /\ ~brk /\ BlocksOK
  BY AtDispatch
<1>2. g \in GraphType /\ g.rf \in FinderType /\ TraceOK(g)
  BY <1>1 DEF GraphOK, GraphType
<1> DEFINE t == g.rf.hist
<1>3. /\ g.rf.on => IsPathIn(g, t) /\ (t # <<>> => cBB \in g.blk[Last(t)].succs)
      /\ t \in Seq(Addr)
  BY <1>1, <1>2 DEF Trailing, PathsOK, OnTrail, FinderType
<1>4. RegionComplete(g.rf, cBB)
  <2> SUFFICES ASSUME ~RegionComplete(g.rf, cBB) PROVE FALSE
    OBVIOUS
  <2>1. g' = [g EXCEPT !.rf = update(@, cBB)]
    BY DEF ExecuteJIT, Dispatched
  <2>2. g'.blk = g.blk
    BY <2>1, SeenOK
  <2> QED BY <2>2
<1> DEFINE f == getRegion(update(g.rf, cBB))
           h == [g EXCEPT !.rf = getRegion(update(@, cBB))]
           r == Recorded(h, cBB, t)
<1>5. PICK typed \in {TRUE, EnableBoth}, up \in {TRUE} : g' = RegionClosed(h, t, typed, up)
  BY <1>4, OptionsAssumption DEF ExecuteJIT, Dispatched
<1>6. g.rf.on /\ cBB = g.rf.head /\ t # <<>>
  BY <1>4 DEF RegionComplete
<1>7. t[1] = cBB /\ ToSet(t) \subseteq Done(g)
  BY <1>2, <1>6 DEF TraceOK
<1>8. f \in FinderType /\ ~f.on
  <2>1. update(g.rf, cBB) \in FinderType /\ ~update(g.rf, cBB).on
    BY <1>1, <1>2, <1>4, UpdateType
  <2> QED BY <2>1, GetRegionType
<1> HIDE DEF f
<1>9. h.rf = f /\ h.blk = g.blk /\ h = [g EXCEPT !.rf = f]
  BY <1>2 DEF f
<1> HIDE DEF h, t
<1>10. Live(h) = Live(g) /\ Done(h) = Done(g) /\ PathsOK(h)
  BY <1>8, <1>9, SamePaths DEF Live, Done, Trailing
<1>11. CanClose(prog, h, cBB)
  <2>1. TraceOK(h)
    BY <1>8, <1>9 DEF TraceOK
  <2>2. GraphOK(prog, h)
    BY <1>1, <1>8, <1>9, <2>1, FinderFrame
  <2> QED BY <1>1, <1>8, <1>9, <1>10, <2>2 DEF CanClose
<1>12. CanClose(prog, r, cBB) /\ PathsOK(r)
  <2>1. IsPathIn(h, t) /\ cBB \in h.blk[Last(t)].succs
    BY <1>3, <1>6, <1>9 DEF IsPathIn
  <2>2. CanClose(prog, r, cBB)
    BY <1>3, <1>6, <1>7, <1>10, <1>11, RecordedOK
  <2>3. PathsOK(r)
    BY <1>3, <1>6, <1>7, <1>10, <1>11, <2>1, RecordedPaths
  <2> QED BY <2>2, <2>3
<1> DEFINE can == canCompileRegion(prog, r, t)
           blocks == RegionOf(r, up)
           c == buildCFG(prog, r, cBB, blocks)
<1>13. r.blk[cBB].code = None /\ r \in GraphType /\ r.blk[cBB] \in BlockType
  <2>1. cBB \in Live(r) /\ r.blk[cBB].code = None /\ GraphOK(prog, r)
    BY <1>12 DEF CanClose, Done
  <2> HIDE DEF r
  <2> QED BY <2>1 DEF GraphOK, GraphType, Live
<1>14. g' = IF enoughRegions(r, cBB) /\ can THEN Compiled(r, blocks, typed)
            ELSE Disowned(r, cBB, IF can THEN r.blk[cBB].traces ELSE {})
  <2>1. [r EXCEPT !.blk[cBB].has = FALSE, !.blk[cBB].traces = IF can THEN @ ELSE {}]
          = Disowned(r, cBB, IF can THEN r.blk[cBB].traces ELSE {})
    BY <1>13 DEF Disowned
  <2> QED BY <1>5, <2>1 DEF RegionClosed, RegionOf, Recorded
<1> HIDE DEF r, can
<1>15. enoughRegions(r, cBB) /\ can
  <2>1. ASSUME NEW T PROVE Disowned(r, cBB, T).blk[cBB].code = None
    BY <1>1, <1>13 DEF Disowned, GraphType, BlockType
  <2> QED BY <1>14, <2>1
<1>16. g' = Coded(r, cBB, c)
  <2>1. Uncoded(r, cBB).blk[cBB].code = None
    BY <1>1, <1>13 DEF Uncoded, GraphType, BlockType
  <2>2. g' = Coded(r, cBB, c) \/ g' = Uncoded(r, cBB)
    BY <1>14, <1>15 DEF Compiled, Coded, Uncoded
  <2> QED BY <2>1, <2>2
<1>17. blocks = TraceBlocks(r, cBB)
  BY DEF RegionOf
<1>18. IsCompiled(r)
  BY <1>12, <1>15, <1>16, <1>17 DEF IsCompiled
<1> QED BY <1>18

LEMMA SourceIs ==
  ASSUME Aug = "none", IInv, Trailing, OnEdge, ExecuteJIT,
         g.blk[cBB].code = None, g'.blk[cBB].code # None
  PROVE  Source(prog, g', cBB, g'.blk[cBB].code)
<1>1. PICK r : IsCompiled(r)
  BY CompiledIs
<1> DEFINE blocks == TraceBlocks(r, cBB)
           c == buildCFG(prog, r, cBB, blocks)
           B(x) == g'.blk[x]
<1>2. /\ GraphOK(prog, r) /\ cBB \in Live(r) /\ cBB \in Addr /\ Live(r) = Done(r)
      /\ r.blk[cBB] \in BlockType /\ r \in GraphType
      /\ \A s \in r.blk[cBB].traces : LoopIn(r, cBB, s[1])
      /\ TracesOK(Done(r), cBB, r.blk[cBB])
  <2>1. GraphOK(prog, r) /\ cBB \in Live(r) /\ PathsOK(r) /\ Live(r) = Done(r)
    BY <1>1 DEF IsCompiled, CanClose, Done
  <2> QED BY <2>1 DEF GraphOK, GraphType, BlockOK, PathsOK, Live
<1>3. g' = Coded(r, cBB, c)
  BY <1>1 DEF IsCompiled
<1>4. cBB \in blocks /\ blocks \subseteq Done(r) /\ blocks \subseteq Addr
  <2>1. TraceBlocks(r, cBB) \subseteq Done(r) /\ cBB \in TraceBlocks(r, cBB)
    BY <1>1, RegionBlocks DEF IsCompiled
  <2> QED BY <2>1 DEF Done, Live
<1>5. \A s \in r.blk[cBB].traces :
        /\ s[1] \in Seq(Addr) /\ s[1] # <<>> /\ s[1][1] = cBB
        /\ LoopIn(r, cBB, s[1]) /\ ToSet(s[1]) \subseteq blocks
  BY <1>2 DEF TracesOK, BlockType, TraceBlocks
<1>6. \A x \in Addr : g'.blk[x].ins = r.blk[x].ins /\ g'.blk[x].succs = r.blk[x].succs
  <2>1. \A x \in Addr \ {cBB} : g'.blk[x] = r.blk[x]
    BY <1>2, <1>3 DEF Coded, GraphType
  <2>2. g'.blk[cBB].ins = r.blk[cBB].ins /\ g'.blk[cBB].succs = r.blk[cBB].succs
    BY <1>2, <1>3 DEF Coded, GraphType, BlockType
  <2> QED BY <2>1, <2>2
<1>7. g'.blk[cBB].code = c
  BY <1>2, <1>3 DEF Coded, GraphType, BlockType
<1>8. /\ c.blocks = blocks
      /\ \A x \in blocks : c.ins[x] = r.blk[x].ins /\ c.next[x] = RegionEdges(prog, r, cBB, blocks, x)
  <2>1. /\ c.blocks = blocks
        /\ c.ins = [x \in Addr |-> IF x \in blocks THEN r.blk[x].ins ELSE <<>>]
        /\ c.next = [x \in Addr |-> IF x \in blocks THEN RegionEdges(prog, r, cBB, blocks, x) ELSE {}]
    BY DEF buildCFG
  <2> HIDE DEF c, blocks
  <2> QED BY <1>4, <2>1
<1> HIDE DEF c, blocks
<1>9. \A x \in blocks : c.next[x] = RegionEdges(prog, g', cBB, blocks, x)
  BY <1>4, <1>6, <1>8 DEF RegionEdges
<1>10. IInv' /\ OnEdge' /\ ~brk' /\ prog' = prog /\ cBB' = cBB
  BY ExecuteJITKeeps, ExecuteJITOnEdge DEF ExecuteJIT
<1>11. /\ \A x \in blocks : g'.blk[x] \in BlockType /\ BlockOK(prog, Live(g'), Done(g'), x, g'.blk[x])
                            /\ x \in Done(g')
       /\ Real(prog, g') /\ CodeOK(prog, Done(g'), cBB, c)
  <2>1. GraphOK(prog, g')
    <3>1. BlocksOK'
      <4>1. mode' # "exit"
        BY DEF ExecuteJIT
      <4> QED BY <1>10, <4>1 DEF IInv
    <3> QED BY <1>10, <3>1 DEF BlocksOK
  <2>2. Real(prog, g')
    BY <1>10 DEF OnEdge, Real, Leads, Live
  <2>3. CodeOK(prog, Done(g'), cBB, c)
    <3>1. c # None
      BY <1>7
    <3>2. cBB \in Live(g')
      BY AtDispatch, DispatchedOK DEF Done
    <3> QED BY <1>7, <2>1, <3>1, <3>2 DEF GraphOK, BlockOK
  <2>4. blocks \subseteq Done(g')
    BY <1>8, <2>3 DEF CodeOK
  <2> QED BY <2>1, <2>2, <2>3, <2>4 DEF GraphOK, GraphType, Done, Live
<1>12. \A x \in blocks : Good(prog, g'.blk[x]) /\ Consecutive(x, g'.blk[x])
  <2> SUFFICES ASSUME NEW x \in blocks PROVE Good(prog, g'.blk[x]) /\ Consecutive(x, g'.blk[x])
    OBVIOUS
  <2>1. x \in Live(g') /\ g'.blk[x].ro /\ Ended(prog, g'.blk[x]) /\ LikelyOK(prog, g'.blk[x])
        /\ Consecutive(x, g'.blk[x]) /\ g'.blk[x] \in BlockType
    BY <1>11 DEF BlockOK, Done
  <2>2. \A a \in ToSet(g'.blk[x].ins) : canCompileInstr(prog[a].kind)
    <3>1. g'.blk[x].ins = c.ins[x] /\ x \in c.blocks
      BY <1>4, <1>6, <1>8
    <3> QED BY <1>11, <3>1 DEF CodeOK
  <2>3. g'.blk[x].succs \subseteq NextPcs(prog, g'.blk[x].term)
    BY <1>11, <2>1 DEF Real, Leads
  <2> QED BY <2>1, <2>2, <2>3 DEF Good
<1>13. \A S : \A x \in blocks : g'.blk[x].succs \cap S = r.blk[x].succs \cap S
  BY <1>4, <1>6
<1>14. \A x \in blocks : g'.blk[x].succs \cap blocks # {}
  <2> SUFFICES ASSUME NEW x \in blocks PROVE r.blk[x].succs \cap blocks # {}
    BY <1>13
  <2>1. PICK s \in r.blk[cBB].traces : x \in ToSet(s[1])
    BY DEF blocks, TraceBlocks
  <2> QED BY <1>5, <2>1, AlongRegion
<1>15. \A S \in SUBSET blocks : cBB \in S /\ Closed(g', blocks, S) => S = blocks
  <2> SUFFICES ASSUME NEW S \in SUBSET blocks, cBB \in S, Closed(g', blocks, S),
                      NEW x \in blocks
               PROVE  x \in S
    OBVIOUS
  <2>1. Closed(r, blocks, S)
    BY <1>13 DEF Closed
  <2>2. PICK s \in r.blk[cBB].traces : x \in ToSet(s[1])
    BY DEF blocks, TraceBlocks
  <2>3. ToSet(s[1]) \subseteq S
    BY <1>5, <2>1, <2>2, AlongRegion
  <2> QED BY <2>2, <2>3
<1> QED BY <1>4, <1>7, <1>8, <1>9, <1>12, <1>14, <1>15 DEF Source

-----------------------------------------------------------------------------
(* The cfgBasicBlocks.  A block ends with its jump or branch and the delay *)
(* slot, or has neither.                                                   *)
LEMMA BlockEnds ==
  ASSUME NEW p \in Programs, NEW x \in Addr, NEW B, Good(p, B), Consecutive(x, B)
  PROVE  LET s == B.ins IN
         /\ s \in Seq(Addr) /\ Len(s) \in Nat \ {0} /\ x \in Nat
         /\ \A i \in 1 .. Len(s) : s[i] = x + i - 1 /\ s[i] \in ToSet(s)
         /\ Last(s) = x + Len(s) - 1 /\ Exits(p, s) = NextPcs(p, B.term)
         /\ \A a \in ToSet(s) : isBranchOrJump(p[a].kind) => a = B.term
         /\ \/ /\ isBranchOrJump(p[B.term].kind)
               /\ Len(s) >= 2 /\ B.term = x + Len(s) - 2
            \/ /\ \A a \in ToSet(s) : ~isBranchOrJump(p[a].kind)
               /\ B.term = Last(s) /\ NextPcs(p, B.term) = {B.term + 1}
<1> DEFINE s == B.ins
<1>1. /\ s \in Seq(Addr) /\ s # <<>> /\ B.term = BranchOf(p, s)
      /\ isBranchOrJump(p[B.term].kind) => B.term # Last(s)
      /\ \A a \in ToSet(s) : EndsBlock(p[a].kind) => a = B.term
      /\ \A a \in ToSet(s) : canCompileInstr(p[a].kind)
      /\ \A i \in 1 .. Len(s) : s[i] = x + i - 1
  BY DEF Good, Ended, BlockType, Consecutive
<1> HIDE DEF s
<1>2. Len(s) \in Nat \ {0} /\ x \in Nat /\ \A i \in 1 .. Len(s) : s[i] \in ToSet(s)
  BY <1>1, ToSetIndex, ProgramsAssumption
<1>3. Last(s) = s[Len(s)] /\ Last(s) = x + Len(s) - 1 /\ Last(s) \in ToSet(s)
  BY <1>1, <1>2 DEF Last
<1>4. \A a \in ToSet(s) : isBranchOrJump(p[a].kind) => a = B.term
  BY <1>1 DEF EndsBlock
<1>5. CASE Len(s) >= 2 /\ isBranchOrJump(p[s[Len(s) - 1]].kind)
  <2>1. B.term = s[Len(s) - 1] /\ Len(s) - 1 \in 1 .. Len(s)
    BY <1>1, <1>2, <1>5 DEF BranchOf
  <2>2. B.term = x + Len(s) - 2
    BY <1>1, <1>2, <2>1
  <2> QED BY <1>1, <1>2, <1>3, <1>4, <1>5, <2>1, <2>2 DEF Exits, s
<1>6. CASE ~(Len(s) >= 2 /\ isBranchOrJump(p[s[Len(s) - 1]].kind))
  <2>1. B.term = Last(s)
    BY <1>1, <1>6 DEF BranchOf
  <2>2. \A a \in ToSet(s) : ~isBranchOrJump(p[a].kind)
    BY <1>1, <1>4, <2>1
  <2>3. ~EndsBlock(p[B.term].kind)
    BY <1>1, <1>3, <2>1, <2>2 DEF EndsBlock, canCompileInstr
  <2>4. NextPcs(p, B.term) = {B.term + 1}
    BY <2>3, PlainNext
  <2> QED BY <1>1, <1>2, <1>3, <1>4, <2>1, <2>2, <2>4 DEF Exits, s
<1> QED BY <1>5, <1>6

(* What a block of the CFG has to do with the basic block B.               *)
Copies(p, x, B, s) ==
  /\ Lined(p, x, s)
  /\ {a \in ToSet(s) : isBranchOrJump(p[a].kind)} \subseteq {B.term}
  /\ {a \in ToSet(s) : isBranchOrJump(p[a].kind)} = {} =>
       Last(s) = B.term /\ NextPcs(p, B.term) = {B.term + 1}
  /\ \A a \in ToSet(s) : isBranchOrJump(p[a].kind) /\ a = Last(s) => p[a].kind = "brl"
  /\ \A a \in Addr : isBranchOrJump(p[a].kind) => (a \in ToSet(s) <=> a \in ToSet(B.ins))

LEMMA CopyOK ==
  ASSUME NEW p \in Programs, NEW x \in Addr, NEW B, Good(p, B), Consecutive(x, B)
  PROVE  Copies(p, x, B, cfgBasicBlock(B))
<1> DEFINE s == B.ins
           t == cfgBasicBlock(B)
           len == Len(s)
<1>1. /\ s \in Seq(Addr) /\ len \in Nat \ {0} /\ x \in Nat
      /\ \A i \in 1 .. len : s[i] = x + i - 1 /\ s[i] \in ToSet(s)
      /\ Last(s) = x + len - 1
      /\ \A a \in ToSet(s) : isBranchOrJump(p[a].kind) => a = B.term
      /\ \A a \in ToSet(s) : canCompileInstr(p[a].kind)
      /\ \A a \in ToSet(s) : \E i \in 1 .. len : a = s[i]
      /\ B.likely <=> \E a \in ToSet(s) : p[a].kind = "brl"
  BY BlockEnds, ToSetIndex DEF Good, LikelyOK
<1>2. \/ isBranchOrJump(p[B.term].kind) /\ len >= 2 /\ B.term = x + len - 2
      \/ /\ \A a \in ToSet(s) : ~isBranchOrJump(p[a].kind)
         /\ B.term = Last(s) /\ NextPcs(p, B.term) = {B.term + 1}
  BY BlockEnds
<1>3. isBranchOrJump("brl")
  BY DEF isBranchOrJump
<1>4. t = IF B.likely THEN Front(s) ELSE s
  BY DEF cfgBasicBlock
<1> HIDE DEF s, t, len
<1>5. CASE B.likely
  <2>1. len >= 2 /\ B.term = x + len - 2 /\ p[B.term].kind = "brl"
    BY <1>1, <1>2, <1>3, <1>5
  <2>2. /\ t \in Seq(Addr) /\ Len(t) = len - 1 /\ \A i \in 1 .. len - 1 : t[i] = s[i]
    <3>1. t = SubSeq(s, 1, len - 1)
      BY <1>4, <1>5 DEF Front, len
    <3> QED BY <1>1, <2>1, <3>1 DEF len
  <2>3. /\ \A i \in 1 .. Len(t) : t[i] = x + i - 1
        /\ t # <<>> /\ Last(t) = B.term
    BY <1>1, <2>1, <2>2 DEF Last
  <2>4. \A a \in ToSet(t) : a \in ToSet(s)
    <3>1. \A a \in ToSet(t) : \E i \in 1 .. Len(t) : a = t[i]
      BY <2>2, ToSetIndex
    <3>2. \A i \in 1 .. Len(t) : t[i] \in ToSet(s)
      BY <1>1, <2>1, <2>2
    <3> QED BY <3>1, <3>2
  <2>5. B.term \in ToSet(t)
    <3>1. Len(t) \in 1 .. Len(t)
      BY <2>1, <2>2, <1>1
    <3> QED BY <2>2, <2>3, <3>1, ToSetIndex DEF Last
  <2>6. Lined(p, x, t)
    BY <1>1, <2>2, <2>3, <2>4 DEF Lined
  <2>7. \A a \in Addr : isBranchOrJump(p[a].kind) => (a \in ToSet(t) <=> a \in ToSet(s))
    BY <1>1, <2>4, <2>5
  <2>8. /\ {a \in ToSet(t) : isBranchOrJump(p[a].kind)} = {B.term}
        /\ \A a \in ToSet(t) : isBranchOrJump(p[a].kind) => p[a].kind = "brl"
    BY <1>1, <1>3, <2>1, <2>4, <2>5
  <2> HIDE DEF t
  <2>9. Copies(p, x, B, t)
    BY <2>6, <2>7, <2>8 DEF Copies, s
  <2> QED BY <2>9 DEF t
<1>6. CASE ~B.likely
  <2>1. t = s /\ s # <<>>
    BY <1>1, <1>4, <1>6 DEF len
  <2>2. \A a \in ToSet(s) : isBranchOrJump(p[a].kind) =>
          a = B.term /\ a = x + len - 2 /\ a = Last(s) - 1 /\ a # Last(s) /\ p[a].kind # "brl"
    BY <1>1, <1>2, <1>6
  <2>3. Lined(p, x, s)
    BY <1>1, <2>1, <2>2 DEF Lined, len
  <2>4. {a \in ToSet(s) : isBranchOrJump(p[a].kind)} = {} =>
          Last(s) = B.term /\ NextPcs(p, B.term) = {B.term + 1}
    <3> SUFFICES ASSUME isBranchOrJump(p[B.term].kind), len >= 2, B.term = x + len - 2
                 PROVE  B.term \in ToSet(s)
      BY <1>2
    <3>1. len - 1 \in 1 .. len /\ s[len - 1] = B.term
      BY <1>1
    <3> QED BY <1>1, <3>1
  <2>5. /\ {a \in ToSet(s) : isBranchOrJump(p[a].kind)} \subseteq {B.term}
        /\ \A a \in ToSet(s) : isBranchOrJump(p[a].kind) => a # Last(s)
    BY <2>2
  <2>6. Copies(p, x, B, s)
    BY <2>3, <2>4, <2>5 DEF Copies, s
  <2> QED BY <2>1, <2>6 DEF t
<1> QED BY <1>5, <1>6

-----------------------------------------------------------------------------
(* A CFG of the region, before its edges are added.                        *)
Cfg(p, u, C, cut) ==
  /\ Shape(p, C) /\ u \in Nodes(C) /\ u \in Addr /\ EdgesOK(p, C, cut)
  /\ C = [ins |-> C.ins, succs |-> C.succs]
  /\ Nodes(C) = {u} => u \in C.succs[u] \/ Indirect(p, C, u)

HasEdged(p, u, C, E) ==
  /\ Nodes(E) = Nodes(C) /\ E.ins = C.ins
  /\ \A n \in Nodes(C) :
       /\ E.succs[n] = Head2(p, C, u, n) /\ C.succs[n] \subseteq E.succs[n]
       /\ Terminators(p, E, n) = Terminators(p, C, n)
       /\ ~Indirect(p, C, n) => E.succs[n] = C.succs[n] \cup (DirectExits(p, C, n) \cap Nodes(C))

LEMMA OneTerminator ==
  ASSUME NEW p, NEW C, Shape(p, C), NEW n \in Nodes(C), NEW a \in Terminators(p, C, n)
  PROVE  /\ Terminators(p, C, n) = {a} /\ a \in Addr /\ a \in ToSet(C.ins[n])
         /\ isBranchOrJump(p[a].kind) /\ DirectExits(p, C, n) = NextPcs(p, a)
         /\ Indirect(p, C, n) <=> p[a].kind \in {"jr", "jalr"}
<1>1. Lined(p, n, C.ins[n]) /\ n \in Addr
  BY DEF Shape
<1>2. a \in ToSet(C.ins[n]) /\ isBranchOrJump(p[a].kind)
  BY DEF Terminators
<1>3. a \in Addr
  BY <1>1, <1>2, LinedEnds
<1>4. Terminators(p, C, n) = {a}
  BY <1>1, <1>2 DEF Terminators, Lined
<1> QED BY <1>2, <1>3, <1>4 DEF DirectExits, Indirect

LEMMA EdgedOK ==
  ASSUME NEW p, NEW u, NEW C, NEW cut, Cfg(p, u, C, cut)
  PROVE  LET E == Edged(p, u, C) IN
         HasEdged(p, u, C, E) /\ Shape(p, E) /\ (p \in Programs => EdgesOK(p, E, cut))
<1> DEFINE E == Edged(p, u, C)
           N == Nodes(C)
           S == [n \in N |-> Head2(p, C, u, n)]
<1>1. /\ Shape(p, C) /\ u \in N /\ u \in Addr /\ EdgesOK(p, C, cut)
      /\ N = {u} => u \in C.succs[u] \/ Indirect(p, C, u)
      /\ C = [ins |-> C.ins, succs |-> C.succs]
  BY DEF Cfg
<1>2. E = [ins |-> C.ins, succs |-> S]
  BY <1>1, EdgedIs
<1>3. E.ins = C.ins /\ E.succs = S
  BY <1>2
<1> HIDE DEF E
<1>4. Nodes(E) = N
  BY <1>3 DEF Nodes
<1>5. \A n \in N : /\ E.succs[n] = Head2(p, C, u, n) /\ C.succs[n] \subseteq E.succs[n]
                   /\ Terminators(p, E, n) = Terminators(p, C, n)
  BY <1>3 DEF Head2, Terminators
<1>6. \A n \in N : ~Indirect(p, C, n) =>
        E.succs[n] = C.succs[n] \cup (DirectExits(p, C, n) \cap N)
  BY <1>1, <1>5 DEF Head2
<1>7. HasEdged(p, u, C, E)
  BY <1>3, <1>4, <1>5, <1>6 DEF HasEdged
<1>8. Shape(p, E)
  <2>1. \A n \in N : Head2(p, C, u, n) \subseteq N
    BY <1>1 DEF Head2, Shape
  <2>2. E.succs \in [N -> SUBSET N]
    BY <1>3, <2>1
  <2> QED BY <1>1, <1>3, <1>4, <2>2 DEF Shape
<1>9. ASSUME p \in Programs, NEW n \in N
      PROVE  /\ Terminators(p, E, n) = {} => E.succs[n] \subseteq {Last(E.ins[n]) + 1}
             /\ \A a \in Terminators(p, E, n) :
                  /\ p[a].kind = "jal" => E.succs[n] \subseteq p[a].to
                  /\ p[a].kind = "j" =>
                       E.succs[n] \subseteq p[a].to \cup (IF cut THEN {a + 2} ELSE {})
  <2>1. /\ Terminators(p, C, n) = {} => C.succs[n] \subseteq {Last(C.ins[n]) + 1}
        /\ \A a \in Terminators(p, C, n) :
             /\ p[a].kind = "jal" => C.succs[n] \subseteq p[a].to
             /\ p[a].kind = "j" =>
                  C.succs[n] \subseteq p[a].to \cup (IF cut THEN {a + 2} ELSE {})
    BY <1>1 DEF EdgesOK
  <2>2. CASE Terminators(p, C, n) = {}
    <3>1. ~Indirect(p, C, n) /\ DirectExits(p, C, n) = {Last(C.ins[n]) + 1}
      BY <2>2 DEF Indirect, DirectExits
    <3> QED BY <1>3, <1>5, <1>6, <2>1, <2>2, <3>1
  <2>3. ASSUME NEW a \in Terminators(p, C, n), p[a].kind \in {"j", "jal"}
        PROVE  E.succs[n] \subseteq C.succs[n] \cup p[a].to
    <3>1. ~Indirect(p, C, n) /\ DirectExits(p, C, n) = p[a].to
      BY <1>1, <2>3, OneTerminator DEF NextPcs
    <3> QED BY <1>6, <3>1
  <2> QED BY <1>5, <2>1, <2>2, <2>3
<1>10. p \in Programs => EdgesOK(p, E, cut)
  BY <1>4, <1>9 DEF EdgesOK
<1> QED BY <1>7, <1>8, <1>10 DEF E

(* The code of the region is reached from its head, patch blocks included. *)
LEMMA PatchedReach ==
  ASSUME NEW p, NEW E, NEW D, Shape(p, E), HasPatched(p, E, D), NEW u \in Nodes(E),
         \A T \in SUBSET Nodes(E) :
           u \in T /\ (\A x \in T : E.succs[x] \subseteq T) => T = Nodes(E)
  PROVE  allBlocksReachable(D, u)
<1> SUFFICES ASSUME NEW S \in SUBSET Nodes(D), u \in S, \A n \in S : D.succs[n] \subseteq S
             PROVE  S = Nodes(D)
  BY DEF allBlocksReachable
<1> DEFINE T == S \cap Nodes(E)
<1>1. \A x \in T : x \in Likelies(p, E) => Patch(x) \in S
  BY DEF HasPatched, PatchedTo
<1>2. ASSUME NEW x \in T PROVE E.succs[x] \subseteq T
  <2>1. E.succs[x] \subseteq Nodes(E)
    BY DEF Shape
  <2>2. CASE x \notin Likelies(p, E)
    BY <2>1, <2>2 DEF HasPatched, PatchedTo
  <2>3. CASE x \in Likelies(p, E)
    <3>1. Patch(x) \in S /\ D.succs[Patch(x)] = E.succs[x] \cap {LikelyTaken(p, E, x)}
      BY <1>1, <2>3 DEF HasPatched
    <3>2. D.succs[x] = {Patch(x)} \cup (E.succs[x] \ {LikelyTaken(p, E, x)})
      BY <2>3 DEF HasPatched, PatchedTo
    <3> QED BY <2>1, <3>1, <3>2
  <2> QED BY <2>2, <2>3
<1>3. T = Nodes(E)
  BY <1>2
<1>4. Nodes(E) \subseteq S /\ Likelies(p, E) \subseteq T
  BY <1>3 DEF Likelies
<1> QED BY <1>1, <1>4 DEF HasPatched

-----------------------------------------------------------------------------
(* What the copies take of the blocks' successors: all of them, but for    *)
(* the one of several that repairBrokenEdges keeps after a jalr.           *)
Kept(p, h, blocks, f) ==
  \A x \in blocks :
    /\ f[x] \subseteq h.blk[x].succs
    /\ f[x] = h.blk[x].succs \/ \E a \in ToSet(h.blk[x].ins) : p[a].kind = "jalr"

IsCopy(p, h, blocks, f, C) ==
  /\ Nodes(C) = blocks /\ C = [ins |-> C.ins, succs |-> C.succs]
  /\ \A x \in blocks :
       /\ C.ins[x] = cfgBasicBlock(h.blk[x]) /\ Copies(p, x, h.blk[x], C.ins[x])
       /\ C.succs[x] = f[x] \cap blocks
       /\ DirectExits(p, C, x) = NextPcs(p, h.blk[x].term)
       /\ Exits(p, h.blk[x].ins) = NextPcs(p, h.blk[x].term)
       /\ Indirect(p, C, x) <=> \E a \in ToSet(h.blk[x].ins) : p[a].kind \in {"jr", "jalr"}
       /\ Terminators(p, C, x) = {} => NextPcs(p, h.blk[x].term) = {Last(C.ins[x]) + 1}
       /\ \A a \in Terminators(p, C, x) :
            /\ a = h.blk[x].term
            /\ p[a].kind # "brl" => a # Last(C.ins[x])

(* A copy with these successors.                                           *)
CopyOf(h, blocks, f) ==
  [ins |-> [x \in blocks |-> cfgBasicBlock(h.blk[x])],
   succs |-> [x \in blocks |-> f[x] \cap blocks]]

LEMMA CopiedOK ==
  ASSUME NEW p \in Programs, NEW h, NEW u, NEW c, Source(p, h, u, c),
         NEW f, Kept(p, h, c.blocks, f)
  PROVE  LET C == CopyOf(h, c.blocks, f) IN
         IsCopy(p, h, c.blocks, f, C) /\ \A cut \in BOOLEAN : Cfg(p, u, C, cut)
<1> DEFINE N == c.blocks
           C == CopyOf(h, N, f)
           B(x) == h.blk[x]
<1>1. /\ N \subseteq Addr /\ u \in N
      /\ \A x \in N : Good(p, B(x)) /\ Consecutive(x, B(x)) /\ B(x).succs \cap N # {}
  BY DEF Source
<1>2. /\ Nodes(C) = N /\ C = [ins |-> C.ins, succs |-> C.succs]
      /\ C.succs = [x \in N |-> f[x] \cap N]
      /\ \A x \in N : C.ins[x] = cfgBasicBlock(B(x)) /\ C.succs[x] = f[x] \cap N
  BY DEF CopyOf, Nodes
<1> HIDE DEF C, N
<1>3. \A x \in N : Copies(p, x, B(x), C.ins[x]) /\ Exits(p, B(x).ins) = NextPcs(p, B(x).term)
  <2> SUFFICES ASSUME NEW x \in N
               PROVE  Copies(p, x, B(x), C.ins[x]) /\ Exits(p, B(x).ins) = NextPcs(p, B(x).term)
    OBVIOUS
  <2>1. Good(p, B(x)) /\ Consecutive(x, B(x)) /\ x \in Addr /\ C.ins[x] = cfgBasicBlock(B(x))
    BY <1>1, <1>2
  <2> HIDE DEF B
  <2>2. Exits(p, B(x).ins) = NextPcs(p, B(x).term)
    BY <2>1, BlockEnds
  <2> QED BY <2>1, <2>2, CopyOK
<1>4. Shape(p, C)
  <2>1. \A x \in N : Lined(p, x, C.ins[x])
    BY <1>3 DEF Copies
  <2>2. C.succs \in [N -> SUBSET N]
    BY <1>2
  <2> QED BY <1>1, <1>2, <2>1, <2>2 DEF Shape
<1>5. ASSUME NEW x \in N
      PROVE  /\ DirectExits(p, C, x) = NextPcs(p, B(x).term)
             /\ Indirect(p, C, x) <=> \E a \in ToSet(B(x).ins) : p[a].kind \in {"jr", "jalr"}
             /\ Terminators(p, C, x) = {} => NextPcs(p, B(x).term) = {Last(C.ins[x]) + 1}
             /\ \A a \in Terminators(p, C, x) : a = B(x).term /\ (p[a].kind # "brl" => a # Last(C.ins[x]))
  <2> DEFINE T == Terminators(p, C, x)
             t == B(x).term
             s == C.ins[x]
  <2>1. T = {a \in ToSet(s) : isBranchOrJump(p[a].kind)}
    BY DEF Terminators
  <2>2. /\ T \subseteq {t} /\ (T = {} => Last(s) = t /\ NextPcs(p, t) = {t + 1})
        /\ \A a \in T : a = Last(s) => p[a].kind = "brl"
        /\ \A a \in Addr : isBranchOrJump(p[a].kind) => (a \in ToSet(s) <=> a \in ToSet(B(x).ins))
    BY <1>3, <2>1 DEF Copies
  <2>3. T = {} => DirectExits(p, C, x) = NextPcs(p, t)
    BY <2>2 DEF DirectExits
  <2>4. T # {} => T = {t} /\ DirectExits(p, C, x) = NextPcs(p, t)
    BY <2>2 DEF DirectExits
  <2>5. Indirect(p, C, x) <=> \E a \in ToSet(B(x).ins) : p[a].kind \in {"jr", "jalr"}
    <3>1. \A a \in ToSet(s) : a \in Addr
      BY <1>1, <1>3, LinedEnds DEF Copies
    <3>2. \A a \in ToSet(B(x).ins) : a \in Addr
      <4>1. B(x).ins \in Seq(Addr)
        BY <1>1 DEF Good, BlockType
      <4> QED BY <4>1, ToSetIndex
    <3>3. \A k : k \in {"jr", "jalr"} => isBranchOrJump(k)
      BY DEF isBranchOrJump
    <3>4. Indirect(p, C, x) <=> \E a \in T : p[a].kind \in {"jr", "jalr"}
      BY DEF Indirect
    <3> HIDE DEF T, s, B
    <3> QED BY <2>1, <2>2, <3>1, <3>2, <3>3, <3>4
  <2> QED BY <2>2, <2>3, <2>4, <2>5
<1>6. IsCopy(p, h, N, f, C)
  BY <1>2, <1>3, <1>5 DEF IsCopy
<1>7. \A x \in N : C.succs[x] \subseteq NextPcs(p, B(x).term)
  BY <1>1, <1>2 DEF Kept, N, Good
<1>8. ASSUME NEW cut \in BOOLEAN PROVE EdgesOK(p, C, cut)
  <2> SUFFICES ASSUME NEW n \in N
               PROVE  /\ Terminators(p, C, n) = {} => C.succs[n] \subseteq {Last(C.ins[n]) + 1}
                      /\ \A a \in Terminators(p, C, n) :
                           /\ p[a].kind = "jal" => C.succs[n] \subseteq p[a].to
                           /\ p[a].kind = "j" =>
                                C.succs[n] \subseteq p[a].to \cup (IF cut THEN {a + 2} ELSE {})
    BY <1>2 DEF EdgesOK
  <2>1. \A a \in Terminators(p, C, n) : p[a].kind \in {"j", "jal"} => C.succs[n] \subseteq p[a].to
    BY <1>5, <1>7 DEF NextPcs
  <2> QED BY <1>5, <1>7, <2>1
<1>9. N = {u} => u \in C.succs[u] \/ Indirect(p, C, u)
  <2> SUFFICES ASSUME N = {u}, ~Indirect(p, C, u) PROVE u \in C.succs[u]
    OBVIOUS
  <2>1. \A a \in ToSet(B(u).ins) : p[a].kind # "jalr"
    BY <1>5
  <2>2. f[u] = B(u).succs
    BY <2>1 DEF Kept, N
  <2> QED BY <1>1, <1>2, <2>2
<1> QED BY <1>1, <1>2, <1>4, <1>6, <1>8, <1>9 DEF Cfg, C, N

-----------------------------------------------------------------------------
(* Without --splitCFGBBs.                                                  *)
LEMMA WholeBuilt ==
  ASSUME NEW p \in Programs, NEW h, NEW u, NEW c, Source(p, h, u, c)
  PROVE  LET C == Copied(h, c.blocks) IN
         /\ IsCopy(p, h, c.blocks, [x \in c.blocks |-> h.blk[x].succs], C)
         /\ Cfg(p, u, C, FALSE)
<1> DEFINE f == [x \in c.blocks |-> h.blk[x].succs]
           C == Copied(h, c.blocks)
<1>1. Kept(p, h, c.blocks, f)
  BY DEF Kept
<1>2. C = CopyOf(h, c.blocks, f)
  BY DEF Copied, CopyOf
<1> HIDE DEF f, C
<1>3. IsCopy(p, h, c.blocks, f, C) /\ Cfg(p, u, C, FALSE)
  BY <1>1, <1>2, CopiedOK
<1> QED BY <1>3 DEF C, f

LEMMA WholePlausible ==
  ASSUME NEW p \in Programs, NEW h, NEW u, NEW c, Source(p, h, u, c),
         NEW n \in c.blocks
  PROVE  Plausible(p, Edged(p, u, Copied(h, c.blocks)), n)
<1> DEFINE C == Copied(h, c.blocks)
           E == Edged(p, u, C)
           f == [x \in c.blocks |-> h.blk[x].succs]
<1>1. IsCopy(p, h, c.blocks, f, C) /\ Cfg(p, u, C, FALSE)
  BY WholeBuilt
<1> HIDE DEF C
<1>2. HasEdged(p, u, C, E) /\ Shape(p, C)
  BY <1>1, EdgedOK DEF Cfg
<1> HIDE DEF E
<1>3. SUFFICES ASSUME NEW a \in Terminators(p, C, n)
               PROVE  /\ p[a].kind \in {"br", "brl"} => E.succs[n] \subseteq NextPcs(p, a)
                      /\ p[a].kind = "j" => TakenAddr(p, a) \in E.succs[n]
                      /\ p[a].kind = "jal" => E.succs[n] # {}
                      /\ p[a].kind # "brl" => a # Last(E.ins[n])
  BY <1>1, <1>2 DEF Plausible, HasEdged, IsCopy, E, C
<1>4. /\ a = h.blk[n].term /\ (p[a].kind # "brl" => a # Last(C.ins[n]))
      /\ C.succs[n] = h.blk[n].succs \cap c.blocks
  BY <1>1 DEF IsCopy
<1>5. /\ h.blk[n].succs \subseteq NextPcs(p, a) /\ h.blk[n].succs \cap c.blocks # {}
  BY <1>4 DEF Source, Good
<1>6. n \in Nodes(C) /\ a \in Addr
  BY <1>1, <1>2, OneTerminator DEF IsCopy
<1>7. /\ DirectExits(p, C, n) = NextPcs(p, a)
      /\ p[a].kind \notin {"jr", "jalr"} =>
           E.succs[n] = C.succs[n] \cup (NextPcs(p, a) \cap Nodes(C))
      /\ C.succs[n] \subseteq E.succs[n] /\ E.ins = C.ins
  BY <1>2, <1>6, OneTerminator DEF HasEdged
<1>8. p[a].kind = "j" => TakenAddr(p, a) \in E.succs[n]
  BY <1>4, <1>5, <1>6, <1>7, DirectTo
<1> QED BY <1>4, <1>5, <1>7, <1>8

LEMMA WholeSurvives ==
  ASSUME NEW p \in Programs, NEW h, NEW u, NEW c, Source(p, h, u, c)
  PROVE  LET E == Edged(p, u, Copied(h, c.blocks)) IN
         /\ \A n \in Nodes(E) : Plausible(p, E, n)
         /\ allBlocksReachable(patchLikely(p, E), u)
<1> DEFINE C == Copied(h, c.blocks)
           E == Edged(p, u, C)
           f == [x \in c.blocks |-> h.blk[x].succs]
<1>1. IsCopy(p, h, c.blocks, f, C) /\ Cfg(p, u, C, FALSE)
  BY WholeBuilt
<1>2. \A n \in c.blocks : Plausible(p, E, n)
  BY WholePlausible
<1> HIDE DEF C
<1>3. HasEdged(p, u, C, E) /\ Shape(p, E) /\ Nodes(C) = c.blocks /\ u \in Nodes(C)
  BY <1>1, EdgedOK DEF Cfg, IsCopy
<1> HIDE DEF E
<1>4. Nodes(E) = c.blocks /\ \A x \in c.blocks : h.blk[x].succs \cap c.blocks \subseteq E.succs[x]
  <2>1. /\ Nodes(E) = c.blocks
        /\ \A x \in c.blocks : C.succs[x] \subseteq E.succs[x]
    BY <1>3 DEF HasEdged
  <2>2. \A x \in c.blocks : C.succs[x] = h.blk[x].succs \cap c.blocks
    BY <1>1 DEF IsCopy
  <2> QED BY <2>1, <2>2
<1>5. ASSUME NEW T \in SUBSET Nodes(E), u \in T, \A x \in T : E.succs[x] \subseteq T
      PROVE  T = Nodes(E)
  <2>1. Closed(h, c.blocks, T)
    BY <1>4, <1>5 DEF Closed
  <2> QED BY <1>4, <1>5, <2>1 DEF Source
<1>6. allBlocksReachable(patchLikely(p, E), u)
  <2>1. HasPatched(p, E, patchLikely(p, E))
    BY <1>3, PatchedIs
  <2> QED BY <1>3, <1>4, <1>5, <2>1, PatchedReach
<1> QED BY <1>2, <1>4, <1>6 DEF E, C

(* The edges of the copy Dispatch runs.                                    *)
LEMMA WholeBeyond ==
  ASSUME NEW p \in Programs, NEW h, NEW u, NEW c, Source(p, h, u, c), NEW n \in c.blocks
  PROVE  LET D == patchLikely(p, Edged(p, u, Copied(h, c.blocks))) IN
         n \in Nodes(D) /\ ~IsPatch(n) /\ Beyond(D, D.succs[n]) = c.next[n]
<1> DEFINE C == Copied(h, c.blocks)
           E == Edged(p, u, C)
           D == patchLikely(p, E)
           f == [x \in c.blocks |-> h.blk[x].succs]
<1>1. IsCopy(p, h, c.blocks, f, C) /\ Cfg(p, u, C, FALSE)
  BY WholeBuilt
<1> HIDE DEF C
<1>2. HasEdged(p, u, C, E) /\ Shape(p, E) /\ Nodes(C) = c.blocks
  BY <1>1, EdgedOK DEF IsCopy
<1> HIDE DEF E
<1>3. HasPatched(p, E, D) /\ n \in Nodes(E) /\ Nodes(E) = c.blocks
  BY <1>2, PatchedIs DEF HasEdged
<1> HIDE DEF D
<1>4. n \in Nodes(D) /\ ~IsPatch(n)
  BY <1>3 DEF HasPatched
<1>5. E.succs[n] = c.next[n]
  <2>1. E.succs[n] = Head2(p, C, u, n)
    BY <1>2 DEF HasEdged
  <2>2. /\ C.succs[n] = h.blk[n].succs \cap c.blocks
        /\ DirectExits(p, C, n) = Exits(p, h.blk[n].ins)
        /\ Indirect(p, C, n) <=> \E a \in ToSet(h.blk[n].ins) : p[a].kind \in {"jr", "jalr"}
    BY <1>1 DEF IsCopy
  <2>3. c.next[n] = RegionEdges(p, h, u, c.blocks, n)
    BY DEF Source
  <2> QED BY <1>2, <2>1, <2>2, <2>3 DEF Head2, RegionEdges
<1>6. E.succs[n] \subseteq Nodes(E)
  BY <1>2, <1>3 DEF Shape
<1>7. \A m \in Nodes(E) : ~IsPatch(m)
  BY <1>3 DEF HasPatched
<1>8. CASE n \notin Likelies(p, E)
  <2>1. D.succs[n] = E.succs[n]
    BY <1>3, <1>8 DEF HasPatched, PatchedTo
  <2>2. Beyond(D, D.succs[n]) = E.succs[n]
    BY <1>6, <1>7, <2>1 DEF Beyond
  <2> QED BY <1>4, <1>5, <2>2 DEF D, E, C
<1>9. CASE n \in Likelies(p, E)
  <2> DEFINE t == LikelyTaken(p, E, n)
  <2>1. /\ D.succs[n] = {Patch(n)} \cup (E.succs[n] \ {t})
        /\ IsPatch(Patch(n)) /\ D.succs[Patch(n)] = E.succs[n] \cap {t}
    BY <1>3, <1>9 DEF HasPatched, PatchedTo
  <2> HIDE DEF t
  <2>2. Beyond(D, D.succs[n]) = (E.succs[n] \cap {t}) \cup (E.succs[n] \ {t})
    BY <1>6, <1>7, <2>1 DEF Beyond
  <2>3. Beyond(D, D.succs[n]) = E.succs[n]
    BY <2>2
  <2> QED BY <1>4, <1>5, <2>3 DEF D, E, C
<1> QED BY <1>8, <1>9

-----------------------------------------------------------------------------
(* Between dispatches executeJIT works for no block, so that a step which  *)
(* compiles a region is a call of it.                                      *)
NoUnit == mode = "loop" => unit = None

LEMMA NextNoUnit ==
  ASSUME NoUnit, [Next]_vars
  PROVE  NoUnit'
<1>1. CASE BuildPlain \/ BuildEnd \/ BuildSync \/ BuildStop
  BY <1>1 DEF NoUnit, NotReady, BuildPlain, BuildEnd, BuildSync, BuildStop
<1>2. CASE ExecuteJIT
  BY <1>2 DEF NoUnit, ExecuteJIT
<1>3. CASE RunPlain \/ RunTrap \/ RunEnd \/ RunReturn
  BY <1>3 DEF NoUnit, RunPlain, RunTrap, RunEnd, RunReturn, Interpreting
<1>4. CASE CfgWithin \/ CfgEdge \/ CfgAbort
  BY <1>4 DEF NoUnit, CfgWithin, CfgEdge, CfgAbort
<1>5. CASE Post \/ Interrupt \/ Shutdown
  BY <1>5 DEF NoUnit, Post, Interrupt, Shutdown
<1>6. CASE Exited \/ UNCHANGED vars
  BY <1>6 DEF NoUnit, Exited, vars
<1> QED BY <1>1, <1>2, <1>3, <1>4, <1>5, <1>6 DEF Next

LEMMA AlwaysNoUnit == Spec => []NoUnit
<1>1. Init => NoUnit
  BY DEF Init, NoUnit
<1>2. NoUnit /\ [Next]_vars => NoUnit'
  BY NextNoUnit
<1> QED BY <1>1, <1>2, PTL DEF Spec

LEMMA CompilesIs ==
  ASSUME NoUnit, [Next]_vars, CompilesNow
  PROVE  /\ mode = "loop" /\ ExecuteJIT /\ unit' = cBB
         /\ g.blk[cBB].code = None /\ g'.blk[cBB].code # None
<1>1. /\ mode = "loop" /\ unit = None /\ unit' # None
      /\ g.blk[unit'].code = None /\ g'.blk[unit'].code # None
  BY DEF CompilesNow, NoUnit
<1>2. ExecuteJIT
  <2>1. ~(BuildPlain \/ BuildEnd \/ BuildSync \/ BuildStop)
    BY <1>1 DEF BuildPlain, BuildEnd, BuildSync, BuildStop
  <2>2. ~(RunPlain \/ RunTrap \/ RunEnd \/ RunReturn)
    BY <1>1 DEF RunPlain, RunTrap, RunEnd, RunReturn, Interpreting
  <2>3. ~(CfgWithin \/ CfgEdge \/ CfgAbort \/ Post)
    BY <1>1 DEF CfgWithin, CfgEdge, CfgAbort, Post
  <2>4. ~(Interrupt \/ Shutdown \/ Exited \/ UNCHANGED vars)
    BY <1>1 DEF Interrupt, Shutdown, Exited, vars
  <2> QED BY <2>1, <2>2, <2>3, <2>4 DEF Next
<1> QED BY <1>1, <1>2 DEF ExecuteJIT

LEMMA CompilesSource ==
  ASSUME Aug = "none", IInv, NoUnit, Trailing, OnEdge, [Next]_vars, CompilesNow
  PROVE  prog \in Programs /\ Source(prog, g', unit', g'.blk[unit'].code)
<1>1. /\ ExecuteJIT /\ unit' = cBB
      /\ g.blk[cBB].code = None /\ g'.blk[cBB].code # None
  BY CompilesIs
<1>2. prog \in Programs
  BY <1>1, AtDispatch
<1>3. Source(prog, g', cBB, g'.blk[cBB].code)
  BY <1>1, SourceIs
<1> QED BY <1>1, <1>2, <1>3

(* With --aug=0, none of the ways buildCFG and the code generator have to  *)
(* end the whole program is ever taken: in every region that is compiled   *)
(* every branch can reach its successors, every jump has its target among  *)
(* them, no branch is without its delay slot, and every block, the patch   *)
(* blocks included, is reached from the head.                              *)
THEOREM BuildNeverGivesUp == Aug = "none" => (Spec => BuildNeverDies)
<1> SUFFICES ASSUME Aug = "none" PROVE Spec => BuildNeverDies
  OBVIOUS
<1>1. ASSUME IInv, NoUnit, Trailing, OnEdge, [Next]_vars
      PROVE  CompilesNow => \A E \in BuiltNow(FALSE) : Survives(E, unit')
  <2> SUFFICES ASSUME CompilesNow, NEW E \in BuiltNow(FALSE) PROVE Survives(E, unit')
    OBVIOUS
  <2> DEFINE c == g'.blk[unit'].code
  <2>1. prog \in Programs /\ Source(prog, g', unit', c)
    BY <1>1, CompilesSource
  <2>2. BuiltNow(FALSE) = Built(prog, g', unit', c.blocks, FALSE)
    BY DEF BuiltNow
  <2> HIDE DEF c
  <2>3. E = Edged(prog, unit', Copied(g', c.blocks))
    BY <2>2 DEF Built
  <2> QED BY <2>1, <2>3, WholeSurvives DEF Survives
<1>2. IInv /\ NoUnit /\ Trailing /\ OnEdge /\ [Next]_vars
        => [CompilesNow => \A E \in BuiltNow(FALSE) : Survives(E, unit')]_vars
  BY <1>1
<1> QED BY <1>2, InvariantHolds, AlwaysNoUnit, AlwaysTrailing, AlwaysOnEdge, PTL
        DEF Spec, BuildNeverDies

-----------------------------------------------------------------------------
(* With --splitCFGBBs.  No branch but a branch-likely ends its block.      *)
Whole(p, C) ==
  \A n \in Nodes(C) : \A a \in Terminators(p, C, n) :
    p[a].kind # "brl" => a # Last(C.ins[n])

(* What a split keeps.  A block cut between a branch and its delay slot    *)
(* has edges that are not the branch's; no code is generated from it.      *)
Cut(p, u, C) ==
  /\ Shape(p, C) /\ u \in Nodes(C) /\ u \in Addr
  /\ C = [ins |-> C.ins, succs |-> C.succs]
  /\ Nodes(C) = {u} => u \in C.succs[u] \/ Indirect(p, C, u)
  /\ Whole(p, C) => EdgesOK(p, C, TRUE)

HasSplitBB(p, C, x, z, a, D) ==
  /\ Nodes(D) = Nodes(C) \cup {a} /\ a \notin Nodes(C) /\ a \in Addr
  /\ D = [ins |-> D.ins, succs |-> D.succs]
  /\ D.ins[z] = SubSeq(C.ins[z], 1, a - z)
  /\ D.ins[a] = SubSeq(C.ins[z], a - z + 1, Len(C.ins[z]))
  /\ \A m \in Nodes(C) \ {z} : D.ins[m] = C.ins[m]
  /\ D.succs \in [Nodes(D) -> SUBSET Nodes(D)]
  /\ D.succs[z] = {a} /\ D.succs[a] = C.succs[z]
  /\ x # z => D.succs[x] = C.succs[x] \cup {a}
  /\ \A m \in Nodes(C) \ {z, x} : D.succs[m] = C.succs[m]

LEMMA SplitBBIs ==
  ASSUME NEW p, NEW C, Shape(p, C),
         NEW x \in Nodes(C), NEW z \in Nodes(C), NEW a \in Addr \ Nodes(C)
  PROVE  HasSplitBB(p, C, x, z, a, addEdge(splitBB(C, z, a), x, a))
<1> DEFINE N == Nodes(C) \cup {a}
           n == a - C.ins[z][1]
           I == [m \in N |-> IF m = a THEN SubSeq(C.ins[z], n + 1, Len(C.ins[z]))
                             ELSE IF m = z THEN SubSeq(C.ins[z], 1, n) ELSE C.ins[m]]
           S == [m \in N |-> IF m = a THEN C.succs[z] ELSE IF m = z THEN {a} ELSE C.succs[m]]
           T == [S EXCEPT ![x] = @ \cup {a}]
           D == addEdge(splitBB(C, z, a), x, a)
<1>1. C.ins[z][1] = z /\ C.succs \in [Nodes(C) -> SUBSET Nodes(C)]
  <2>1. Lined(p, z, C.ins[z]) /\ z \in Addr /\ z \in Nat
    BY ProgramsAssumption DEF Shape
  <2> DEFINE s == C.ins[z]
  <2>2. s \in Seq(Addr) /\ s # <<>> /\ \A i \in 1 .. Len(s) : s[i] = z + i - 1
    BY <2>1 DEF Lined
  <2> HIDE DEF s
  <2>3. 1 \in 1 .. Len(s)
    BY <2>2
  <2>4. s[1] = z
    BY <2>1, <2>2, <2>3
  <2> QED BY <2>4 DEF s, Shape
<1>2. splitBB(C, z, a) = [ins |-> I, succs |-> S]
  BY DEF splitBB
<1>3. D = [ins |-> I, succs |-> T]
  <2> DEFINE W == [ins |-> I, succs |-> S]
  <2>1. W.succs = S /\ \A U : [W EXCEPT !.succs = U] = [ins |-> I, succs |-> U]
    BY SetSuccs
  <2> HIDE DEF I, S, W
  <2>2. D = [W EXCEPT !.succs[x] = @ \cup {a}]
    BY <1>2 DEF addEdge, W
  <2>3. [W EXCEPT !.succs[x] = @ \cup {a}] = [W EXCEPT !.succs = [W.succs EXCEPT ![x] = @ \cup {a}]]
    OBVIOUS
  <2> QED BY <2>1, <2>2, <2>3
<1>4. S \in [N -> SUBSET N]
  BY <1>1
<1>5. /\ I[a] = SubSeq(C.ins[z], n + 1, Len(C.ins[z])) /\ I[z] = SubSeq(C.ins[z], 1, n)
      /\ \A m \in Nodes(C) \ {z} : I[m] = C.ins[m]
      /\ DOMAIN I = N
  OBVIOUS
<1>6. /\ S[a] = C.succs[z] /\ S[z] = {a} /\ \A m \in Nodes(C) \ {z} : S[m] = C.succs[m]
  OBVIOUS
<1> HIDE DEF S
<1>7. /\ T \in [N -> SUBSET N] /\ T[x] = S[x] \cup {a}
      /\ \A m \in N \ {x} : T[m] = S[m]
  BY <1>4
<1> HIDE DEF T, I
<1>8. T[a] = C.succs[z] /\ T[z] = {a}
  BY <1>6, <1>7
<1>9. D.ins = I /\ D.succs = T /\ Nodes(D) = N
  BY <1>3, <1>5 DEF Nodes
<1> HIDE DEF D
<1>10. n = a - z
  BY <1>1
<1> HIDE DEF n
<1>11. HasSplitBB(p, C, x, z, a, D)
  BY <1>3, <1>5, <1>6, <1>7, <1>8, <1>9, <1>10 DEF HasSplitBB
<1> QED BY <1>11 DEF D

(* The two parts of a block.  A branch in the first part has lost its slot.*)
LEMMA LinedParts ==
  ASSUME NEW p, NEW z \in Addr, NEW s, Lined(p, z, s), NEW a \in Addr, a > z, a <= Last(s)
  PROVE  LET h == SubSeq(s, 1, a - z)
             t == SubSeq(s, a - z + 1, Len(s))
         IN /\ Lined(p, z, h) /\ Lined(p, a, t) /\ Last(h) = a - 1 /\ Last(t) = Last(s)
            /\ ToSet(s) = ToSet(h) \cup ToSet(t) /\ Last(s) \in ToSet(t)
            /\ \A b \in ToSet(h) : isBranchOrJump(p[b].kind) => b = Last(h) /\ p[b].kind # "brl"
<1> DEFINE n == a - z
           len == Len(s)
           h == SubSeq(s, 1, n)
           t == SubSeq(s, n + 1, len)
<1>1. /\ s \in Seq(Addr) /\ len \in Nat \ {0} /\ z \in Nat /\ a \in Nat
      /\ Last(s) = z + len - 1 /\ \A i \in 1 .. len : s[i] = z + i - 1
      /\ \A i \in 1 .. len : s[i] \in ToSet(s) /\ s[i] \in Addr
      /\ \A b \in ToSet(s) : b \in Addr /\ b \in Nat /\ \E i \in 1 .. len : b = s[i]
  BY LinedEnds, ProgramsAssumption DEF Lined
<1>2. n \in Nat /\ n >= 1 /\ n <= len - 1
  BY <1>1
<1>3. /\ \A b \in ToSet(s) : canCompileInstr(p[b].kind)
      /\ \A b \in ToSet(s) : isBranchOrJump(p[b].kind) =>
           /\ b \in {Last(s) - 1, Last(s)}
           /\ p[b].kind = "brl" => b = Last(s)
           /\ \A e \in ToSet(s) : isBranchOrJump(p[e].kind) => e = b
  BY DEF Lined
<1>4. /\ h \in Seq(Addr) /\ Len(h) = n /\ \A i \in 1 .. n : h[i] = s[i]
      /\ t \in Seq(Addr) /\ Len(t) = len - n /\ \A i \in 1 .. len - n : t[i] = s[n + i]
  BY <1>1, <1>2
<1> HIDE DEF h, t, len
<1>5. /\ \A i \in 1 .. n : h[i] = z + i - 1 /\ h[i] \in ToSet(s) /\ h[i] <= a - 1
      /\ \A i \in 1 .. len - n : t[i] = a + i - 1 /\ t[i] \in ToSet(s) /\ t[i] >= a
  <2>1. \A i \in 1 .. n : i \in 1 .. len /\ i \in Nat /\ z + i - 1 <= a - 1
    BY <1>1, <1>2
  <2>2. \A i \in 1 .. len - n : n + i \in 1 .. len /\ z + (n + i) - 1 = a + i - 1 /\ a + i - 1 >= a
    BY <1>1, <1>2
  <2>3. \A i \in 1 .. n : h[i] = z + i - 1 /\ h[i] \in ToSet(s)
    BY <1>1, <1>4, <2>1
  <2>4. \A i \in 1 .. len - n : t[i] = a + i - 1 /\ t[i] \in ToSet(s)
    BY <1>1, <1>4, <2>2
  <2> HIDE DEF n
  <2> QED BY <2>1, <2>2, <2>3, <2>4
<1>6. /\ \A i \in 1 .. n : h[i] \in ToSet(h)
      /\ \A b \in ToSet(h) : \E i \in 1 .. n : b = h[i]
      /\ \A i \in 1 .. len - n : t[i] \in ToSet(t)
      /\ \A b \in ToSet(t) : \E i \in 1 .. len - n : b = t[i]
  <2>1. len - n \in Nat
    BY <1>1, <1>2
  <2> QED BY <1>2, <1>4, <2>1, ToSetIndex
<1>7. Last(h) = a - 1 /\ Last(t) = Last(s) /\ Last(s) \in ToSet(t) /\ h # <<>> /\ t # <<>>
  <2>1. Last(h) = h[n] /\ Last(t) = t[len - n] /\ n \in 1 .. n /\ len - n \in 1 .. len - n
    BY <1>1, <1>2, <1>4 DEF Last
  <2>2. h[n] = a - 1 /\ t[len - n] = z + len - 1
    BY <1>1, <1>5, <2>1
  <2> QED BY <1>1, <1>2, <1>4, <1>6, <2>1, <2>2
<1>8. ToSet(h) \subseteq ToSet(s) /\ ToSet(t) \subseteq ToSet(s)
  BY <1>5, <1>6
<1>9. ASSUME NEW b \in ToSet(s) PROVE b \in ToSet(h) \cup ToSet(t)
  <2>1. PICK i \in 1 .. len : b = s[i]
    BY <1>1
  <2>2. CASE i <= n
    <3>1. i \in 1 .. n
      BY <2>2
    <3> QED BY <1>4, <1>6, <2>1, <3>1
  <2>3. CASE i > n
    <3>1. i - n \in 1 .. len - n /\ n + (i - n) = i
      BY <1>1, <1>2, <2>3
    <3> QED BY <1>4, <1>6, <2>1, <3>1
  <2> QED BY <1>1, <1>2, <2>2, <2>3
<1>10. \A b \in ToSet(h) : b <= a - 1 /\ b \in Nat
  BY <1>1, <1>5, <1>6
<1>11. ASSUME NEW b \in ToSet(h), isBranchOrJump(p[b].kind)
       PROVE  b = a - 1 /\ b = Last(s) - 1 /\ p[b].kind # "brl"
  <2>1. b \in {Last(s) - 1, Last(s)} /\ (p[b].kind = "brl" => b = Last(s))
    BY <1>3, <1>8, <1>11
  <2> QED BY <1>1, <1>10, <2>1
<1>12. Lined(p, z, h)
  BY <1>3, <1>4, <1>5, <1>7, <1>8, <1>11 DEF Lined
<1>13. Lined(p, a, t)
  BY <1>3, <1>4, <1>5, <1>7, <1>8 DEF Lined
<1>14. /\ Lined(p, z, h) /\ Lined(p, a, t) /\ Last(h) = a - 1 /\ Last(t) = Last(s)
       /\ ToSet(s) = ToSet(h) \cup ToSet(t) /\ Last(s) \in ToSet(t)
       /\ \A b \in ToSet(h) : isBranchOrJump(p[b].kind) => b = Last(h) /\ p[b].kind # "brl"
  BY <1>7, <1>8, <1>9, <1>11, <1>12, <1>13
<1> QED BY <1>14 DEF h, t, len

(* What addEdge gives the block whose branch asked for the split.          *)
LEMMA WantedIs ==
  ASSUME NEW p, NEW C, Shape(p, C), NEW x \in Nodes(C), NEW a \in Wanted(p, C.ins[x])
  PROVE  \E t \in Terminators(p, C, x) : p[t].kind \in {"br", "j"} /\ a \in {TakenAddr(p, t), t + 2}
<1> DEFINE s == C.ins[x]
           t == s[Len(s) - 1]
<1>1. Len(s) >= 2 /\ p[t].kind \in {"br", "j"} /\ a \in {TakenAddr(p, t), t + 2}
  BY DEF Wanted
<1>2. Lined(p, x, s) /\ x \in Addr
  BY DEF Shape
<1> HIDE DEF s
<1>3. Len(s) \in Nat /\ \A i \in 1 .. Len(s) : s[i] \in ToSet(s)
  BY <1>2, LinedEnds
<1>4. t \in ToSet(s)
  BY <1>1, <1>3
<1>5. isBranchOrJump(p[t].kind)
  BY <1>1 DEF isBranchOrJump
<1> QED BY <1>1, <1>4, <1>5 DEF Terminators, s

LEMMA SplitCut ==
  ASSUME NEW p \in Programs, NEW u, NEW C, Cut(p, u, C), NEW x \in Nodes(C), NEW z \in Nodes(C),
         NEW a \in Wanted(p, C.ins[x]) \ Nodes(C), a \in Addr, a > z, a <= Last(C.ins[z]),
         NEW D, HasSplitBB(p, C, x, z, a, D)
  PROVE  Cut(p, u, D)
<1> DEFINE s == C.ins[z]
           h == D.ins[z]
           t == D.ins[a]
<1>1. /\ Shape(p, C) /\ u \in Nodes(C) /\ u \in Addr /\ Nodes(C) \subseteq Addr
      /\ \A m \in Nodes(C) : Lined(p, m, C.ins[m])
      /\ Whole(p, C) => EdgesOK(p, C, TRUE)
  BY DEF Cut, Shape
<1>2. /\ Nodes(D) = Nodes(C) \cup {a} /\ a \notin Nodes(C) /\ a \in Addr
      /\ D = [ins |-> D.ins, succs |-> D.succs]
      /\ \A m \in Nodes(C) \ {z} : D.ins[m] = C.ins[m]
      /\ D.succs \in [Nodes(D) -> SUBSET Nodes(D)]
      /\ D.succs[z] = {a} /\ D.succs[a] = C.succs[z]
      /\ x # z => D.succs[x] = C.succs[x] \cup {a}
      /\ \A m \in Nodes(C) \ {z, x} : D.succs[m] = C.succs[m]
      /\ h = SubSeq(s, 1, a - z) /\ t = SubSeq(s, a - z + 1, Len(s))
  BY DEF HasSplitBB
<1>3. /\ Lined(p, z, h) /\ Lined(p, a, t) /\ Last(h) = a - 1 /\ Last(t) = Last(s)
      /\ ToSet(s) = ToSet(h) \cup ToSet(t) /\ Last(s) \in ToSet(t)
      /\ \A b \in ToSet(h) : isBranchOrJump(p[b].kind) => b = Last(h) /\ p[b].kind # "brl"
  <2>1. Lined(p, z, s) /\ z \in Addr /\ a \in Addr /\ a > z /\ a <= Last(s)
    BY <1>1
  <2> HIDE DEF s, h, t
  <2> QED BY <1>2, <2>1, LinedParts
<1> HIDE DEF s, h, t
<1>4. Shape(p, D)
  <2>1. \A m \in Nodes(D) : Lined(p, m, D.ins[m])
    BY <1>1, <1>2, <1>3 DEF h, t
  <2> QED BY <1>1, <1>2, <2>1 DEF Shape
<1>5. \A m \in Nodes(C) \ {z} : Terminators(p, D, m) = Terminators(p, C, m)
  BY <1>2 DEF Terminators
<1>6. /\ Terminators(p, C, z) = Terminators(p, D, z) \cup Terminators(p, D, a)
      /\ \A b \in Terminators(p, D, z) : b = Last(h) /\ p[b].kind # "brl"
  BY <1>3 DEF Terminators, s, h, t
<1>7. ASSUME Whole(p, D) PROVE Whole(p, C) /\ Terminators(p, D, z) = {}
  <2>1. Terminators(p, D, z) = {}
    BY <1>2, <1>6, <1>7 DEF Whole, h
  <2>2. ASSUME NEW m \in Nodes(C), NEW b \in Terminators(p, C, m), p[b].kind # "brl"
        PROVE  b # Last(C.ins[m])
    <3>1. CASE m = z
      <4>1. b \in Terminators(p, D, a)
        BY <1>6, <2>1, <3>1
      <4>2. b # Last(D.ins[a])
        BY <1>2, <1>7, <2>2, <4>1 DEF Whole
      <4>3. Last(D.ins[a]) = Last(C.ins[z])
        BY <1>3 DEF s, t
      <4> QED BY <3>1, <4>2, <4>3
    <3>2. CASE m # z
      BY <1>2, <1>5, <1>7, <2>2, <3>2 DEF Whole
    <3> QED BY <3>1, <3>2
  <2> QED BY <2>1, <2>2 DEF Whole
<1>8. ASSUME Whole(p, D), NEW n \in Nodes(D)
      PROVE  /\ Terminators(p, D, n) = {} => D.succs[n] \subseteq {Last(D.ins[n]) + 1}
             /\ \A b \in Terminators(p, D, n) :
                  /\ p[b].kind = "jal" => D.succs[n] \subseteq p[b].to
                  /\ p[b].kind = "j" => D.succs[n] \subseteq p[b].to \cup {b + 2}
  <2>1. \A m \in Nodes(C) :
          /\ Terminators(p, C, m) = {} => C.succs[m] \subseteq {Last(C.ins[m]) + 1}
          /\ \A b \in Terminators(p, C, m) :
               /\ p[b].kind = "jal" => C.succs[m] \subseteq p[b].to
               /\ p[b].kind = "j" => C.succs[m] \subseteq p[b].to \cup {b + 2}
    BY <1>1, <1>7, <1>8 DEF EdgesOK
  <2>2. CASE n = z
    <3>1. Last(h) + 1 = a
      BY <1>2, <1>3, ProgramsAssumption
    <3> QED BY <1>2, <1>7, <1>8, <2>2, <3>1 DEF h
  <2>3. CASE n = a
    <3>1. Terminators(p, D, a) = Terminators(p, C, z)
      BY <1>6, <1>7, <1>8
    <3> QED BY <1>2, <1>3, <2>1, <2>3, <3>1 DEF s, t
  <2>4. CASE n = x /\ x # z
    <3>1. PICK b \in Terminators(p, C, x) :
            p[b].kind \in {"br", "j"} /\ a \in {TakenAddr(p, b), b + 2}
      BY <1>1, WantedIs
    <3>2. Terminators(p, D, x) = {b} /\ b \in Addr
      BY <1>1, <1>5, <2>4, <3>1, OneTerminator
    <3>3. p[b].kind = "j" => p[b].to = {TakenAddr(p, b)}
      BY <3>2, DirectTo
    <3>4. Terminators(p, C, x) = {b}
      BY <1>5, <2>4, <3>2
    <3>5. p[b].kind = "j" => D.succs[x] \subseteq p[b].to \cup {b + 2}
      BY <1>2, <2>1, <2>4, <3>1, <3>3
    <3> QED BY <2>4, <3>1, <3>2, <3>5
  <2>5. CASE n \in Nodes(C) \ {z, x}
    BY <1>2, <1>5, <2>1, <2>5
  <2> QED BY <1>2, <2>2, <2>3, <2>4, <2>5
<1>9. Whole(p, D) => EdgesOK(p, D, TRUE)
  BY <1>8 DEF EdgesOK
<1>10. Nodes(D) # {u}
  BY <1>2
<1> QED BY <1>1, <1>2, <1>4, <1>9, <1>10 DEF Cut

(* Splitting again and again: the function splitBBs is defined by.         *)
Stages(p, cfgs, after) ==
  LET K == 0 .. Cardinality(Addr)
  IN after = [k \in K |-> IF k = 0 THEN cfgs
                          ELSE UNION {splitOnce(p, C) : C \in after[k - 1]}]

LEMMA StagesExist ==
  ASSUME NEW p, NEW cfgs
  PROVE  \E after : Stages(p, cfgs, after)
<1> DEFINE N == Cardinality(Addr)
           Step(S) == UNION {splitOnce(p, C) : C \in S}
           IsUpTo(f, n) == /\ f[0] = cfgs
                           /\ \A k \in 1 .. n : f[k] = Step(f[k - 1])
           T == {n \in Nat : ~ \E f : IsUpTo(f, n)}
<1>1. N \in Nat
  BY ProgramsAssumption, FS_CardinalityType
<1> HIDE DEF N, Step
<1>2. T = {}
  <2> SUFFICES ASSUME T # {} PROVE FALSE
    OBVIOUS
  <2>1. T \in SUBSET Nat
    OBVIOUS
  <2>2. PICK n \in T : \A m \in T : n <= m
    BY <2>1, Least
  <2>3. n \in Nat /\ ~ \E f : IsUpTo(f, n)
    BY <2>2
  <2>4. n # 0
    <3> SUFFICES IsUpTo([k \in {0} |-> cfgs], 0)
      BY <2>3
    <3> QED OBVIOUS
  <2>5. n - 1 \in Nat /\ n - 1 \notin T
    BY <2>2, <2>3, <2>4
  <2>6. PICK f : IsUpTo(f, n - 1)
    BY <2>5
  <2> DEFINE e == [k \in 0 .. n |-> IF k = n THEN Step(f[n - 1]) ELSE f[k]]
  <2>7. /\ e[n] = Step(f[n - 1]) /\ \A k \in 0 .. n - 1 : e[k] = f[k]
    BY <2>3
  <2> HIDE DEF e
  <2>8. IsUpTo(e, n)
    <3>1. e[0] = cfgs
      BY <2>4, <2>5, <2>6, <2>7
    <3>2. ASSUME NEW k \in 1 .. n PROVE e[k] = Step(e[k - 1])
      <4>1. e[k - 1] = f[k - 1]
        BY <2>3, <2>7
      <4>2. CASE k = n
        BY <2>7, <4>1, <4>2
      <4>3. CASE k # n
        BY <2>3, <2>6, <2>7, <4>1, <4>3
      <4> QED BY <4>2, <4>3
    <3> QED BY <3>1, <3>2
  <2> QED BY <2>3, <2>8
<1>3. PICK f : IsUpTo(f, N)
  BY <1>1, <1>2
<1> DEFINE g0 == [k \in 0 .. N |-> f[k]]
<1>4. g0 = [k \in 0 .. N |-> IF k = 0 THEN cfgs ELSE Step(g0[k - 1])]
  <2>1. ASSUME NEW k \in 0 .. N PROVE f[k] = IF k = 0 THEN cfgs ELSE Step(g0[k - 1])
    <3>1. CASE k = 0
      BY <1>3, <3>1
    <3>2. CASE k # 0
      <4>1. k \in 1 .. N /\ k - 1 \in 0 .. N
        BY <1>1, <3>2
      <4> QED BY <1>3, <3>2, <4>1
    <3> QED BY <3>1, <3>2
  <2> QED BY <2>1
<1>5. Stages(p, cfgs, g0)
  BY <1>4 DEF Stages, N, Step
<1> QED BY <1>5

LEMMA SplitBBsIs ==
  ASSUME NEW p, NEW cfgs
  PROVE  \E after :
           /\ Stages(p, cfgs, after)
           /\ splitBBs(p, cfgs)
                = {C \in UNION {after[k] : k \in DOMAIN after} : Splits(p, C) = {}}
<1>1. \E after : Stages(p, cfgs, after)
  BY StagesExist
<1> DEFINE a == CHOOSE after : Stages(p, cfgs, after)
<1>2. Stages(p, cfgs, a)
  BY <1>1
<1>3. splitBBs(p, cfgs) = {C \in UNION {a[k] : k \in DOMAIN a} : Splits(p, C) = {}}
  BY DEF splitBBs, Stages
<1> QED BY <1>2, <1>3

(* One split.                                                              *)
LEMMA SplitOnceIs ==
  ASSUME NEW p \in Programs, NEW u, NEW C, Cut(p, u, C)
  PROVE  /\ \A D \in splitOnce(p, C) :
              Cut(p, u, D) /\ Cardinality(Nodes(D)) = Cardinality(Nodes(C)) + 1
         /\ Splits(p, C) # {} => splitOnce(p, C) # {}
<1>1. Shape(p, C) /\ Nodes(C) \subseteq Addr /\ IsFiniteSet(Nodes(C))
  BY ProgramsAssumption, FS_Subset DEF Cut, Shape
<1>2. ASSUME NEW D \in splitOnce(p, C)
      PROVE  Cut(p, u, D) /\ Cardinality(Nodes(D)) = Cardinality(Nodes(C)) + 1
  <2>1. PICK s \in Splits(p, C) : D = addEdge(splitBB(C, s[2], s[3]), s[1], s[3])
    BY <1>2 DEF splitOnce
  <2> DEFINE x == s[1]
             z == s[2]
             a == s[3]
  <2>2. /\ x \in Nodes(C) /\ z \in Nodes(C) /\ a \in Addr
        /\ a \in Wanted(p, C.ins[x]) \ Nodes(C) /\ a > C.ins[z][1] /\ a <= Last(C.ins[z])
    BY DEF Splits
  <2>3. D = addEdge(splitBB(C, z, a), x, a)
    BY <2>1
  <2> HIDE DEF x, z, a
  <2>4. C.ins[z][1] = z
    <3>1. Lined(p, z, C.ins[z]) /\ z \in Nat /\ z \in Addr
      BY <1>1, <2>2, ProgramsAssumption DEF Shape
    <3> DEFINE w == C.ins[z]
    <3>2. w \in Seq(Addr) /\ w # <<>> /\ \A i \in 1 .. Len(w) : w[i] = z + i - 1
      BY <3>1 DEF Lined
    <3> HIDE DEF w
    <3>3. 1 \in 1 .. Len(w)
      BY <3>2
    <3>4. w[1] = z
      BY <3>1, <3>2, <3>3
    <3> QED BY <3>4 DEF w
  <2>5. HasSplitBB(p, C, x, z, a, D)
    BY <1>1, <2>2, <2>3, SplitBBIs
  <2>6. Cut(p, u, D)
    BY <2>2, <2>4, <2>5, SplitCut
  <2>7. Nodes(D) = Nodes(C) \cup {a} /\ a \notin Nodes(C)
    BY <2>5 DEF HasSplitBB
  <2> QED BY <1>1, <2>6, <2>7, FS_AddElement
<1>3. ASSUME Splits(p, C) # {} PROVE splitOnce(p, C) # {}
  BY <1>3 DEF splitOnce
<1> QED BY <1>2, <1>3

LEMMA StagesOK ==
  ASSUME NEW p \in Programs, NEW u, NEW cfgs, \A C \in cfgs : Cut(p, u, C), cfgs # {},
         NEW after, Stages(p, cfgs, after)
  PROVE  LET N == Cardinality(Addr) IN
         /\ N \in Nat /\ DOMAIN after = 0 .. N
         /\ \A k \in 0 .. N : \A C \in after[k] : Cut(p, u, C) /\ Cardinality(Nodes(C)) >= k + 1
         /\ \E k \in 0 .. N : \E C \in after[k] : Splits(p, C) = {}
<1> DEFINE N == Cardinality(Addr)
<1>1. N \in Nat /\ IsFiniteSet(Addr)
  BY ProgramsAssumption, FS_CardinalityType
<1>2. /\ DOMAIN after = 0 .. N /\ after[0] = cfgs
      /\ \A k \in 1 .. N : after[k] = UNION {splitOnce(p, C) : C \in after[k - 1]}
  <2> DEFINE Step(S) == UNION {splitOnce(p, C) : C \in S}
  <2>1. after = [k \in 0 .. N |-> IF k = 0 THEN cfgs ELSE Step(after[k - 1])]
    BY DEF Stages
  <2> HIDE DEF Step, N
  <2>2. /\ DOMAIN after = 0 .. N
        /\ \A k \in 0 .. N : after[k] = IF k = 0 THEN cfgs ELSE Step(after[k - 1])
    BY <2>1
  <2>3. after[0] = cfgs /\ \A k \in 1 .. N : after[k] = Step(after[k - 1])
    BY <1>1, <2>2 DEF N
  <2> QED BY <2>2, <2>3 DEF Step
<1> HIDE DEF N
<1> DEFINE Fine(k, C) == Cut(p, u, C) /\ Cardinality(Nodes(C)) >= k + 1
           T == {k \in 0 .. N : \E C \in after[k] : ~Fine(k, C)}
<1>3. ASSUME NEW C, Cut(p, u, C)
      PROVE  Nodes(C) \subseteq Addr /\ Cardinality(Nodes(C)) \in 1 .. N
  <2>1. Nodes(C) \subseteq Addr /\ Nodes(C) # {}
    BY <1>3 DEF Cut, Shape
  <2>2. IsFiniteSet(Nodes(C)) /\ Cardinality(Nodes(C)) <= N
    BY <1>1, <2>1, FS_Subset DEF N
  <2>3. Cardinality(Nodes(C)) \in Nat /\ Cardinality(Nodes(C)) # 0
    BY <2>1, <2>2, FS_CardinalityType, FS_EmptySet
  <2> QED BY <2>1, <2>2, <2>3
<1>4. T = {}
  <2> SUFFICES ASSUME T # {} PROVE FALSE
    OBVIOUS
  <2>1. PICK k \in T : \A m \in T : k <= m
    <3>1. T \in SUBSET Nat
      BY <1>1
    <3> QED BY <3>1, Least
  <2>2. k \in 0 .. N /\ \E C \in after[k] : ~Fine(k, C)
    BY <2>1
  <2>3. PICK C \in after[k] : ~Fine(k, C)
    BY <2>2
  <2>4. CASE k = 0
    <3>1. Cut(p, u, C)
      BY <1>2, <2>3, <2>4
    <3>2. Cardinality(Nodes(C)) >= 1
      BY <1>3, <3>1
    <3> QED BY <2>3, <2>4, <3>1, <3>2
  <2>5. CASE k # 0
    <3>1. k \in 1 .. N /\ k - 1 \in 0 .. N /\ k - 1 \notin T
      BY <1>1, <2>1, <2>2, <2>5
    <3>2. PICK B \in after[k - 1] : C \in splitOnce(p, B)
      BY <1>2, <2>3, <3>1
    <3>3. Cut(p, u, B) /\ Cardinality(Nodes(B)) >= (k - 1) + 1
      BY <3>1, <3>2
    <3>4. Cut(p, u, C) /\ Cardinality(Nodes(C)) = Cardinality(Nodes(B)) + 1
      BY <3>2, <3>3, SplitOnceIs
    <3>5. Cardinality(Nodes(B)) \in Nat
      BY <1>3, <3>3
    <3> QED BY <2>2, <2>3, <3>3, <3>4, <3>5
  <2> QED BY <2>4, <2>5
<1>5. \A k \in 0 .. N : \A C \in after[k] : Cut(p, u, C) /\ Cardinality(Nodes(C)) >= k + 1
  BY <1>4
<1>6. ASSUME \A k \in 0 .. N : \A C \in after[k] : Splits(p, C) # {} PROVE FALSE
  <2> DEFINE U == {k \in 0 .. N : after[k] = {}}
  <2>1. ASSUME U # {} PROVE FALSE
    <3>1. PICK k \in U : \A m \in U : k <= m
      <4>1. U \in SUBSET Nat
        BY <1>1
      <4> QED BY <2>1, <4>1, Least
    <3>2. k \in 0 .. N /\ after[k] = {} /\ k # 0
      BY <1>2, <3>1
    <3>3. k \in 1 .. N /\ k - 1 \in 0 .. N /\ k - 1 \notin U
      BY <1>1, <3>1, <3>2
    <3>4. PICK C \in after[k - 1] : TRUE
      BY <3>3
    <3>5. splitOnce(p, C) # {}
      BY <1>5, <1>6, <3>3, <3>4, SplitOnceIs
    <3> QED BY <1>2, <3>2, <3>3, <3>4, <3>5
  <2>2. N \in 0 .. N /\ N \notin U
    BY <1>1, <2>1
  <2>3. PICK C \in after[N] : TRUE
    BY <2>2
  <2>4. Cut(p, u, C) /\ Cardinality(Nodes(C)) >= N + 1
    BY <1>5, <2>2, <2>3
  <2> QED BY <1>1, <1>3, <2>4
<1>7. \E k \in 0 .. N : \E C \in after[k] : Splits(p, C) = {}
  BY <1>6
<1> QED BY <1>1, <1>2, <1>5, <1>7 DEF N

(* repairBrokenEdges, on a block of the region.                            *)
LEMMA RepairedIs ==
  ASSUME NEW p \in Programs, NEW x \in Addr, NEW B, Good(p, B), Consecutive(x, B),
         B.succs # {}
  PROVE  /\ Repaired(p, B) # {}
         /\ \A s \in Repaired(p, B) :
              /\ s \subseteq B.succs
              /\ s = B.succs \/ \E a \in ToSet(B.ins) : p[a].kind = "jalr"
<1> DEFINE next == Last(B.ins) + 1
           found == \E a \in ToSet(B.ins) : isBranchOrJump(p[a].kind) /\ p[a].kind # "jalr"
<1>1. Repaired(p, B) = IF found THEN {B.succs}
                       ELSE IF next \in B.succs THEN {{next}} ELSE {{s} : s \in B.succs}
  BY DEF Repaired
<1>2. CASE found
  BY <1>1, <1>2
<1>3. CASE \E a \in ToSet(B.ins) : p[a].kind = "jalr"
  <2>1. Repaired(p, B) # {} /\ \A s \in Repaired(p, B) : s \subseteq B.succs
    <3> HIDE DEF found, next
    <3>1. CASE found \/ next \in B.succs
      BY <1>1, <3>1
    <3>2. CASE ~found /\ next \notin B.succs
      <4>1. Repaired(p, B) = {{s} : s \in B.succs}
        BY <1>1, <3>2
      <4> QED BY <4>1
    <3> QED BY <3>1, <3>2
  <2> QED BY <1>3, <2>1
<1>4. CASE ~found /\ ~ \E a \in ToSet(B.ins) : p[a].kind = "jalr"
  <2>1. \A a \in ToSet(B.ins) : ~isBranchOrJump(p[a].kind)
    BY <1>4
  <2>2. B.term = Last(B.ins) /\ NextPcs(p, B.term) = {B.term + 1}
    <3> DEFINE s == B.ins
    <3>1. /\ Len(s) \in Nat \ {0} /\ x \in Nat
          /\ \A i \in 1 .. Len(s) : s[i] = x + i - 1 /\ s[i] \in ToSet(s)
          /\ \/ isBranchOrJump(p[B.term].kind) /\ Len(s) >= 2 /\ B.term = x + Len(s) - 2
             \/ B.term = Last(s) /\ NextPcs(p, B.term) = {B.term + 1}
      BY BlockEnds
    <3>2. ASSUME Len(s) >= 2, B.term = x + Len(s) - 2 PROVE B.term \in ToSet(s)
      <4> HIDE DEF s
      <4>1. Len(s) - 1 \in 1 .. Len(s)
        BY <3>1, <3>2
      <4>2. s[Len(s) - 1] = x + (Len(s) - 1) - 1 /\ s[Len(s) - 1] \in ToSet(s)
        BY <3>1, <4>1
      <4> QED BY <3>1, <3>2, <4>2
    <3> QED BY <2>1, <3>1, <3>2
  <2>3. B.succs \subseteq {next}
    BY <2>2 DEF Good
  <2>4. B.succs = {next}
    BY <2>3
  <2>5. Repaired(p, B) = {{next}}
    <3> HIDE DEF next, found
    <3> QED BY <1>1, <1>4, <2>4
  <2> QED BY <2>4, <2>5
<1> QED BY <1>2, <1>3, <1>4

(* What repairBrokenEdges may keep, block by block.                        *)
RepairChoices(p, h, blocks) ==
  {f \in [blocks -> UNION {Repaired(p, h.blk[x]) : x \in blocks}] :
     \A x \in blocks : f[x] \in Repaired(p, h.blk[x])}

LEMMA ChoiceIs ==
  ASSUME NEW p, NEW h, NEW blocks
  PROVE  /\ repairBrokenEdges(p, h, blocks) = {erased(h, f) : f \in RepairChoices(p, h, blocks)}
         /\ \A f : f \in RepairChoices(p, h, blocks) <=>
              /\ f = [x \in blocks |-> f[x]]
              /\ \A x \in blocks : f[x] \in Repaired(p, h.blk[x])
<1>1. repairBrokenEdges(p, h, blocks) = {erased(h, f) : f \in RepairChoices(p, h, blocks)}
  BY DEF repairBrokenEdges, RepairChoices
<1>2. ASSUME NEW f, f = [x \in blocks |-> f[x]],
             \A x \in blocks : f[x] \in Repaired(p, h.blk[x])
      PROVE  f \in RepairChoices(p, h, blocks)
  <2>1. \A x \in blocks : f[x] \in UNION {Repaired(p, h.blk[y]) : y \in blocks}
    BY <1>2
  <2>2. f \in [blocks -> UNION {Repaired(p, h.blk[y]) : y \in blocks}]
    BY <1>2, <2>1
  <2> QED BY <1>2, <2>2 DEF RepairChoices
<1>3. ASSUME NEW f \in RepairChoices(p, h, blocks)
      PROVE  /\ f = [x \in blocks |-> f[x]]
             /\ \A x \in blocks : f[x] \in Repaired(p, h.blk[x])
  BY DEF RepairChoices
<1> QED BY <1>1, <1>2, <1>3

(* It keeps no successor that was not there, and keeps again what it kept. *)
LEMMA RepairedKeeps ==
  ASSUME NEW p, NEW B, NEW s \in Repaired(p, B)
  PROVE  /\ s \subseteq B.succs
         /\ \A D : D.ins = B.ins /\ D.succs = s => Repaired(p, D) = {s}
<1> DEFINE next == Last(B.ins) + 1
           found == \E a \in ToSet(B.ins) : isBranchOrJump(p[a].kind) /\ p[a].kind # "jalr"
<1>1. \A D : D.ins = B.ins =>
        Repaired(p, D) = IF found THEN {D.succs}
                         ELSE IF next \in D.succs THEN {{next}} ELSE {{t} : t \in D.succs}
  BY DEF Repaired
<1>2. Repaired(p, B) = IF found THEN {B.succs}
                       ELSE IF next \in B.succs THEN {{next}} ELSE {{t} : t \in B.succs}
  BY <1>1
<1> HIDE DEF next, found
<1>3. CASE found
  BY <1>1, <1>2, <1>3
<1>4. CASE ~found /\ next \in B.succs
  BY <1>1, <1>2, <1>4
<1>5. CASE ~found /\ next \notin B.succs
  <2>1. PICK t \in B.succs : s = {t}
    BY <1>2, <1>5
  <2>2. next \notin s
    BY <1>5, <2>1
  <2>3. \A D : D.ins = B.ins /\ D.succs = s => Repaired(p, D) = {{y} : y \in s}
    BY <1>1, <1>5, <2>2
  <2>4. {{y} : y \in s} = {s}
    BY <2>1
  <2> QED BY <2>1, <2>3, <2>4
<1> QED BY <1>3, <1>4, <1>5

(* The graph with these edges erased.                                      *)
LEMMA ErasedIs ==
  ASSUME NEW h \in GraphType, NEW blocks, NEW f, f = [x \in blocks |-> f[x]],
         \A x \in blocks \cap Addr : f[x] \subseteq h.blk[x].succs
  PROVE  LET w == erased(h, f) IN
         \A a \in Addr :
           /\ h.blk[a] = None => w.blk[a] = None
           /\ h.blk[a] # None =>
                /\ w.blk[a] # None /\ w.blk[a] \in BlockType
                /\ w.blk[a].ins = h.blk[a].ins /\ w.blk[a].likely = h.blk[a].likely
                /\ w.blk[a].succs = IF a \in blocks THEN f[a] ELSE h.blk[a].succs
                /\ w.blk[a].preds = {x \in h.blk[a].preds : x \in blocks => a \in f[x]}
<1> DEFINE w == erased(h, f)
           S(a) == IF a \in DOMAIN f THEN f[a] ELSE h.blk[a].succs
           P(a) == {x \in h.blk[a].preds : x \in DOMAIN f => a \in f[x]}
           Left(a) == [h.blk[a] EXCEPT !.succs = S(a), !.preds = P(a)]
<1>1. DOMAIN f = blocks
  OBVIOUS
<1>2. w = [h EXCEPT !.blk = [a \in Addr |-> IF h.blk[a] = None THEN None ELSE Left(a)]]
  BY DEF erased
<1>3. /\ h = [blk |-> h.blk, insMap |-> h.insMap, rf |-> h.rf]
      /\ h.blk \in [Addr -> BlockType \cup {None}]
  BY DEF GraphType
<1>4. w.blk = [a \in Addr |-> IF h.blk[a] = None THEN None ELSE Left(a)]
  <2> HIDE DEF w, Left
  <2> QED BY <1>2, <1>3
<1>5. ASSUME NEW a \in Addr, h.blk[a] # None
      PROVE  /\ Left(a) \in BlockType
             /\ Left(a).ins = h.blk[a].ins /\ Left(a).likely = h.blk[a].likely
             /\ Left(a).succs = S(a) /\ Left(a).preds = P(a)
  <2> DEFINE B == h.blk[a]
             X == S(a)
             Y == P(a)
  <2>1. B \in BlockType
    BY <1>3, <1>5
  <2>2. B.succs \subseteq Addr /\ B.preds \subseteq Addr
    BY <2>1 DEF BlockType
  <2>3. X \subseteq Addr /\ Y \subseteq Addr
    BY <1>1, <2>2
  <2>4. Left(a) = [B EXCEPT !.succs = X, !.preds = Y]
    OBVIOUS
  <2> HIDE DEF B, X, Y, Left
  <2>5. /\ [B EXCEPT !.succs = X, !.preds = Y] \in BlockType
        /\ [B EXCEPT !.succs = X, !.preds = Y].ins = B.ins
        /\ [B EXCEPT !.succs = X, !.preds = Y].likely = B.likely
        /\ [B EXCEPT !.succs = X, !.preds = Y].succs = X
        /\ [B EXCEPT !.succs = X, !.preds = Y].preds = Y
    BY ONLY <2>1, <2>3 DEF BlockType
  <2> QED BY <2>4, <2>5 DEF B, X, Y
<1>6. \A a \in Addr : w.blk[a] = IF h.blk[a] = None THEN None ELSE Left(a)
  BY <1>4
<1> HIDE DEF w, Left
<1>7. ASSUME NEW a \in Addr
      PROVE  /\ h.blk[a] = None => w.blk[a] = None
             /\ h.blk[a] # None =>
                  /\ w.blk[a] # None /\ w.blk[a] \in BlockType
                  /\ w.blk[a].ins = h.blk[a].ins /\ w.blk[a].likely = h.blk[a].likely
                  /\ w.blk[a].succs = S(a) /\ w.blk[a].preds = P(a)
  BY <1>5, <1>6, NullAssumption
<1>8. \A a : /\ S(a) = IF a \in blocks THEN f[a] ELSE h.blk[a].succs
             /\ P(a) = {x \in h.blk[a].preds : x \in blocks => a \in f[x]}
  BY <1>1
<1> QED BY <1>7, <1>8 DEF w

(* A graph such edges were erased from is one to erase others from.        *)
LEMMA ErasedType ==
  ASSUME NEW h \in GraphType, NEW blocks, NEW f, f = [x \in blocks |-> f[x]],
         \A x \in blocks \cap Addr : f[x] \subseteq h.blk[x].succs
  PROVE  erased(h, f) \in GraphType
<1> DEFINE w == erased(h, f)
<1>1. h = [blk |-> h.blk, insMap |-> h.insMap, rf |-> h.rf]
  BY DEF GraphType
<1>2. \E L : w = [h EXCEPT !.blk = [a \in Addr |-> L[a]]]
  <2> DEFINE L == [a \in Addr |-> IF h.blk[a] = None THEN None
                                  ELSE [h.blk[a] EXCEPT
                                         !.succs = IF a \in DOMAIN f THEN f[a] ELSE @,
                                         !.preds = {x \in @ : x \in DOMAIN f => a \in f[x]}]]
  <2>1. w = [h EXCEPT !.blk = L]
    BY DEF erased
  <2>2. L = [a \in Addr |-> L[a]]
    OBVIOUS
  <2> HIDE DEF L, w
  <2> QED BY <2>1, <2>2
<1>3. PICK X : w = [h EXCEPT !.blk = X] /\ X = [a \in Addr |-> X[a]]
  <2>1. PICK L : w = [h EXCEPT !.blk = [a \in Addr |-> L[a]]]
    BY <1>2
  <2> DEFINE X == [a \in Addr |-> L[a]]
  <2>2. X = [a \in Addr |-> X[a]]
    OBVIOUS
  <2> HIDE DEF w
  <2>3. w = [h EXCEPT !.blk = X]
    BY <2>1
  <2> HIDE DEF X
  <2> QED BY <2>2, <2>3
<1>4. \A a \in Addr : w.blk[a] \in BlockType \cup {None}
  <2>1. \A a \in Addr : \/ w.blk[a] = None
                        \/ w.blk[a] \in BlockType
    BY ErasedIs
  <2> QED BY <2>1
<1> HIDE DEF w
<1>5. w.blk = X /\ w = [blk |-> X, insMap |-> h.insMap, rf |-> h.rf]
  BY <1>1, <1>3
<1>6. X \in [Addr -> BlockType \cup {None}]
  BY <1>3, <1>4, <1>5
<1>7. h.insMap \in [Addr -> Addr \cup {None}] /\ h.rf \in FinderType
  BY DEF GraphType
<1> QED BY <1>5, <1>6, <1>7 DEF GraphType, w

(* The copies splitBBs starts from.                                        *)
LEMMA RepairedCopiesAre ==
  ASSUME NEW p, NEW h \in GraphType, NEW blocks \in SUBSET Live(h)
  PROVE  RepairedCopies(p, h, blocks)
           = {CopyOf(h, blocks, f) : f \in RepairChoices(p, h, blocks)}
<1> DEFINE F == RepairChoices(p, h, blocks)
<1>1. ASSUME NEW f \in F PROVE Copied(erased(h, f), blocks) = CopyOf(h, blocks, f)
  <2> DEFINE w == erased(h, f)
  <2>1. /\ f = [x \in blocks |-> f[x]]
        /\ \A x \in blocks : f[x] \subseteq h.blk[x].succs
    BY ChoiceIs, RepairedKeeps
  <2>2. \A x \in blocks : x \in Addr /\ h.blk[x] # None
    BY DEF Live
  <2>3. \A x \in blocks : /\ w.blk[x].ins = h.blk[x].ins
                          /\ w.blk[x].likely = h.blk[x].likely
                          /\ w.blk[x].succs = f[x]
    BY <2>1, <2>2, ErasedIs
  <2> HIDE DEF w
  <2>4. \A x \in blocks : cfgBasicBlock(w.blk[x]) = cfgBasicBlock(h.blk[x])
    BY <2>3 DEF cfgBasicBlock
  <2>5. Copied(w, blocks) = CopyOf(h, blocks, f)
    BY <2>3, <2>4 DEF Copied, CopyOf
  <2> QED BY <2>5 DEF w
<1>2. RepairedCopies(p, h, blocks) = {Copied(erased(h, f), blocks) : f \in F}
  BY ChoiceIs DEF RepairedCopies
<1> HIDE DEF F
<1>3. RepairedCopies(p, h, blocks) = {CopyOf(h, blocks, f) : f \in F}
  BY <1>1, <1>2
<1> QED BY <1>3 DEF F

LEMMA ChoicesOK ==
  ASSUME NEW p \in Programs, NEW h, NEW u, NEW c, Source(p, h, u, c)
  PROVE  /\ RepairChoices(p, h, c.blocks) # {}
         /\ \A f \in RepairChoices(p, h, c.blocks) : Cut(p, u, CopyOf(h, c.blocks, f))
<1> DEFINE N == c.blocks
           R(x) == Repaired(p, h.blk[x])
<1>1. ASSUME NEW x \in N
      PROVE  /\ R(x) # {}
             /\ \A s \in R(x) :
                  /\ s \subseteq h.blk[x].succs
                  /\ s = h.blk[x].succs \/ \E a \in ToSet(h.blk[x].ins) : p[a].kind = "jalr"
  <2>1. /\ x \in Addr /\ Good(p, h.blk[x]) /\ Consecutive(x, h.blk[x])
        /\ h.blk[x].succs # {}
    BY DEF Source
  <2> QED BY <2>1, RepairedIs
<1>2. RepairChoices(p, h, N) = {f \in [N -> UNION {R(x) : x \in N}] : \A x \in N : f[x] \in R(x)}
  BY DEF RepairChoices
<1> HIDE DEF N, R
<1>3. RepairChoices(p, h, N) # {}
  <2> DEFINE f == [x \in N |-> CHOOSE s : s \in R(x)]
  <2>1. \A x \in N : f[x] \in R(x)
    BY <1>1
  <2>2. f \in [N -> UNION {R(x) : x \in N}]
    BY <2>1
  <2> QED BY <1>2, <2>1, <2>2
<1>4. ASSUME NEW f \in RepairChoices(p, h, N) PROVE Cut(p, u, CopyOf(h, N, f))
  <2>1. \A x \in N : f[x] \in R(x)
    BY <1>2
  <2>2. Kept(p, h, N, f)
    BY <1>1, <2>1 DEF Kept
  <2>3. Cfg(p, u, CopyOf(h, N, f), TRUE)
    BY <2>2, CopiedOK DEF N
  <2> QED BY <2>3 DEF Cfg, Cut
<1> QED BY <1>3, <1>4 DEF N

SplitCopies(p, h, blocks) == splitBBs(p, RepairedCopies(p, h, blocks))

LEMMA SplitBuilt ==
  ASSUME NEW p \in Programs, NEW h \in GraphType, NEW u, NEW c, Source(p, h, u, c),
         c.blocks \subseteq Live(h)
  PROVE  /\ SplitCopies(p, h, c.blocks) # {}
         /\ \A C \in SplitCopies(p, h, c.blocks) : Cut(p, u, C)
<1> DEFINE cfgs == RepairedCopies(p, h, c.blocks)
           cuts == SplitCopies(p, h, c.blocks)
<1>1. cfgs # {} /\ \A C \in cfgs : Cut(p, u, C)
  <2> DEFINE F == RepairChoices(p, h, c.blocks)
  <2>1. F # {} /\ \A f \in F : Cut(p, u, CopyOf(h, c.blocks, f))
    BY ChoicesOK
  <2>2. cfgs = {CopyOf(h, c.blocks, f) : f \in F}
    BY RepairedCopiesAre
  <2> HIDE DEF F, cfgs
  <2> QED BY <2>1, <2>2
<1>2. cuts = splitBBs(p, cfgs)
  BY DEF SplitCopies
<1> HIDE DEF cfgs
<1>3. PICK after : /\ Stages(p, cfgs, after)
                   /\ cuts = {C \in UNION {after[k] : k \in DOMAIN after} : Splits(p, C) = {}}
  BY <1>2, SplitBBsIs
<1> HIDE DEF cuts
<1>4. PICK K : /\ DOMAIN after = K
               /\ \A k \in K : \A C \in after[k] : Cut(p, u, C)
               /\ \E k \in K : \E C \in after[k] : Splits(p, C) = {}
  BY <1>1, <1>3, StagesOK
<1>5. cuts # {} /\ \A C \in cuts : Cut(p, u, C)
  BY <1>3, <1>4
<1> QED BY <1>5 DEF cuts

(* Code is generated only where no branch was cut off, and it goes where   *)
(* the edges say.                                                          *)
LEMMA CutEmits ==
  ASSUME NEW p \in Programs, NEW u, NEW C, Cut(p, u, C),
         \A n \in Nodes(Edged(p, u, C)) : Plausible(p, Edged(p, u, C), n)
  PROVE  LET D == patchLikely(p, Edged(p, u, C)) IN
         \A n \in Nodes(D) : Emits(p, D, n, Extra(p, D, n, TRUE))
<1> DEFINE E == Edged(p, u, C)
<1>1. E.ins = C.ins
  BY EdgedIs DEF Cut
<1>2. \A n \in Nodes(E) : Plausible(p, E, n)
  OBVIOUS
<1> HIDE DEF E
<1>3. Nodes(E) = Nodes(C) /\ \A n \in Nodes(C) : Terminators(p, E, n) = Terminators(p, C, n)
  BY <1>1 DEF Nodes, Terminators
<1>4. Whole(p, C)
  BY <1>1, <1>2, <1>3 DEF Whole, Plausible
<1>5. Cfg(p, u, C, TRUE)
  BY <1>4 DEF Cut, Cfg
<1>6. Shape(p, E) /\ EdgesOK(p, E, TRUE)
  BY <1>5, EdgedOK DEF E
<1> QED BY <1>2, <1>6, EmitsAll DEF E

(* With --aug=0, in the code of every region that is compiled, with        *)
(* --splitCFGBBs or without, every block has for successors just the       *)
(* blocks its terminator enters, but that after a split a j may keep the   *)
(* word after its delay slot as one; it enters the block that starts at    *)
(* the pc the guest has reached, if need be through a patch block, or      *)
(* leaves the region there; and without splitting these are the edges      *)
(* along which Dispatch lets the code run.  Splitting ends, in a CFG.      *)
THEOREM CodeGoesWhereTheEdgesSay == Aug = "none" => (Spec => EmitsTheEdges)
<1> SUFFICES ASSUME Aug = "none" PROVE Spec => EmitsTheEdges
  OBVIOUS
<1> DEFINE Right(cut, E) ==
             LET C == patchLikely(prog, E)
             IN Survives(E, unit') =>
                  \A n \in Nodes(C) :
                    /\ Entered(prog, C, n) \subseteq C.succs[n]
                    /\ C.succs[n] \subseteq Entered(prog, C, n)
                                           \cup (IF cut THEN AfterJump(C, n) ELSE {})
                    /\ RightPlace(prog, C, n)
                    /\ ~cut /\ ~IsPatch(n) =>
                         Beyond(C, C.succs[n]) = g'.blk[unit'].code.next[n]
<1>1. ASSUME IInv, NoUnit, Trailing, OnEdge, [Next]_vars, CompilesNow
      PROVE  BuiltNow(TRUE) # {} /\ \A cut \in BOOLEAN : \A E \in BuiltNow(cut) : Right(cut, E)
  <2> DEFINE c == g'.blk[unit'].code
  <2>1. /\ prog \in Programs /\ Source(prog, g', unit', c)
        /\ g' \in GraphType /\ c.blocks \subseteq Live(g')
    BY <1>1, CompilesSource, SourceLives, NextIInv DEF IInv, BlocksOK, GraphOK
  <2>2. \A cut : BuiltNow(cut) = Built(prog, g', unit', c.blocks, cut)
    BY DEF BuiltNow
  <2>3. \A C, n, cut : Extra(prog, C, n, cut) = IF cut THEN AfterJump(C, n) ELSE {}
    BY DEF Extra, AfterJump
  <2> HIDE DEF c
  <2>4. /\ BuiltNow(TRUE) # {}
        /\ \A E \in BuiltNow(TRUE) : \E C : Cut(prog, unit', C) /\ E = Edged(prog, unit', C)
    <3> DEFINE cuts == SplitCopies(prog, g', c.blocks)
    <3>1. BuiltNow(TRUE) = {Edged(prog, unit', C) : C \in cuts}
      BY <2>2 DEF Built, SplitCopies
    <3>2. cuts # {} /\ \A C \in cuts : Cut(prog, unit', C)
      BY <2>1, SplitBuilt
    <3> HIDE DEF cuts
    <3> QED BY <3>1, <3>2
  <2>5. ASSUME NEW E \in BuiltNow(TRUE) PROVE Right(TRUE, E)
    <3> DEFINE D == patchLikely(prog, E)
    <3> SUFFICES ASSUME Survives(E, unit'), NEW n \in Nodes(D)
                 PROVE  /\ Entered(prog, D, n) \subseteq D.succs[n]
                        /\ D.succs[n] \subseteq Entered(prog, D, n) \cup AfterJump(D, n)
                        /\ RightPlace(prog, D, n)
      OBVIOUS
    <3>1. PICK C : Cut(prog, unit', C) /\ E = Edged(prog, unit', C)
      BY <2>4
    <3>2. \A m \in Nodes(E) : Plausible(prog, E, m)
      BY DEF Survives
    <3>3. Emits(prog, D, n, Extra(prog, D, n, TRUE))
      BY <2>1, <3>1, <3>2, CutEmits
    <3> QED BY <2>3, <3>3 DEF Emits
  <2>6. ASSUME NEW E \in BuiltNow(FALSE) PROVE Right(FALSE, E)
    <3> DEFINE W == Copied(g', c.blocks)
               D == patchLikely(prog, E)
    <3> SUFFICES ASSUME Survives(E, unit'), NEW n \in Nodes(D)
                 PROVE  /\ Entered(prog, D, n) \subseteq D.succs[n]
                        /\ D.succs[n] \subseteq Entered(prog, D, n) \cup {}
                        /\ RightPlace(prog, D, n)
                        /\ ~IsPatch(n) => Beyond(D, D.succs[n]) = c.next[n]
      BY DEF c
    <3>1. E = Edged(prog, unit', W)
      BY <2>2 DEF Built
    <3>2. Cfg(prog, unit', W, FALSE) /\ Nodes(W) = c.blocks
      <4>1. Nodes(W) = c.blocks
        BY DEF Copied, Nodes
      <4> QED BY <2>1, <4>1, WholeBuilt
    <3> HIDE DEF W
    <3>3. HasEdged(prog, unit', W, E) /\ Shape(prog, E) /\ EdgesOK(prog, E, FALSE)
      BY <2>1, <3>1, <3>2, EdgedOK
    <3>4. \A m \in Nodes(E) : Plausible(prog, E, m)
      BY DEF Survives
    <3>5. Emits(prog, D, n, Extra(prog, D, n, FALSE))
      BY <2>1, <3>3, <3>4, EmitsAll
    <3>6. ASSUME ~IsPatch(n) PROVE Beyond(D, D.succs[n]) = c.next[n]
      <4>1. HasPatched(prog, E, D) /\ Nodes(E) = c.blocks
        BY <3>2, <3>3, PatchedIs DEF HasEdged
      <4>2. n \in c.blocks
        BY <3>6, <4>1 DEF HasPatched
      <4> QED BY <2>1, <3>1, <4>2, WholeBeyond DEF W
    <3> QED BY <2>3, <3>5, <3>6 DEF Emits
  <2> HIDE DEF Right
  <2> QED BY <2>4, <2>5, <2>6
<1>2. IInv /\ NoUnit /\ Trailing /\ OnEdge /\ [Next]_vars
        => [CompilesNow => /\ BuiltNow(TRUE) # {}
                           /\ \A cut \in BOOLEAN : \A E \in BuiltNow(cut) : Right(cut, E)]_vars
  BY <1>1
<1> QED BY <1>2, InvariantHolds, AlwaysNoUnit, AlwaysTrailing, AlwaysOnEdge, PTL
        DEF Spec, EmitsTheEdges

(* Whatever the programs and the options, no build can tell which edges    *)
(* repairBrokenEdges has erased in an earlier one, and it erases every     *)
(* edge at both ends.                                                      *)
THEOREM RepairsNeverShow == Spec => RepairsGoUnnoticed
<1>1. ASSUME IInv, NoUnit, [Next]_vars, CompilesNow,
             NEW worn \in repairBrokenEdges(prog, g', g'.blk[unit'].code.blocks)
      PROVE  /\ \A a, b \in Live(g') : b \in worn.blk[a].succs <=> a \in worn.blk[b].preds
             /\ \A later \in SUBSET Live(g') :
                  RepairedCopies(prog, worn, later) \subseteq RepairedCopies(prog, g', later)
  <2> DEFINE h == g'
             R == g'.blk[unit'].code.blocks
  <2>1. /\ h \in GraphType /\ Linked(h)
    BY <1>1, NextIInv DEF IInv, BlocksOK, GraphOK
  <2> HIDE DEF h, R
  <2>2. PICK f \in RepairChoices(prog, h, R) : worn = erased(h, f)
    BY <1>1, ChoiceIs DEF h, R
  <2>3. /\ f = [x \in R |-> f[x]]
        /\ \A x \in R : f[x] \in Repaired(prog, h.blk[x]) /\ f[x] \subseteq h.blk[x].succs
    BY <2>2, ChoiceIs, RepairedKeeps
  <2>4. worn \in GraphType
    BY <2>1, <2>2, <2>3, ErasedType
  <2>5. \A a \in Live(h) :
          /\ a \in Addr /\ worn.blk[a] # None
          /\ worn.blk[a].ins = h.blk[a].ins /\ worn.blk[a].likely = h.blk[a].likely
          /\ worn.blk[a].succs = IF a \in R THEN f[a] ELSE h.blk[a].succs
          /\ worn.blk[a].preds = {x \in h.blk[a].preds : x \in R => a \in f[x]}
    BY <2>1, <2>2, <2>3, ErasedIs DEF Live
  <2>6. \A a, b \in Live(h) : b \in worn.blk[a].succs <=> a \in worn.blk[b].preds
    <3> SUFFICES ASSUME NEW a \in Live(h), NEW b \in Live(h)
                 PROVE  b \in worn.blk[a].succs <=> a \in worn.blk[b].preds
      OBVIOUS
    <3>1. b \in h.blk[a].succs <=> a \in h.blk[b].preds
      BY <2>1 DEF Linked
    <3> QED BY <2>3, <2>5, <3>1
  <2>7. ASSUME NEW later \in SUBSET Live(h)
        PROVE  RepairedCopies(prog, worn, later) \subseteq RepairedCopies(prog, h, later)
    <3>1. \A x \in later : Repaired(prog, worn.blk[x]) \subseteq Repaired(prog, h.blk[x])
      <4> SUFFICES ASSUME NEW x \in later
                   PROVE  Repaired(prog, worn.blk[x]) \subseteq Repaired(prog, h.blk[x])
        OBVIOUS
      <4>1. CASE x \in R
        <5>1. worn.blk[x].ins = h.blk[x].ins /\ worn.blk[x].succs = f[x]
          BY <2>5, <4>1
        <5> QED BY <2>3, <4>1, <5>1, RepairedKeeps
      <4>2. CASE x \notin R
        <5>1. worn.blk[x].ins = h.blk[x].ins /\ worn.blk[x].succs = h.blk[x].succs
          BY <2>5, <4>2
        <5> QED BY <5>1 DEF Repaired
      <4> QED BY <4>1, <4>2
    <3>2. RepairChoices(prog, worn, later) \subseteq RepairChoices(prog, h, later)
      <4> SUFFICES ASSUME NEW e \in RepairChoices(prog, worn, later)
                   PROVE  e \in RepairChoices(prog, h, later)
        OBVIOUS
      <4>1. /\ e = [x \in later |-> e[x]]
            /\ \A x \in later : e[x] \in Repaired(prog, worn.blk[x])
        BY ChoiceIs
      <4>2. \A x \in later : e[x] \in Repaired(prog, h.blk[x])
        BY <3>1, <4>1
      <4> QED BY <4>1, <4>2, ChoiceIs
    <3>3. \A e : CopyOf(worn, later, e) = CopyOf(h, later, e)
      BY <2>5 DEF CopyOf, cfgBasicBlock
    <3>4. later \in SUBSET Live(worn)
      BY <2>5 DEF Live
    <3>5. /\ RepairedCopies(prog, worn, later)
               = {CopyOf(worn, later, e) : e \in RepairChoices(prog, worn, later)}
          /\ RepairedCopies(prog, h, later)
               = {CopyOf(h, later, e) : e \in RepairChoices(prog, h, later)}
      BY <2>1, <2>4, <3>4, RepairedCopiesAre
    <3> QED BY <3>2, <3>3, <3>5
  <2> QED BY <2>6, <2>7 DEF h
<1>2. IInv /\ NoUnit /\ [Next]_vars
        => [CompilesNow =>
              \A worn \in repairBrokenEdges(prog, g', g'.blk[unit'].code.blocks) :
                /\ \A a, b \in Live(g') : b \in worn.blk[a].succs <=> a \in worn.blk[b].preds
                /\ \A later \in SUBSET Live(g') :
                     RepairedCopies(prog, worn, later) \subseteq RepairedCopies(prog, g', later)]_vars
  BY <1>1
<1> QED BY <1>2, InvariantHolds, AlwaysNoUnit, PTL DEF Spec, RepairsGoUnnoticed
=============================================================================
