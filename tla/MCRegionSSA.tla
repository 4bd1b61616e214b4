----------------------------- MODULE MCRegionSSA -----------------------------
(* Regions of three and four blocks, each of which may go to two others.   *)
EXTENDS RegionSSA

LOCAL Shapes(n) == Regions(n, {1}, 2)

(* At most one instruction in a block, and at most k blocks with one.      *)
LOCAL Codes(n, k, insns) ==
  {c \in [1 .. n -> {<<>>} \cup {<<i>> : i \in insns}] :
     Cardinality({b \in 1 .. n : c[b] # <<>>}) <= k}

Integer == {"li", "addu", "mult", "mfhi", "mthi"}
Floating == {"add.s0", "add.s1", "add.d", "c.d", "movci"}

(* One loop head or several, every order of the blocks' addresses, and a   *)
(* definition whose phis meet in further joins.                            *)
EveryCase ==
  (Shapes(3) \X (Codes(3, 2, Integer) \cup Codes(3, 2, Floating)))
  \cup (Shapes(4) \X Codes(4, 1, {"li"}))
  \cup (Regions(4, {2, 3, 4}, 2) \X Codes(4, 0, {}))

(* Two blocks, each of which may read one register or another.             *)
ReadingCase ==
  LET insns == {"li", "mfhi", "mflo", "mfc1"}
  IN Shapes(2) \X [1 .. 2 -> {<<>>} \cup {<<i>> : i \in insns}]
=============================================================================
