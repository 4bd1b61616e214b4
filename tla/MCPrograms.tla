----------------------------- MODULE MCPrograms -----------------------------
(* Small guest programs for TLC, one per hazard, and two exhaustive        *)
(* families of short ones.                                                 *)
EXTENDS Words, Integers, Sequences, FiniteSets

LOCAL G == INSTANCE Guest WITH Programs <- {}

EightWords == 0 .. 7
TenWords == 0 .. 9

I(kind) == [kind |-> kind, to |-> {}]
J(kind, to) == [kind |-> kind, to |-> to]

Text(s) ==
  [a \in Addr |-> IF a + 1 \in DOMAIN s THEN s[a + 1] ELSE I("halt")]

(* Nested loops; the inner one enters the middle of the first block built. *)
Nested ==
  Text(<<I("alu"), I("alu"), J("br", {1}), I("alu"),
         J("br", {0}), I("alu")>>)

(* A function that is called and also fallen into, returning to two sites. *)
Call ==
  Text(<<J("jal", {4}), I("alu"), J("br", {0}), I("alu"),
         J("jr", {2, 6}), I("alu")>>)

(* A branch-likely loop split at its branch, and a monitor call.           *)
Likely ==
  Text(<<I("alu"), J("brl", {0}), I("alu"), J("mon", {4}),
         J("br", {1}), I("alu")>>)

(* A sync in a loop, and code that does not compile.                       *)
Sync ==
  Text(<<I("nc"), J("br", {0}), I("alu"), I("sync"),
         J("br", {0}), I("alu")>>)

(* A jump into a delay slot.                                               *)
DelaySlot ==
  Text(<<J("j", {3}), I("alu"), I("alu"), J("br", {1}), I("alu"),
         J("br", {0}), I("alu")>>)

(* A loop through a jump and its own delay slot, which starts a block      *)
(* before the jump is met.                                                 *)
SlotLoop ==
  Text(<<J("j", {3}), I("alu"), J("j", {3}), I("alu"),
         J("br", {2}), I("alu")>>)

(* A trap in the middle of a block, and a block that falls into another.   *)
Trap ==
  Text(<<I("alu"), I("teq"), J("br", {0}), I("alu"),
         I("alu"), J("j", {1}), I("alu")>>)

(* A block on a second path of a compiled loop is split afterwards.        *)
SecondPath ==
  Text(<<J("br", {5}), I("alu"), I("alu"), J("br", {9}), I("alu"),
         J("br", {0}), I("alu"), J("br", {3}), I("alu")>>)

(* A call through a register to three places, each of which goes back to   *)
(* the call: its block has up to three successors, and the two that are    *)
(* not the next word may come without it.                                  *)
Callback ==
  Text(<<J("jalr", {2, 3, 4}), I("alu"), I("alu"), I("alu"),
         J("j", {0}), I("alu")>>)

SecondPathOnly == {SecondPath}

Chosen == {Nested, Call, Likely, Sync, DelaySlot, SlotLoop, Trap, Callback}

(* Every way to fill the words with instructions; the next word is a plain *)
(* instruction (a delay slot, perhaps) and the rest of the text stops.     *)
Fill(words, instrs) ==
  LET n == Cardinality(words)
      texts == {[a \in Addr |-> IF a \in words THEN f[a]
                                ELSE I(IF a = n THEN "alu" ELSE "halt")] :
                f \in [words -> instrs]}
  IN {p \in texts : G!WellFormed(p)}

(* Every placement of conditional branches in five words: each way a       *)
(* branch can fall into, jump into, split or loop round the blocks.        *)
Branchy == Fill(0 .. 4, {I("alu")} \cup {J("br", {t}) : t \in 0 .. 4})

(* Two ways round a loop, of which a region records one.                   *)
TwoWays ==
  Text(<<J("br", {4}), I("alu"), J("j", {0}), I("alu"),
         J("br", {0}), I("alu")>>)

ChosenAndTwoWays == Chosen \cup {TwoWays}

(* A branch to the delay slot of another block's branch.                   *)
IntoSlot ==
  Text(<<J("br", {3}), I("alu"), J("br", {0}), I("alu"),
         J("br", {0}), I("alu")>>)

IntoSlotOnly == {IntoSlot}

ChosenAndBranchy == Chosen \cup Branchy

(* The other ways to leave a block, two of them in four words.             *)
Mixed ==
  LET transfers == {J(k, {t}) : k \in {"brl", "j", "mon"}, t \in {0, 1, 2, 3, 5}}
                   \cup {J("jr", {t, u}) : t \in {0, 1}, u \in {3, 5}}
      straight == Fill(0 .. 3, {I("alu"), I("nc")})
      twice == {[p EXCEPT ![a[1]] = s, ![a[2]] = t] :
                  p \in straight, s \in transfers, t \in transfers,
                  a \in {x \in (0 .. 3) \X (0 .. 3) : x[1] <= x[2]}}
  IN {p \in straight \cup twice : G!WellFormed(p)}

EveryProgram == ChosenAndBranchy \cup Mixed
=============================================================================
