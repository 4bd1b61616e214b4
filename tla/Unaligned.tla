----------------------------- MODULE Unaligned -----------------------------
(***************************************************************************)
(* Unaligned loads and stores, and bit fields. A guest copies a word at an *)
(* unaligned address with two instructions, lwl and lwr or swl and swr,    *)
(* each merging some bytes of an aligned word by the low bits of its       *)
(* address. The interpreter and the code generator compute the merge with  *)
(* different shifts and masks, in both byte orders, and a block boundary   *)
(* between the two halves may put one in each.                             *)
(*                                                                         *)
(* A word is the set of its one bits, a byte has B bits, memory is a       *)
(* function from addresses to bytes. A shift by the width of a word is     *)
(* undefined, in C++ and in LLVM: the host's shifter takes the count       *)
(* modulo the width, an optimiser may shift everything out.                *)
(***************************************************************************)
EXTENDS Integers

CONSTANT B   \* bits in a byte

ASSUME UnalignedAssumption == B \in Nat \ {0}

W == 4 * B
Bits == 0 .. W - 1
Byte == SUBSET (0 .. B - 1)

Shl(x, n) == {b + n : b \in x} \cap Bits
LShr(x, n) == {b - n : b \in x} \cap Bits

(* (1 << n) - 1, n at most the width.                                      *)
Ones(n) == 0 .. n - 1
Mask(n) == IF n < W THEN {Ones(n)} ELSE {{}, Bits}

(* bswap<EL> of the word at an address, and what storing it back leaves.   *)
Place(e, k) == IF e THEN k ELSE 3 - k
LoadWord(m, ea, e) == UNION {Shl(m[ea + k], B * Place(e, k)) : k \in 0 .. 3}
StoreWord(m, ea, e, x) ==
  [a \in DOMAIN m |->
     IF a \in ea .. ea + 3 THEN LShr(x, B * Place(e, a - ea)) \cap Ones(B) ELSE m[a]]

-----------------------------------------------------------------------------
(* The interpreter: the words that may result from the aligned word r, the *)
(* register x and the byte number ma.                                      *)

_lwl(r, x, ma) ==
  CASE ma = 0 -> {r}
    [] ma = 1 -> {Shl(r \cap Ones(3 * B), B) \cup (x \cap Ones(B))}
    [] ma = 2 -> {Shl(r \cap Ones(2 * B), 2 * B) \cup (x \cap Ones(2 * B))}
    [] ma = 3 -> {Shl(r \cap Ones(3 * B), 3 * B) \cup (x \cap Ones(3 * B))}

_lwr(r, x, ma) ==
  CASE ma = 0 -> {(x \ Ones(B)) \cup LShr(r, 3 * B)}
    [] ma = 1 -> {(x \ Ones(2 * B)) \cup LShr(r, 2 * B)}
    [] ma = 2 -> {(x \ Ones(3 * B)) \cup LShr(r, B)}
    [] ma = 3 -> {r}

_swl(r, x, ma) == {(r \ m) \cup LShr(x, B * ma) : m \in Mask(B * (4 - ma))}

_swr(r, x, ma) ==
  LET xs == B * (3 - ma) IN {Shl(x, xs) \cup (Ones(xs) \cap r)}

_ext(rs, pos, size) == {LShr(rs, pos) \cap m : m \in Mask(size)}

_ins(rs, rt, lsb, size) ==
  {(rt \ Shl(m, lsb)) \cup Shl(rs \cap m, lsb) : m \in Mask(size)}

-----------------------------------------------------------------------------
(* The code generator's.                                                   *)

insn_lwl(r, x, ma) ==
  {Shl(r \cap m, B * ma) \cup (x \cap Ones(B * ma)) : m \in Mask(B * (4 - ma))}

insn_lwr(r, x, ma) ==
  {LShr(r, B * (3 - ma)) \cup (x \ m) : m \in Mask(B * (1 + ma))}

insn_swl(r, x, ma) == {LShr(x, B * ma) \cup (r \ m) : m \in Mask(B * (4 - ma))}

(* Mutant: the mask keeps one byte too few of the memory's.                *)
insn_swrMask(r, x, ma) ==
  LET v1 == B * (3 - ma) IN {(r \cap Ones(v1 - B)) \cup Shl(x, v1)}

insn_swr(r, x, ma) ==
  LET v1 == B * (3 - ma) IN {(r \cap Ones(v1)) \cup Shl(x, v1)}

insn_ext(rs, pos, size) == {LShr(rs, pos) \cap m : m \in Mask(size)}

insn_ins(rs, rt, lsb, size) ==
  {Shl(rs \cap m, lsb) \cup (rt \ Shl(m, lsb)) : m \in Mask(size)}

-----------------------------------------------------------------------------
(* A copy through the register, as compilers emit it: the left half at the *)
(* most significant byte of the unaligned word, then the right half at the *)
(* least significant one; or a field inserted and extracted again.         *)

VARIABLES
  el,      \* isMipsEL: the guest is little-endian
  task,    \* what the two instructions do
  place,   \* the unaligned address, or the field's first bit
  size,    \* the field's size
  mem,     \* two words of memory
  reg,     \* the register
  mem0, reg0,   \* both at the start
  half

unalignedVars == <<el, task, place, size, mem, reg, mem0, reg0, half>>

Addresses == 0 .. 7

(* The byte number of an address, and the aligned word it lies in.         *)
Ma(a) == IF el THEN 3 - (a % 4) ELSE a % 4
Ea(a) == a - (a % 4)

Left == IF el THEN place + 3 ELSE place
Right == IF el THEN place ELSE place + 3

UnalignedInit ==
  /\ el \in BOOLEAN
  /\ \/ task = "field" /\ place \in Bits /\ size \in 1 .. W - place
     \/ task \in {"load", "store"} /\ place \in 0 .. 4 /\ size = 0
  /\ mem \in [Addresses -> Byte]
  /\ task = "field" => mem = [a \in Addresses |-> {}]
  /\ reg \in SUBSET Bits
  /\ mem0 = mem
  /\ reg0 = reg
  /\ half = "start"

Loads(outcomes) ==
  /\ task = "load"
  /\ reg' \in outcomes
  /\ UNCHANGED <<el, task, place, size, mem, mem0, reg0>>

Stores(a, outcomes) ==
  /\ task = "store"
  /\ \E x \in outcomes : mem' = StoreWord(mem, Ea(a), el, x)
  /\ UNCHANGED <<el, task, place, size, reg, mem0, reg0>>

WordAt(a) == LoadWord(mem, Ea(a), el)

InterpretLeft ==
  /\ half = "start"
  /\ half' = "half"
  /\ \/ Loads(_lwl(WordAt(Left), reg, Ma(Left)))
     \/ Stores(Left, _swl(WordAt(Left), reg, Ma(Left)))

RunLeft ==
  /\ half = "start"
  /\ half' = "half"
  /\ \/ Loads(insn_lwl(WordAt(Left), reg, Ma(Left)))
     \/ Stores(Left, insn_swl(WordAt(Left), reg, Ma(Left)))

InterpretRight ==
  /\ half = "half"
  /\ half' = "done"
  /\ \/ Loads(_lwr(WordAt(Right), reg, Ma(Right)))
     \/ Stores(Right, _swr(WordAt(Right), reg, Ma(Right)))

RunRight ==
  /\ half = "half"
  /\ half' = "done"
  /\ \/ Loads(insn_lwr(WordAt(Right), reg, Ma(Right)))
     \/ Stores(Right, insn_swr(WordAt(Right), reg, Ma(Right)))

(* ins into a register that held the complement, then ext.                 *)
Field(from, next, outcomes) ==
  /\ task = "field"
  /\ half = from
  /\ half' = next
  /\ reg' \in outcomes
  /\ UNCHANGED <<el, task, place, size, mem, mem0, reg0>>

InterpretField ==
  \/ Field("start", "half", _ins(reg, Bits \ reg, place, size))
  \/ Field("half", "done", _ext(reg, place, size))

RunField ==
  \/ Field("start", "half", insn_ins(reg, Bits \ reg, place, size))
  \/ Field("half", "done", insn_ext(reg, place, size))

UnalignedNext ==
  \/ InterpretLeft \/ RunLeft
  \/ InterpretRight \/ RunRight
  \/ InterpretField \/ RunField

UnalignedSpec == UnalignedInit /\ [][UnalignedNext]_unalignedVars

-----------------------------------------------------------------------------
(* lwl and lwr load the unaligned word whichever of the two was compiled,  *)
(* although at an aligned address each alone may not.                      *)
PairLoads == half = "done" /\ task = "load" => reg = LoadWord(mem0, place, el)

(* swl and swr store the register at the unaligned address.                *)
PairStores == half = "done" /\ task = "store" => LoadWord(mem, place, el) = reg0

(* At no point is a byte beside the unaligned word disturbed, although     *)
(* both instructions write whole aligned words.                            *)
NeighboursKept ==
  \A a \in Addresses : mem[a] # mem0[a] => task = "store" /\ a \in place .. place + 3

(* ext gives back what ins put into a field, and the field alone: a field  *)
(* that fills the register may come back empty.                            *)
FieldReturned ==
  half = "done" /\ task = "field" =>
    reg = reg0 \cap Ones(size) \/ size = W

(* The interpreter and the compiled code merge alike, but for the aligned  *)
(* addresses at which the code shifts by the width of a word.              *)
HalvesAgree ==
  half = "start" /\ task \in {"load", "store"} =>
    LET v(a) == WordAt(a)
    IN /\ Ma(Left) # 0 => _lwl(v(Left), reg, Ma(Left)) = insn_lwl(v(Left), reg, Ma(Left))
       /\ Ma(Right) # 3 => _lwr(v(Right), reg, Ma(Right)) = insn_lwr(v(Right), reg, Ma(Right))
       /\ _swl(v(Left), reg, Ma(Left)) = insn_swl(v(Left), reg, Ma(Left))
       /\ _swr(v(Right), reg, Ma(Right)) = insn_swr(v(Right), reg, Ma(Right))

(* Pairs of unaligned loads and stores copy a word and only that, whichever *)
(* of the two is compiled; each half merges the same bytes in both         *)
(* engines; and ext returns the field ins put in.                          *)
UnalignedCopies == PairLoads /\ PairStores /\ NeighboursKept /\ HalvesAgree /\ FieldReturned
=============================================================================
