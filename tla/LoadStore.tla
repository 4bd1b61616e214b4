----------------------------- MODULE LoadStore -----------------------------
(***************************************************************************)
(* Loads and stores as the interpreter does them (itype_load_helper,       *)
(* itype_loadu_helper, itype_store_helper, fpMemOp) and as the generated   *)
(* code does (insn_lb ... insn_sdc1), block after block in either way, on  *)
(* a little-endian host. A host value is the sequence of its bytes, least  *)
(* significant first: what the host loads is what lies in memory.          *)
(***************************************************************************)
EXTENDS Naturals, Sequences, SequencesExt

CONSTANTS
  MemBytes,   \* bytes of memory
  MaxOps      \* bound on the operations

ASSUME LoadStoreAssumption == MemBytes \in Nat /\ MaxOps \in Nat

VARIABLES
  isMipsEL,   \* globals::isMipsEL, as the program loaded has it
  bytes,      \* s->mem
  gpr,        \* a register of s->gpr
  cpr1,       \* a pair of s->cpr1
  ops         \* operations so far

loadStoreVars == <<isMipsEL, bytes, gpr, cpr1, ops>>

(* A byte is named after where it was at the start, or is the top bit of   *)
(* one of those eight times, or zero.                                      *)
SomeByte(where, i) == <<where, i>>
Zero == <<"zero", 0>>
Sign(b) == IF b[1] \in {"zero", "sign"} THEN b ELSE <<"sign", b>>

LoadStoreInit ==
  /\ isMipsEL \in BOOLEAN
  /\ bytes = [a \in 0 .. MemBytes - 1 |-> SomeByte("mem", a)]
  /\ gpr = [i \in 1 .. 4 |-> SomeByte("gpr", i)]
  /\ cpr1 = [r \in {0, 1} |-> [i \in 1 .. 4 |-> SomeByte("cpr", 4 * r + i)]]
  /\ ops = 0

Aligned(n) == {a \in 0 .. MemBytes - n : a % n = 0}

(* What the host's load of n bytes returns, and what its store leaves.     *)
HostLoad(a, n) == [i \in 1 .. n |-> bytes[a + i - 1]]
HostStore(a, v) ==
  [b \in DOMAIN bytes |-> IF b \in a .. a + Len(v) - 1 THEN v[b - a + 1] ELSE bytes[b]]

(* The interpreter's bswap<EL>.                                            *)
bswap(v) == IF isMipsEL THEN v ELSE Reverse(v)

SExt(v) == v \o [i \in 1 .. 4 - Len(v) |-> Sign(v[Len(v)])]
ZExt(v) == v \o [i \in 1 .. 4 - Len(v) |-> Zero]
Trunc(v, n) == SubSeq(v, 1, n)

Count == ops < MaxOps /\ ops' = ops + 1 /\ UNCHANGED isMipsEL

-----------------------------------------------------------------------------
(* The interpreter.                                                        *)

itype_load_helper(n, a) ==
  Count /\ gpr' = SExt(bswap(HostLoad(a, n))) /\ UNCHANGED <<bytes, cpr1>>

itype_loadu_helper(n, a) ==
  Count /\ gpr' = ZExt(bswap(HostLoad(a, n))) /\ UNCHANGED <<bytes, cpr1>>

itype_store_helper(n, a) ==
  Count /\ bytes' = HostStore(a, bswap(Trunc(gpr, n))) /\ UNCHANGED <<gpr, cpr1>>

(* The host's view of s->cpr1 + ft as a float or as a double.              *)
Cpr(n, ft) == IF n = 4 THEN cpr1[ft] ELSE cpr1[0] \o cpr1[1]
CprSet(n, ft, v) ==
  IF n = 4 THEN [cpr1 EXCEPT ![ft] = v]
  ELSE [r \in {0, 1} |-> SubSeq(v, 4 * r + 1, 4 * r + 4)]

fpMemOp(isLoad, n, ft, a) ==
  /\ Count
  /\ IF isLoad THEN cpr1' = CprSet(n, ft, bswap(HostLoad(a, n))) /\ UNCHANGED <<bytes, gpr>>
     ELSE bytes' = HostStore(a, bswap(Cpr(n, ft))) /\ UNCHANGED <<gpr, cpr1>>

-----------------------------------------------------------------------------
(* The generated code.                                                     *)

byteSwap(v) == IF isMipsEL THEN v ELSE Reverse(v)

insn_lb(a) == Count /\ gpr' = SExt(HostLoad(a, 1)) /\ UNCHANGED <<bytes, cpr1>>
insn_lbu(a) == Count /\ gpr' = ZExt(HostLoad(a, 1)) /\ UNCHANGED <<bytes, cpr1>>
insn_lh(a) == Count /\ gpr' = SExt(byteSwap(HostLoad(a, 2))) /\ UNCHANGED <<bytes, cpr1>>
insn_lhu(a) == Count /\ gpr' = ZExt(byteSwap(HostLoad(a, 2))) /\ UNCHANGED <<bytes, cpr1>>
insn_lw(a) == Count /\ gpr' = byteSwap(HostLoad(a, 4)) /\ UNCHANGED <<bytes, cpr1>>
insn_sb(a) == Count /\ bytes' = HostStore(a, Trunc(gpr, 1)) /\ UNCHANGED <<gpr, cpr1>>
insn_sh(a) == Count /\ bytes' = HostStore(a, byteSwap(Trunc(gpr, 2))) /\ UNCHANGED <<gpr, cpr1>>
insn_sw(a) == Count /\ bytes' = HostStore(a, byteSwap(gpr)) /\ UNCHANGED <<gpr, cpr1>>

insn_lwc1(ft, a) ==
  Count /\ cpr1' = CprSet(4, ft, byteSwap(HostLoad(a, 4))) /\ UNCHANGED <<bytes, gpr>>

(* Mutant: the words of a double are swapped one by one.                   *)
insn_ldc1ByWords(a) ==
  /\ Count
  /\ cpr1' = [r \in {0, 1} |-> byteSwap(HostLoad(a + 4 * r, 4))]
  /\ UNCHANGED <<bytes, gpr>>

insn_ldc1(a) ==
  Count /\ cpr1' = CprSet(8, 0, byteSwap(HostLoad(a, 8))) /\ UNCHANGED <<bytes, gpr>>
insn_swc1(ft, a) ==
  Count /\ bytes' = HostStore(a, byteSwap(cpr1[ft])) /\ UNCHANGED <<gpr, cpr1>>
insn_sdc1(a) ==
  Count /\ bytes' = HostStore(a, byteSwap(Cpr(8, 0))) /\ UNCHANGED <<gpr, cpr1>>

-----------------------------------------------------------------------------
Interpreted ==
  \/ \E n \in {1, 2, 4} : \E a \in Aligned(n) : itype_load_helper(n, a) \/ itype_store_helper(n, a)
  \/ \E n \in {1, 2} : \E a \in Aligned(n) : itype_loadu_helper(n, a)
  \/ \E isLoad \in BOOLEAN, ft \in {0, 1}, a \in Aligned(4) : fpMemOp(isLoad, 4, ft, a)
  \/ \E isLoad \in BOOLEAN, a \in Aligned(8) : fpMemOp(isLoad, 8, 0, a)

Compiled ==
  \/ \E a \in Aligned(1) : insn_lb(a) \/ insn_lbu(a) \/ insn_sb(a)
  \/ \E a \in Aligned(2) : insn_lh(a) \/ insn_lhu(a) \/ insn_sh(a)
  \/ \E a \in Aligned(4) : insn_lw(a) \/ insn_sw(a)
  \/ \E a \in Aligned(4), ft \in {0, 1} : insn_lwc1(ft, a) \/ insn_swc1(ft, a)
  \/ \E a \in Aligned(8) : insn_ldc1(a) \/ insn_sdc1(a)

LoadStoreNext == Interpreted \/ Compiled

LoadStoreSpec == LoadStoreInit /\ [][LoadStoreNext]_loadStoreVars

-----------------------------------------------------------------------------
GuestView ==
  INSTANCE GuestMemory WITH
    BigEndian <- ~isMipsEL, mem <- bytes, gpr <- Reverse(gpr),
    fpr <- [r \in {0, 1} |-> Reverse(cpr1[r])]

(* Whatever mixture of interpreted and compiled loads and stores ran, each *)
(* was one the guest could have asked for: right width, right byte order,  *)
(* right half of a double, right extension.                                *)
GuestSteps == [][ops' = ops + 1 /\ GuestView!Next]_loadStoreVars
=============================================================================
