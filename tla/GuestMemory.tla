---------------------------- MODULE GuestMemory ----------------------------
(***************************************************************************)
(* What loads and stores promise the guest: its memory is a row of bytes,  *)
(* a word or a double word at an address is the bytes from there on, most  *)
(* significant first on a big-endian machine and last on a little-endian   *)
(* one, and a narrow load fills the register with zeros or with the sign.  *)
(*                                                                         *)
(* Bytes are symbols; Sign(b) is the byte of copies of b's top bit. A      *)
(* register is the sequence of its bytes, most significant first. The      *)
(* even floating-point register of a pair has the low word of a double.    *)
(***************************************************************************)
EXTENDS Naturals, Sequences

CONSTANTS MemBytes, Sign(_), Zero

VARIABLES
  BigEndian,  \* the guest's byte order, which never changes
  mem,    \* the bytes of memory
  gpr,    \* an integer register
  fpr     \* a pair of floating-point registers

vars == <<BigEndian, mem, gpr, fpr>>

Sizes == {1, 2, 4}
Addrs(n) == {a \in 0 .. MemBytes - n : a % n = 0}

(* The address of byte i of n, counted from the most significant.          *)
ByteAt(a, n, i) == IF BigEndian THEN a + i - 1 ELSE a + n - i
Value(a, n) == [i \in 1 .. n |-> mem[ByteAt(a, n, i)]]
Written(a, x) ==
  LET n == Len(x)
  IN [b \in DOMAIN mem |->
        IF \E i \in 1 .. n : ByteAt(a, n, i) = b
        THEN x[CHOOSE i \in 1 .. n : ByteAt(a, n, i) = b] ELSE mem[b]]

Extended(x, signed) ==
  [i \in 1 .. 4 - Len(x) |-> IF signed THEN Sign(x[1]) ELSE Zero] \o x

Load(n, signed, a) ==
  gpr' = Extended(Value(a, n), signed) /\ UNCHANGED <<mem, fpr>>
Store(n, a) ==
  mem' = Written(a, SubSeq(gpr, 5 - n, 4)) /\ UNCHANGED <<gpr, fpr>>
LoadSingle(r, a) == fpr' = [fpr EXCEPT ![r] = Value(a, 4)] /\ UNCHANGED <<mem, gpr>>
StoreSingle(r, a) == mem' = Written(a, fpr[r]) /\ UNCHANGED <<gpr, fpr>>
LoadDouble(a) ==
  LET x == Value(a, 8)
  IN fpr' = [r \in {0, 1} |-> IF r = 0 THEN SubSeq(x, 5, 8) ELSE SubSeq(x, 1, 4)]
     /\ UNCHANGED <<mem, gpr>>
StoreDouble(a) == mem' = Written(a, fpr[1] \o fpr[0]) /\ UNCHANGED <<gpr, fpr>>

Access ==
  \/ \E n \in Sizes : \E a \in Addrs(n), signed \in BOOLEAN : Load(n, signed, a)
  \/ \E n \in Sizes : \E a \in Addrs(n) : Store(n, a)
  \/ \E r \in {0, 1}, a \in Addrs(4) : LoadSingle(r, a) \/ StoreSingle(r, a)
  \/ \E a \in Addrs(8) : LoadDouble(a) \/ StoreDouble(a)

Next == Access /\ UNCHANGED BigEndian
=============================================================================
