--------------------------- MODULE MCInstructions ---------------------------
(***************************************************************************)
(* The modules about single instructions side by side, one of them in each *)
(* behaviour: the variables of the others stand still, at one of their     *)
(* initial values.                                                         *)
(***************************************************************************)
EXTENDS Decode, Unaligned, LoadStore

CONSTANTS Width, I, Operands   \* Semantics'

VARIABLES
  part,              \* the module at work
  cpu, code, last    \* Semantics'

semanticsVars == <<cpu, code, last>>

S == INSTANCE Semantics WITH W <- Width

ASSUME InstructionsAssumption == S!SemanticsAssumption

DecodeIdle == ipo = FALSE /\ word = (CHOOSE w \in Encodings : TRUE) /\ DecodeInit
UnalignedIdle ==
  /\ el = FALSE /\ task = "field" /\ place = 0 /\ size = 1
  /\ mem = [a \in Addresses |-> {}] /\ reg = {}
  /\ UnalignedInit
LoadStoreIdle == isMipsEL = FALSE /\ LoadStoreInit

Init ==
  /\ S!Init
  /\ \/ part = "Decode" /\ DecodeInit /\ UnalignedIdle /\ LoadStoreIdle
     \/ part = "Unaligned" /\ DecodeIdle /\ UnalignedInit /\ LoadStoreIdle
     \/ part = "LoadStore" /\ DecodeIdle /\ UnalignedIdle /\ LoadStoreInit
     \/ part = "Semantics" /\ DecodeIdle /\ UnalignedIdle /\ LoadStoreIdle

Next ==
  /\ UNCHANGED part
  /\ \/ part = "Decode" /\ DecodeNext
        /\ UNCHANGED <<unalignedVars, loadStoreVars, semanticsVars>>
     \/ part = "Unaligned" /\ UnalignedNext
        /\ UNCHANGED <<decodeVars, loadStoreVars, semanticsVars>>
     \/ part = "LoadStore" /\ LoadStoreNext
        /\ UNCHANGED <<decodeVars, unalignedVars, semanticsVars>>
     \/ part = "Semantics" /\ S!Next
        /\ UNCHANGED <<decodeVars, unalignedVars, loadStoreVars>>

Spec ==
  Init /\ [][Next]_<<part, decodeVars, unalignedVars, loadStoreVars, semanticsVars>>

-----------------------------------------------------------------------------
(* Interpreter and code leave the same registers, but on the instructions  *)
(* and operands Semantics lists.                                           *)
OnlyDivergentDiffer == [][S!DifferOnlyWhenDivergent]_semanticsVars

(* madd and msub accumulate in the double word hi:lo.                      *)
MaddAccumulates == [][S!Accumulates]_semanticsVars

-----------------------------------------------------------------------------
(* Every word, up to the fields no switch reads for its opcode.            *)
EveryWord ==
  LET word1(op, funct, sub, rs, rt) ==
        [op |-> op, funct |-> funct, sub |-> sub, rs |-> rs, rt |-> rt]
  IN {word1(op, 0, 0, 0, 0) : op \in 0 .. 63}
     \cup {word1(op, funct, 0, 0, 0) : op \in {\h00, \h1c, \h1f, \h13}, funct \in 0 .. 63}
     \cup {word1(\h1f, \h20, sub, 0, 0) : sub \in 0 .. 31}
     \cup {word1(\h01, 0, 0, 0, rt) : rt \in 0 .. 31}
     \cup {word1(\h10, 0, 0, rs, 0) : rs \in 0 .. 31}
     \cup {word1(\h11, 0, 0, \h08, rt) : rt \in 0 .. 3}
     \cup {word1(\h11, funct, sub, rs, 0) : funct \in 0 .. 63, sub \in {0, 1}, rs \in 0 .. 31}

(* Distinct and equal operands, $0 and the link register in each place.    *)
EveryOperand == {<<1, 1, 31>>, <<31, 31, 1>>, <<0, 1, 31>>, <<1, 31, 0>>}
=============================================================================
