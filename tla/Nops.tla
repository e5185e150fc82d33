-------------------------------- MODULE Nops --------------------------------
(***************************************************************************)
(* The values that are kept behind a call, as displacements of NOPs.  An   *)
(* ID is below MarkBit (0x80000 in the code); a NOP holds it with that bit *)
(* set, so that the displacement always takes four bytes.                  *)
(***************************************************************************)
LOCAL INSTANCE Naturals

CONSTANT MarkBit
ASSUME MarkBitAssumption == MarkBit \in Nat \ {0}

\* v | 0x80000
Mark(v) == IF (v \div MarkBit) % 2 = 1 THEN v ELSE v + MarkBit

unknownID == 2 * MarkBit - 1     \* 0xFFFFF: a call nothing is known of
unknownMagic == MarkBit - 1      \* 0x7FFFF: what the return checks look for
=============================================================================
