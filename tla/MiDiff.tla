------------------------------- MODULE MiDiff -------------------------------
(***************************************************************************)
(* The diffs of mem.c.  A page is a function from its offsets to bytes; a  *)
(* diff holds the differences, byte by byte and modulo the size of a byte, *)
(* between a page and the twin made before it was first written.           *)
(***************************************************************************)
EXTENDS Integers

CONSTANTS Cell, \* the offsets of a page
          BYTE  \* number of values of a char

ASSUME ByteAssumption == BYTE \in Nat \ {0}

Page == [Cell -> 0 .. (BYTE - 1)]

ZeroPage == [c \in Cell |-> 0]

createLocalDiff(page, twin) == [c \in Cell |-> (page[c] - twin[c]) % BYTE]

(* Mutant: the sum is not cut to a byte. *)
applyDiffWide(page, diff) == [c \in Cell |-> page[c] + diff[c]]

applyDiff(page, diff) == [c \in Cell |-> (page[c] + diff[c]) % BYTE]
=============================================================================
