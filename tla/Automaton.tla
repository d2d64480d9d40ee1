---------------------------- MODULE Automaton ----------------------------
(***************************************************************************)
(* The automaton twice: as internal/ca computes it and as the contract     *)
(* contracts/Cell.runar.go verifies one bit of it.  Both address a row by  *)
(* byte and position, and the ring wrap of the contract lives entirely in  *)
(* the six constants internal/cellscript bakes into each cell's script.    *)
(* A row is the set of its live cells.  All definitions are pure.          *)
(***************************************************************************)
EXTENDS Integers

CONSTANTS
  N,         \* cells of the ring
  ByteBits,  \* cells a byte of the row holds; 8 in the code
  Rule       \* Wolfram's rule number

ASSUME RingAssumption ==
  /\ N \in Nat \ {0}
  /\ ByteBits \in 1 .. 8
  /\ N % ByteBits = 0
  /\ Rule \in 0 .. 255

Cells == 0 .. N - 1
Rows == SUBSET Cells

Bit(row, i) == IF i \in row THEN 1 ELSE 0

Flip(row, i) == IF i \in row THEN row \ {i} ELSE row \cup {i}

(***************************************************************************)
(* The reference: internal/ca.                                             *)
(***************************************************************************)

RuleNext(l, c, r) == (Rule \div 2^(4 * l + 2 * c + r)) % 2

\* "Left" is the next higher index; both neighbours wrap.
LeftIndex(i) == (i + 1) % N
RightIndex(i) == (((i - 1) % N) + N) % N

Near(i) == {LeftIndex(i), i, RightIndex(i)}

NextBit(row, i) ==
  RuleNext(Bit(row, LeftIndex(i)), Bit(row, i), Bit(row, RightIndex(i)))

Step(row) == {i \in Cells : NextBit(row, i) = 1}

(***************************************************************************)
(* The contract: what a cell's script reads and asserts.                   *)
(***************************************************************************)

\* The value of one byte of a row, least significant bit first.
ByteAt(row, b) ==
  LET bit(k) == IF k < ByteBits THEN Bit(row, b * ByteBits + k) ELSE 0
  IN bit(0) + 2 * (bit(1) + 2 * (bit(2) + 2 * (bit(3) + 2 *
       (bit(4) + 2 * (bit(5) + 2 * (bit(6) + 2 * bit(7)))))))

BitAt(row, byte, div) == (ByteAt(row, byte) \div div) % 2

ByteOf(i) == i \div ByteBits

\* Mutant: the divisor counts from the high end of the byte.
DivOfHighFirst(i) == 2^(ByteBits - 1 - (i % ByteBits))

DivOf(i) == 2^(i % ByteBits)

\* The constants baked into the script of cell i.
CtorArgs(i) ==
  [byteL |-> ByteOf(LeftIndex(i)),  divL |-> DivOf(LeftIndex(i)),
   byteC |-> ByteOf(i),             divC |-> DivOf(i),
   byteR |-> ByteOf(RightIndex(i)), divR |-> DivOf(RightIndex(i))]

\* Cell.Step: whether the script of those constants lets an output that
\* carries row be spent by presenting next.
CellStep(args, row, next) ==
  LET l == BitAt(row, args.byteL, args.divL)
      c == BitAt(row, args.byteC, args.divC)
      r == BitAt(row, args.byteR, args.divR)
      pow == (1 + 15 * l) * (1 + 3 * c) * (1 + r)
  IN BitAt(next, args.byteC, args.divC) = (Rule \div pow) % 2

============================================================================
