---------------------------- MODULE MCBusCycles -----------------------------
(***************************************************************************)
(* Every opcode on a few machines: code in the middle of memory and code   *)
(* that wraps from $FFFF to $0000; operands at the beginning and the end   *)
(* of a page; an index that stays in it and one that leaves it; a stack    *)
(* pointer at either end of page one; flags all clear and all set.  And    *)
(* code in page one, where the stack pointer at its third byte makes a JSR *)
(* or a BRK push over the instruction itself.                              *)
(***************************************************************************)
EXTENDS BusCycles

MCNmos == Nmos6502
MCCmos == Cmos65C02
MCOrdinaryLengths == 2 .. 8

(* Pointers in page zero and data where the operands lead: no byte twice.  *)
Cells ==
  {\h00, \h01, \h10, \h11, \h1F, \h20, \h21, \hF0, \hF1, \hFF,
   \h1200, \h1220, \h12F0, \h1310, \h12FF, \h131F, \hFFFA, \hFFFB}
CellBytes == [addr \in Cells |-> (37 * addr + 241 + addr \div 256) % 256]

Machine(code, start, lo, index, s, f) ==
  [regs |-> [a |-> 181, x |-> index, y |-> index, s |-> s,
             n |-> f, v |-> f, d |-> f, z |-> f, c |-> f],
   i |-> f, pc |-> start, mem |-> Load(CellBytes, start, <<code, lo, 18>>)]

MCMachines ==
  { Machine(code, start, lo, index, s, f) :
    code \in Byte, start \in {\h04C0, \hFFFE}, lo \in {\h00, \hF0, \hFF},
    index \in {0, 32}, s \in {0, 255}, f \in BOOLEAN }
  \cup { Machine(code, \h0180, \hF0, 32, s, FALSE) : code \in Byte, s \in {\h82, \h83} }
=============================================================================
