------------------------------- MODULE MCHarte -------------------------------
(***************************************************************************)
(* Three opcodes in batches of two, and a processor of two memory cells    *)
(* that adds cell 0 to its register, stores the old register in cell 1 and *)
(* logs both.  One server agrees with it; another holds a case that lacks  *)
(* its final state and its cycles, one that disagrees in a cell and one    *)
(* that disagrees in a cycle.                                              *)
(***************************************************************************)
EXTENDS HarteScript

MCAddresses == {0, 1}
MCCore(regs, memory) ==
  [regs |-> regs + memory[0], memory |-> [memory EXCEPT ![1] = regs],
   log |-> <<memory[0], regs>>]

State(regs, ram) == [regs |-> regs, ram |-> ram]
Cell(a, v)       == [x \in {a} |-> v]

(* The case in which the processor starts from r with v in cell 0. *)
Good(r, v) ==
  [initial |-> State(r, Cell(0, v)), final |-> State(r + v, Cell(1, r)), cycles |-> <<v, r>>]

(* No initial memory: the cells are 0, whatever the case before left there. *)
Bare(r) == [initial |-> State(r, NoRam), final |-> State(r, Cell(0, 0)), cycles |-> <<0, r>>]

Partial     == [initial |-> State(1, Cell(0, 1))]
WrongCell   == [Good(2, 1) EXCEPT !.final = State(3, Cell(1, 1))]
WrongCycle  == [Good(2, 1) EXCEPT !.cycles = <<1, 1>>]

MCOpcodes == <<"a9", "bd", "91">>
MCSuites == {
  [op \in {"a9", "bd", "91"} |->
     IF op = "a9" THEN <<Good(1, 1), Bare(2)>> ELSE <<Good(1, 1)>>],
  [op \in {"a9", "bd", "91"} |->
     CASE op = "a9" -> <<Partial, Good(1, 2)>>
       [] op = "bd" -> <<WrongCell>>
       [] op = "91" -> <<WrongCycle>>] }
=============================================================================
