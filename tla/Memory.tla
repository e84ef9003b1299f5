------------------------------- MODULE Memory -------------------------------
(***************************************************************************)
(* FlatBus (include/mos6502/bus.hpp): 64 KiB of bytes, all 0 at first, and *)
(* the addresses and vectors of include/mos6502/types.hpp.  A memory is a  *)
(* function on the addresses that were ever set.                           *)
(***************************************************************************)
EXTENDS Integers, Sequences

U16(n)                  == n % 65536
Page(addr)              == addr \div 256
WordOf(lo, hi)          == 256 * hi + lo
CrossesPage(base, addr) == Page(base) # Page(addr)
StackAddr(s)            == 256 + s

NmiVector   == 65530
ResetVector == 65532
IrqVector   == 65534

Cleared == [addr \in {} |-> 0]

At(memory, addr) == IF addr \in DOMAIN memory THEN memory[addr] ELSE 0

Put(memory, addr, value) ==
  [x \in DOMAIN memory \cup {addr} |-> IF x = addr THEN value ELSE memory[x]]

(* load(): the bytes from addr on, round the end of memory. *)
Load(memory, addr, bytes) ==
  LET place(x) == U16(x - addr) + 1
      filled   == {U16(addr + k - 1) : k \in 1 .. Len(bytes)}
  IN  [x \in DOMAIN memory \cup filled |->
        IF place(x) \in DOMAIN bytes THEN bytes[place(x)] ELSE memory[x]]

SetVector(memory, vector, target) == Load(memory, vector, <<target % 256, target \div 256>>)
=============================================================================
