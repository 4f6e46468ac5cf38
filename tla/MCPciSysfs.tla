----------------------------- MODULE MCPciSysfs -----------------------------
(***************************************************************************)
(* Devices with a 64-bit BAR in registers 0 and 1 and a BAR in register 2: *)
(* one whose second half has the bits of another 64-bit BAR and that has   *)
(* an empty pair in 3 and 4, one with a pair in the last two registers,    *)
(* and one with a register of no known type.  The map table lays two areas *)
(* over BAR 0 and one over BAR 2; transfers fall inside, between, across   *)
(* and outside of them.                                                    *)
(***************************************************************************)
EXTENDS PciSysfs, Sequences

Regs(s) == [j \in Bars |-> s[j + 1]]

MCDevices == {[bits |-> Regs(<<2, 2, 1, 2, 0, 0>>), size |-> Regs(<<32, 0, 8, 0, 0, 0>>)],
              [bits |-> Regs(<<2, 0, 0, 0, 2, 0>>), size |-> Regs(<<32, 0, 8, 4, 16, 0>>)],
              [bits |-> Regs(<<2, 0, 0, 3, 0, 0>>), size |-> Regs(<<32, 0, 8, 0, 0, 0>>)]}

MCMapTable == {[paddr |-> 100, size |-> 16, bar |-> 0, off |-> 0],
               [paddr |-> 200, size |-> 16, bar |-> 0, off |-> 16],
               [paddr |-> 116, size |-> 8, bar |-> 2, off |-> 0]}

MCTransfers == {[paddr |-> 100, len |-> 16], [paddr |-> 100, len |-> 12],
                [paddr |-> 101, len |-> 3], [paddr |-> 112, len |-> 8],
                [paddr |-> 116, len |-> 8], [paddr |-> 204, len |-> 12],
                [paddr |-> 208, len |-> 12], [paddr |-> 216, len |-> 1]}
=============================================================================
