------------------------------- MODULE CpuBus -------------------------------
(***************************************************************************)
(* What the emulated 6502 is connected to, and its instruction set.  The   *)
(* tables rfap and wfap give each address a read and a write function of   *)
(* s6502.S; those that the bus of a song without expansion chip has are    *)
(* here.  Bytes have Bits bits; an address is two bytes.                   *)
(***************************************************************************)
EXTENDS Integers, SequencesExt

CONSTANTS
    Bits,        \* 8
    BankSize,    \* 4096
    RamSize,     \* 2048: the zero page, the stack, the rest
    RamTop,      \* 0x2000: below it RAM and its mirrors
    Pending,     \* 0x3EFF
    BankRegs,    \* 0x5FF8..0x5FFF
    RomFrom,     \* 0x8000
    Rom          \* the bytes at rom[], by host address

Byte == 2^Bits
Half == 2^(Bits - 1)
Space == Byte * Byte
Bytes == 0 .. Byte - 1
BankOf(at) == at \div BankSize

ASSUME BusAssumption ==
    /\ Bits \in Nat /\ Bits >= 5 /\ RamSize >= 2 * Byte /\ RamTop <= Pending
    /\ Space = 16 * BankSize /\ BankSize % Byte = 0
    /\ RomFrom = 8 * BankSize /\ Pending < RomFrom
    /\ \A r \in BankRegs : r < RomFrom /\ r % 16 >= 8

\* banks_4k[w] is the host page of bank w, less w.  At first ROM page k is in
\* bank 8 + k; the banks of RAM and of the shim lie elsewhere in host memory.
OtherPages == 1000
PowerOnMemory ==
    [ram |-> [a \in 0 .. RamSize - 1 |-> 0], pending |-> 0,
     banks |-> [w \in 0 .. 15 |-> IF w < 8 THEN OtherPages ELSE -8]]

\* The functions the tables rfap and wfap lead to.  What no function drives
\* keeps the last value of the bus.
BusRead(mem, at, bus) ==
    CASE at < RamTop -> mem.ram[at % RamSize]
      [] at = Pending -> mem.pending
      [] at >= RomFrom -> Rom[(mem.banks[BankOf(at)] * BankSize) + at]
      [] OTHER -> bus

AfterBusRead(mem, at) == IF at = Pending THEN [mem EXCEPT !.pending = 0] ELSE mem

BusWrite(mem, at, v) ==
    CASE at < RamTop -> [mem EXCEPT !.ram[at % RamSize] = v]
      [] at \in BankRegs -> [mem EXCEPT !.banks[at % 16] = v - (at % 16)]
      [] OTHER -> mem

-----------------------------------------------------------------------------
(* The instructions, the table op_table names: an operation and a mode. *)

Accumulating == {"ADC", "SBC", "AND", "EOR", "ORA", "CMP", "LDA"}
Shifting == {"ASL", "LSR", "ROL", "ROR"}
Stepping == {"INC", "DEC"}
Branches == {"BEQ", "BNE", "BMI", "BPL", "BVC", "BVS", "BCC", "BCS"}
Transfers == {"TAX", "TAY", "TXA", "TYA", "TSX", "TXS"}
Counting == {"DEX", "DEY", "INX", "INY"}
Flagging == {"CLC", "SEC", "CLV"}

Reads ==
    UNION {Accumulating \X {"imm", "zp", "zpx", "abs", "absx", "absy", "indx", "indy"},
           {"LDX"} \X {"imm", "zp", "zpy", "abs", "absy"},
           {"LDY"} \X {"imm", "zp", "zpx", "abs", "absx"},
           {"CPX", "CPY"} \X {"imm", "zp", "abs"},
           {"BIT"} \X {"zp", "abs"}}
Stores ==
    UNION {{"STA"} \X {"zp", "zpx", "abs", "absx", "absy", "indx", "indy"},
           {"STX"} \X {"zp", "zpy", "abs"},
           {"STY"} \X {"zp", "zpx", "abs"}}
Modifies == (Shifting \cup Stepping) \X {"zp", "zpx", "abs", "absx"}
Inherent ==
    UNION {Shifting \X {"acc"},
           (Transfers \cup Counting \cup Flagging \cup {"NOP"}) \X {"impl"}}
StackOps == {"PHA", "PLA", "PHP", "PLP"} \X {"impl"}
Jumps ==
    UNION {{<<"JMP", "abs">>, <<"JMP", "ind">>, <<"JSR", "abs">>, <<"RTS", "impl">>},
           Branches \X {"rel"}}
Instructions == UNION {Reads, Stores, Modifies, Inherent, StackOps, Jumps}

\* The bytes an instruction has after its opcode
Operands(mode) ==
    CASE mode \in {"impl", "acc"} -> 0
      [] mode \in {"abs", "absx", "absy", "ind"} -> 2
      [] OTHER -> 1
=============================================================================
