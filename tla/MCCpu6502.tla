----------------------------- MODULE MCCpu6502 ------------------------------
(***************************************************************************)
(* An instance of Cpu6502: a byte has 5 bits, memory 1024 of them, host    *)
(* memory 32 pages.  A program is a path through sets of instructions;     *)
(* each set is all that may stand in its place.                            *)
(***************************************************************************)
EXTENDS Cpu6502

MCBankRegs == 376 .. 383
MCRom == [h \in 0 .. 2047 |-> ((11 * h) \div 3) % 32]

Is(ops, modes, los, his) ==
    {i \in [op : ops, mode : modes, lo : los, hi : his] :
        <<i.op, i.mode>> \in Instructions \cup {<<"IDLE", "impl">>}}
Imm(ops, values) == Is(ops, {"imm"}, values, {0})
Zp(ops, ats) == Is(ops, {"zp"}, ats, {0})
Implied(ops) == Is(ops, {"impl", "acc"}, {0}, {0})
Rel(ops, bys) == Is(ops, {"rel"}, bys, {0})
Here == Rel(Branches, {2})   \* to the second byte behind, to see the flag

Few == {0, 1, 14, 15, 16, 17, 30, 31}
\* Addresses in RAM and its mirror, $3EFF, the bank registers, and ROM
Places == {<<0, 0>>, <<31, 0>>, <<2, 2>>, <<31, 7>>, <<24, 11>>, <<31, 11>>, <<30, 16>>, <<31, 31>>}
AtPlaces(ops, modes) == UNION {Is(ops, modes, {p[1]}, {p[2]}) : p \in Places}

Alu == <<Imm({"LDA"}, Bytes), Implied({"SEC", "CLC"}),
         Imm({"ADC", "SBC"}, Bytes), Implied({"PHP"}) \cup Here>>
Logic == <<Imm({"LDA", "LDX", "LDY"}, Few),
           Imm({"CMP", "CPX", "CPY", "AND", "EOR", "ORA"}, Bytes), Implied({"PHP"}) \cup Here>>
Flags == <<Imm({"LDA"}, Bytes), Implied({"PHA"}) \cup Zp({"STA"}, {3}), Imm({"LDA"}, Few),
           Implied({"PLP", "PLA"}) \cup Zp({"BIT"}, {3}), Here \cup Implied({"CLV"}),
           Implied({"PHP"}) \cup Here>>
Shifts == <<Imm({"LDA"}, Bytes), Implied({"SEC", "CLC"}), Implied(Shifting), Implied(Shifting),
            Implied({"PHP", "TAX", "TAY", "NOP"})>>
Counts == <<Imm({"LDX", "LDY"}, {0, 1, 15, 31}), Implied(Counting \cup Transfers),
            Implied(Counting \cup Transfers), Implied({"PHA", "PLA", "PHP", "PLP"}), Here>>
Reading3 == <<Imm({"LDA"}, {5}), Imm({"LDX"}, {0, 1, 2, 31}) \cup Imm({"LDY"}, {0, 1, 2, 31}),
              AtPlaces({"STA", "STX", "STY"}, {"abs", "absx", "absy"}),
              AtPlaces({"LDA", "LDX", "LDY", "ADC", "BIT", "CMP"}, {"abs", "absx", "absy"})>>
Zero3 == <<Imm({"LDA"}, {0, 20}), Imm({"LDX", "LDY"}, {0, 1, 30}),
           Is({"STA", "STX", "STY"}, {"zp", "zpx", "zpy"}, {0, 30, 31}, {0}),
           Is({"LDA", "LDX", "LDY", "SBC"}, {"zp", "zpx", "zpy"}, {0, 30, 31}, {0})>>
\* Pointers into RAM, its mirror and ROM.  Reading what nothing drives through
\* one is left out: RD_IND_X and RD_IND_Y do not put the pointer on the bus.
Pointers == <<Imm({"LDA"}, {0, 3, 17}), Zp({"STA"}, {0, 31}), Imm({"LDA"}, {3, 16, 30}),
              Zp({"STA"}, {1, 31}), Imm({"LDX", "LDY"}, {0, 2, 31}),
              Is({"LDA", "STA", "ADC"}, {"indx", "indy"}, {0, 29, 30, 31}, {0})>>
Modifying3 == <<Imm({"LDA"}, {1, 16, 31}), Is({"STA"}, {"zp", "abs"}, {0, 1, 31}, {0}),
                Imm({"LDX"}, {0, 1, 31}),
                AtPlaces(Shifting \cup Stepping, {"zp", "zpx", "abs", "absx"}),
                Here>>
Banks == <<Imm({"LDA"}, {1, 7}), Is({"STA"}, {"abs"}, {24, 25}, {11}),
           Is({"JSR", "JMP"}, {"abs"}, {0, 30}, {16, 17, 18}) \cup Is({"JMP"}, {"ind"}, {31}, {16, 19}),
           Rel({"BNE", "BEQ"}, {1, 15, 16, 31}), Implied({"NOP"}),
           Implied({"RTS"}) \cup Is({"STA"}, {"abs"}, {24}, {11}), Implied({"NOP"})>>
Calls == <<Imm({"LDX"}, {0, 1, 31}), Implied({"TXS"}), Is({"JSR"}, {"abs"}, {30, 31}, {17, 31}),
           Implied({"PHA", "NOP"}), Is({"JSR"}, {"abs"}, {3}, {31}), Implied({"RTS", "PLA"}),
           Implied({"RTS"})>>
Waiting == <<Implied({"IDLE", "NOP"}), Is({"LDA"}, {"abs"}, {31}, {7}), Implied({"IDLE"}) \cup Here,
             Is({"LDA", "LSR"}, {"abs"}, {31}, {7}), Implied({"IDLE", "NOP"}), Here>>

MCPrograms == <<Alu, Logic, Flags, Shifts, Counts, Reading3, Zero3, Pointers, Modifying3,
                Banks, Calls, Waiting>>
=============================================================================
