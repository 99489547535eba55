------------------------------- MODULE Mos6502 -------------------------------
(***************************************************************************)
(* The 6502, the promise s6502.S has to keep: what an instruction does to  *)
(* registers, flags and memory, which accesses it makes besides those of   *)
(* the zero page and the stack, and in which of its cycles.                *)
(***************************************************************************)
EXTENDS CpuBus, Bitwise

Bit(v, i) == (v \div 2^i) % 2 = 1
Signed(v) == IF v < Half THEN v ELSE v - Byte
One(b) == IF b THEN 1 ELSE 0
With(flags, f, b) == IF b THEN flags \cup {f} ELSE flags \ {f}
At(lo, hi) == (hi * Byte) + lo

Result(r, v) == [r EXCEPT !.flags = With(With(@, "N", v >= Half), "Z", v = 0)]
Carry(r) == One("C" \in r.flags)

-----------------------------------------------------------------------------
\* A + v + carry; subtracting adds the complement
Added(r, v) ==
    LET sum == r.a + v + Carry(r)
        low == sum % Byte
        over == Signed(r.a) + Signed(v) + Carry(r) \notin -Half .. Half - 1
        s == Result([r EXCEPT !.a = low], low)
    IN  [s EXCEPT !.flags = With(With(@, "C", sum >= Byte), "V", over)]

Compared(r, reg, v) ==
    LET s == Result(r, (reg - v) % Byte)
    IN  [s EXCEPT !.flags = With(@, "C", reg >= v)]

Loaded(r, reg, v) == Result([r EXCEPT ![reg] = v], v)

\* The effect of an instruction that reads v
Reading(r, op, v) ==
    CASE op = "ADC" -> Added(r, v)
      [] op = "SBC" -> Added(r, Byte - 1 - v)
      [] op = "CMP" -> Compared(r, r.a, v)
      [] op = "CPX" -> Compared(r, r.x, v)
      [] op = "CPY" -> Compared(r, r.y, v)
      [] op = "AND" -> Loaded(r, "a", r.a & v)
      [] op = "EOR" -> Loaded(r, "a", r.a ^^ v)
      [] op = "ORA" -> Loaded(r, "a", r.a | v)
      [] op = "LDA" -> Loaded(r, "a", v)
      [] op = "LDX" -> Loaded(r, "x", v)
      [] op = "LDY" -> Loaded(r, "y", v)
      [] op = "BIT" -> [r EXCEPT !.flags = With(With(With(@, "N", Bit(v, Bits - 1)),
                                                     "V", Bit(v, Bits - 2)),
                                                "Z", r.a & v = 0)]

\* The value an instruction that modifies v writes back, and the carry
Modified(r, op, v) ==
    CASE op = "ASL" -> (2 * v) % Byte
      [] op = "LSR" -> v \div 2
      [] op = "ROL" -> ((2 * v) % Byte) + Carry(r)
      [] op = "ROR" -> (v \div 2) + Half * Carry(r)
      [] op = "INC" -> (v + 1) % Byte
      [] op = "DEC" -> (v - 1) % Byte

Modifying(r, op, v) ==
    LET s == Result(r, Modified(r, op, v))
    IN  CASE op \in {"ASL", "ROL"} -> [s EXCEPT !.flags = With(@, "C", Bit(v, Bits - 1))]
          [] op \in {"LSR", "ROR"} -> [s EXCEPT !.flags = With(@, "C", Bit(v, 0))]
          [] OTHER -> s

Stored(r, op) == CASE op = "STA" -> r.a [] op = "STX" -> r.x [] op = "STY" -> r.y

Transferred(r, op) ==
    CASE op = "TAX" -> Loaded(r, "x", r.a)
      [] op = "TAY" -> Loaded(r, "y", r.a)
      [] op = "TXA" -> Loaded(r, "a", r.x)
      [] op = "TYA" -> Loaded(r, "a", r.y)
      [] op = "TSX" -> Loaded(r, "x", r.sp)
      [] op = "TXS" -> [r EXCEPT !.sp = r.x]
      [] op = "INX" -> Loaded(r, "x", (r.x + 1) % Byte)
      [] op = "INY" -> Loaded(r, "y", (r.y + 1) % Byte)
      [] op = "DEX" -> Loaded(r, "x", (r.x - 1) % Byte)
      [] op = "DEY" -> Loaded(r, "y", (r.y - 1) % Byte)
      [] op = "CLC" -> [r EXCEPT !.flags = @ \ {"C"}]
      [] op = "SEC" -> [r EXCEPT !.flags = @ \cup {"C"}]
      [] op = "CLV" -> [r EXCEPT !.flags = @ \ {"V"}]
      [] op = "NOP" -> r

-----------------------------------------------------------------------------
(* Addressing. *)

Zero(r, at) == r.mem.ram[at % Byte]
Indexed == {"absx", "absy", "indy"}

Unindexed(r, i) ==
    CASE i.mode \in {"zp", "zpx", "zpy"} -> i.lo
      [] i.mode = "indx" -> At(Zero(r, i.lo + r.x), Zero(r, i.lo + r.x + 1))
      [] i.mode = "indy" -> At(Zero(r, i.lo), Zero(r, i.lo + 1))
      [] OTHER -> At(i.lo, i.hi)
Index(r, i) ==
    CASE i.mode \in {"zpx", "absx"} -> r.x
      [] i.mode \in {"zpy", "absy", "indy"} -> r.y
      [] OTHER -> 0
Effective(r, i) ==
    (Unindexed(r, i) + Index(r, i)) % (IF i.mode \in {"zp", "zpx", "zpy"} THEN Byte ELSE Space)
\* The page of the operand with the low byte of the sum: where the 6502 reads
\* first when it does not know yet whether the sum leaves the page
Unfixed(r, i) ==
    ((Unindexed(r, i) \div Byte) * Byte) + ((Unindexed(r, i) + Index(r, i)) % Byte)
Crosses(r, i) == i.mode \in Indexed /\ Unfixed(r, i) # Effective(r, i)

\* Accesses, in order, each followed by another cycle
Visible(i, accesses) == IF i.mode \in {"imm", "zp", "zpx", "zpy", "acc"} THEN <<>> ELSE accesses
First(r, i, always) ==
    IF i.mode \in Indexed /\ (always \/ Crosses(r, i)) THEN <<<<"read", Unfixed(r, i)>>>> ELSE <<>>
Timed(accesses, cycles) ==
    [k \in DOMAIN accesses |-> Append(accesses[k], cycles - Len(accesses) + k)]

AfterFirst(r, i, always) ==
    IF First(r, i, always) = <<>> THEN r.mem ELSE AfterBusRead(r.mem, Unfixed(r, i))
\* What is on the bus before the access proper
Driven(r, i, always) ==
    IF First(r, i, always) = <<>> THEN i.hi ELSE BusRead(r.mem, Unfixed(r, i), i.hi)

Cycles(r, i) ==
    LET access == CASE i.mode \in {"imm", "acc"} -> 2
                    [] i.mode = "zp" -> 3
                    [] i.mode \in {"zpx", "zpy", "abs", "absx", "absy"} -> 4
                    [] i.mode = "indx" -> 6
                    [] i.mode = "indy" -> 5
        key == <<i.op, i.mode>>
    IN  CASE key \in Reads -> access + One(Crosses(r, i))
          [] key \in Stores -> access + One(i.mode \in Indexed)
          [] key \in Modifies -> access + 2 + One(i.mode \in Indexed)
          [] key \in Inherent -> 2
          [] i.op \in {"PHA", "PHP"} \/ key = <<"JMP", "abs">> -> 3
          [] i.op \in {"PLA", "PLP"} -> 4
          [] key = <<"JMP", "ind">> -> 5
          [] OTHER -> 6

-----------------------------------------------------------------------------
(* A step: the state after the instruction, and what was seen of it. *)

Read6502(r, i) ==
    LET at == Effective(r, i)
        mem == AfterFirst(r, i, FALSE)
        v == IF i.mode = "imm" THEN i.lo ELSE BusRead(mem, at, Driven(r, i, FALSE))
        after == [r EXCEPT !.mem = IF i.mode = "imm" THEN @ ELSE AfterBusRead(mem, at)]
    IN  [state |-> Reading(after, i.op, v),
         accesses |-> Visible(i, First(r, i, FALSE) \o <<<<"read", at>>>>),
         cycles |-> Cycles(r, i)]

Store6502(r, i) ==
    LET at == Effective(r, i)
        v == Stored(r, i.op)
    IN  [state |-> [r EXCEPT !.mem = BusWrite(AfterFirst(r, i, TRUE), at, v)],
         accesses |-> Visible(i, First(r, i, TRUE) \o <<<<"write", at, v>>>>),
         cycles |-> Cycles(r, i)]

\* Read, write back what was read, write what becomes of it
Modify6502(r, i) ==
    LET at == Effective(r, i)
        mem == AfterFirst(r, i, TRUE)
        old == BusRead(mem, at, Driven(r, i, TRUE))
        new == Modified(r, i.op, old)
        written == BusWrite(BusWrite(AfterBusRead(mem, at), at, old), at, new)
    IN  [state |-> Modifying([r EXCEPT !.mem = written], i.op, old),
         accesses |-> Visible(i, First(r, i, TRUE) \o
             <<<<"read", at>>, <<"write", at, old>>, <<"write", at, new>>>>),
         cycles |-> Cycles(r, i)]

Inherent6502(r, i) ==
    [state |-> IF i.mode = "acc" THEN [Modifying(r, i.op, r.a) EXCEPT !.a = Modified(r, i.op, r.a)]
               ELSE Transferred(r, i.op),
     accesses |-> <<>>, cycles |-> 2]

Push(r, v) == [r EXCEPT !.mem.ram[Byte + r.sp] = v, !.sp = (@ - 1) % Byte]
Pulled(r, n) == r.mem.ram[Byte + ((r.sp + n) % Byte)]
Pop(r, n) == [r EXCEPT !.sp = (@ + n) % Byte]

\* The flags a push of P shows, by bit; bits 4 and 5 of P, here the one bit U,
\* are not flags and show as 1
FlagBit == [N |-> Bits - 1, V |-> Bits - 2, Z |-> 1, C |-> 0]
U == 4

Stack6502(r, i) ==
    LET sum == FoldLeft(LAMBDA s, f : IF f \in r.flags THEN s + 2^FlagBit[f] ELSE s,
                        U, <<"N", "V", "Z", "C">>)
        after == CASE i.op = "PHA" -> Push(r, r.a)
                   [] i.op = "PHP" -> Push(r, sum)
                   [] i.op = "PLA" -> Loaded(Pop(r, 1), "a", Pulled(r, 1))
                   [] i.op = "PLP" -> [Pop(r, 1) EXCEPT !.flags =
                                          {f \in DOMAIN FlagBit : Bit(Pulled(r, 1), FlagBit[f])}]
    IN  [state |-> after, accesses |-> <<>>, cycles |-> Cycles(r, i)]

\* A jump.  `home` is the bank it leads to, `switched` whether that bank has
\* been exchanged since.
Jumped(r, at) == [r EXCEPT !.pc = at, !.home = BankOf(at), !.switched = FALSE]

Taken(r, op) ==
    CASE op = "BEQ" -> "Z" \in r.flags [] op = "BNE" -> "Z" \notin r.flags
      [] op = "BMI" -> "N" \in r.flags [] op = "BPL" -> "N" \notin r.flags
      [] op = "BVS" -> "V" \in r.flags [] op = "BVC" -> "V" \notin r.flags
      [] op = "BCS" -> "C" \in r.flags [] op = "BCC" -> "C" \notin r.flags

\* r.pc is already behind the instruction
Jump6502(r, i) ==
    LET at == At(i.lo, i.hi)
        second == At((i.lo + 1) % Byte, i.hi)   \* within the page
        last == (r.pc - 1) % Space
        target == (r.pc + Signed(i.lo)) % Space
    IN  CASE i.mode = "rel" /\ ~Taken(r, i.op) -> [state |-> r, accesses |-> <<>>, cycles |-> 2]
          [] i.mode = "rel" /\ Taken(r, i.op) ->
                [state |-> [r EXCEPT !.pc = target], accesses |-> <<>>,
                 cycles |-> 3 + One(target \div Byte # r.pc \div Byte)]
          [] i.op = "JMP" /\ i.mode = "abs" ->
                [state |-> Jumped(r, at), accesses |-> <<>>, cycles |-> 3]
          [] i.op = "JMP" /\ i.mode = "ind" ->
                LET mem == AfterBusRead(r.mem, at)
                    lo == BusRead(r.mem, at, i.hi)
                IN  [state |-> Jumped([r EXCEPT !.mem = AfterBusRead(mem, second)],
                                      At(lo, BusRead(mem, second, lo))),
                     accesses |-> <<<<"read", at>>, <<"read", second>>>>, cycles |-> 5]
          [] i.op = "JSR" ->
                [state |-> Jumped(Push(Push(r, last \div Byte), last % Byte), at),
                 accesses |-> <<>>, cycles |-> 6]
          [] i.op = "RTS" ->
                [state |-> Jumped(Pop(r, 2), (At(Pulled(r, 1), Pulled(r, 2)) + 1) % Space),
                 accesses |-> <<>>, cycles |-> 6]

\* An instruction, from the fetch of its opcode on.  IDLE ($F2 in the player's
\* own loop) is none of the 6502's: it has no effect.
Step6502(r0, i) ==
    LET r == [r0 EXCEPT !.pc = (@ + 1 + Operands(i.mode)) % Space]
        key == <<i.op, i.mode>>
        step == CASE key \in Reads -> Read6502(r, i)
                  [] key \in Stores -> Store6502(r, i)
                  [] key \in Modifies -> Modify6502(r, i)
                  [] key \in Inherent -> Inherent6502(r, i)
                  [] key \in StackOps -> Stack6502(r, i)
                  [] key \in Jumps -> Jump6502(r, i)
                  [] i.op = "IDLE" -> [state |-> r, accesses |-> <<>>, cycles |-> 2]
        s == step.state
    IN  [state |-> [s EXCEPT !.switched = @ \/ s.mem.banks[s.home] # r.mem.banks[s.home]],
         saw |-> [key |-> key, accesses |-> Timed(step.accesses, step.cycles),
                  cycles |-> step.cycles]]
=============================================================================
