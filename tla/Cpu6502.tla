------------------------------ MODULE Cpu6502 -------------------------------
(***************************************************************************)
(* The emulator of s6502.S, one operator for each of its macros, stepping  *)
(* beside a 6502.  Its PC is a pointer into host memory: REG_PC_BASE, the  *)
(* bank pointer of the last jump, is subtracted when an address is needed. *)
(* N and Z are not kept but one word, REG_NZ, they can be told from.       *)
(* Decimal mode and the interrupt flag are left out: nothing reads them.   *)
(***************************************************************************)
EXTENDS Mos6502

CONSTANTS
    Entry,     \* where a song starts
    Slice,     \* cycles nsfcore_run_frame() asks for at a time
    Programs   \* each a sequence of the sets its instructions are taken from

ASSUME CpuAssumption ==
    /\ Entry \in RomFrom .. Space - 1 /\ Slice \in Nat \ {0}
    /\ \A k \in DOMAIN Programs : \A n \in DOMAIN Programs[k] : \A i \in Programs[k][n] :
          /\ <<i.op, i.mode>> \in Instructions \cup {<<"IDLE", "impl">>}
          /\ i.lo \in Bytes /\ i.hi \in Bytes

VARIABLES
    cpu,       \* the SH-2's registers and spill area
    ref,       \* a 6502 that has run the same instructions
    refSaw,    \* the accesses and cycles of its last one
    program,   \* the program and the instructions run of it
    half       \* which half of a frame is next

vars == <<cpu, ref, refSaw, program, half>>

-----------------------------------------------------------------------------
(* Registers. *)

\* exts.b REG, REG_NZ
NzOf(v) == [neg |-> v >= Half, low |-> v]
\* The word a signed byte extends to; any width beyond a byte's would do
Word(v) == Signed(v) % Space

Later(m, n) == [m EXCEPT !.cyc = @ + n, !.spent = @ + n]

\* SetPc is the code behind set_pc; _s6502_reset does the same
SetPc(m, at) ==
    LET base == m.mem.banks[BankOf(at)]
    IN  [m EXCEPT !.base = base, !.pc = (base * BankSize) + at]

PowerOnCpu ==
    SetPc([a |-> 0, x |-> 0, y |-> 0, sp |-> 0, c |-> 0, v |-> 0, nz |-> NzOf(0),
           pc |-> 0, base |-> 0, cyc |-> 0, spent |-> 0, data |-> 0,
           mem |-> PowerOnMemory, log |-> <<>>], Entry)

\* s6502_execute
Fetched(m, i) ==
    Later([m EXCEPT !.pc = @ + 1 + Operands(i.mode), !.spent = 0, !.log = <<>>], 2)

-----------------------------------------------------------------------------
(* Accesses by way of rfap and wfap. *)

CallRead(m, at) ==
    [m EXCEPT !.data = BusRead(m.mem, at, @), !.mem = AfterBusRead(@, at),
              !.log = Append(@, <<"read", at, m.spent>>)]
CallWrite(m, at, v) ==
    [m EXCEPT !.data = v, !.mem = BusWrite(@, at, v),
              !.log = Append(@, <<"write", at, v, m.spent>>)]
WithHigh(m, i) == [m EXCEPT !.data = i.hi]

-----------------------------------------------------------------------------
(* What is done with REG_DATA_BUS. *)

OpAdc(m) ==
    LET sum == Signed(m.a) + Signed(m.data) + m.c
        nz == sum % Byte
    IN  [m EXCEPT !.a = nz, !.nz = NzOf(nz), !.v = One(Signed(nz) # sum),
                  !.c = (Word(m.a) + Word(m.data) + m.c) \div Space]

OpSbc(m) ==
    LET borrow == 1 - m.c
        diff == Signed(m.a) - Signed(m.data) - borrow
        nz == diff % Byte
    IN  [m EXCEPT !.a = nz, !.nz = NzOf(nz), !.v = One(Signed(nz) # diff),
                  !.c = 1 - One(Word(m.a) < Word(m.data) + borrow)]

OpCmp(m, reg) ==
    [m EXCEPT !.nz = NzOf((reg - m.data) % Byte), !.c = 1 - One(reg < m.data)]

\* Mutant: one value for both
OpBitOfResult(m) ==
    [m EXCEPT !.v = One(Bit(m.data, Bits - 2)), !.nz = NzOf(m.a & m.data), !.data = m.a & @]

\* Sign and zero come from different values, so the sign is shifted out of the
\* byte that is tested for zero
OpBit(m) ==
    [m EXCEPT !.v = One(Bit(m.data, Bits - 2)),
              !.nz = [neg |-> m.data >= Half, low |-> m.a & m.data],
              !.data = m.a & @]

OpAnd(m) == [m EXCEPT !.a = @ & m.data, !.nz = NzOf(m.a & m.data)]
OpEor(m) == [m EXCEPT !.a = @ ^^ m.data, !.nz = NzOf(m.a ^^ m.data)]
OpOra(m) == [m EXCEPT !.a = @ | m.data, !.nz = NzOf(m.a | m.data)]
OpLoad(m, reg) == [m EXCEPT ![reg] = m.data, !.nz = NzOf(m.data)]

Op(m, op) ==
    CASE op = "ADC" -> OpAdc(m) [] op = "SBC" -> OpSbc(m)
      [] op = "CMP" -> OpCmp(m, m.a) [] op = "CPX" -> OpCmp(m, m.x) [] op = "CPY" -> OpCmp(m, m.y)
      [] op = "AND" -> OpAnd(m) [] op = "EOR" -> OpEor(m) [] op = "ORA" -> OpOra(m)
      [] op = "BIT" -> OpBit(m)
      [] op = "LDA" -> OpLoad(m, "a") [] op = "LDX" -> OpLoad(m, "x") [] op = "LDY" -> OpLoad(m, "y")

\* The operations on m[f]: on REG_A, or on REG_DATA_BUS between two accesses
Becomes(m, f, v, c) == [m EXCEPT ![f] = v, !.nz = NzOf(v), !.c = c]
OpShift(m, f, op) ==
    LET w == m[f]
    IN  CASE op = "ASL" -> Becomes(m, f, (2 * w) % Byte, w \div Half)
          [] op = "LSR" -> Becomes(m, f, w \div 2, w % 2)
          [] op = "ROL" -> Becomes(m, f, ((2 * w) + m.c) % Byte, w \div Half)
          [] op = "ROR" -> Becomes(m, f, ((m.c * Byte) + w) \div 2, w % 2)
          [] op = "INC" -> Becomes(m, f, (w + 1) % Byte, m.c)
          [] op = "DEC" -> Becomes(m, f, (w - 1) % Byte, m.c)

-----------------------------------------------------------------------------
(* Reading: REG_DATA_BUS is the operand in the end. *)

RdZp(m, i) == Later([m EXCEPT !.data = Zero(m, i.lo)], 1)
RdZpI(m, i, reg) == Later([m EXCEPT !.data = Zero(m, i.lo + reg)], 2)
RdAbs(m, i) == CallRead(Later(WithHigh(m, i), 2), At(i.lo, i.hi))

\* Mutant: both reads take two cycles
RdAbsITwice(m, i, reg) ==
    LET low == (i.lo + reg) % Byte
        first == CallRead(Later(WithHigh(m, i), 2), At(low, i.hi))
    IN  IF low >= reg THEN first
        ELSE CallRead(Later(first, 2), (At(low, i.hi) + Byte) % Space)

\* The sum of low bytes is below the index when it leaves the page.  Then the
\* access is made at the address without the carry first.
RdAbsI(m, i, reg) ==
    LET low == (i.lo + reg) % Byte
        first == CallRead(Later(WithHigh(m, i), 2), At(low, i.hi))
    IN  IF low >= reg THEN first
        ELSE CallRead(Later(Later(first, -1), 2), (At(low, i.hi) + Byte) % Space)

PointerX(m, i) == At(Zero(m, i.lo + m.x), Zero(m, i.lo + m.x + 1))
PointerY(m, i) == At(Zero(m, i.lo), Zero(m, i.lo + 1))
SameHigh(at, low) == at - (at % Byte) + (low % Byte)

RdIndX(m, i) == CallRead(Later(m, 4), PointerX(m, i))
RdIndY(m, i) ==
    LET at == SameHigh(PointerY(m, i), PointerY(m, i) + m.y)
        first == CallRead(Later(m, 4), at)
    IN  IF at % Byte >= m.y THEN first ELSE CallRead(Later(first, 1), (at + Byte) % Space)

Rd(m, i) ==
    CASE i.mode = "imm" -> [m EXCEPT !.data = i.lo]
      [] i.mode = "zp" -> RdZp(m, i)
      [] i.mode = "zpx" -> RdZpI(m, i, m.x) [] i.mode = "zpy" -> RdZpI(m, i, m.y)
      [] i.mode = "abs" -> RdAbs(m, i)
      [] i.mode = "absx" -> RdAbsI(m, i, m.x) [] i.mode = "absy" -> RdAbsI(m, i, m.y)
      [] i.mode = "indx" -> RdIndX(m, i) [] i.mode = "indy" -> RdIndY(m, i)

(* Writing reg. *)

WrZero(m, at, reg) == [m EXCEPT !.mem.ram[at % Byte] = reg]
WrZp(m, i, reg) == WrZero(Later(m, 1), i.lo, reg)
WrZpI(m, i, index, reg) == WrZero(Later(m, 2), i.lo + index, reg)
WrAbs(m, i, reg) == CallWrite(Later(m, 2), At(i.lo, i.hi), reg)
\* A read without the carry always comes first
WrAbsI(m, i, index, reg) ==
    LET at == At(i.lo, i.hi)
        first == CallRead(Later(WithHigh(m, i), 2), SameHigh(at, at + index))
    IN  CallWrite(Later(first, 1), (at + index) % Space, reg)
WrIndX(m, i, reg) == CallWrite(Later(m, 4), PointerX(m, i), reg)
WrIndY(m, i, reg) ==
    LET at == PointerY(m, i)
    IN  CallWrite(Later(CallRead(Later(m, 3), SameHigh(at, at + m.y)), 1),
                  (at + m.y) % Space, reg)

Wr(m, i, reg) ==
    CASE i.mode = "zp" -> WrZp(m, i, reg)
      [] i.mode = "zpx" -> WrZpI(m, i, m.x, reg) [] i.mode = "zpy" -> WrZpI(m, i, m.y, reg)
      [] i.mode = "abs" -> WrAbs(m, i, reg)
      [] i.mode = "absx" -> WrAbsI(m, i, m.x, reg) [] i.mode = "absy" -> WrAbsI(m, i, m.y, reg)
      [] i.mode = "indx" -> WrIndX(m, i, reg) [] i.mode = "indy" -> WrIndY(m, i, reg)

(* Modifying: RMW_ZP_INC and its like take one cycle with an index, too. *)

RmwZero(m, at, op) ==
    LET done == OpShift([m EXCEPT !.data = Zero(m, at)], "data", op)
    IN  WrZero(done, at, done.data)
RmwZp(m, i) == RmwZero(Later(m, 1), i.lo, i.op)
RmwZpX(m, i) == RmwZero(Later(m, IF i.op \in Stepping THEN 1 ELSE 2), i.lo + m.x, i.op)

\* All three accesses at one time
RmwAbs(m, i) ==
    LET at == At(i.lo, i.hi)
        read == CallRead(Later(WithHigh(m, i), 2), at)
        done == OpShift(CallWrite(read, at, read.data), "data", i.op)
    IN  CallWrite(done, at, done.data)
RmwAbsX(m, i) ==
    LET at == (At(i.lo, i.hi) + m.x) % Space
        first == CallRead(Later(WithHigh(m, i), 2), SameHigh(At(i.lo, i.hi), at))
        read == CallRead(Later(first, 1), at)
        done == OpShift(CallWrite(Later(read, 1), at, read.data), "data", i.op)
    IN  CallWrite(Later(done, 1), at, done.data)

Rmw(m, i) ==
    CASE i.mode = "zp" -> RmwZp(m, i) [] i.mode = "zpx" -> RmwZpX(m, i)
      [] i.mode = "abs" -> RmwAbs(m, i) [] i.mode = "absx" -> RmwAbsX(m, i)

-----------------------------------------------------------------------------
(* Instructions without operand, the stack, jumps. *)

\* Mutant: no extu.b behind the addition
CountedOn(m, reg, n) == [m EXCEPT ![reg] = @ + n, !.nz = NzOf((m[reg] + n) % Byte)]

Counted(m, reg, n) == LET v == (m[reg] + n) % Byte IN [m EXCEPT ![reg] = v, !.nz = NzOf(v)]
Moved(m, from, to) == [m EXCEPT ![to] = m[from], !.nz = NzOf(m[from])]

OpImplied(m, op) ==
    CASE op = "DEX" -> Counted(m, "x", -1) [] op = "DEY" -> Counted(m, "y", -1)
      [] op = "INX" -> Counted(m, "x", 1) [] op = "INY" -> Counted(m, "y", 1)
      [] op = "TAX" -> Moved(m, "a", "x") [] op = "TAY" -> Moved(m, "a", "y")
      [] op = "TXA" -> Moved(m, "x", "a") [] op = "TYA" -> Moved(m, "y", "a")
      [] op = "TSX" -> Moved(m, "sp", "x") [] op = "TXS" -> [m EXCEPT !.sp = m.x]
      [] op = "CLC" -> [m EXCEPT !.c = 0] [] op = "SEC" -> [m EXCEPT !.c = 1]
      [] op = "CLV" -> [m EXCEPT !.v = 0] [] op = "NOP" -> m

PushByte(m, v) == [m EXCEPT !.mem.ram[Byte + m.sp] = v, !.sp = (@ - 1) % Byte]
PulledByte(m, n) == m.mem.ram[Byte + ((m.sp + n) % Byte)]
Dropped(m, n) == [m EXCEPT !.sp = (@ + n) % Byte]

OpPhp(m) ==
    LET p == m.c + U + (m.v * 2^(Bits - 2)) + (One(m.nz.neg) * Half)
                 + (One(m.nz.low = 0) * 2)
    IN  PushByte(Later(m, 1), p)
\* What was pulled is REG_NZ, with U set, so that it is 0 only when plp_z_table
\* makes it so
OpPlp(m) ==
    LET p == PulledByte(m, 1)
        set == p | U
    IN  [Later(Dropped(m, 1), 2) EXCEPT
            !.nz = [neg |-> set >= Half, low |-> IF Bit(set, 1) THEN 0 ELSE set],
            !.c = p % 2, !.v = One(Bit(p, Bits - 2))]
OpPla(m) == LET v == PulledByte(m, 1)
            IN  [Later(Dropped(m, 1), 2) EXCEPT !.a = v, !.nz = NzOf(v)]
OpPha(m) == PushByte(Later(m, 1), m.a)
OpStack(m, op) ==
    CASE op = "PHP" -> OpPhp(m) [] op = "PLP" -> OpPlp(m)
      [] op = "PLA" -> OpPla(m) [] op = "PHA" -> OpPha(m)

\* The page is told by bit 8 of the pointer; the bank pointer stays
RelBranch(m, i) ==
    LET to == m.pc + Signed(i.lo)
    IN  Later([m EXCEPT !.pc = to], 1 + (((m.pc \div Byte) + (to \div Byte)) % 2))

TakesBranch(m, op) ==
    CASE op = "BEQ" -> m.nz.low = 0 [] op = "BNE" -> m.nz.low # 0
      [] op = "BMI" -> m.nz.neg [] op = "BPL" -> ~m.nz.neg
      [] op = "BVC" -> m.v = 0 [] op = "BVS" -> m.v = 1
      [] op = "BCC" -> m.c = 0 [] op = "BCS" -> m.c = 1

JmpAbs(m, i) == SetPc(Later(m, 1), At(i.lo, i.hi))
JmpInd(m, i) ==
    LET low == CallRead(Later(WithHigh(m, i), 2), At(i.lo, i.hi))
        high == CallRead(Later(low, 1), At((i.lo + 1) % Byte, i.hi))
    IN  SetPc(high, At(low.data, high.data))
Jsr(m, i) ==
    LET last == (m.pc - 1 - (m.base * BankSize)) % Space
    IN  JmpAbs(PushByte(PushByte(Later(m, 3), last \div Byte), last % Byte), i)
Rts(m) == SetPc(Later(Dropped(m, 2), 4), (At(PulledByte(m, 1), PulledByte(m, 2)) + 1) % Space)

OpJump(m, i) ==
    CASE i.op \in Branches -> IF TakesBranch(m, i.op) THEN RelBranch(m, i) ELSE m
      [] i.op = "JMP" /\ i.mode = "abs" -> JmpAbs(m, i)
      [] i.op = "JMP" /\ i.mode = "ind" -> JmpInd(m, i)
      [] i.op = "JSR" -> Jsr(m, i)
      [] i.op = "RTS" -> Rts(m)

\* $F2 ends the slice unless a frame is waiting
OpIdle(m) == IF m.mem.pending = 0 THEN [m EXCEPT !.cyc = 0] ELSE m

-----------------------------------------------------------------------------
PowerOn6502 ==
    [a |-> 0, x |-> 0, y |-> 0, sp |-> 0, flags |-> {"Z"}, pc |-> Entry,
     mem |-> PowerOnMemory, home |-> BankOf(Entry), switched |-> FALSE]
Begun(k) == [of |-> k, done |-> 0]
Nothing == [key |-> <<"NOP", "impl">>, accesses |-> <<>>, cycles |-> 0]

Init ==
    /\ program \in {Begun(k) : k \in DOMAIN Programs}
    /\ cpu = PowerOnCpu /\ ref = PowerOn6502 /\ refSaw = Nothing /\ half = 0

\* The instructions the running program may have next
Steps == Programs[program.of]
Possible ==
    IF cpu.cyc < 0 /\ program.done < Len(Steps) THEN Steps[program.done + 1] ELSE {}
Key(i) == <<i.op, i.mode>>

ExecRead(i) == Key(i) \in Reads /\ cpu' = Op(Rd(Fetched(cpu, i), i), i.op)
ExecStore(i) == Key(i) \in Stores /\ cpu' = Wr(Fetched(cpu, i), i, Stored(cpu, i.op))
ExecModify(i) == Key(i) \in Modifies /\ cpu' = Rmw(Fetched(cpu, i), i)
ExecShiftA(i) == i.mode = "acc" /\ cpu' = OpShift(Fetched(cpu, i), "a", i.op)
ExecImplied(i) ==
    /\ Key(i) \in Inherent /\ i.mode # "acc"
    /\ cpu' = OpImplied(Fetched(cpu, i), i.op)
ExecStack(i) == Key(i) \in StackOps /\ cpu' = OpStack(Fetched(cpu, i), i.op)
ExecJump(i) == Key(i) \in Jumps /\ cpu' = OpJump(Fetched(cpu, i), i)
ExecIdle(i) == i.op = "IDLE" /\ cpu' = OpIdle(Fetched(cpu, i))

Exec(i) ==
    \/ ExecRead(i) \/ ExecStore(i) \/ ExecModify(i) \/ ExecShiftA(i)
    \/ ExecImplied(i) \/ ExecStack(i) \/ ExecJump(i) \/ ExecIdle(i)

\* The 6502 does what the emulator does
Beside(i) ==
    LET step == Step6502(ref, i)
    IN  /\ ref' = step.state /\ refSaw' = step.saw
        /\ program' = [program EXCEPT !.done = @ + 1] /\ UNCHANGED half

\* nsfcore_run_frame(): a frame is two slices and is announced before the first
RunSlice ==
    /\ cpu.cyc >= 0 /\ program.done < Len(Steps)
    /\ cpu' = [cpu EXCEPT !.cyc = @ - Slice, !.mem.pending = IF half = 0 THEN 1 ELSE @]
    /\ ref' = [ref EXCEPT !.mem.pending = IF half = 0 THEN 1 ELSE @]
    /\ half' = 1 - half
    /\ UNCHANGED <<refSaw, program>>

\* The song ended; emu_init() starts another
NewSong ==
    /\ program.done = Len(Steps)
    /\ program' \in {Begun(k) : k \in DOMAIN Programs}
    /\ cpu' = PowerOnCpu /\ ref' = PowerOn6502 /\ refSaw' = Nothing /\ half' = 0

Next ==
    \/ \E i \in Possible : Exec(i) /\ Beside(i)
    \/ RunSlice \/ NewSong

Spec == Init /\ [][Next]_vars

-----------------------------------------------------------------------------
\* Each register of the SH-2 stays what its instructions take it for: bytes
\* are kept without sign, indices and the stack pointer within their page.
TypeOK ==
    /\ {cpu.a, cpu.x, cpu.y, cpu.sp, cpu.data, cpu.nz.low} \subseteq Bytes
    /\ {cpu.c, cpu.v, cpu.mem.pending, half} \subseteq {0, 1}
    /\ cpu.nz.neg \in BOOLEAN /\ cpu.cyc \in -Slice .. 6
    /\ cpu.mem.ram \in [0 .. RamSize - 1 -> Bytes]

\* After every instruction (s6502.S) registers, flags and memory are those of
\* a 6502, it made the accesses a 6502 makes and in their order, and the next
\* opcode is fetched from the page that is mapped there.  Code that runs on
\* into a bank that is not contiguous, or whose bank is exchanged under it, is
\* excepted: README.TXT says that it breaks.
Like6502 ==
    /\ cpu.a = ref.a /\ cpu.x = ref.x /\ cpu.y = ref.y /\ cpu.sp = ref.sp
    /\ ref.flags = {f \in {"N", "V", "Z", "C"} :
                      CASE f = "N" -> cpu.nz.neg [] f = "Z" -> cpu.nz.low = 0
                        [] f = "V" -> cpu.v = 1 [] f = "C" -> cpu.c = 1}
    /\ cpu.mem = ref.mem
    /\ ref.pc = (cpu.pc - (cpu.base * BankSize)) % Space
    /\ \/ ref.switched \/ ref.mem.banks[BankOf(ref.pc)] # ref.mem.banks[ref.home]
       \/ cpu.base = ref.mem.banks[BankOf(ref.pc)]
    /\ [k \in DOMAIN cpu.log |-> Front(cpu.log[k])] =
       [k \in DOMAIN refSaw.accesses |-> Front(refSaw.accesses[k])]

\* The times the chips are given with an access (timestamp_base + REG_CYC_CNT,
\* e.g. _s6502_write_shim_S) and the cycles an instruction takes are those of
\* a 6502, page crossings included.  RMW_ZP, RMW_ABS and RD_IND_Y of s6502.S
\* count otherwise and are left out.
OnTime ==
    LET key == refSaw.key
    IN  \/ key \in Modifies /\ key[2] \in {"zp", "zpx", "abs"}
        \/ key \in Reads /\ key[2] = "indy"
        \/ key[1] = "IDLE" \/ cpu.spent = 0
        \/ cpu.spent = refSaw.cycles /\ cpu.log = refSaw.accesses
=============================================================================
