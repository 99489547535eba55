SPECIFICATION Spec
CONSTANTS
    Bits = 5
    BankSize = 64
    RamSize = 64
    RamTop = 128
    Pending = 255
    BankRegs <- MCBankRegs
    RomFrom = 512
    Rom <- MCRom
    Entry = 520
    Slice = 7
    Programs <- MCPrograms
INVARIANTS
    TypeOK
    Like6502
    OnTime
