--------------------------- MODULE SlaveLinkProofs ---------------------------
(***************************************************************************)
(* Proofs about SlaveLink for every set of chips, every ring size and every*)
(* number of sessions and commands.  The order of the commands needs one   *)
(* assumption, Paced: with the real-time pacing of apu_frame() a frame's   *)
(* commands fit into the ring beside the backlog.                          *)
(***************************************************************************)
EXTENDS SlaveLink, Integers, TLAPS

Paced == Lag + HalfWrites + 2 < RingSize

Writing == mpc \in {"store", "advance", "trigger"}
Idle == {"parked", "wait", "unflag"}

\* The chip loop between ready and the STOP command.
Listening == spc \in {"poll", "clear", "snapshot", "drain"}

\* slave_stop() is waiting for the slave.
Stopping == mpc = "stopping" \/ (Writing /\ cmd = "stop")

IsEntry(e, i) == e.kind \in Kinds /\ e.sess = session /\ e.n = i
IsStop(e) == e.kind = "stop" /\ e.sess = session

(***************************************************************************)
(* The inductive invariant.                                                *)
(***************************************************************************)

\* Where the master is, against the two flags and the slave's place.
Handshake ==
    /\ slave_ready <=> spc \in {"poll", "clear", "snapshot", "drain", "leave"}
    /\ run_slave => chip_emulated # NoChip /\ exchip_slave_entry = chip_emulated
    /\ mpc = "start" /\ chip_emulated # NoChip => exchip_slave_entry = chip_emulated
    /\ mpc \in {"clear", "arm"} =>
          chip_emulated # NoChip /\ exchip_slave_entry = chip_emulated
    /\ ~run_slave /\ ~Stopping => spc \in Idle
    /\ ~run_slave /\ Stopping => spc \notin {"boot", "power"}
    /\ Stopping => ~run_slave /\ chip_emulated # NoChip
    /\ mpc \in {"idle", "stopped", "start", "clear", "arm"} => ~run_slave
    /\ mpc \in {"kick", "await"} => run_slave
    /\ mpc \in {"play", "half"} => run_slave \/ chip_emulated = NoChip
    /\ Writing /\ cmd \in Kinds => run_slave
    /\ run_slave /\ mpc \notin {"kick", "await"} => slave_ready
    /\ spc = "leave" => ~run_slave
    /\ spc \in ChipLoop => running = exchip_slave_entry /\ running = chip_emulated
                           /\ running # NoChip

\* slave_start() clears the ring and only slave_stop() writes STOP, so a session
\* that is wanted has no STOP in front of it: the chip loop returns on request only.
NoStop ==
    run_slave \/ mpc = "arm" => \A s \in Slots : exchip_rb[s].kind # "stop"

\* How many commands can be unread, by the place the master is at.
Pace ==
    run_slave =>
        /\ done <= sent
        /\ sent - done <= Lag + HalfWrites + 2
        /\ ~slave_ready => done = 0 /\ sent = 0
        /\ mpc = "half" => sent - done <= Lag + writes
        /\ Writing /\ cmd = "reg" =>
              mpc # "trigger" /\ writes >= 1 /\ sent - done <= Lag + writes - 1
        /\ Writing /\ cmd = "update" =>
              sent - done <= Lag + writes + (IF mpc = "trigger" THEN 1 ELSE 0)
        /\ Writing /\ cmd = "frame" =>
              sent - done <= Lag + writes + (IF mpc = "trigger" THEN 2 ELSE 1)

\* What the ring holds between the slave's place and the master's.
Ring ==
    /\ mpc \in {"clear", "arm"} => rb_wr = 0
    /\ run_slave => rb_wr = Slot(sent)
    /\ Stopping /\ Listening => rb_wr = Slot(sent) \/ IsStop(exchip_rb[Slot(sent)])
    /\ Writing /\ mpc = "advance" =>
          IF cmd = "stop" THEN IsStop(exchip_rb[rb_wr])
                          ELSE IsEntry(exchip_rb[rb_wr], sent)
    /\ Listening => done <= sent /\ sent - done < RingSize /\ rb_rd = Slot(done)
    /\ Listening => \A i \in Nat : done <= i /\ i < sent =>
          \/ IsEntry(exchip_rb[Slot(i)], i)
          \/ ~run_slave /\ IsStop(exchip_rb[Slot(i)])
    /\ spc = "drain" =>
          \/ \E g \in Nat : done <= g /\ g <= sent /\ snap = Slot(g)
          \/ ~run_slave /\ IsStop(exchip_rb[Slot(sent)])

IInv == TypeOK /\ Handshake /\ NoStop /\ Pace /\ Ring
-----------------------------------------------------------------------------
(* Slots. *)

\* Euclid, for the ring's index arithmetic.
LEMMA DivMod ==
    ASSUME NEW i \in Nat
    PROVE  /\ i = RingSize * (i \div RingSize) + Slot(i)
           /\ Slot(i) \in 0 .. RingSize - 1
           /\ i \div RingSize \in Nat
BY ConstantsAssumption DEF Slot

\* A quotient and remainder by RingSize determine each other's number.
LEMMA Remainder ==
    ASSUME NEW p \in Int, NEW q \in Int,
           NEW r \in 0 .. RingSize - 1, NEW s \in 0 .. RingSize - 1,
           RingSize * p + r = RingSize * q + s
    PROVE  p = q /\ r = s
<1>. DEFINE R == RingSize
<1>1. R \in Nat /\ R >= 1
  BY ConstantsAssumption
<1>2. ASSUME NEW x \in Int, NEW y \in Int, x < y,
             NEW u \in 0 .. R - 1, NEW v \in 0 .. R - 1
      PROVE  R * x + u # R * y + v
  <2>1. R * (y - x) >= R
    BY <1>1, <1>2
  <2>2. R * (y - x) = R * y - R * x
    BY <1>1
  <2>3. R * x \in Int /\ R * y \in Int
    BY <1>1
  <2>. HIDE DEF R
  <2>. QED
    BY <2>1, <2>2, <2>3, <1>1
<1>3. p = q
  BY <1>2
<1>4. R * p \in Int
  BY <1>1
<1>. QED
  BY <1>3, <1>4

\* The masked increment of an index moves to the slot of the next number.
LEMMA SlotNext ==
    ASSUME NEW i \in Nat
    PROVE  After(Slot(i)) = Slot(i + 1)
<1>. DEFINE a == Slot(i) + 1
            p == i \div RingSize
            q == a \div RingSize
            r == (i + 1) \div RingSize
<1>1. i = RingSize * p + Slot(i) /\ p \in Nat /\ Slot(i) \in 0 .. RingSize - 1
  BY DivMod
<1>. a \in Nat
  BY <1>1
<1>. HIDE DEF a
<1>2. a = RingSize * q + Slot(a) /\ q \in Nat /\ Slot(a) \in 0 .. RingSize - 1
  BY DivMod
<1>3. /\ i + 1 = RingSize * r + Slot(i + 1) /\ r \in Nat
      /\ Slot(i + 1) \in 0 .. RingSize - 1
  BY DivMod
<1>. HIDE DEF p, q, r
<1>4. RingSize * (p + q) = RingSize * p + RingSize * q
  BY <1>1, <1>2, ConstantsAssumption
<1>5. RingSize * (p + q) + Slot(a) = RingSize * r + Slot(i + 1)
  BY <1>1, <1>2, <1>3, <1>4, ConstantsAssumption DEF a
<1>6. Slot(a) = Slot(i + 1)
  BY <1>1, <1>2, <1>3, <1>5, Remainder
<1>. QED
  BY <1>6 DEF After, a

\* Indices stay inside the ring.
LEMMA AfterType ==
    ASSUME NEW s \in Slots
    PROVE  After(s) \in Slots
BY ConstantsAssumption DEF Slot, Slots, After

\* A number has its place in the ring.
LEMMA SlotType ==
    ASSUME NEW i \in Nat
    PROVE  Slot(i) \in Slots
BY DivMod DEF Slots

\* The first slot is slot 0.
LEMMA SlotZero == 0 \in Slots /\ Slot(0) = 0
BY ConstantsAssumption DEF Slot, Slots

\* Numbers less than a ring apart have slots of their own.
LEMMA SlotDistinct ==
    ASSUME NEW i \in Nat, NEW j \in Nat, i < j, j - i < RingSize
    PROVE  Slot(i) # Slot(j)
<1>. SUFFICES ASSUME Slot(i) = Slot(j) PROVE FALSE
  OBVIOUS
<1>. DEFINE p == i \div RingSize
            q == j \div RingSize
<1>1. /\ i = RingSize * p + Slot(i) /\ j = RingSize * q + Slot(j)
      /\ p \in Nat /\ q \in Nat /\ Slot(i) \in Nat
  BY DivMod
<1>2. RingSize \in Nat /\ RingSize >= 1
  BY ConstantsAssumption
<1>. HIDE DEF p, q
<1>3. RingSize * q - RingSize * p = j - i
  BY <1>1, <1>2
<1>4. RingSize * (q - p) = RingSize * q - RingSize * p
  BY <1>1, <1>2
<1>5. q - p >= 1
  BY <1>1, <1>2, <1>3, <1>4
<1>6. RingSize * (q - p) >= RingSize
  BY <1>1, <1>2, <1>5
<1>. QED
  BY <1>1, <1>2, <1>3, <1>4, <1>6

-----------------------------------------------------------------------------
(* Types. *)

LEMMA TypeInit == Init => TypeOK
<1>. SUFFICES ASSUME Init PROVE TypeOK
  OBVIOUS
<1>1. run_slave \in BOOLEAN /\ slave_ready \in BOOLEAN /\ ftf \in BOOLEAN
  BY Zenon DEF Init
<1>. QED
  BY <1>1, ConstantsAssumption, SlotZero
  DEF Init, TypeOK, Entries, Blank, Kinds, ChipLoop

LEMMA TypeStep == TypeOK /\ [Next]_vars => TypeOK'
<1>. SUFFICES ASSUME TypeOK, [Next]_vars PROVE TypeOK'
  OBVIOUS
<1>. USE DEF TypeOK
<1>1. ASSUME NEW what \in {"load", "close", "song"}, CallStop(what)
      PROVE  TypeOK'
  BY <1>1 DEF CallStop, songVars, masterVars, slaveVars, ChipLoop
<1>2. CASE BeginHalf
  BY <1>2, ConstantsAssumption DEF BeginHalf, songVars, masterVars, slaveVars, ChipLoop
<1>3. CASE ChipWrite
  BY <1>3, ConstantsAssumption DEF ChipWrite, songVars, masterVars, slaveVars, ChipLoop, Kinds
<1>4. CASE StopTest
  <2>1. run_slave' \in BOOLEAN
    BY <1>4, Zenon DEF StopTest
  <2>. QED
    BY <2>1, <1>4 DEF StopTest, songVars, masterVars, slaveVars, ChipLoop
<1>5. CASE StopLoop
  BY <1>5 DEF StopLoop, songVars, masterVars, slaveVars, ChipLoop, Kinds
<1>6. CASE Close
  BY <1>6 DEF Close, songVars, masterVars, slaveVars, ChipLoop
<1>7. CASE EmuInit
  BY <1>7 DEF EmuInit, songVars, masterVars, slaveVars, ChipLoop
<1>8. CASE StartTest
  BY <1>8, SlotZero DEF StartTest, songVars, masterVars, slaveVars, ChipLoop
<1>9. CASE StartClear
  BY <1>9 DEF StartClear, songVars, masterVars, slaveVars, ChipLoop, Entries, Blank
<1>10. CASE StartArm
  BY <1>10 DEF StartArm, songVars, masterVars, slaveVars, ChipLoop
<1>11. CASE StartKick
  BY <1>11 DEF StartKick, songVars, masterVars, slaveVars, ChipLoop
<1>12. CASE StartAwait
  BY <1>12 DEF StartAwait, songVars, masterVars, slaveVars, ChipLoop
<1>13. CASE EndHalf
  BY <1>13 DEF EndHalf, songVars, masterVars, slaveVars, ChipLoop, Kinds
<1>14. CASE Store
  <2>1. [kind |-> cmd, sess |-> session,
         n |-> IF cmd = "stop" THEN 0 ELSE sent] \in Entries
    BY DEF Entries, Kinds
  <2>. QED
    BY <1>14, <2>1 DEF Store, songVars, masterVars, slaveVars, ChipLoop, Entries, Kinds
<1>15. CASE Advance
  BY <1>15, AfterType DEF Advance, songVars, masterVars, slaveVars, ChipLoop, Kinds
<1>16. CASE Trigger
  BY <1>16 DEF Trigger, songVars, masterVars, slaveVars, ChipLoop, Kinds
<1>17. CASE Parked
  BY <1>17 DEF Parked, SlaveOnly, songVars, masterVars, slaveVars, ChipLoop
<1>18. CASE ParkedWait
  BY <1>18 DEF ParkedWait, SlaveOnly, songVars, masterVars, slaveVars, ChipLoop
<1>19. CASE ParkedClear
  <2>1. ftf' \in BOOLEAN
    BY <1>19, Zenon DEF ParkedClear
  <2>. QED
    BY <2>1, <1>19 DEF ParkedClear, SlaveOnly, songVars, masterVars, slaveVars, ChipLoop
<1>20. CASE Boot
  BY <1>20 DEF Boot, SlaveOnly, songVars, masterVars, slaveVars, ChipLoop
<1>21. CASE ChipReady
  BY <1>21, SlotZero DEF ChipReady, SlaveOnly, songVars, masterVars, slaveVars, ChipLoop
<1>22. CASE ChipPoll
  BY <1>22 DEF ChipPoll, SlaveOnly, songVars, masterVars, slaveVars, ChipLoop
<1>23. CASE ChipClear
  <2>1. ftf' \in BOOLEAN
    BY <1>23, Zenon DEF ChipClear
  <2>. QED
    BY <2>1, <1>23 DEF ChipClear, SlaveOnly, songVars, masterVars, slaveVars, ChipLoop
<1>24. CASE ChipSnapshot
  BY <1>24 DEF ChipSnapshot, SlaveOnly, songVars, masterVars, slaveVars, ChipLoop
<1>25. CASE ChipDrain
  BY <1>25, AfterType DEF ChipDrain, SlaveOnly, songVars, masterVars, slaveVars, ChipLoop, Entries
<1>26. CASE ChipDrained
  BY <1>26 DEF ChipDrained, SlaveOnly, songVars, masterVars, slaveVars, ChipLoop
<1>27. CASE ChipLeave
  <2>1. slave_ready' \in BOOLEAN
    BY <1>27, Zenon DEF ChipLeave
  <2>. QED
    BY <2>1, <1>27 DEF ChipLeave, SlaveOnly, songVars, masterVars, slaveVars, ChipLoop
<1>28. CASE UNCHANGED vars
  BY <1>28 DEF vars, songVars, masterVars, slaveVars, ChipLoop
<1>. QED
  BY <1>1, <1>2, <1>3, <1>4, <1>5, <1>6, <1>7, <1>8, <1>9, <1>10, <1>11, <1>12, <1>13, <1>14, <1>15, <1>16, <1>17, <1>18, <1>19, <1>20, <1>21, <1>22, <1>23, <1>24, <1>25, <1>26, <1>27, <1>28
  DEF Next, MasterStep, SlaveStep

\* Every variable of the link keeps its type, for every ring size: indices
\* never leave the ring and the ring holds commands.
THEOREM TypeCorrect == Spec => []TypeOK
<1>1. Init => TypeOK
  BY TypeInit
<1>2. TypeOK /\ [Next]_vars => TypeOK'
  BY TypeStep
<1>. QED
  BY <1>1, <1>2, PTL DEF Spec

-----------------------------------------------------------------------------
(* The handshake of slave_start() and slave_stop(). *)

LEMMA HandshakeInit == Init => Handshake /\ NoStop
BY DEF Init, Handshake, NoStop, Stopping, Writing, Idle, ChipLoop, Blank

LEMMA NoStopStep == TypeOK /\ Handshake /\ NoStop /\ [Next]_vars => NoStop'
<1>. SUFFICES ASSUME TypeOK, Handshake, NoStop, [Next]_vars PROVE NoStop'
  OBVIOUS
<1>. USE DEF TypeOK, NoStop, songVars, masterVars, slaveVars
<1>1. ASSUME NEW what \in {"load", "close", "song"}, CallStop(what)
      PROVE  NoStop'
  BY <1>1 DEF CallStop
<1>2. CASE BeginHalf
  BY <1>2 DEF BeginHalf
<1>3. CASE ChipWrite
  BY <1>3 DEF ChipWrite
<1>4. CASE StopTest
  BY <1>4 DEF StopTest
<1>5. CASE StopLoop
  BY <1>5 DEF StopLoop
<1>6. CASE Close
  BY <1>6 DEF Close
<1>7. CASE EmuInit
  BY <1>7 DEF EmuInit
<1>8. CASE StartTest
  BY <1>8 DEF StartTest
<1>9. CASE StartClear
  BY <1>9 DEF StartClear, Blank
<1>10. CASE StartArm
  BY <1>10 DEF StartArm
<1>11. CASE StartKick
  BY <1>11 DEF StartKick
<1>12. CASE StartAwait
  BY <1>12 DEF StartAwait
<1>13. CASE EndHalf
  BY <1>13 DEF EndHalf
<1>14. CASE Store
  BY <1>14 DEF Store, Handshake, Stopping, Writing
<1>15. CASE Advance
  BY <1>15 DEF Advance
<1>16. CASE Trigger
  BY <1>16 DEF Trigger
<1>17. CASE Parked
  BY <1>17 DEF Parked, SlaveOnly
<1>18. CASE ParkedWait
  BY <1>18 DEF ParkedWait, SlaveOnly
<1>19. CASE ParkedClear
  BY <1>19 DEF ParkedClear, SlaveOnly
<1>20. CASE Boot
  BY <1>20 DEF Boot, SlaveOnly
<1>21. CASE ChipReady
  BY <1>21 DEF ChipReady, SlaveOnly
<1>22. CASE ChipPoll
  BY <1>22 DEF ChipPoll, SlaveOnly
<1>23. CASE ChipClear
  BY <1>23 DEF ChipClear, SlaveOnly
<1>24. CASE ChipSnapshot
  BY <1>24 DEF ChipSnapshot, SlaveOnly
<1>25. CASE ChipDrain
  BY <1>25 DEF ChipDrain, SlaveOnly
<1>26. CASE ChipDrained
  BY <1>26 DEF ChipDrained, SlaveOnly
<1>27. CASE ChipLeave
  BY <1>27 DEF ChipLeave, SlaveOnly
<1>28. CASE UNCHANGED vars
  BY <1>28 DEF vars
<1>. QED
  BY <1>1, <1>2, <1>3, <1>4, <1>5, <1>6, <1>7, <1>8, <1>9, <1>10,
     <1>11, <1>12, <1>13, <1>14, <1>15, <1>16, <1>17, <1>18, <1>19, <1>20,
     <1>21, <1>22, <1>23, <1>24, <1>25, <1>26, <1>27, <1>28
  DEF Next, MasterStep, SlaveStep

LEMMA HandshakeStep == TypeOK /\ Handshake /\ NoStop /\ [Next]_vars => Handshake'
<1>. SUFFICES ASSUME TypeOK, Handshake, NoStop, [Next]_vars PROVE Handshake'
  OBVIOUS
<1>. USE DEF TypeOK, Handshake, NoStop, Stopping, Writing, Idle,
           ChipLoop, Kinds, songVars, masterVars, slaveVars
<1>1. ASSUME NEW what \in {"load", "close", "song"}, CallStop(what)
      PROVE  Handshake'
  BY <1>1 DEF CallStop
<1>2. CASE BeginHalf
  BY <1>2 DEF BeginHalf
<1>3. CASE ChipWrite
  BY <1>3 DEF ChipWrite
<1>4. CASE StopTest
  BY <1>4 DEF StopTest
<1>5. CASE StopLoop
  BY <1>5 DEF StopLoop
<1>6. CASE Close
  BY <1>6 DEF Close
<1>7. CASE EmuInit
  BY <1>7 DEF EmuInit
<1>8. CASE StartTest
  BY <1>8 DEF StartTest
<1>9. CASE StartClear
  BY <1>9 DEF StartClear
<1>10. CASE StartArm
  BY <1>10 DEF StartArm
<1>11. CASE StartKick
  BY <1>11 DEF StartKick
<1>12. CASE StartAwait
  BY <1>12 DEF StartAwait
<1>13. CASE EndHalf
  BY <1>13 DEF EndHalf
<1>14. CASE Store
  BY <1>14 DEF Store
<1>15. CASE Advance
  BY <1>15 DEF Advance
<1>16. CASE Trigger
  BY <1>16 DEF Trigger
<1>17. CASE Parked
  BY <1>17 DEF Parked, SlaveOnly
<1>18. CASE ParkedWait
  BY <1>18 DEF ParkedWait, SlaveOnly
<1>19. CASE ParkedClear
  BY <1>19 DEF ParkedClear, SlaveOnly
<1>20. CASE Boot
  BY <1>20 DEF Boot, SlaveOnly
<1>21. CASE ChipReady
  BY <1>21 DEF ChipReady, SlaveOnly
<1>22. CASE ChipPoll
  BY <1>22 DEF ChipPoll, SlaveOnly
<1>23. CASE ChipClear
  BY <1>23 DEF ChipClear, SlaveOnly
<1>24. CASE ChipSnapshot
  BY <1>24 DEF ChipSnapshot, SlaveOnly
<1>25. CASE ChipDrain
  BY <1>25 DEF ChipDrain, SlaveOnly
<1>26. CASE ChipDrained
  BY <1>26 DEF ChipDrained, SlaveOnly
<1>27. CASE ChipLeave
  BY <1>27 DEF ChipLeave, SlaveOnly
<1>28. CASE UNCHANGED vars
  BY <1>28 DEF vars
<1>. QED
  BY <1>1, <1>2, <1>3, <1>4, <1>5, <1>6, <1>7, <1>8, <1>9, <1>10,
     <1>11, <1>12, <1>13, <1>14, <1>15, <1>16, <1>17, <1>18, <1>19, <1>20,
     <1>21, <1>22, <1>23, <1>24, <1>25, <1>26, <1>27, <1>28
  DEF Next, MasterStep, SlaveStep

-----------------------------------------------------------------------------

\* The part of the invariant that needs no pacing.
LinkInv == TypeOK /\ Handshake /\ NoStop

LEMMA LinkInvariant == Spec => []LinkInv
<1>1. Init => LinkInv
  BY TypeInit, HandshakeInit DEF LinkInv
<1>2. LinkInv /\ [Next]_vars => LinkInv'
  BY TypeStep, HandshakeStep, NoStopStep DEF LinkInv
<1>. QED
  BY <1>1, <1>2, PTL DEF Spec

\* The slave runs the chip of the song, in every order of loading, closing and
\* choosing songs, for every set of chips and however far the master runs ahead.
THEOREM RightChipAlways == Spec => []RightChip
<1>1. LinkInv => RightChip
  BY DEF LinkInv, TypeOK, Handshake, RightChip, Stopping, Writing, Idle, ChipLoop
<1>. QED
  BY <1>1, LinkInvariant, PTL

\* Index, ring and entry function are reset only while the slave is parked, also
\* when STOP commands have gone around the ring.
THEOREM RingQuietAlways == Spec => []RingQuiet
<1>1. LinkInv => RingQuiet
  BY DEF LinkInv, TypeOK, Handshake, RingQuiet, Stopping, Writing, Idle, ChipLoop
<1>. QED
  BY <1>1, LinkInvariant, PTL

-----------------------------------------------------------------------------
(* The order of the commands. *)

LEMMA RingInit == Init => Pace /\ Ring
BY DEF Init, Pace, Ring, Stopping, Writing, Listening

LEMMA PaceStep == IInv /\ [Next]_vars => Pace'
<1>. SUFFICES ASSUME IInv, [Next]_vars PROVE Pace'
  OBVIOUS
<1>. USE DEF IInv, TypeOK, Handshake, Pace, Ring, Stopping, Writing, Listening, Idle,
           ChipLoop, Kinds, songVars, masterVars, slaveVars
<1>1. ASSUME NEW what \in {"load", "close", "song"}, CallStop(what)
      PROVE  Pace'
  BY <1>1 DEF CallStop
<1>2. CASE BeginHalf
  BY <1>2, ConstantsAssumption DEF BeginHalf
<1>3. CASE ChipWrite
  BY <1>3 DEF ChipWrite
<1>4. CASE StopTest
  BY <1>4 DEF StopTest
<1>5. CASE StopLoop
  BY <1>5 DEF StopLoop
<1>6. CASE Close
  BY <1>6 DEF Close
<1>7. CASE EmuInit
  BY <1>7 DEF EmuInit
<1>8. CASE StartTest
  BY <1>8 DEF StartTest
<1>9. CASE StartClear
  BY <1>9 DEF StartClear
<1>10. CASE StartArm
  BY <1>10, ConstantsAssumption DEF StartArm
<1>11. CASE StartKick
  BY <1>11 DEF StartKick
<1>12. CASE StartAwait
  BY <1>12 DEF StartAwait
<1>13. CASE EndHalf
  BY <1>13, ConstantsAssumption DEF EndHalf
<1>14. CASE Store
  BY <1>14 DEF Store
<1>15. CASE Advance
  BY <1>15, ConstantsAssumption DEF Advance
<1>16. CASE Trigger
  BY <1>16 DEF Trigger
<1>17. CASE Parked
  BY <1>17 DEF Parked, SlaveOnly
<1>18. CASE ParkedWait
  BY <1>18 DEF ParkedWait, SlaveOnly
<1>19. CASE ParkedClear
  BY <1>19 DEF ParkedClear, SlaveOnly
<1>20. CASE Boot
  BY <1>20 DEF Boot, SlaveOnly
<1>21. CASE ChipReady
  BY <1>21 DEF ChipReady, SlaveOnly
<1>22. CASE ChipPoll
  BY <1>22 DEF ChipPoll, SlaveOnly
<1>23. CASE ChipClear
  BY <1>23 DEF ChipClear, SlaveOnly
<1>24. CASE ChipSnapshot
  BY <1>24 DEF ChipSnapshot, SlaveOnly
<1>25. CASE ChipDrain
  <2>1. Listening /\ rb_rd = Slot(done) /\ slave_ready /\ done <= sent
    BY <1>25 DEF ChipDrain
  <2>2. run_slave => done < sent
    BY <1>25, <2>1 DEF ChipDrain
  <2>. QED
    BY <1>25, <2>1, <2>2, ConstantsAssumption DEF ChipDrain, SlaveOnly
<1>26. CASE ChipDrained
  BY <1>26 DEF ChipDrained, SlaveOnly
<1>27. CASE ChipLeave
  BY <1>27 DEF ChipLeave, SlaveOnly
<1>28. CASE UNCHANGED vars
  BY SMTT(30), <1>28 DEF vars
<1>. QED
  BY <1>1, <1>2, <1>3, <1>4, <1>5, <1>6, <1>7, <1>8, <1>9, <1>10,
     <1>11, <1>12, <1>13, <1>14, <1>15, <1>16, <1>17, <1>18, <1>19, <1>20,
     <1>21, <1>22, <1>23, <1>24, <1>25, <1>26, <1>27, <1>28
  DEF Next, MasterStep, SlaveStep

LEMMA RingStep == Paced /\ IInv /\ [Next]_vars => Ring'
<1>. SUFFICES ASSUME Paced, IInv, [Next]_vars PROVE Ring'
  OBVIOUS
<1>. USE DEF Paced, IInv, TypeOK, Handshake, Pace, Ring, Stopping, Writing, Listening, Idle,
           ChipLoop, Kinds, IsEntry, IsStop, songVars, masterVars, slaveVars
<1>1. ASSUME NEW what \in {"load", "close", "song"}, CallStop(what)
      PROVE  Ring'
  BY <1>1 DEF CallStop
<1>2. CASE BeginHalf
  BY <1>2 DEF BeginHalf
<1>3. CASE ChipWrite
  BY <1>3 DEF ChipWrite
<1>4. CASE StopTest
  BY <1>4 DEF StopTest
<1>5. CASE StopLoop
  BY <1>5 DEF StopLoop
<1>6. CASE Close
  BY <1>6 DEF Close
<1>7. CASE EmuInit
  BY <1>7 DEF EmuInit
<1>8. CASE StartTest
  BY <1>8 DEF StartTest
<1>9. CASE StartClear
  BY <1>9 DEF StartClear
<1>10. CASE StartArm
  <2>1. ~Listening /\ rb_wr = 0 /\ ~Listening'
    BY <1>10 DEF StartArm
  <2>. QED
    BY <1>10, <2>1, SlotZero DEF StartArm
<1>11. CASE StartKick
  BY <1>11 DEF StartKick
<1>12. CASE StartAwait
  BY <1>12 DEF StartAwait
<1>13. CASE EndHalf
  BY <1>13 DEF EndHalf
<1>14. CASE Store
  <2>. DEFINE e == [kind |-> cmd, sess |-> session,
                    n |-> IF cmd = "stop" THEN 0 ELSE sent]
  <2>1. /\ exchip_rb' = [exchip_rb EXCEPT ![rb_wr] = e] /\ rb_wr \in Slots
        /\ mpc = "store" /\ mpc' = "advance"
        /\ UNCHANGED <<run_slave, rb_wr, cmd, spc, rb_rd, snap, session, sent, done>>
    BY <1>14 DEF Store
  <2>2. \A s \in Slots : exchip_rb'[s] = IF s = rb_wr THEN e ELSE exchip_rb[s]
    BY <2>1
  <2>3. CASE cmd = "stop"
    <3>1. IsStop(e) /\ ~run_slave
      BY <2>1, <2>3
    <3>2. \A s \in Slots : IsStop(exchip_rb[s]) => IsStop(exchip_rb'[s])
      BY <2>2, <3>1
    <3>3. \A i \in Nat : IsEntry(exchip_rb[Slot(i)], i) =>
             IsEntry(exchip_rb'[Slot(i)], i) \/ IsStop(exchip_rb'[Slot(i)])
      BY <2>2, <3>1, SlotType
    <3>. QED
      BY <2>1, <2>2, <2>3, <3>1, <3>2, <3>3, SlotType
  <2>4. CASE cmd # "stop"
    <3>1. IsEntry(e, sent) /\ run_slave /\ rb_wr = Slot(sent)
      BY <2>1, <2>4
    <3>2. ASSUME NEW i \in Nat, Listening, done <= i, i < sent
          PROVE  exchip_rb'[Slot(i)] = exchip_rb[Slot(i)]
      <4>1. sent - i < RingSize
        BY <3>2, ConstantsAssumption
      <4>. QED
        BY <4>1, <3>1, <3>2, <2>2, SlotType, SlotDistinct
    <3>. QED
      BY <2>1, <2>2, <2>4, <3>1, <3>2, SlotType
  <2>. QED
    BY <2>3, <2>4
<1>15. CASE Advance
  <2>1. /\ rb_wr' = After(rb_wr) /\ rb_wr \in Slots /\ mpc = "advance"
        /\ UNCHANGED <<run_slave, exchip_rb, cmd, spc, rb_rd, snap, session, done>>
    BY <1>15 DEF Advance
  <2>2. CASE cmd = "stop"
    BY <1>15, <2>1, <2>2 DEF Advance
  <2>3. CASE cmd # "stop"
    <3>1. sent' = sent + 1 /\ run_slave /\ rb_wr' = Slot(sent')
          /\ rb_wr = Slot(sent) /\ mpc' \in {"half", "trigger"}
      BY <1>15, <2>1, <2>3, SlotNext DEF Advance
    <3>2. done <= sent /\ sent' - done' < RingSize
      BY <2>1, <2>3, <3>1, ConstantsAssumption
    <3>3. ASSUME NEW i \in Nat, Listening, done <= i, i < sent'
          PROVE  IsEntry(exchip_rb[Slot(i)], i)
      <4>1. CASE i = sent
        BY <2>1, <2>3, <3>1, <4>1
      <4>2. CASE i < sent
        BY <2>1, <3>1, <3>3, <4>2
      <4>. QED
        BY <3>1, <3>3, <4>1, <4>2
    <3>4. ASSUME spc = "drain"
          PROVE  \E g \in Nat : done <= g /\ g <= sent' /\ snap = Slot(g)
      BY <2>1, <3>1, <3>4
    <3>5. ~Stopping'
      BY <2>1, <3>1, <2>3
    <3>. QED
      BY <2>1, <3>1, <3>2, <3>3, <3>4, <3>5
  <2>. QED
    BY <2>2, <2>3
<1>16. CASE Trigger
  BY <1>16 DEF Trigger
<1>17. CASE Parked
  BY <1>17 DEF Parked, SlaveOnly
<1>18. CASE ParkedWait
  BY <1>18 DEF ParkedWait, SlaveOnly
<1>19. CASE ParkedClear
  BY <1>19 DEF ParkedClear, SlaveOnly
<1>20. CASE Boot
  BY <1>20 DEF Boot, SlaveOnly
<1>21. CASE ChipReady
  <2>1. run_slave /\ done = 0 /\ sent = 0
    BY <1>21 DEF ChipReady
  <2>. QED
    BY <1>21, <2>1, SlotZero, ConstantsAssumption DEF ChipReady, SlaveOnly
<1>22. CASE ChipPoll
  BY <1>22 DEF ChipPoll, SlaveOnly
<1>23. CASE ChipClear
  BY <1>23 DEF ChipClear, SlaveOnly
<1>24. CASE ChipSnapshot
  BY <1>24 DEF ChipSnapshot, SlaveOnly
<1>25. CASE ChipDrain
  <2>1. /\ spc = "drain" /\ Listening /\ rb_rd = Slot(done) /\ rb_rd # snap
        /\ rb_rd' = Slot(done + 1)
        /\ UNCHANGED <<run_slave, exchip_rb, rb_wr, mpc, cmd, snap, session, sent>>
    BY <1>25, SlotNext DEF ChipDrain, SlaveOnly
  <2>2. CASE exchip_rb[rb_rd].kind = "stop"
    BY <1>25, <2>1, <2>2 DEF ChipDrain
  <2>3. CASE exchip_rb[rb_rd].kind # "stop"
    <3>1. done < sent /\ done' = done + 1 /\ spc' = spc
      BY <1>25, <2>1, <2>3 DEF ChipDrain
    <3>2. ASSUME NEW g \in Nat, done <= g, snap = Slot(g)
          PROVE  done + 1 <= g
      BY <2>1, <3>2
    <3>3. \/ \E g \in Nat : done + 1 <= g /\ g <= sent /\ snap = Slot(g)
          \/ ~run_slave /\ IsStop(exchip_rb[Slot(sent)])
      BY <2>1, <3>2
    <3>. QED
      BY <2>1, <3>1, <3>3, ConstantsAssumption
  <2>. QED
    BY <2>2, <2>3
<1>26. CASE ChipDrained
  BY <1>26 DEF ChipDrained, SlaveOnly
<1>27. CASE ChipLeave
  BY <1>27 DEF ChipLeave, SlaveOnly
<1>28. CASE UNCHANGED vars
  BY <1>28 DEF vars
<1>. QED
  BY <1>1, <1>2, <1>3, <1>4, <1>5, <1>6, <1>7, <1>8, <1>9, <1>10,
     <1>11, <1>12, <1>13, <1>14, <1>15, <1>16, <1>17, <1>18, <1>19, <1>20,
     <1>21, <1>22, <1>23, <1>24, <1>25, <1>26, <1>27, <1>28
  DEF Next, MasterStep, SlaveStep

LEMMA Invariance ==
    ASSUME Paced
    PROVE  Spec => []IInv
<1>1. Init => IInv
  BY TypeInit, HandshakeInit, RingInit DEF IInv
<1>2. IInv /\ [Next]_vars => IInv'
  BY Paced, TypeStep, HandshakeStep, NoStopStep, PaceStep, RingStep DEF IInv
<1>. QED
  BY <1>1, <1>2, PTL DEF Spec

\* With the master paced, the chip acts on every command once, in the order of
\* the 6502's writes, for every ring that is larger than what two halves of a
\* frame add to the backlog: slave_write() may do without a test for room.
THEOREM CommandsInOrder ==
    ASSUME Paced
    PROVE  Spec => []InOrder
<1>1. IInv => InOrder
  <2>1. SUFFICES ASSUME IInv, spc = "drain", rb_rd # snap
                 PROVE  LET e == exchip_rb[rb_rd] IN
                        /\ e.sess = session
                        /\ \/ e.kind \in Kinds /\ e.n = done
                           \/ e.kind = "stop" /\ ~run_slave
    BY DEF InOrder
  <2>2. rb_rd = Slot(done) /\ done \in Nat /\ sent \in Nat /\ done <= sent
    BY <2>1 DEF IInv, TypeOK, Ring, Listening
  <2>3. CASE done < sent
    BY <2>1, <2>2, <2>3 DEF IInv, Ring, Listening, IsEntry, IsStop
  <2>4. CASE done = sent
    <3>1. ~run_slave /\ IsStop(exchip_rb[Slot(sent)])
      BY <2>1, <2>2, <2>4 DEF IInv, Ring
    <3>. QED
      BY <2>2, <2>4, <3>1 DEF IsStop
  <2>. QED
    BY <2>2, <2>3, <2>4
<1>2. Spec => []IInv
  BY Paced, Invariance
<1>. QED
  BY <1>1, <1>2, PTL

-----------------------------------------------------------------------------
(* The refinement of ChipSession. *)

LEMMA SessionInit == Init => Session!Init
BY DEF Init, Session!Init, Phase, Blank

LEMMA SessionStep ==
    IInv /\ IInv' /\ [Next]_vars => [Session!Next]_Session!vars
<1>. SUFFICES ASSUME IInv, IInv', [Next]_vars
              PROVE  [Session!Next]_Session!vars
  OBVIOUS
<1>1. CASE StartArm
  <2>1. Phase = "off" /\ Phase' = "on"
    BY <1>1 DEF StartArm, Phase, IInv, Handshake, Stopping, Writing, Idle
  <2>. QED
    BY <1>1, <2>1 DEF StartArm, Session!Next, Session!Open
<1>2. CASE StopTest
  <2>1. run_slave => slave_ready
    BY <1>2 DEF StopTest, IInv, Handshake
  <2>. QED
    BY <1>2, <2>1 DEF StopTest, slaveVars, Phase, Session!Next, Session!Close, Session!vars
<1>3. CASE Advance
  <2>1. cmd # "stop" => run_slave /\ run_slave'
    BY <1>3 DEF Advance, IInv, TypeOK, Handshake, Writing
  <2>. QED
    BY <1>3, <2>1 DEF Advance, slaveVars, Phase, Session!Next, Session!Send, Session!vars
<1>4. CASE ChipReady
  <2>1. run_slave
    BY <1>4 DEF ChipReady, IInv, Handshake, Stopping, Writing, Idle
  <2>. QED
    BY <1>4, <2>1 DEF ChipReady, SlaveOnly, Phase, Session!vars
<1>5. CASE ChipLeave
  <2>1. ~run_slave /\ slave_ready
    BY <1>5 DEF ChipLeave, IInv, Handshake
  <2>. QED
    BY <1>5, <2>1 DEF ChipLeave, SlaveOnly, Phase, Session!Next, Session!Closed
<1>6. CASE ChipDrain
  <2>1. slave_ready /\ spc = "drain" /\ rb_rd # snap /\ Phase' = Phase
        /\ UNCHANGED <<session, sent>>
    BY <1>6 DEF ChipDrain, SlaveOnly, IInv, Handshake, Phase
  <2>2. CASE exchip_rb[rb_rd].kind = "stop"
    BY <1>6, <2>1, <2>2 DEF ChipDrain, Session!vars
  <2>3. CASE exchip_rb[rb_rd].kind # "stop"
    <3>1. rb_rd = Slot(done) /\ done < sent /\ IsEntry(exchip_rb[rb_rd], done)
      BY <1>6, <2>1, <2>3
      DEF ChipDrain, IInv, TypeOK, Ring, Listening, IsEntry, IsStop
    <3>2. exchip_rb[rb_rd] \in Entries
      BY DEF IInv, TypeOK
    <3>3. exchip_rb[rb_rd] = [kind |-> exchip_rb[rb_rd].kind,
                              sess |-> session, n |-> done]
      BY <3>1, <3>2 DEF IsEntry, Entries
    <3>4. heard' = exchip_rb[rb_rd] /\ done' = done + 1
      BY <1>6, <2>3 DEF ChipDrain
    <3>5. Phase \in {"on", "closing"}
      BY <2>1 DEF Phase
    <3>6. Session!Act
      BY <2>1, <3>1, <3>3, <3>4, <3>5 DEF Session!Act, IsEntry
    <3>. QED
      BY <3>6 DEF Session!Next
  <2>. QED
    BY <2>2, <2>3
<1>7. CASE UNCHANGED <<run_slave, slave_ready, session, sent, done, heard>>
  BY <1>7 DEF Phase, Session!vars
<1>8. CASE \E what \in {"load", "close", "song"} : CallStop(what)
  BY <1>7, <1>8 DEF CallStop, slaveVars
<1>9. CASE \/ BeginHalf \/ ChipWrite \/ StopLoop \/ Close \/ EmuInit
           \/ StartTest \/ StartClear \/ StartKick \/ StartAwait
           \/ EndHalf \/ Store \/ Trigger
  BY <1>7, <1>9
  DEF BeginHalf, ChipWrite, StopLoop, Close, EmuInit, StartTest, StartClear,
      StartKick, StartAwait, EndHalf, Store, Trigger, slaveVars
<1>10. CASE \/ Parked \/ ParkedWait \/ ParkedClear \/ Boot \/ ChipPoll
            \/ ChipClear \/ ChipSnapshot \/ ChipDrained
  BY <1>7, <1>10
  DEF Parked, ParkedWait, ParkedClear, Boot, ChipPoll, ChipClear, ChipSnapshot,
      ChipDrained, SlaveOnly
<1>11. CASE UNCHANGED vars
  BY <1>7, <1>11 DEF vars
<1>. QED
  BY <1>1, <1>2, <1>3, <1>4, <1>5, <1>6, <1>8, <1>9, <1>10, <1>11
  DEF Next, MasterStep, SlaveStep

\* The link's steps are steps of the abstract session or leave it alone: every
\* command of a session is acted on at most once and in order, nothing of
\* another session is, and a session is opened only when the last one is closed.
THEOREM LinkImplementsSession ==
    ASSUME Paced
    PROVE  Spec => Session!Init /\ [][Session!Next]_Session!vars
<1>1. Spec => []IInv
  BY Paced, Invariance
<1>. QED
  BY <1>1, SessionInit, SessionStep, PTL DEF Spec

=============================================================================
