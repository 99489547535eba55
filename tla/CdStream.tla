------------------------------ MODULE CdStream ------------------------------
(***************************************************************************)
(* The byte stream over the CD block (gs/cdb.c).  The CD block plays ahead *)
(* into a buffer partition by itself, stops when the partition is full,    *)
(* may fail, and loses its authentication with the lid.  The stream keeps  *)
(* a mirror of the partition's sector addresses (the stream_pb variables), *)
(* one sector's data (stream_buffer) and two positions: the one asked for  *)
(* (stream_target_pos) and the one the data is at (stream_pos).            *)
(*                                                                         *)
(* The data of a sector is its address (FAD).  The drive is external: it   *)
(* is modelled by what the stream's commands expect of it.  It keeps the   *)
(* partition while the lid is open.                                        *)
(***************************************************************************)
EXTENDS Integers, Sequences

CONSTANTS
    SectorSize,     \* 2048
    Buffers,        \* sectors of the partition (0xC8)
    Keep,           \* sectors prune_pb() keeps (0x80)
    Window,         \* how far behind the wanted sector the drive may play (16)
    LastFad,        \* the disc's sectors are 0 .. LastFad
    ReadSizes,      \* bytes per read
    MaxTroubles     \* bound of the model: times the drive fails or is opened

ASSUME ConstantsAssumption ==
    /\ SectorSize \in Nat \ {0}
    /\ Keep \in Nat /\ Buffers \in Nat /\ Keep < Buffers
    /\ Window \in Nat \ {0}
    /\ LastFad \in Nat
    /\ ReadSizes \subseteq Nat \ {0}
    /\ MaxTroubles \in Nat

VARIABLES
    pc,                 \* where the stream is in cdb_stream_read()
    stream_target_pos, stream_pos,
    stream_buffer,      \* the FAD of the sector in it
    stream_buffer_offs, \* SectorSize and more: no data there yet
    left, dr,           \* bytes still to copy, bytes copied by this read
    allow_play,
    stream_pb_offs, stream_pb_count, stream_pb_fad,
    drive,              \* the CD block's status
    head,               \* the sector it delivers next
    partition,          \* its buffer partition 0, the oldest sector first
    authed,             \* the disc is authenticated
    connected,          \* the drive's sectors go to the partition
    troubles,           \* failures of the drive so far
    unfetched           \* history: sought within a sector that is still to be fetched

stream == <<stream_target_pos, stream_pos, stream_buffer, stream_buffer_offs,
            left, dr, unfetched>>
pb == <<stream_pb_offs, stream_pb_count, stream_pb_fad>>
block == <<drive, head, partition, authed, connected, troubles>>
vars == <<pc, stream, allow_play, pb, block>>

NoFad == -1
Fads == 0 .. LastFad
Ring == 0 .. Buffers - 1
Positions == 0 .. (LastFad + 1) * SectorSize - 1
Far == (LastFad + 1) * SectorSize       \* stream_pos = 0x7FFFFFFF
Fad(pos) == pos \div SectorSize

EmptyMirror == [i \in Ring |-> NoFad]

\* cdb_stream_init().
Init ==
    /\ pc = "idle"
    /\ stream_target_pos = 0 /\ stream_pos = Far
    /\ stream_buffer = NoFad /\ stream_buffer_offs = 0
    /\ left = 0 /\ dr = 0 /\ allow_play = TRUE
    /\ stream_pb_offs = 0 /\ stream_pb_count = 0 /\ stream_pb_fad = EmptyMirror
    /\ drive = "pause" /\ head = 0 /\ partition = << >>
    /\ authed = TRUE /\ connected = TRUE /\ troubles = 0
    /\ unfetched = FALSE

-----------------------------------------------------------------------------
(* The stream. *)

\* cdb_stream_seek().
Seek(pos) ==
    /\ pc = "idle"
    /\ stream_target_pos' = pos
    /\ UNCHANGED <<pc, stream_pos, stream_buffer, stream_buffer_offs, left, dr,
                   unfetched, allow_play, pb, block>>

\* The head of cdb_stream_read(): catch up with the seeks before.
Read(n) ==
    /\ pc = "idle"
    /\ stream_target_pos + n <= Far
    /\ pc' = "copy"
    /\ left' = n
    /\ dr' = 0
    /\ stream_pos' = stream_target_pos
    /\ LET new == Fad(stream_target_pos)
           in  == stream_target_pos % SectorSize
       IN \/ /\ stream_pos = stream_target_pos
             /\ UNCHANGED <<stream_buffer_offs, unfetched>>
          \/ /\ stream_pos # stream_target_pos
             /\ new = Fad(stream_pos)
             /\ stream_buffer_offs' = in
             /\ unfetched' = (unfetched \/ stream_buffer_offs >= SectorSize)
          \/ /\ new # Fad(stream_pos)
             /\ stream_buffer_offs' = SectorSize + in
             /\ unfetched' = FALSE
    /\ UNCHANGED <<stream_target_pos, stream_buffer, allow_play, pb, block>>

\* The bytes of the sector at hand.
Copy ==
    /\ pc = "copy"
    /\ left > 0
    /\ stream_buffer_offs < SectorSize
    /\ LET room == SectorSize - stream_buffer_offs
           l == IF left > room THEN room ELSE left
       IN /\ left' = left - l
          /\ dr' = dr + l
          /\ stream_pos' = stream_pos + l
          /\ stream_buffer_offs' = stream_buffer_offs + l
    /\ UNCHANGED <<pc, stream_target_pos, stream_buffer, unfetched, allow_play, pb, block>>

\* The local variables of a call are gone
Forget == left' = 0 /\ dr' = 0 /\ allow_play' = TRUE

Return ==
    /\ pc = "copy"
    /\ left = 0
    /\ stream_target_pos' = stream_target_pos + dr
    /\ pc' = "idle" /\ Forget
    /\ UNCHANGED <<stream_pos, stream_buffer, stream_buffer_offs, unfetched, pb, block>>

\* update_pb() learns of add sectors more.  Its loop compares a rising index with a
\* falling difference, so these are half of the new ones, rounded up.
Half == (Len(partition) - stream_pb_count + 1) \div 2

UpdatePb(add) ==
    /\ stream_pb_count' = stream_pb_count + add
    /\ stream_pb_fad' =
          [i \in Ring |->
             LET k == (i - stream_pb_offs) % Buffers
             IN IF k >= stream_pb_count /\ k < stream_pb_count + add
                THEN partition[k + 1] ELSE stream_pb_fad[i]]
    /\ UNCHANGED stream_pb_offs

\* The drive rejects a command.
Rejected == troubles < MaxTroubles /\ troubles' = troubles + 1

\* A sector is needed; whether this update_pb() fails midway is not looked at.
Need ==
    /\ pc = "copy"
    /\ left > 0
    /\ stream_buffer_offs >= SectorSize
    /\ allow_play' = TRUE
    /\ \/ UpdatePb(Half) /\ UNCHANGED troubles
       \/ Rejected /\ \E k \in 0 .. Half - 1 : UpdatePb(k)
    /\ pc' = "find"
    /\ UNCHANGED <<stream, drive, head, partition, authed, connected>>

Matches == {i \in Ring : stream_pb_fad[i] = Fad(stream_pos)}

\* find_cdb_buffer(): the match first in the array, not the oldest.
Found == CHOOSE i \in Matches : \A j \in Matches : i <= j
Cdbn == (Buffers + Found - stream_pb_offs) % Buffers

Find ==
    /\ pc = "find"
    /\ pc' = IF Matches = {} THEN "prune" ELSE "fetch"
    /\ UNCHANGED <<stream, allow_play, pb, block>>

\* Mutant: a pruned entry stays in the mirror.
PruneKeeps ==
    /\ pc = "prune"
    /\ IF stream_pb_count > Keep
       THEN /\ stream_pb_offs' = (stream_pb_offs + 1) % Buffers
            /\ stream_pb_count' = stream_pb_count - 1
            /\ partition' = Tail(partition)
            /\ UNCHANGED <<pc, stream_pb_fad>>
       ELSE /\ pc' = "update"
            /\ UNCHANGED <<pb, partition>>
    /\ UNCHANGED <<stream, allow_play, drive, head, authed, connected, troubles>>

\* prune_pb(), one sector at a time.
Prune ==
    /\ pc = "prune"
    /\ IF stream_pb_count > Keep
       THEN /\ stream_pb_fad' = [stream_pb_fad EXCEPT ![stream_pb_offs] = NoFad]
            /\ stream_pb_offs' = (stream_pb_offs + 1) % Buffers
            /\ stream_pb_count' = stream_pb_count - 1
            /\ partition' = Tail(partition)
            /\ UNCHANGED pc
       ELSE /\ pc' = "update"
            /\ UNCHANGED <<pb, partition>>
    /\ UNCHANGED <<stream, allow_play, drive, head, authed, connected, troubles>>

Refresh ==
    /\ pc = "update"
    /\ UpdatePb(Half)
    /\ pc' = "status"
    /\ UNCHANGED <<stream, allow_play, block>>

\* The drive plays, but not towards the wanted sector.
Astray ==
    \/ stream_pb_count = 0
    \/ LET latest == stream_pb_fad[(stream_pb_offs + stream_pb_count - 1) % Buffers]
       IN Fad(stream_pos) < latest \/ Fad(stream_pos) - latest >= Window

\* Mutant: a drive that was told to play is trusted whatever its status.
StatusTrusts ==
    /\ pc = "status"
    /\ pc' = IF allow_play /\ (\/ drive \in {"standby", "pause", "error"}
                               \/ drive = "play" /\ Astray)
             THEN "auth" ELSE "find"
    /\ UNCHANGED <<stream, allow_play, pb, block>>

Status ==
    /\ pc = "status"
    /\ pc' = IF \/ drive \in {"standby", "pause", "error"}
                \/ drive = "play" /\ allow_play /\ Astray
             THEN "auth" ELSE "find"
    /\ UNCHANGED <<stream, allow_play, pb, block>>

Auth ==
    /\ pc = "auth"
    /\ authed
    /\ pc' = "play"
    /\ UNCHANGED <<stream, allow_play, pb, block>>

\* The lid is still open, the disc cannot be authenticated: the read returns -1.
AuthFails ==
    /\ pc = "auth"
    /\ ~authed /\ drive = "open"
    /\ pc' = "idle" /\ Forget
    /\ UNCHANGED <<stream_target_pos, stream_pos, stream_buffer, stream_buffer_offs,
                   unfetched, pb, block>>

\* Mutant: the sector that was needed is forgotten.
ReinitOffsForgets == stream_buffer_offs % SectorSize

\* Mutant: the offset is not brought back into a sector first.
ReinitOffsAddsUp == SectorSize + stream_buffer_offs

ReinitOffs == SectorSize + (stream_buffer_offs % SectorSize)

\* The lid has been open: cdb_auth() authenticates the disc, init_stream(true)
\* clears the mirror and the partition, and the read starts again where it was.
\* The drive is disconnected, sought to a pause, its partition cleared and
\* connected again; nobody looks whether a command was rejected, which ends it.
Reinit ==
    /\ pc = "auth"
    /\ ~authed /\ drive # "open"
    /\ authed' = TRUE
    /\ stream_buffer_offs' = ReinitOffs
    /\ stream_pb_offs' = 0 /\ stream_pb_count' = 0 /\ stream_pb_fad' = EmptyMirror
    /\ \E accepted \in 0 .. 4 :
          /\ connected' = IF accepted = 0 THEN connected ELSE accepted = 4
          /\ drive' = IF accepted < 2 THEN drive ELSE "pause"
          /\ partition' = IF accepted < 3 THEN partition ELSE << >>
    /\ allow_play' = TRUE
    /\ pc' = "copy"
    /\ UNCHANGED <<stream_target_pos, stream_pos, stream_buffer, left, dr, unfetched,
                   head, troubles>>

\* cdb_cmd_play(), which an open drive refuses.
Play ==
    /\ pc = "play"
    /\ IF drive = "open"
       THEN UNCHANGED <<allow_play, drive, head>>
       ELSE allow_play' = FALSE /\ drive' = "busy" /\ head' = Fad(stream_pos)
    /\ pc' = "find"
    /\ UNCHANGED <<stream, pb, partition, authed, connected, troubles>>

\* Get the sector's data.
Fetch ==
    /\ pc = "fetch"
    /\ stream_buffer' = partition[Cdbn + 1]
    /\ stream_buffer_offs' = stream_buffer_offs % SectorSize
    /\ unfetched' = FALSE
    /\ allow_play' = TRUE
    /\ pc' = "copy"
    /\ UNCHANGED <<stream_target_pos, stream_pos, left, dr, pb, block>>

\* The read returns -1: its progress is kept except for stream_target_pos.
Fail ==
    /\ Rejected
    /\ \/ pc \in {"prune", "auth", "fetch"} /\ UNCHANGED pb
       \/ pc = "update" /\ \E k \in 0 .. Half : UpdatePb(k)
    /\ pc' = "idle" /\ Forget
    /\ UNCHANGED <<stream_target_pos, stream_pos, stream_buffer, stream_buffer_offs,
                   unfetched, drive, head, partition, authed, connected>>

-----------------------------------------------------------------------------
(* The drive (external). *)

Host == UNCHANGED <<pc, stream, allow_play, pb>>

\* The head has reached the sector asked for.
Spin ==
    /\ drive = "busy"
    /\ drive' = "play"
    /\ UNCHANGED <<head, partition, authed, connected, troubles>>
    /\ Host

\* A sector arrives; a full partition or the end of the disc makes a pause.
\* Without a connection it is lost.
Deliver ==
    /\ drive = "play"
    /\ connected => Len(partition) < Buffers
    /\ head \in Fads
    /\ partition' = IF connected THEN Append(partition, head) ELSE partition
    /\ head' = head + 1
    /\ drive' = IF (connected /\ Len(partition') = Buffers) \/ head' \notin Fads THEN "pause" ELSE "play"
    /\ UNCHANGED <<authed, connected, troubles>>
    /\ Host

\* There is room again.
Resume ==
    /\ drive = "pause"
    /\ partition # << >> /\ Len(partition) < Buffers
    /\ head \in Fads
    /\ drive' = "busy"
    /\ UNCHANGED <<head, partition, authed, connected, troubles>>
    /\ Host

\* A read error, the standby timer, or the lid.
Trouble ==
    /\ drive # "open"
    /\ troubles < MaxTroubles
    /\ troubles' = troubles + 1
    /\ drive' \in {"error", "standby", "open"}
    /\ authed' = (authed /\ drive' # "open")
    /\ UNCHANGED <<head, partition, connected>>
    /\ Host

CloseLid ==
    /\ drive = "open"
    /\ drive' = "standby"
    /\ UNCHANGED <<head, partition, authed, connected, troubles>>
    /\ Host

-----------------------------------------------------------------------------
StreamStep ==
    \/ Copy \/ Return \/ Need \/ Find \/ Prune \/ Refresh \/ Status
    \/ Auth \/ AuthFails \/ Reinit \/ Play \/ Fetch

DriveStep == Spin \/ Deliver \/ CloseLid

Next ==
    \/ \E pos \in Positions : Seek(pos)
    \/ \E n \in ReadSizes : Read(n)
    \/ StreamStep \/ Fail
    \/ DriveStep \/ Resume \/ Trouble

\* The processor runs on; the drive delivers and the lid is closed again.
Fairness == WF_vars(StreamStep) /\ WF_vars(DriveStep)

Spec == Init /\ [][Next]_vars
FairSpec == Spec /\ Fairness
-----------------------------------------------------------------------------
(* Properties. *)

\* Every variable stays in its range.
TypeOK ==
    /\ pc \in {"idle", "copy", "find", "prune", "update", "status", "auth", "play",
               "fetch"}
    /\ stream_target_pos \in Positions \cup {Far}
    /\ stream_pos \in Positions \cup {Far}
    /\ stream_buffer \in Fads \cup {NoFad}
    /\ stream_buffer_offs \in 0 .. 2 * SectorSize - 1
    /\ left \in Nat /\ dr \in Nat /\ allow_play \in BOOLEAN
    /\ stream_pb_offs \in Ring /\ stream_pb_count \in 0 .. Buffers
    /\ stream_pb_fad \in [Ring -> Fads \cup {NoFad}]
    /\ drive \in {"pause", "busy", "play", "standby", "error", "open"}
    /\ partition \in Seq(Fads) /\ Len(partition) <= Buffers
    /\ {authed, connected} \subseteq BOOLEAN /\ unfetched \in BOOLEAN

\* What update_pb(), prune_pb() and stream_read_real() assert: the ring stream_pb_fad
\* holds the addresses of the partition's oldest sectors, in order, and nothing
\* else, while the drive appends to the partition at any moment.
Mirror ==
    /\ stream_pb_count <= Len(partition)
    /\ \A i \in Ring :
          LET k == (i - stream_pb_offs) % Buffers
          IN stream_pb_fad[i] = IF k < stream_pb_count THEN partition[k + 1] ELSE NoFad

\* The bytes copied are those of the sector at stream_pos: the condition asserted
\* when the sector is fetched (fad == actual_fad) holds when its bytes are used.
SectorRight ==
    pc = "copy" /\ left > 0 /\ stream_buffer_offs < SectorSize =>
        stream_buffer = Fad(stream_pos) /\ stream_buffer_offs = stream_pos % SectorSize

\* It does so through failing reads, retries after the lid was open and sectors
\* buffered twice, unless a seek went to another byte of a sector that was still to
\* be fetched: the one after a read that ended with its sector, or a failed one.
SectorRightInside == ~unfetched => SectorRight

\* A read returns, if only with an error, although the drive fails or is opened in
\* the middle, stops when the partition is full, and half of its sectors are unknown;
\* unless a reinitialisation that nobody looked at has left it disconnected.
ReadEnds == (pc = "copy") ~> (pc = "idle" \/ ~connected)
=============================================================================
