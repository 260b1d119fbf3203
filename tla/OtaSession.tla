----------------------------- MODULE OtaSession -----------------------------
(***************************************************************************)
(* OtaSessionManager in its Zephyr build: the UDS services 0x34, 0x36 and  *)
(* 0x37 receive a firmware image into the staging slot of MCUboot through  *)
(* stream_flash, which collects bytes in a buffer and programs the slot a  *)
(* bufferful at a time.                                                    *)
(*                                                                         *)
(* The image is a sequence of bytes.  A CRC is represented by the bytes it *)
(* has been fed with: Crc32 turns them into the value that is compared.  A *)
(* slot holds what was programmed since its first sector was last erased;  *)
(* whatever is left further on of an older image is not an image.          *)
(*                                                                         *)
(* Answers are not modelled: nothing in the node depends on them, and the  *)
(* tester may send anything next.  A request that is refused without an    *)
(* effect is therefore no step.                                            *)
(***************************************************************************)
EXTENDS Integers, Sequences

CONSTANTS
  Bytes,                   \* the values of a byte of an image
  kMaxDataBytesPerBlock,   \* 512
  kMaxFirmwareSize,        \* 10 MiB
  SlotSize,                \* slot1_partition, 768 KB
  StreamBufSize,           \* s_stream_buf, 1024
  SeqModulus,              \* block counters are 8 bits
  Crc32(_),
  NoCrc                    \* a 0x37 request of another length than its five bytes

ASSUME SizesAssumption ==
  /\ {kMaxDataBytesPerBlock, kMaxFirmwareSize, SlotSize} \subseteq Nat \ {0}
  /\ StreamBufSize \in Nat \ {0} /\ SeqModulus \in Nat \ {0, 1}

VARIABLES
  state,             \* state_
  expected_size,     \* expected_size_
  received_size,     \* received_size_
  next_block_seq,    \* next_block_seq_
  running_crc,       \* running_crc_
  area_open,         \* s_flash_area is not null
  stream,            \* s_stream_ctx: bytes programmed, bytes in s_stream_buf
  slot1,             \* the staging slot
  pending,           \* its trailer asks MCUboot for a test upgrade
  reboot_scheduled   \* s_reboot_work

counters == <<expected_size, received_size, next_block_seq, running_crc>>
session == <<state, counters, area_open, stream>>
flash == <<slot1, pending>>
ota_vars == <<session, flash, reboot_scheduled>>

OtaStates == {"kIdle", "kActive", "kComplete", "kFailed"}

CountersReset ==
  /\ expected_size' = 0
  /\ received_size' = 0
  /\ next_block_seq' = 1
  /\ running_crc' = << >>

\* What a board knows of a session when it starts: the slot survives, this does not.
SessionInit ==
  /\ state = "kIdle"
  /\ expected_size = 0 /\ received_size = 0
  /\ next_block_seq = 1 /\ running_crc = << >>
  /\ area_open = FALSE
  /\ stream = [written |-> 0, buffer |-> << >>]
  /\ reboot_scheduled = FALSE

-----------------------------------------------------------------------------
(* stream_flash *)

Flashed == SubSeq(slot1, 1, stream.written)
Staged == Flashed \o stream.buffer

HasRoom(data) == stream.written + Len(stream.buffer \o data) <= SlotSize

\* How many of the bytes at hand are programmed by a call.
Programmed(data, flush) ==
  LET length == Len(stream.buffer \o data)
  IN IF flush THEN length ELSE length - (length % StreamBufSize)

\* stream_flash_buffered_write: the first bytes that are programmed erase the slot, the
\* last ones that fit erase the trailer with their sector.
BufferedWrite(data, flush) ==
  LET bytes == stream.buffer \o data
      n == Programmed(data, flush)
  IN /\ HasRoom(data)
     /\ slot1' = IF n = 0 THEN slot1 ELSE Flashed \o SubSeq(bytes, 1, n)
     /\ stream' = [written |-> stream.written + n,
                   buffer |-> SubSeq(bytes, n + 1, Len(bytes))]
     /\ pending' = (pending /\ (n = 0 \/ stream'.written < SlotSize))

\* It fails for want of room, or in the driver, where an erase may have been done.
FailedWrite(data, flush) ==
  /\ \/ ~HasRoom(data) /\ slot1' = slot1
     \/ HasRoom(data) /\ Programmed(data, flush) > 0 /\ slot1' \in {slot1, Flashed}
  /\ UNCHANGED stream

-----------------------------------------------------------------------------
(* 0x34 RequestDownload *)

AcceptableSize(size) == size \in 1 .. kMaxFirmwareSize

\* Mutation of AcceptDownload: the running CRC of the last session is kept.
AcceptDownloadKeepsCrc(size) ==
  /\ state # "kActive" /\ AcceptableSize(size)
  /\ state' = "kActive"
  /\ expected_size' = size
  /\ received_size' = 0 /\ next_block_seq' = 1 /\ running_crc' = running_crc
  /\ area_open' = TRUE
  /\ stream' = [written |-> 0, buffer |-> << >>]
  /\ UNCHANGED <<flash, reboot_scheduled>>

\* Not during a session.  The slot is not touched before the first bufferful; if it
\* cannot be opened the request is refused.
AcceptDownload(size) ==
  /\ state # "kActive" /\ AcceptableSize(size)
  /\ state' = "kActive"
  /\ expected_size' = size
  /\ received_size' = 0 /\ next_block_seq' = 1 /\ running_crc' = << >>
  /\ area_open' = TRUE
  /\ stream' = [written |-> 0, buffer |-> << >>]
  /\ UNCHANGED <<flash, reboot_scheduled>>

-----------------------------------------------------------------------------
(* 0x36 TransferData *)

\* Other blocks are refused, and the session goes on.
TakesBlock(block_seq, data) ==
  /\ state = "kActive"
  /\ Len(data) \in 1 .. kMaxDataBytesPerBlock
  /\ block_seq = next_block_seq

AcceptBlock(block_seq, data) ==
  /\ TakesBlock(block_seq, data)
  /\ BufferedWrite(data, FALSE)
  /\ running_crc' = running_crc \o data
  /\ received_size' = received_size + Len(data)
  /\ next_block_seq' = (block_seq + 1) % SeqModulus
  /\ UNCHANGED <<state, expected_size, area_open, reboot_scheduled>>

\* The session is over; the counters keep their values until the next one.
FailBlock(block_seq, data) ==
  /\ TakesBlock(block_seq, data)
  /\ FailedWrite(data, FALSE)
  /\ state' = "kFailed" /\ area_open' = FALSE
  /\ UNCHANGED <<counters, pending, reboot_scheduled>>

HandleTransferData(block_seq, data) ==
  AcceptBlock(block_seq, data) \/ FailBlock(block_seq, data)

-----------------------------------------------------------------------------
(* 0x37 RequestTransferExit *)

IsVerified(crc) ==
  /\ received_size = expected_size
  /\ crc # NoCrc
  /\ crc = Crc32(running_crc)

\* Mutation of EndFailed: the manager is ready again at once.
EndFailedReady ==
  /\ state' = "kIdle" /\ area_open' = FALSE
  /\ CountersReset
  /\ UNCHANGED reboot_scheduled

\* An exit that fails ends the session, whatever the reason.
EndFailed ==
  /\ state' = "kFailed" /\ area_open' = FALSE
  /\ CountersReset
  /\ UNCHANGED reboot_scheduled

FailExit(crc) ==
  /\ state = "kActive" /\ ~IsVerified(crc)
  /\ EndFailed
  /\ UNCHANGED <<stream, flash>>

FailFlush(crc) ==
  /\ state = "kActive" /\ IsVerified(crc)
  /\ FailedWrite(<< >>, TRUE)
  /\ EndFailed
  /\ UNCHANGED pending

\* Mutation of Flush: the buffered write is called without the flush.
FlushNot(crc) ==
  /\ state = "kActive" /\ IsVerified(crc)
  /\ BufferedWrite(<< >>, FALSE)
  /\ area_open' = FALSE
  /\ UNCHANGED <<state, counters, reboot_scheduled>>

\* The image is complete in the slot, and MCUboot does not know of it yet.
Flush(crc) ==
  /\ state = "kActive" /\ IsVerified(crc)
  /\ BufferedWrite(<< >>, TRUE)
  /\ area_open' = FALSE
  /\ UNCHANGED <<state, counters, reboot_scheduled>>

\* Mutation of RequestUpgrade: the reboot is forgotten.
RequestUpgradeOnly ==
  /\ pending' = TRUE
  /\ state' = "kComplete"
  /\ CountersReset
  /\ UNCHANGED <<area_open, stream, slot1, reboot_scheduled>>

\* boot_request_upgrade, and the reboot in 100 ms.
RequestUpgrade ==
  /\ pending' = TRUE
  /\ state' = "kComplete"
  /\ CountersReset
  /\ reboot_scheduled' = TRUE
  /\ UNCHANGED <<area_open, stream, slot1>>

\* A request that fails may have marked the slot all the same.
FailUpgrade ==
  /\ pending' \in {pending, TRUE}
  /\ EndFailed
  /\ UNCHANGED <<stream, slot1>>
=============================================================================
