----------------------- MODULE DiagnosticServerProofs -----------------------
(***************************************************************************)
(* What the diagnostic server promises about firmware and faults, for      *)
(* every buffer, slot and block size, every checksum and every set of      *)
(* signed images.                                                          *)
(*                                                                         *)
(* An exit compares counters, and commits what lies in flash.  That this   *)
(* is the same is seen from ActiveInv: what was programmed in a session is *)
(* all that the slot holds, and CommitInv: nothing is left in the buffer   *)
(* when the upgrade is requested.                                          *)
(***************************************************************************)
EXTENDS DiagnosticServer, FaultManagerProofs, SequenceTheorems

ActiveInv == state = "kActive" =>
  /\ stream.written > 0 => Len(slot1) = stream.written
  /\ expected_size > 0

CommitInv == pc = "commit" =>
  /\ state = "kActive"
  /\ stream.buffer = << >>
  /\ received_size = expected_size
  /\ claimed = Crc32(running_crc)

StreamOK == stream \in [written : Nat, buffer : Seq(Bytes)]

\* The inductive invariant; IInv is the one of the fault table.
ServerInv ==
  /\ IInv
  /\ ServerTypeOK
  /\ StreamOK
  /\ ActiveInv
  /\ CommitInv
  /\ CountersMatchStaged
  /\ TrialCanBeReverted

-----------------------------------------------------------------------------
(* stream_flash *)

LEMMA PrefixFacts ==
  ASSUME NEW S, NEW s \in Seq(S), NEW n \in 0 .. Len(s)
  PROVE  /\ SubSeq(s, 1, n) \in Seq(S) /\ Len(SubSeq(s, 1, n)) = n
         /\ SubSeq(s, n + 1, Len(s)) \in Seq(S)
         /\ Len(SubSeq(s, n + 1, Len(s))) = Len(s) - n
         /\ SubSeq(s, 1, n) \o SubSeq(s, n + 1, Len(s)) = s
<1>1. Len(s) \in Nat /\ \A i \in 1 .. Len(s) : s[i] \in S
  BY LenProperties, ElementOfSeq
<1>2. SubSeq(s, 1, n) \in Seq(S) /\ Len(SubSeq(s, 1, n)) = n
  BY <1>1, SubSeqProperties
<1>3. /\ SubSeq(s, n + 1, Len(s)) \in Seq(S)
      /\ Len(SubSeq(s, n + 1, Len(s))) = Len(s) - n
  BY <1>1, SubSeqProperties
<1>4. SubSeq(s, 1, n) \o SubSeq(s, n + 1, Len(s)) = SubSeq(s, 1, Len(s))
  <2>1. 1 \in 1 .. Len(s) + 1 /\ n \in 1 - 1 .. Len(s) /\ Len(s) \in n .. Len(s)
    BY <1>1
  <2> HIDE <1>1
  <2> QED
    BY <2>1, ConcatAdjacentSubSeq
<1> QED
  BY <1>2, <1>3, <1>4, SubSeqFull

LEMMA ConcatFacts ==
  ASSUME NEW s \in Seq(Bytes), NEW t \in Seq(Bytes)
  PROVE  /\ s \o t \in Seq(Bytes) /\ Len(s \o t) = Len(s) + Len(t)
         /\ \A u \in Seq(Bytes) : (s \o t) \o u = s \o (t \o u)
<1>1. s \o t \in Seq(Bytes) /\ Len(s \o t) = Len(s) + Len(t)
  BY ConcatProperties
<1> QED
  BY <1>1, ConcatAssociative

\* How much is programmed: no more than there is, and less than a buffer is left.
LEMMA ProgrammedFacts ==
  ASSUME NEW data \in Seq(Bytes), NEW flush \in BOOLEAN, StreamOK
  PROVE  /\ Len(stream.buffer \o data) \in Nat
         /\ Programmed(data, flush) \in 0 .. Len(stream.buffer \o data)
         /\ flush => Programmed(data, flush) = Len(stream.buffer \o data)
         /\ Len(stream.buffer \o data) - Programmed(data, flush) < StreamBufSize
<1> DEFINE length == Len(stream.buffer \o data)
<1>1. length \in Nat
  BY ConcatProperties, LenProperties DEF StreamOK
<1>2. Programmed(data, flush) = IF flush THEN length ELSE length - (length % StreamBufSize)
  BY DEF Programmed
<1>3. SUFFICES /\ Programmed(data, flush) \in 0 .. length
               /\ flush => Programmed(data, flush) = length
               /\ length - Programmed(data, flush) < StreamBufSize
  BY <1>1
<1> HIDE DEF length
<1>4. /\ length % StreamBufSize \in 0 .. StreamBufSize - 1
      /\ length % StreamBufSize <= length
  BY <1>1, SizesAssumption
<1> QED
  BY <1>1, <1>2, <1>4, SizesAssumption

\* A write that succeeds appends the data to what is staged, wherever the bytes come
\* to lie, and a flush leaves nothing in the buffer.
LEMMA BufferedWriteStep ==
  ASSUME NEW data \in Seq(Bytes), NEW flush \in BOOLEAN,
         StreamOK, slot1 \in Seq(Bytes), Len(slot1) <= SlotSize,
         stream.written <= Len(slot1),
         stream.written > 0 => Len(slot1) = stream.written,
         BufferedWrite(data, flush)
  PROVE  /\ StreamOK' /\ slot1' \in Seq(Bytes)
         /\ Len(slot1') <= SlotSize /\ stream'.written <= Len(slot1')
         /\ stream'.written > 0 => Len(slot1') = stream'.written
         /\ Len(stream'.buffer) < StreamBufSize
         /\ flush => stream'.buffer = << >>
         /\ Staged' = Staged \o data
         /\ Len(Staged') <= SlotSize
<1> DEFINE bytes == stream.buffer \o data
           n == Programmed(data, flush)
           w == stream.written
           head == SubSeq(bytes, 1, n)
           rest == SubSeq(bytes, n + 1, Len(bytes))
<1>1. /\ w \in 0 .. Len(slot1) /\ w \in Nat /\ Len(slot1) \in Nat
      /\ stream.buffer \in Seq(Bytes) /\ SlotSize \in Nat
  BY LenProperties, SizesAssumption DEF StreamOK
<1>2. bytes \in Seq(Bytes) /\ Len(bytes) \in Nat
  BY <1>1, ConcatFacts, LenProperties
<1>3. n \in 0 .. Len(bytes) /\ (flush => n = Len(bytes)) /\ Len(bytes) - n < StreamBufSize
  BY ProgrammedFacts
<1>4. /\ w + Len(bytes) <= SlotSize
      /\ slot1' = IF n = 0 THEN slot1 ELSE Flashed \o head
      /\ stream' = [written |-> w + n, buffer |-> rest]
  BY DEF BufferedWrite, HasRoom
<1>5. Flashed \in Seq(Bytes) /\ Len(Flashed) = w
  BY <1>1, PrefixFacts DEF Flashed
<1>6. Flashed \o bytes = Staged \o data
  BY <1>1, <1>5, ConcatFacts DEF Staged
<1>7. /\ n = 0 => head = << >>
      /\ flush => rest = << >>
  BY <1>2, <1>3, SubSeqEmpty
<1> HIDE DEF bytes, n
<1>8. /\ head \in Seq(Bytes) /\ Len(head) = n
      /\ rest \in Seq(Bytes) /\ Len(rest) = Len(bytes) - n
      /\ head \o rest = bytes
  BY <1>2, <1>3, PrefixFacts
<1> HIDE DEF head, rest
<1>9. stream'.written = w + n /\ stream'.buffer = rest
  BY <1>4
<1>10. StreamOK'
  <2>1. w + n \in Nat
    BY <1>1, <1>3
  <2>2. StreamOK' <=> stream' \in [written : Nat, buffer : Seq(Bytes)]
    BY DEF StreamOK
  <2> QED
    BY <2>1, <2>2, <1>4, <1>8
<1>11. Flashed \o head \in Seq(Bytes) /\ Len(Flashed \o head) = w + n
  BY <1>5, <1>8, ConcatFacts
<1>12. /\ slot1' \in Seq(Bytes) /\ Len(slot1') <= SlotSize /\ w + n <= Len(slot1')
       /\ w + n > 0 => Len(slot1') = w + n
       /\ SubSeq(slot1', 1, w + n) = Flashed \o head
  <2>1. CASE n = 0
    <3>1. Flashed \o head = Flashed
      BY <2>1, <1>5, <1>7, ConcatEmptySeq
    <3>2. slot1' = slot1 /\ w + n = w
      BY <2>1, <1>1, <1>4
    <3> QED
      BY <3>1, <3>2, <1>1 DEF Flashed
  <2>2. CASE n # 0
    <3>1. slot1' = Flashed \o head
      BY <2>2, <1>4
    <3>2. slot1' \in Seq(Bytes) /\ Len(slot1') = w + n
      BY <3>1, <1>11
    <3>3. SubSeq(slot1', 1, w + n) = Flashed \o head
      BY <3>1, <3>2, SubSeqFull
    <3>4. w + n \in Nat /\ w + n <= SlotSize
      BY <1>1, <1>2, <1>3, <1>4
    <3> QED
      BY <3>2, <3>3, <3>4
  <2> QED
    BY <2>1, <2>2
<1>13. Staged' = (Flashed \o head) \o rest
  BY <1>9, <1>12 DEF Staged, Flashed
<1>14. Staged' = Staged \o data
  BY <1>13, <1>5, <1>6, <1>8, ConcatFacts
<1>15. Len(Staged') <= SlotSize
  <2>1. Len(Staged') = w + Len(bytes)
    BY <1>14, <1>2, <1>5, <1>6, ConcatFacts
  <2> QED
    BY <2>1, <1>4
<1>16. Len(stream'.buffer) < StreamBufSize
  BY <1>3, <1>8, <1>9
<1> QED
  BY <1>7, <1>9, <1>10, <1>12, <1>14, <1>15, <1>16

\* A write that fails leaves a session that is over; the slot is still a slot.
LEMMA FailedWriteStep ==
  ASSUME NEW data, NEW flush, StreamOK, slot1 \in Seq(Bytes), Len(slot1) <= SlotSize,
         stream.written <= Len(slot1), FailedWrite(data, flush)
  PROVE  /\ StreamOK' /\ stream' = stream /\ slot1' \in Seq(Bytes)
         /\ Len(slot1') <= SlotSize /\ stream'.written <= Len(slot1')
<1>1. stream.written \in 0 .. Len(slot1) /\ SlotSize \in Nat
  BY LenProperties, SizesAssumption DEF StreamOK
<1>2. Flashed \in Seq(Bytes) /\ Len(Flashed) = stream.written
  BY <1>1, PrefixFacts DEF Flashed
<1>3. stream' = stream /\ slot1' \in {slot1, Flashed}
  BY DEF FailedWrite
<1> QED
  BY <1>1, <1>2, <1>3, LenProperties DEF StreamOK
-----------------------------------------------------------------------------
(* Steps *)

LEMMA SizeFacts ==
  /\ kMaxFirmwareSize \in Nat /\ SlotSize \in Nat
  /\ StreamBufSize \in Nat /\ StreamBufSize > 0
  /\ SeqModulus \in Nat /\ SeqModulus > 1
BY SizesAssumption

\* The parts of the type invariant that the steps of a transfer need.
LEMMA TypeFacts ==
  ASSUME ServerInv
  PROVE  /\ StreamOK /\ slot1 \in Seq(Bytes) /\ Len(slot1) \in Nat
         /\ Len(slot1) <= SlotSize /\ stream.written <= Len(slot1)
         /\ running_crc \in Seq(Bytes) /\ stream.buffer \in Seq(Bytes)
<1>1. slot1 \in Seq(Bytes) /\ running_crc \in Seq(Bytes) /\ stream.buffer \in Seq(Bytes)
  BY DEF ServerInv, ServerTypeOK
<1>2. Len(slot1) \in Nat
  BY <1>1, LenProperties
<1> QED
  BY <1>1, <1>2 DEF ServerInv, ServerTypeOK

\* At the beginning nothing is staged and nothing is on trial.
LEMMA ServerInitInv == ServerInit => ServerInv
<1> SUFFICES ASSUME ServerInit PROVE ServerInv
  OBVIOUS
<1>1. IInv
  BY InitInv DEF ServerInit
<1>2. << >> \in Seq(Bytes) /\ Len(<< >>) = 0
  BY EmptySeq
<1>3. ServerTypeOK /\ StreamOK
  <2>1. stream = [written |-> 0, buffer |-> << >>] /\ slot1 = << >> /\ running_crc = << >>
    BY DEF ServerInit, SessionInit
  <2>2. /\ stream.written \in 0 .. Len(slot1) /\ Len(stream.buffer) < StreamBufSize
        /\ Len(slot1) <= SlotSize /\ {slot1, running_crc, stream.buffer} \subseteq Seq(Bytes)
        /\ StreamOK
    BY <2>1, <1>2, SizeFacts DEF StreamOK
  <2>3. /\ TypeOK /\ state \in OtaStates
        /\ expected_size \in 0 .. kMaxFirmwareSize /\ received_size \in 0 .. SlotSize
        /\ next_block_seq \in 0 .. SeqModulus - 1
    BY <1>1, SizeFacts DEF ServerInit, SessionInit, IInv, OtaStates
  <2> QED
    BY <2>2, <2>3 DEF ServerInit, SessionInit, ServerTypeOK
<1>4. ActiveInv /\ CommitInv /\ CountersMatchStaged /\ TrialCanBeReverted
  BY DEF ServerInit, SessionInit, ActiveInv, CommitInv, CountersMatchStaged,
         TrialCanBeReverted
<1> QED
  BY <1>1, <1>3, <1>4 DEF ServerInv

\* Steps of connections and of the fault table leave the transfer and the images alone.
LEMMA OtherStep ==
  ASSUME ServerInv, [Next]_vars, UNCHANGED <<ota_vars, boot_vars, claimed>>,
         pc # "commit", pc' \in {"accept", "recv"}, routing_active' \in BOOLEAN
  PROVE  ServerInv'
<1>1. IInv'
  BY NextInv DEF ServerInv
<1> QED
  BY <1>1
     DEF ServerInv, IInv, ServerTypeOK, StreamOK, ActiveInv, CommitInv,
         CountersMatchStaged, TrialCanBeReverted, Staged, Flashed, ota_vars, session,
         counters, flash, boot_vars

\* A download starts with nothing received and nothing staged.
LEMMA DownloadStep ==
  ASSUME ServerInv, NEW size \in Sizes, AcceptDownload(size), pc = "recv",
         UNCHANGED <<vars, pc, routing_active, boot_vars, claimed>>
  PROVE  ServerInv'
<1>1. IInv'
  BY NextInv DEF ServerInv
<1>2. << >> \in Seq(Bytes) /\ Len(<< >>) = 0
  BY EmptySeq
<1>3. SubSeq(slot1', 1, 0) = << >>
  BY SubSeqEmpty
<1>4. ServerTypeOK' /\ StreamOK'
  BY <1>1, <1>2, SizesAssumption, LenProperties
     DEF ServerInv, ServerTypeOK, StreamOK, IInv, OtaStates, AcceptDownload,
         AcceptableSize, flash, boot_vars
<1>5. ActiveInv' /\ CommitInv' /\ TrialCanBeReverted'
  BY DEF ServerInv, AcceptDownload, AcceptableSize, ActiveInv, CommitInv,
         TrialCanBeReverted
<1>6. CountersMatchStaged'
  <2>1. Staged' = << >>
    BY <1>2, <1>3, ConcatEmptySeq DEF AcceptDownload, Staged, Flashed
  <2> QED
    BY <2>1, <1>2 DEF AcceptDownload, CountersMatchStaged
<1> QED
  BY <1>1, <1>4, <1>5, <1>6 DEF ServerInv

\* A block that is written advances the counters and what is staged alike.
LEMMA AcceptBlockStep ==
  ASSUME ServerInv, NEW seq \in 0 .. SeqModulus - 1, NEW data \in DataBlocks,
         AcceptBlock(seq, data), pc = "recv",
         UNCHANGED <<vars, pc, routing_active, boot_vars, claimed>>
  PROVE  ServerInv'
<1>1. IInv'
  BY NextInv DEF ServerInv
<1>2. data \in Seq(Bytes) /\ state = "kActive" /\ state' = "kActive"
  BY RequestsAssumption DEF AcceptBlock, TakesBlock
<1>3. /\ StreamOK' /\ slot1' \in Seq(Bytes)
      /\ Len(slot1') <= SlotSize /\ stream'.written <= Len(slot1')
      /\ stream'.written > 0 => Len(slot1') = stream'.written
      /\ Len(stream'.buffer) < StreamBufSize
      /\ Staged' = Staged \o data /\ Len(Staged') <= SlotSize
  <2>1. /\ StreamOK /\ slot1 \in Seq(Bytes) /\ Len(slot1) <= SlotSize
        /\ stream.written <= Len(slot1)
        /\ stream.written > 0 => Len(slot1) = stream.written
    BY <1>2, TypeFacts DEF ServerInv, ActiveInv
  <2>2. BufferedWrite(data, FALSE)
    BY DEF AcceptBlock
  <2> QED
    BY <1>2, <2>1, <2>2, BufferedWriteStep
<1>4. Staged \in Seq(Bytes) /\ received_size = Len(Staged) /\ running_crc = Staged
  BY <1>2 DEF ServerInv, ServerTypeOK, CountersMatchStaged
<1>5. Staged' \in Seq(Bytes) /\ Len(Staged') = Len(Staged) + Len(data)
  BY <1>2, <1>3, <1>4, ConcatFacts
<1>6. running_crc' = Staged' /\ received_size' = Len(Staged')
  BY <1>3, <1>4, <1>5 DEF AcceptBlock
<1>7. received_size' \in 0 .. SlotSize
  BY <1>3, <1>5, <1>6, LenProperties, SizesAssumption
<1>8. next_block_seq' \in 0 .. SeqModulus - 1
  BY SizesAssumption DEF AcceptBlock
<1>9. stream'.written \in 0 .. Len(slot1') /\ stream'.buffer \in Seq(Bytes)
  BY <1>3, LenProperties DEF StreamOK
<1>10. pending' \in BOOLEAN
  BY DEF AcceptBlock, BufferedWrite, ServerInv, ServerTypeOK
<1>11. ServerTypeOK'
  BY <1>1, <1>2, <1>3, <1>5, <1>6, <1>7, <1>8, <1>9, <1>10
     DEF ServerInv, ServerTypeOK, IInv, AcceptBlock, OtaStates, boot_vars
<1> QED
  BY <1>1, <1>2, <1>3, <1>6, <1>11
     DEF ServerInv, ActiveInv, CommitInv, CountersMatchStaged, TrialCanBeReverted,
         AcceptBlock

\* A session that ends in failure leaves the slot a slot, and is not idle.
LEMMA FailStep ==
  ASSUME ServerInv, IInv', state' = "kFailed", area_open' = FALSE, CountersReset \/ UNCHANGED counters,
         slot1' \in Seq(Bytes), Len(slot1') <= SlotSize, stream' = stream,
         stream.written <= Len(slot1'), pending' \in BOOLEAN, pc' = "recv",
         UNCHANGED <<reboot_scheduled, routing_active, boot_vars>>
  PROVE  ServerInv'
<1>1. << >> \in Seq(Bytes)
  BY EmptySeq
<1>2. /\ expected_size' \in 0 .. kMaxFirmwareSize /\ received_size' \in 0 .. SlotSize
      /\ next_block_seq' \in 0 .. SeqModulus - 1 /\ running_crc' \in Seq(Bytes)
  <2>1. CASE CountersReset
    BY <2>1, <1>1, SizeFacts DEF CountersReset
  <2>2. CASE UNCHANGED counters
    BY <2>2 DEF ServerInv, ServerTypeOK, counters
  <2> QED
    BY <2>1, <2>2
<1>3. stream'.written \in 0 .. Len(slot1')
  BY LenProperties DEF ServerInv, StreamOK
<1>4. ServerTypeOK' /\ StreamOK'
  BY <1>2, <1>3 DEF ServerInv, ServerTypeOK, StreamOK, IInv, OtaStates, boot_vars
<1> QED
  BY <1>4 DEF ServerInv, ActiveInv, CommitInv, CountersMatchStaged, TrialCanBeReverted
\* A block that is not written, and an exit that is refused or whose flush fails.
LEMMA FailedRequestStep ==
  ASSUME ServerInv, pc = "recv",
         \/ \E seq \in 0 .. SeqModulus - 1, data \in DataBlocks : FailBlock(seq, data)
         \/ \E crc \in Checksums \cup {NoCrc} : FailExit(crc) \/ FailFlush(crc),
         UNCHANGED <<vars, pc, routing_active, boot_vars, claimed>>
  PROVE  ServerInv'
<1>1. IInv' /\ pc' = "recv" /\ UNCHANGED <<routing_active, boot_vars>>
  BY NextInv DEF ServerInv
<1>2. ASSUME NEW seq, NEW data, FailBlock(seq, data)
      PROVE  ServerInv'
  <2>1. FailedWrite(data, FALSE)
    BY <1>2 DEF FailBlock
  <2>2. /\ stream' = stream /\ slot1' \in Seq(Bytes)
        /\ Len(slot1') <= SlotSize /\ stream'.written <= Len(slot1')
    BY <2>1, TypeFacts, FailedWriteStep
  <2>3. pending' \in BOOLEAN
    BY <1>2 DEF FailBlock, ServerInv, ServerTypeOK
  <2> QED
    BY <1>1, <1>2, <2>2, <2>3, FailStep DEF FailBlock
<1>3. ASSUME NEW crc, FailExit(crc)
      PROVE  ServerInv'
  <2>1. stream' = stream /\ slot1' = slot1 /\ pending' \in BOOLEAN
    BY <1>3 DEF FailExit, flash, ServerInv, ServerTypeOK
  <2> QED
    BY <1>1, <1>3, <2>1, TypeFacts, FailStep DEF FailExit, EndFailed
<1>4. ASSUME NEW crc, FailFlush(crc)
      PROVE  ServerInv'
  <2>1. FailedWrite(<< >>, TRUE)
    BY <1>4 DEF FailFlush
  <2>2. /\ stream' = stream /\ slot1' \in Seq(Bytes)
        /\ Len(slot1') <= SlotSize /\ stream'.written <= Len(slot1')
    BY <2>1, TypeFacts, FailedWriteStep
  <2>3. pending' \in BOOLEAN
    BY <1>4 DEF FailFlush, ServerInv, ServerTypeOK
  <2> QED
    BY <1>1, <1>4, <2>2, <2>3, FailStep DEF FailFlush, EndFailed
<1> QED
  BY <1>2, <1>3, <1>4

\* The flush empties the buffer, and the checksum that was compared is kept in mind.
LEMMA FlushStep ==
  ASSUME ServerInv, NEW crc, Flush(crc), claimed' = crc, pc' = "commit",
         UNCHANGED <<vars, routing_active, boot_vars>>
  PROVE  ServerInv'
<1>1. IInv'
  BY NextInv DEF ServerInv
<1>2. /\ state = "kActive" /\ state' = "kActive" /\ area_open' = FALSE
      /\ UNCHANGED counters /\ UNCHANGED reboot_scheduled
      /\ received_size = expected_size /\ crc = Crc32(running_crc)
  BY DEF Flush, IsVerified
<1>3. << >> \in Seq(Bytes)
  BY EmptySeq
<1>4. /\ StreamOK' /\ slot1' \in Seq(Bytes)
      /\ Len(slot1') <= SlotSize /\ stream'.written <= Len(slot1')
      /\ stream'.written > 0 => Len(slot1') = stream'.written
      /\ Len(stream'.buffer) < StreamBufSize /\ stream'.buffer = << >>
      /\ Staged' = Staged \o << >>
  <2>1. stream.written > 0 => Len(slot1) = stream.written
    BY <1>2 DEF ServerInv, ActiveInv
  <2>2. BufferedWrite(<< >>, TRUE)
    BY DEF Flush
  <2> QED
    BY <1>3, <2>1, <2>2, TypeFacts, BufferedWriteStep
<1>5. Staged' = Staged
  BY <1>2, <1>4, TypeFacts, ConcatEmptySeq DEF ServerInv, CountersMatchStaged
<1>6. stream'.written \in 0 .. Len(slot1') /\ stream'.buffer \in Seq(Bytes)
  BY <1>3, <1>4, LenProperties DEF StreamOK
<1>7. pending' \in BOOLEAN
  BY DEF Flush, BufferedWrite, ServerInv, ServerTypeOK
<1>8. ServerTypeOK'
  BY <1>1, <1>2, <1>4, <1>6, <1>7
     DEF ServerInv, ServerTypeOK, IInv, counters, OtaStates, boot_vars
<1>9. ActiveInv' /\ CommitInv' /\ TrialCanBeReverted'
  BY <1>2, <1>4 DEF ServerInv, ActiveInv, CommitInv, TrialCanBeReverted, counters
<1>10. CountersMatchStaged'
  BY <1>2, <1>5 DEF ServerInv, CountersMatchStaged, counters
<1> QED
  BY <1>1, <1>4, <1>8, <1>9, <1>10 DEF ServerInv

\* The request of the upgrade ends the session either way.
LEMMA CommitStep ==
  ASSUME ServerInv, Commit
  PROVE  ServerInv'
<1>1. /\ IInv' /\ UNCHANGED <<routing_active, boot_vars>> /\ pc' = "recv"
      /\ UNCHANGED vars
  BY NextInv DEF ServerInv, Commit
<1>2. CASE FailUpgrade
  <2>1. stream' = stream /\ slot1' = slot1 /\ pending' \in BOOLEAN
    BY <1>2 DEF FailUpgrade, ServerInv, ServerTypeOK
  <2> QED
    BY <1>1, <1>2, <2>1, TypeFacts, FailStep DEF FailUpgrade, EndFailed
<1>3. CASE RequestUpgrade
  <2>1. << >> \in Seq(Bytes)
    BY EmptySeq
  <2>2. ServerTypeOK' /\ StreamOK'
    BY <1>1, <1>3, <2>1, SizeFacts
       DEF ServerInv, ServerTypeOK, StreamOK, IInv, OtaStates, RequestUpgrade,
           CountersReset, boot_vars
  <2> QED
    BY <1>1, <1>3, <2>2
       DEF ServerInv, ActiveInv, CommitInv, CountersMatchStaged, TrialCanBeReverted,
           RequestUpgrade
<1> QED
  BY <1>2, <1>3 DEF Commit

LEMMA ConfirmStep ==
  ASSUME ServerInv, ConfirmImage
  PROVE  ServerInv'
<1>1. IInv'
  BY NextInv DEF ServerInv, ConfirmImage
<1>2. /\ slot0' = slot0 /\ trial' \in {trial, FALSE} /\ s_image_confirmed' = TRUE
      /\ previous' = IF trial' THEN previous ELSE slot0'
  BY DEF ConfirmImage, History
<1>3. UNCHANGED <<ota_vars, pc, routing_active, claimed>>
  BY DEF ConfirmImage
<1>4. {slot0', previous'} \subseteq Signed /\ trial' \in BOOLEAN
  BY <1>2 DEF ServerInv, ServerTypeOK
<1>5. ServerTypeOK' /\ StreamOK'
  BY <1>1, <1>2, <1>3, <1>4
     DEF ServerInv, ServerTypeOK, StreamOK, IInv, ota_vars, session, counters, flash
<1>6. ActiveInv' /\ CommitInv' /\ CountersMatchStaged'
  BY <1>3 DEF ServerInv, ActiveInv, CommitInv, CountersMatchStaged, Staged, Flashed,
              ota_vars, session, counters, flash
<1>7. TrialCanBeReverted'
  BY <1>2, <1>3 DEF ServerInv, ServerTypeOK, TrialCanBeReverted, ota_vars, session, flash
<1> QED
  BY <1>1, <1>5, <1>6, <1>7 DEF ServerInv

\* MCUboot exchanges the images when it begins a trial, so that the other slot holds
\* what ran before.
LEMMA RestartStep ==
  ASSUME ServerInv, Restart
  PROVE  ServerInv'
<1>1. IInv'
  BY ClearAllFaultsInv DEF Restart, ClearAllFaults
<1>2. << >> \in Seq(Bytes) /\ Len(<< >>) = 0
  BY EmptySeq
<1>3. /\ {slot0', previous'} \subseteq Signed /\ trial' \in BOOLEAN /\ pending' = FALSE
      /\ trial' => slot1' = previous'
  BY DEF Restart, MCUboot, History, ServerInv, ServerTypeOK
<1>4. slot1' \in Seq(Bytes) /\ Len(slot1') <= SlotSize
  <2>1. slot1' \in {slot0, slot1, << >>}
    BY DEF Restart, MCUboot
  <2>2. slot0 \in Seq(Bytes) /\ Len(slot0) <= SlotSize
    BY ImagesAssumption DEF ServerInv, ServerTypeOK
  <2>3. 0 <= SlotSize
    BY SizeFacts
  <2>4. CASE slot1' = slot0
    BY <2>2, <2>4
  <2>5. CASE slot1' = slot1
    BY <2>5, TypeFacts
  <2>6. CASE slot1' = << >>
    BY <2>3, <2>6, <1>2
  <2> QED
    BY <2>1, <2>4, <2>5, <2>6
<1>5. stream' = [written |-> 0, buffer |-> << >>]
  BY DEF Restart
<1>6. /\ StreamOK' /\ stream'.buffer \in Seq(Bytes) /\ Len(stream'.buffer) < StreamBufSize
      /\ stream'.written \in 0 .. Len(slot1')
  BY <1>2, <1>4, <1>5, SizeFacts, LenProperties DEF StreamOK
<1>7. /\ expected_size' \in 0 .. kMaxFirmwareSize /\ received_size' \in 0 .. SlotSize
      /\ next_block_seq' \in 0 .. SeqModulus - 1 /\ running_crc' \in Seq(Bytes)
  BY <1>2, SizeFacts DEF Restart, CountersReset
<1>8. ServerTypeOK'
  BY <1>1, <1>3, <1>4, <1>6, <1>7 DEF Restart, ServerTypeOK, IInv, OtaStates
<1> QED
  BY <1>1, <1>3, <1>6, <1>8
     DEF Restart, ServerInv, ActiveInv, CommitInv, CountersMatchStaged, TrialCanBeReverted

\* Every step of the board keeps the invariant.
LEMMA ServerNextInv == ServerInv /\ [ServerNext]_server_vars => ServerInv'
<1> SUFFICES ASSUME ServerInv, [ServerNext]_server_vars PROVE ServerInv'
  OBVIOUS
<1>1. CASE Accept \/ ActivateRouting \/ CloseConnection
  <2>1. UNCHANGED <<vars, ota_vars, boot_vars, claimed>> /\ pc # "commit"
    BY <1>1 DEF Accept, ActivateRouting, CloseConnection
  <2>2. pc' \in {"accept", "recv"} /\ routing_active' \in BOOLEAN
    BY <1>1 DEF Accept, ActivateRouting, CloseConnection
  <2> QED
    BY <2>1, <2>2, OtherStep
<1>2. CASE HandleRequest
  <2>1. pc = "recv" /\ UNCHANGED <<pc, routing_active, boot_vars, claimed>>
    BY <1>2 DEF HandleRequest, Receiving
  <2>2. CASE FaultRequest
    <3>1. [Next]_vars /\ UNCHANGED ota_vars
      BY <2>2 DEF FaultRequest, Next, ota_vars
    <3>2. pc' \in {"accept", "recv"} /\ routing_active' \in BOOLEAN
      BY <2>1 DEF ServerInv, ServerTypeOK
    <3> QED
      BY <2>1, <3>1, <3>2, OtherStep
  <2>3. CASE OtaRequest
    <3>1. UNCHANGED vars
      BY <2>3 DEF OtaRequest
    <3>2. CASE \E size \in Sizes : AcceptDownload(size)
      BY <2>1, <3>1, <3>2, DownloadStep
    <3>3. CASE \E seq \in 0 .. SeqModulus - 1, data \in DataBlocks : AcceptBlock(seq, data)
      BY <2>1, <3>1, <3>3, AcceptBlockStep
    <3>4. CASE \/ \E seq \in 0 .. SeqModulus - 1, data \in DataBlocks : FailBlock(seq, data)
               \/ \E crc \in Checksums \cup {NoCrc} : FailExit(crc) \/ FailFlush(crc)
      BY <2>1, <3>1, <3>4, FailedRequestStep
    <3> QED
      BY <2>3, <3>2, <3>3, <3>4 DEF OtaRequest, HandleTransferData
  <2> QED
    BY <1>2, <2>2, <2>3 DEF HandleRequest
<1>3. CASE StartCommit
  BY <1>3, FlushStep DEF StartCommit
<1>4. CASE Commit
  BY <1>4, CommitStep
<1>5. CASE ConfirmImage
  BY <1>5, ConfirmStep
<1>6. CASE RebootWork \/ PowerLoss
  BY <1>6, RestartStep DEF RebootWork, PowerLoss
<1>7. CASE UNCHANGED server_vars
  <2>1. UNCHANGED <<vars, ota_vars, pc, routing_active, boot_vars, claimed>>
    BY <1>7 DEF server_vars
  <2>2. IInv'
    BY <2>1, NextInv DEF ServerInv
  <2> QED
    BY <2>1, <2>2
       DEF ServerInv, IInv, ServerTypeOK, StreamOK, ActiveInv, CommitInv,
           CountersMatchStaged, TrialCanBeReverted, Staged, Flashed, ota_vars, session,
           counters, flash, boot_vars
<1> QED
  BY <1>1, <1>2, <1>3, <1>4, <1>5, <1>6, <1>7 DEF ServerNext, DoipThread

-----------------------------------------------------------------------------
LEMMA ServerInvariant == ServerSpec => []ServerInv
  BY ServerInitInv, ServerNextInv, PTL DEF ServerSpec

\* The counters, the stream and both slots stay within their types and their sizes.
THEOREM ServerTypeCorrect == ServerSpec => []ServerTypeOK
<1>1. ServerInv => ServerTypeOK
  BY DEF ServerInv
<1> QED
  BY <1>1, ServerInvariant, PTL

\* Through refused and repeated blocks, failures, other testers and restarts, the size
\* and the CRC of a session are those of the bytes staged in it.
THEOREM CountersTrue == ServerSpec => []CountersMatchStaged
<1>1. ServerInv => CountersMatchStaged
  BY DEF ServerInv
<1> QED
  BY <1>1, ServerInvariant, PTL

\* An upgrade is requested only for a slot that holds the announced number of bytes
\* with the checksum of the tester, whatever the size of buffer and blocks.
THEOREM CommitsVerified == ServerSpec => []CommitIsVerified
<1>1. ServerInv => CommitIsVerified
  <2> SUFFICES ASSUME ServerInv, pc = "commit"
               PROVE  Len(slot1) = expected_size /\ Crc32(slot1) = claimed
    BY DEF CommitIsVerified
  <2>1. /\ state = "kActive" /\ stream.buffer = << >>
        /\ received_size = expected_size /\ claimed = Crc32(running_crc)
        /\ expected_size > 0 /\ received_size = Len(Staged) /\ running_crc = Staged
        /\ stream.written > 0 => Len(slot1) = stream.written
    BY DEF ServerInv, CommitInv, ActiveInv, CountersMatchStaged
  <2>2. Flashed \in Seq(Bytes) /\ Len(Flashed) = stream.written
    BY TypeFacts, PrefixFacts DEF Flashed, StreamOK
  <2>3. Staged = Flashed
    BY <2>1, <2>2, ConcatEmptySeq DEF Staged
  <2>4. Len(slot1) = stream.written
    BY <2>1, <2>2, <2>3
  <2>5. Flashed = slot1
    BY <2>4, TypeFacts, SubSeqFull DEF Flashed
  <2> QED
    BY <2>1, <2>3, <2>5
<1> QED
  BY <1>1, ServerInvariant, PTL

\* Until a download begins, the image to take a trial back to is there, whatever
\* failed or lost power before.
THEOREM TrialsRevertible == ServerSpec => []TrialCanBeReverted
<1>1. ServerInv => TrialCanBeReverted
  BY DEF ServerInv
<1> QED
  BY <1>1, ServerInvariant, PTL

\* Through every interplay of diagnostic requests with transfers, reboots and power
\* losses the reported codes are exactly the faulted functions, each once.
THEOREM ServerTablesAgree == ServerSpec => []DtcTableMatchesFlags
<1>1. ServerInv => DtcTableMatchesFlags
  BY DEF ServerInv, IInv
<1> QED
  BY <1>1, ServerInvariant, PTL

\* Of the fault table a server step is a step of FaultManager, or a restart, which
\* forgets all faults as ClearAllFaults does.
LEMMA FaultTableStep ==
  ASSUME [ServerNext]_server_vars
  PROVE  [Next]_vars \/ Restart
  BY DEF ServerNext, DoipThread, Accept, ActivateRouting, CloseConnection, HandleRequest,
     FaultRequest, OtaRequest, StartCommit, Commit, ConfirmImage, RebootWork, PowerLoss,
     Next, server_vars

\* So the server's readers see a set of faults, too.
THEOREM ServerFaultSet == ServerSpec => ImplementsFaultSet
<1>1. ServerInit => Reported!Init
  BY InitInv DEF ServerInit, Reported!Init
<1>2. ServerInv /\ ServerInv' /\ [ServerNext]_server_vars => [Reported!Next]_ReportedFaults
  <2> SUFFICES ASSUME ServerInv, ServerInv', [ServerNext]_server_vars
               PROVE  [Reported!Next]_ReportedFaults
    OBVIOUS
  <2>1. CASE [Next]_vars
    BY <2>1, TableStep DEF ServerInv
  <2>2. CASE Restart
    <3>1. active_fault_count' = 0
      BY <2>2 DEF Restart
    <3>2. ReportedFaults' = {}
      BY <3>1 DEF ReportedFaults
    <3> QED
      BY <3>2 DEF Reported!Next, Reported!ClearAll
  <2> QED
    BY <2>1, <2>2, FaultTableStep
<1> QED
  BY <1>1, <1>2, ServerInvariant, PTL DEF ServerSpec, ImplementsFaultSet, Reported!Spec
=============================================================================
