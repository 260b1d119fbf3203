-------------------------- MODULE DiagnosticServer --------------------------
(***************************************************************************)
(* The diagnostic side of the Zephyr node: the DoIP thread serves one      *)
(* tester at a time and dispatches UDS requests to the fault table         *)
(* (FaultManager) and to the firmware transfer (OtaSession); the system    *)
(* work queue reboots the board after a transfer; the health thread        *)
(* confirms the running image; and the board may lose power at any point.  *)
(*                                                                         *)
(* MCUboot and the tester are external.  The tester may send any request   *)
(* at any time and may disconnect between any two, as its session is kept  *)
(* by the node and not by the connection.                                  *)
(***************************************************************************)
EXTENDS FaultManager, OtaSession

CONSTANTS
  Signed,       \* the images that MCUboot accepts: signed, and not longer than a slot
  Sizes,        \* the sizes a tester announces; 0 for a malformed request too
  DataBlocks,   \* the data of a 0x36 request
  Checksums     \* those of a 0x37 request

ASSUME ImagesAssumption ==
  /\ Signed \subseteq Seq(Bytes) /\ Signed # {}
  /\ \A image \in Signed : Len(image) <= SlotSize
ASSUME RequestsAssumption ==
  Sizes \subseteq Nat /\ DataBlocks \subseteq Seq(Bytes)

VARIABLES
  pc,                \* the DoIP thread: "accept", "recv" or "commit"
  routing_active,    \* of HandleDoipConnection
  slot0,             \* the image that runs
  trial,             \* it was swapped in for a test and is not confirmed
  s_image_confirmed, \* of HealthThread
  previous,          \* history: during a trial, the image that ran before
  claimed            \* history: the checksum of the 0x37 request in hand

boot_vars == <<slot0, trial, previous, s_image_confirmed>>
server_vars == <<vars, ota_vars, pc, routing_active, boot_vars, claimed>>

ServerInit ==
  /\ Init
  /\ SessionInit
  /\ slot1 = << >> /\ pending = FALSE
  /\ pc = "accept" /\ routing_active = FALSE
  /\ slot0 \in Signed /\ previous = slot0
  /\ trial = FALSE
  /\ s_image_confirmed = FALSE
  /\ claimed = NoCrc

-----------------------------------------------------------------------------
(* The DoIP thread *)

Accept ==
  /\ pc = "accept"
  /\ pc' = "recv" /\ routing_active' = FALSE
  /\ UNCHANGED <<vars, ota_vars, boot_vars, claimed>>

ActivateRouting ==
  /\ pc = "recv"
  /\ routing_active' = TRUE
  /\ UNCHANGED <<vars, ota_vars, pc, boot_vars, claimed>>

\* A receive or a send that fails, or a frame that is not taken: the connection is
\* closed, and the OTA session stays as it is.
CloseConnection ==
  /\ pc = "recv"
  /\ pc' = "accept" /\ routing_active' = FALSE
  /\ UNCHANGED <<vars, ota_vars, boot_vars, claimed>>

\* HandleRoutineControl and HandleClearDiagnosticInformation, on the fault table.
\* To start a fault that is there, or stop one that is not, changes nothing.
FaultRequest ==
  /\ \/ \E f \in Functions : InjectFault(f) \/ ClearFault(f)
     \/ ClearAllFaults
  /\ UNCHANGED <<session, flash, reboot_scheduled>>

\* The requests that OtaSession handles in one step.
OtaRequest ==
  /\ \/ \E size \in Sizes : AcceptDownload(size)
     \/ \E seq \in 0 .. SeqModulus - 1, data \in DataBlocks : HandleTransferData(seq, data)
     \/ \E crc \in Checksums \cup {NoCrc} :
          FailExit(crc) \/ FailFlush(crc)
  /\ UNCHANGED vars

\* Requests are handled on a connection with active routing, after the acknowledge.
Receiving == pc = "recv" /\ routing_active

HandleRequest ==
  /\ Receiving
  /\ FaultRequest \/ OtaRequest
  /\ UNCHANGED <<pc, routing_active, boot_vars, claimed>>

StartCommit ==
  /\ Receiving
  /\ \E crc \in Checksums \cup {NoCrc} : Flush(crc) /\ claimed' = crc
  /\ pc' = "commit"
  /\ UNCHANGED <<vars, routing_active, boot_vars>>

Commit ==
  /\ pc = "commit"
  /\ RequestUpgrade \/ FailUpgrade
  /\ pc' = "recv"
  /\ claimed' = NoCrc
  /\ UNCHANGED <<vars, routing_active, boot_vars>>

-----------------------------------------------------------------------------
(* The health thread, and MCUboot *)

\* During a trial what ran before, else what runs.
History(before) == previous' = IF trial' THEN before ELSE slot0'

\* The first health event that is sent confirms the image; if that fails, it is not
\* tried again.
ConfirmImage ==
  /\ ~s_image_confirmed
  /\ s_image_confirmed' = TRUE
  /\ trial' \in {trial, FALSE}
  /\ UNCHANGED slot0 /\ History(previous)
  /\ UNCHANGED <<vars, ota_vars, pc, routing_active, claimed>>

\* Swap-using-move: a staged image that was requested is tried, an image that was
\* tried and not confirmed is exchanged for the other one; either only if the image
\* in slot1 is signed, else slot1 is erased and the running image stays for good.
MCUboot ==
  /\ IF pending \/ trial
     THEN IF slot1 \in Signed
          THEN slot0' = slot1 /\ slot1' = slot0 /\ trial' = pending
          ELSE slot0' = slot0 /\ slot1' = << >> /\ trial' = FALSE
     ELSE UNCHANGED <<slot0, slot1, trial>>
  /\ pending' = FALSE
  /\ History(slot0)

\* Of what the RAM held nothing is left.
Restart ==
  /\ MCUboot
  /\ faulted' = [f \in Functions |-> FALSE]
  /\ active_dtcs' = [i \in Slots |-> kNoFault]
  /\ active_fault_count' = 0
  /\ state' = "kIdle" /\ area_open' = FALSE
  /\ CountersReset
  /\ stream' = [written |-> 0, buffer |-> << >>]
  /\ reboot_scheduled' = FALSE
  /\ pc' = "accept" /\ routing_active' = FALSE
  /\ s_image_confirmed' = FALSE
  /\ claimed' = NoCrc

\* RebootWorkHandler, 100 ms after the exit: the reply may or may not be out.
RebootWork == reboot_scheduled /\ Restart

PowerLoss == Restart

DoipThread == \/ Accept \/ ActivateRouting \/ CloseConnection
              \/ HandleRequest \/ StartCommit \/ Commit

ServerNext == DoipThread \/ ConfirmImage \/ RebootWork \/ PowerLoss

Fairness == WF_server_vars(Commit) /\ WF_server_vars(RebootWork)

ServerSpec == ServerInit /\ [][ServerNext]_server_vars /\ Fairness
-----------------------------------------------------------------------------
ServerTypeOK ==
  /\ TypeOK
  /\ state \in OtaStates
  /\ expected_size \in 0 .. kMaxFirmwareSize
  /\ received_size \in 0 .. SlotSize
  /\ next_block_seq \in 0 .. SeqModulus - 1
  /\ {slot1, running_crc, stream.buffer} \subseteq Seq(Bytes)
  /\ stream.written \in 0 .. Len(slot1) /\ Len(stream.buffer) < StreamBufSize
  /\ Len(slot1) <= SlotSize
  /\ {area_open, pending, reboot_scheduled} \subseteq BOOLEAN
  /\ pc \in {"accept", "recv", "commit"}
  /\ {routing_active, trial, s_image_confirmed} \subseteq BOOLEAN
  /\ {slot0, previous} \subseteq Signed

\* What the counters of a session say is what lies in the slot and in the buffer of
\* the stream, across refused and repeated blocks, other testers and power losses.
CountersMatchStaged ==
  state = "kActive" => received_size = Len(Staged) /\ running_crc = Staged

\* MCUboot is asked to boot an image only if the slot then holds as many bytes as
\* were announced, with the checksum that the tester gave.
CommitIsVerified ==
  pc = "commit" => Len(slot1) = expected_size /\ Crc32(slot1) = claimed

\* Up to the first download after a start, an image on trial can be taken back: the
\* other slot holds the image that ran before (security_architecture.md 3.3).
TrialCanBeReverted == trial /\ state = "kIdle" => slot1 = previous

\* After an upgrade that was accepted the board reboots, whatever the tester does in
\* the meantime, and MCUboot has dealt with the request.
AcceptedUpgradeReboots == state = "kComplete" ~> state = "kIdle" /\ ~pending

\* What the documents say without that restriction: an image that is not confirmed
\* is given up for the previous one on the following boot.
UnconfirmedImageIsReverted ==
  [][ Restart /\ trial /\ ~pending => slot0' = previous ]_server_vars
=============================================================================
