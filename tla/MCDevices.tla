-------------------------------- MODULE MCDevices -------------------------------
(* A device of a board and its driver, or a board and its firmware, for TLC. *)
EXTENDS Integers, Sequences

CONSTANTS Base, MaxFrame, MaxWrites, Pages, PageSize, Field, MaxPrograms, FifoLen, Threshold, Setups, Frames, Chips, Fifo1100, Threshold1100, Setups1100, Frames1100, BoardNames, MaxBytes, Ids, Wirings, Slack, MaxUpsets, Kinds, Texts, MaxOps, Confs, Transfers, Values
VARIABLES chip, dev, frame, answer, before, flag, writes

F == INSTANCE M25p WITH waits <- flag
A == INSTANCE At45 WITH poked <- flag
R == INSTANCE Cc2420 WITH air <- frame, log <- before
C == INSTANCE Cc1100 WITH air <- frame, log <- before,
  FifoLen <- Fifo1100, Threshold <- Threshold1100, Setups <- Setups1100, Frames <- Frames1100
B == INSTANCE Boards
O == INSTANCE Ds2411
P == INSTANCE Peripherals

\* The variables a board and the small devices have no use for.
Unused == frame = <<>> /\ answer = <<>> /\ before = <<>> /\ flag = {} /\ writes = 0

Init ==
  /\ chip \in Chips
  /\ \/ chip = "m25p80" /\ F!M25Init
     \/ chip = "at45db" /\ A!At45Init
     \/ chip = "cc2420" /\ R!CcInit /\ writes = 0
     \/ chip = "cc1100" /\ C!CcInit /\ writes = 0
     \/ chip = "board" /\ B!BoardInit /\ Unused
     \/ chip = "ds2411" /\ O!Ds2411Init /\ Unused
     \/ chip = "peripheral" /\ P!PeripheralInit /\ Unused

StepM25p == chip = "m25p80" /\ F!M25Next /\ UNCHANGED chip
StepAt45 == chip = "at45db" /\ A!At45Next /\ UNCHANGED chip
StepCc2420 == chip = "cc2420" /\ R!CcNext /\ UNCHANGED <<chip, writes>>
StepCc1100 == chip = "cc1100" /\ C!CcNext /\ UNCHANGED <<chip, writes>>
StepBoard == chip = "board" /\ B!BoardNext /\ UNCHANGED <<chip, frame, answer, before, flag, writes>>
StepDs2411 == chip = "ds2411" /\ O!Ds2411Next /\ UNCHANGED <<chip, frame, answer, before, flag, writes>>
StepPeripheral == chip = "peripheral" /\ P!PeripheralNext /\ UNCHANGED <<chip, frame, answer, before, flag, writes>>
Next == StepBoard \/ StepPeripheral \/ StepDs2411 \/ StepM25p \/ StepAt45 \/ StepCc2420 \/ StepCc1100

Spec == Init /\ [][Next]_<<chip, dev, frame, answer, before, flag, writes>>

\* Serial numbers of two bytes and a checksum, of which the last one is wrong.
MCIds == {<<1, 2, 120>>, <<1, 170, 21>>, <<1, 3, 5>>}

\* What is printed: over what is there and back, backwards with the display off, from the
\* first line to the second and back, past the end of the second line and scrolled.
Chars(codes) == [i \in 1..Len(codes) |-> <<"char", codes[i]>>]
MCTexts ==
  {Chars(<<65, 66>>) \o <<<<"at", 1, 0>>, <<"char", 67>>, <<"back">>, <<"char", 68>>, <<"clear">>, <<"char", 69>>>>,
   <<<<"leftward">>, <<"at", 0, 5>>>> \o Chars(<<65, 66>>)
     \o <<<<"off">>, <<"rightward">>, <<"home">>, <<"forth">>, <<"char", 67>>, <<"on">>>>,
   <<<<"at", 0, 38>>>> \o Chars(<<65, 66, 67>>) \o <<<<"leftward">>, <<"at", 0, 0>>>> \o Chars(<<68, 69>>),
   <<<<"at", 1, 39>>>> \o Chars(<<65, 66>>)
     \o <<<<"clear">>, <<"char", 67>>, <<"scroll">>, <<"unscroll">>, <<"char", 68>>, <<"clear">>, <<"char", 69>>>>}

\* Registers of the pressure sensor read, written and read back, and two in one go.
MCTransfers ==
  {<<<<"read", 128>>, <<"write", 31, 165>>, <<"read", 31>>, <<"both", 128>>>>,
   <<<<"read", 129>>, <<"both", 130>>, <<"write", 0, 170>>, <<"write", 127, 85>>, <<"both", 127>>, <<"read", 0>>>>}
MCMaxOps == [ds1722 |-> 10, cma3000 |-> 5, spidev_master |-> 12, spidev_dsp |-> 12]

\* What comes on the air: a short frame, a long one that asks for an answer, one
\* for another node and one damaged on the way.
MCFrames ==
  {[len |-> 3, mine |-> TRUE, ack |-> FALSE, good |-> TRUE],
   [len |-> 4, mine |-> TRUE, ack |-> TRUE, good |-> TRUE],
   [len |-> 3, mine |-> FALSE, ack |-> FALSE, good |-> TRUE],
   [len |-> 3, mine |-> TRUE, ack |-> FALSE, good |-> FALSE]}

\* The radio receives, or is interrupted while it receives, transmits or does
\* both, with the checks of the frames on; or receives and transmits without them.
Setup(auto, arrivals, sends, upsets) ==
  [autocrc |-> auto, decode |-> auto, autoack |-> auto,
   arrivals |-> arrivals, sends |-> sends, upsets |-> upsets]
MCSetups ==
  {Setup(TRUE, 3, 0, 0), Setup(TRUE, 2, 0, 1), Setup(TRUE, 1, 1, 1), Setup(TRUE, 0, 2, 1), Setup(FALSE, 1, 1, 0)}

\* The other radio: registers that differ from those of a reset, with the bounds.
\* The frames are for this node, for all nodes or for another one; one has a bit
\* wrong in its first byte of synchronisation, one is damaged on the way.
Setup1100(c, arrivals, sends, upsets) ==
  [conf |-> c, arrivals |-> arrivals, sends |-> sends, upsets |-> upsets]
Frame1100(to, near, good) == [to |-> to, near |-> near, good |-> good]
MCFrames1100 ==
  {Frame1100(7, FALSE, TRUE), Frame1100(0, TRUE, TRUE), Frame1100(9, FALSE, TRUE), Frame1100(7, FALSE, FALSE)}

\* The registers of a reset, receiving, interrupted, transmitting and both; packets
\* of a fixed length without a check, that follow each other; packets for one node
\* with a short or a long synchronisation, after which the radio turns to send or
\* stays ready to; no synchronisation at all; and wake on radio.
MCSetups1100 ==
  {Setup1100([cca |-> "both"], 2, 0, 0),
   Setup1100([cca |-> "both"], 1, 0, 1),
   Setup1100([cca |-> "rssi"], 0, 1, 1),
   Setup1100([cca |-> "packet"], 1, 1, 0),
   Setup1100([fixed |-> TRUE, pktlen |-> 3, crc |-> FALSE, autocal |-> 1, rxoff |-> "RX", txoff |-> "TX"], 1, 1, 0),
   Setup1100([addrchk |-> 2, addr |-> 7, sync |-> 3, autocal |-> 2, rxoff |-> "TX", txoff |-> "RX"], 1, 1, 0),
   Setup1100([addrchk |-> 1, addr |-> 7, sync |-> 1, autocal |-> 2, rxoff |-> "RX", txoff |-> "FSTXON"], 2, 0, 0),
   Setup1100([sync |-> 0, append |-> FALSE, autocal |-> 1, rxoff |-> "FSTXON", txoff |-> "FSTXON"], 0, 2, 0),
   Setup1100([rcosc |-> TRUE, rxtime |-> TRUE, autocal |-> 1], 1, 0, 0)}

\* A strobe that interrupts a reception, for the run that shows where it leads.
MCInterrupted == {Setup1100([autocal |-> 1], 1, 0, 1)}

\* What the driver reads is what the memory holds or the radio heard (M25Reads, At45Reads, CcReads, BoardReads,
\* IdReads, PeripheralReads).
Reads ==
  CASE chip = "m25p80" -> F!M25Reads [] chip = "at45db" -> A!At45Reads [] chip = "cc2420" -> R!CcReads
  [] chip = "cc1100" -> C!CcReads [] chip = "board" -> B!BoardReads
  [] chip = "ds2411" -> O!IdReads [] chip = "peripheral" -> P!PeripheralReads

\* What the driver asks for is written or transmitted, and nothing else (M25Programs,
\* At45Programs, CcSends, BoardWrites, CommandHeard,
\* PeripheralWrites).
Writes ==
  CASE chip = "m25p80" -> F!M25Programs [] chip = "at45db" -> A!At45Programs [] chip = "cc2420" -> R!CcSends
  [] chip = "cc1100" -> C!CcSends [] chip = "board" -> B!BoardWrites
  [] chip = "ds2411" -> O!CommandHeard [] chip = "peripheral" -> P!PeripheralWrites

\* The radio's count of frames and its FIFOP pin tell how many wait (CcCounts), as
\* long as no frame was abandoned and the last one waiting was not read while another came.
Announces == (chip = "cc2420" => R!CcCounts({})) /\ (chip = "cc1100" => C!CcCounts)

\* The same, also when the last waiting frame is read while another comes, as the
\* comments of the code say of nb_rx_frames.
AnnouncesAlways == chip = "cc2420" => R!CcCounts({"crossed"})

\* A process that runs updates its devices, and what lasts on the air ends.
radio == <<dev, frame, answer, before, flag>>
FairSpec ==
  /\ Spec
  /\ chip = "cc1100"
  /\ WF_radio(C!TimePasses) /\ WF_radio(C!ByteGone) /\ WF_radio(C!Silence) /\ WF_radio(C!Hear)

\* A radio that has received a packet leaves the reception (EndsReception).
EndsReception == C!EndsReception
=============================================================================
