-------------------------------- MODULE Msp430Adc -------------------------------
(***************************************************************************)
(* The ADC12 of the MSP430, the memories it fills in sequence, and the     *)
(* program that starts conversions and answers the interrupt.  The sample  *)
(* and hold timer runs freely while the converter is on; its dividers, the *)
(* values sampled, ADC12IV and the overflow flags are left out.            *)
(***************************************************************************)
EXTENDS Naturals, Sequences, FiniteSets, FiniteSetsExt

CONSTANTS
  Channels,   \* ADC12_CHANNELS
  AdcTicks,   \* ADC12CLK ticks in one turn
  Sht, Conv,  \* ticks of the sampling period, of a conversion
  MaxStarts   \* bound: times the program enables conversions

VARIABLE m    \* struct msp430_adc12_t, what the program has been told

Memories == 0..Channels - 1
SINGLE == 0  SEQ == 1  REPEAT == 2  REPEAT_SEQ == 3     \* enum adc12 conseqx

\* The last conversion of this enabling: its memory, the one it was sampled for, its
\* number (modulo Channels).
None == [x |-> Channels, sample |-> Channels, k |-> Channels - 1]

\* ADC12_SET_STATE.
SetState(s, st) == [s EXCEPT !.st = st, !.busy = st \in {"SAMPLE", "CONVERT", "STORE"}]

\* msp430_adc12_chkifg: the only enabled flag, if there is only one.
CheckIfg(s) ==
  IF Cardinality(s.ifg \cap s.ie) = 1
  THEN [s EXCEPT !.posted = TRUE] ELSE s

\* The sample is that of the input ADC12MCTLx names.
Sample(s) == [SetState(s, "CONVERT") EXCEPT !.sample = s.x, !.since = 0]

\* The memory is filled and its flag raised; then the sequence goes on, or ends.
Finish(s) == [SetState(s, "WAIT_ENABLE") EXCEPT !.enc = FALSE]
Continue(s) == SetState(s, IF s.msc /\ s.shp THEN "SAMPLE" ELSE "WAIT_TRIGGER")
Advance(s) == Continue([s EXCEPT !.x = (@ + 1) % Channels])
Store(s) ==
  LET n == CheckIfg([SetState(s, "STORE") EXCEPT !.ifg = @ \cup {s.x},
                                                 !.done = [x |-> s.x, sample |-> s.sample,
                                                           k |-> (s.done.k + 1) % Channels]])
  IN  CASE s.conseq = SINGLE -> Finish(n)
        [] s.conseq = SEQ -> IF s.x \in s.eos THEN Finish(n) ELSE Advance(n)
        [] s.conseq = REPEAT -> Continue(n)
        [] OTHER -> Advance(n)

Enable(s) ==
  IF ~ s.enc THEN SetState(s, "WAIT_ENABLE")
  ELSE SetState(s, IF s.sc THEN "SAMPLE" ELSE "WAIT_TRIGGER")

\* msp430_adc12_update; samples: periods of the sampling timer that have ended in it.
Convert(s, samples) ==
  CASE s.st \in {"OFF", "WAIT_ENABLE"} -> Enable(s)
    [] s.st \notin {"OFF", "WAIT_ENABLE"} /\ ~ s.enc -> SetState(s, "WAIT_ENABLE")
    [] s.enc /\ s.st = "WAIT_TRIGGER" ->
         IF samples = 0 THEN s
         ELSE IF samples = 1 THEN SetState(s, "SAMPLE") ELSE Sample(s)
    [] s.enc /\ s.st = "SAMPLE" -> IF samples = 0 THEN s ELSE Sample(s)
    [] s.enc /\ s.st = "CONVERT" -> IF s.since > Conv THEN Store(s) ELSE s
    [] OTHER -> s

AdcUpdate(s, ticks) ==
  IF ~ s.on THEN SetState(s, "OFF")
  ELSE LET run == s.sht + ticks
       IN  Convert([s EXCEPT !.sht = IF s.shp THEN run % Sht ELSE @,
                             !.since = Min({Conv + 1, @ + ticks})],
                   IF s.shp THEN run \div Sht ELSE 0)
-----------------------------------------------------------------------------

\* Writes of ADC12CTL0: all of it while ENC is 0, its four low bits otherwise.
WriteCtl0(s, on, enc, sc) ==
  IF s.enc THEN [s EXCEPT !.enc = enc, !.sc = sc]
  ELSE [s EXCEPT !.on = on, !.enc = enc, !.sc = sc, !.x = IF enc THEN s.start ELSE @,
                 !.done = IF enc THEN None ELSE @]

\* ADC12CTL1 and ADC12MCTLx change only while ENC is 0 (but for CONSEQ, which the
\* program leaves alone meanwhile).
Configure(s, conseq, start, eos) ==
  IF s.enc THEN s ELSE [s EXCEPT !.conseq = conseq, !.start = start, !.eos = eos,
                                            !.done = None]

ReadMem(s, x) == [s EXCEPT !.ifg = @ \ {x}]
WriteIe(s, ie) == [s EXCEPT !.ie = ie]

StartInterrupt(s) ==
  IF ~ s.posted \/ s.isr THEN s ELSE [s EXCEPT !.posted = FALSE, !.isr = TRUE]

AdcInit ==
  \E msc, shp \in BOOLEAN, conseq \in SINGLE..REPEAT_SEQ :
    /\ m = [on |-> FALSE, enc |-> FALSE, sc |-> FALSE, msc |-> msc, shp |-> shp,
            conseq |-> conseq, start |-> 0, eos |-> {1}, x |-> 0, st |-> "OFF", busy |-> FALSE,
            sht |-> 0, since |-> 0, sample |-> 0, ifg |-> {}, ie |-> {},
            posted |-> FALSE, isr |-> FALSE, done |-> None, starts |-> 0]

EndTurn(s) ==
  \E ticks \in AdcTicks : \E i \in {s} : \E u \in {AdcUpdate(i, ticks)} :
    m' = StartInterrupt(u)

Nop == EndTurn(m)
Write0 ==
  /\ m.starts < MaxStarts
  /\ \E on, enc, sc \in BOOLEAN :
       EndTurn([WriteCtl0(m, on, enc, sc) EXCEPT !.starts = IF enc /\ ~ m.enc THEN @ + 1 ELSE @])
SetUp == /\ ~ m.enc /\ m.starts < MaxStarts
         /\ \E start \in Memories, last \in Memories : EndTurn(Configure(m, m.conseq, start, {last}))
\* The memories whose interrupt is enabled are read by the handler, the others polled.
Read == \E x \in m.ifg : (x \in m.ie => m.isr) /\ EndTurn(ReadMem(m, x))
Allow == /\ m.ie = {} /\ ~ m.posted /\ ~ m.isr
         /\ \E ie \in SUBSET (Memories \ m.ifg) : EndTurn(WriteIe(m, ie))
\* OP_RETI.
Return == m.isr /\ EndTurn(CheckIfg([m EXCEPT !.isr = FALSE]))

AdcNext == Nop \/ Write0 \/ SetUp \/ Read \/ Allow \/ Return
-----------------------------------------------------------------------------

\* The conversions of one enabling fill the memories from CSTARTADD on, one after the
\* other, whatever an earlier sequence stopped half-way has left.
ConvertsInOrder ==
  m.done # None =>
    /\ m.done.x = IF m.conseq \in {SINGLE, REPEAT} THEN m.start ELSE (m.start + m.done.k) % Channels
    /\ m.done.sample = m.done.x

\* A single enabled flag is pending, or a handler runs whose RETI looks at it again.
AdcInterruptKept == Cardinality(m.ifg \cap m.ie) = 1 => m.posted \/ m.isr

\* A converter enabled, its sampling timer running, converts.
Started == m.on /\ m.enc /\ m.shp
Converted == m.done # None \/ ~ m.enc
=============================================================================
