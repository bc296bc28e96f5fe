------------------------------ MODULE MCSbIsr ------------------------------
(***************************************************************************)
(* Drivers for SbIsr: the port accesses of programs that play a buffer of  *)
(* two blocks in auto mode, one block after the other, 16-bit stereo, and  *)
(* direct samples.                                                         *)
(***************************************************************************)
EXTENDS SbIsr

ResetDsp == << [op |-> "reset", v |-> 1], [op |-> "reset", v |-> 0], [op |-> "read"] >>
Cmd(bytes) == [i \in DOMAIN bytes |-> [op |-> "dsp", v |-> bytes[i]]]
Flip(c) == << [op |-> "flip", c |-> c] >>
SetReg(c, r, word) == << [op |-> "reg", c |-> c, r |-> r, v |-> Low(word)],
                         [op |-> "reg", c |-> c, r |-> r, v |-> High(word)] >>
SetDma(c, mode, units) ==
  Flip(c) \o << [op |-> "mode", c |-> c, v |-> mode] >> \o SetReg(c, "addr", 0)
    \o << [op |-> "page", c |-> c, v |-> 1] >> \o SetReg(c, "count", units - 1)
Poll(c) == Flip(c) \o << [op |-> "poll", c |-> c], [op |-> "poll", c |-> c] >>
Ack   == << [op |-> "ack"] >>
Ack16 == << [op |-> "ack16"] >>

Halt == Cmd(<<\hD0>>)
Continue == Cmd(<<\hD4>>)

(* Two blocks of 36 bytes, 8-bit mono, over and over; the program polls,   *)
(* pauses, starts again and asks for an interrupt.                         *)
StartAuto == SetDma(1, {"auto"}, 72) \o Cmd(<<SET_SIZE, 35, 0, \h1C>>)
AutoDriver ==
  [start   |-> ResetDsp \o StartAuto,
   program |-> {Poll(1), Halt \o Continue, Cmd(<<\hDA>>) \o StartAuto, Cmd(<<TRIGGER_IRQ>>)},
   handler |-> {Ack}]

(* The same, polled by the handler: a program that used the DMA ports at the *)
(* same time would have to keep interrupts off.                              *)
PollingDriver ==
  [start   |-> ResetDsp \o StartAuto,
   program |-> {Halt \o Continue, Cmd(<<TRIGGER_IRQ>>)},
   handler |-> {Ack \o Poll(1)}]

(* One block over two turns of a buffer of 36 bytes. *)
LongBlockDriver ==
  [start   |-> ResetDsp \o SetDma(1, {"auto"}, 36) \o Cmd(<<SET_SIZE, 71, 0, \h1C>>),
   program |-> {Poll(1)},
   handler |-> {Ack}]

(* One block of 36 bytes, started again from the handler. *)
StartSingle == SetDma(1, {}, 36) \o Cmd(<<OUT_1, 35, 0>>)
SingleDriver ==
  [start   |-> ResetDsp \o StartSingle,
   program |-> {Halt \o Continue},
   handler |-> {Ack \o StartSingle}]

(* Two blocks of 40 bytes of 16-bit stereo on channel 5. *)
Start16 == SetDma(5, {"auto"}, 40) \o Cmd(<<\hB6, \h30, 19, 0>>)
Driver16 ==
  [start   |-> ResetDsp \o Start16,
   program |-> {Poll(5), Cmd(<<\hD5>>) \o Cmd(<<\hD6>>)},
   handler |-> {Ack16}]

(* Direct samples, and the identification that has the DSP write a byte. *)
DirectDriver ==
  [start   |-> ResetDsp \o SetDma(1, {"write"}, 72) \o Cmd(<<DSP_DMA_ID, 0>>),
   program |-> {Cmd(<<OUT_DIRECT, 1>>)},
   handler |-> {Ack}]

(* A block short enough for a detection routine's, over and over. *)
DetectDriver ==
  [start   |-> ResetDsp \o SetDma(1, {"auto"}, 8) \o Cmd(<<SET_SIZE, 7, 0, \h1C>>),
   program |-> {Poll(1)},
   handler |-> {Ack}]

PlayingDrivers ==
  {AutoDriver, PollingDriver, LongBlockDriver, SingleDriver, Driver16, DirectDriver, DetectDriver}
ASSUME DriversFit == ConfiguredChannels /\ ResetsFirst /\ FetchBound

IsrWrites == 0 .. 255
IsrRegs == {RESET, MODEFILTER, INT_SETUP, DMA_SETUP, INT_STS}
Nothing == {}
=============================================================================
