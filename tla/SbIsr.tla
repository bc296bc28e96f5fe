------------------------------- MODULE SbIsr -------------------------------
(***************************************************************************)
(* The DSP, the DMA channels and the sound card's interrupt handler        *)
(* together (MAIN_Interrupt of main.c).  The interrupt comes between any   *)
(* two port accesses of the client.  It fetches from the DMA channel the   *)
(* samples the card has room for; at the end of a block, or when the       *)
(* client asked for an interrupt, it runs the client's interrupt handler,  *)
(* which may do anything to the DSP and the DMA channel before the sound   *)
(* interrupt goes on with what it had read before.                         *)
(* (As in SbDsp, an operator named for what it ignores is a faulty variant *)
(* of the one that follows it.)                                            *)
(*                                                                         *)
(* The client is one of Drivers: a program that runs a script of port      *)
(* accesses after the other, and a handler that runs one at each           *)
(* interrupt.  The card plays at the client's rate, so that a sample is a  *)
(* sample of both, and the drivers play PCM only.  Mixing, volumes and the *)
(* memory mapping are left out.                                            *)
(***************************************************************************)
EXTENDS SbDsp, Vdma, Sequences

CONSTANTS
  Drivers,       (* [start, program, handler]: a script and two sets of scripts *)
  Spaces,        (* samples the card may have room for at an interrupt          *)
  DetectBytes    (* the longest block taken for a detection routine's, 32       *)

Accesses ==
  [op : {"read", "ack", "ack16"}] \cup [op : {"reset"}, v : {0, 1}]
    \cup [op : {"dsp"}, v : Writes]
    \cup [op : {"poll", "flip"}, c : Channels]
    \cup [op : {"reg"}, c : Channels, r : Registers, v : VByte]
    \cup [op : {"page"}, c : Channels, v : VByte]
    \cup [op : {"mode"}, c : Channels, v : SUBSET ModeBits]

ASSUME IsrAssumption ==
  /\ \A d \in Drivers :
       /\ d.start \in Seq(Accesses)
       /\ d.program \subseteq Seq(Accesses) /\ d.handler \subseteq Seq(Accesses)
  /\ {DMA, HDMA} \subseteq Channels
  /\ Spaces \subseteq Nat
  /\ DetectBytes \in Nat

VARIABLES
  isr,          (* where the sound interrupt is; "idle" when it is not running  *)
  dma, samplesize, channels, SB_Bytes,   (* MAIN_Interrupt's variables          *)
  left,         (* samples - pos: what the card still has room for              *)
  driver,       (* the client                                                   *)
  todo,         (* what is left of its program's script                         *)
  handlerTodo   (* ... and of its handler's                                     *)

localVars  == <<dma, samplesize, channels, SB_Bytes, left>>
clientVars == <<driver, todo, handlerTodo>>
isrVars    == <<dspVars, vdmaVars, isr, localVars, clientVars>>

IsrTypeOK ==
  /\ DspTypeOK /\ VdmaTypeOK
  /\ isr \in {"idle", "trigger", "setup", "loop", "irq"}
  /\ dma \in Channels \cup {NoLine} /\ (isr \in {"loop", "irq"} => dma \in Channels)
  /\ samplesize \in 1 .. 2 /\ channels \in 1 .. 2
  /\ SB_Bytes \in Nat /\ left \in Nat
  /\ driver \in Drivers /\ todo \in Seq(Accesses) /\ handlerTodo \in Seq(Accesses)

IsrInit ==
  /\ DspInit /\ VdmaInit
  /\ isr = "idle"
  /\ dma = DMA /\ samplesize = 1 /\ channels = 1 /\ SB_Bytes = 1 /\ left = 0
  /\ driver \in Drivers /\ todo = driver.start /\ handlerTodo = <<>>

---------------------------------------------------------------------------
(* One port access of the client.  The identification command has the DSP  *)
(* write a byte into the channel.                                          *)
DspAccess(a) ==
  \/ a.op = "reset" /\ DSP_Reset(a.v)
  \/ a.op = "read" /\ \E reply \in Replies : DSP_Read(reply)
  \/ a.op = "ack" /\ DSP_ReadStatus
  \/ a.op = "ack16" /\ DSP_INT16ACK

VdmaAccess(a) ==
  \/ a.op = "reg" /\ WriteReg(a.c, a.r, a.v)
  \/ a.op = "poll" /\ ReadReg(a.c)
  \/ a.op = "flip" /\ ClearFlipFlop(ControllerOf(a.c))
  \/ a.op = "page" /\ WritePage(a.c, a.v)
  \/ a.op = "mode" /\ WriteMode(a.c, a.v)

Access(a) ==
  \/ DspAccess(a) /\ UNCHANGED vdmaVars
  \/ VdmaAccess(a) /\ UNCHANGED dspVars
  \/ /\ a.op = "dsp" /\ DSP_Write(a.v)
     /\ IF ~HighSpeed /\ DSPCMD = DSP_DMA_ID THEN WriteData(DMA) ELSE UNCHANGED vdmaVars

ProgramStep ==
  /\ isr = "idle" /\ todo # <<>>
  /\ Access(Head(todo)) /\ todo' = Tail(todo)
  /\ UNCHANGED <<isr, localVars, driver, handlerTodo>>

NextScript ==
  /\ isr = "idle" /\ todo = <<>>
  /\ todo' \in driver.program
  /\ UNCHANGED <<dspVars, vdmaVars, isr, localVars, driver, handlerTodo>>

HandlerStep ==
  /\ isr \in {"trigger", "irq"} /\ handlerTodo # <<>>
  /\ Access(Head(handlerTodo)) /\ handlerTodo' = Tail(handlerTodo)
  /\ UNCHANGED <<isr, localVars, driver, todo>>

---------------------------------------------------------------------------
(* The sound interrupt. *)
InvokeIRQ == handlerTodo' \in driver.handler

TickServesTriggerInSilence ==
  /\ isr = "idle"
  /\ IF TriggerIRQ /\ ~Started THEN isr' = "trigger" /\ InvokeIRQ
     ELSE isr' = "setup" /\ UNCHANGED handlerTodo
  /\ UNCHANGED <<dspVars, vdmaVars, localVars, driver, todo>>
Tick ==
  /\ isr = "idle"
  /\ IF TriggerIRQ THEN isr' = "trigger" /\ InvokeIRQ ELSE isr' = "setup" /\ UNCHANGED handlerTodo
  /\ UNCHANGED <<dspVars, vdmaVars, localVars, driver, todo>>

TriggerDone ==
  /\ isr = "trigger" /\ handlerTodo = <<>>
  /\ ClearTrigger
  /\ isr' = "setup"
  /\ UNCHANGED <<vdmaVars, localVars, clientVars>>

SampleSize == IF Bits >= 16 THEN 2 ELSE 1
DmaInUse == IF Bits <= 8 \/ ~IsSB16 THEN {GetDMA} ELSE GetHDMA

(* The format is read once, before the loop. *)
SetUp ==
  /\ isr = "setup" /\ Started
  /\ left' \in Spaces
  /\ IF left' = 0 THEN isr' = "idle" /\ UNCHANGED <<dma, samplesize, channels>>
     ELSE /\ isr' = "loop"
          /\ dma' \in DmaInUse
          /\ samplesize' = SampleSize /\ channels' = GetChannels
  /\ UNCHANGED <<dspVars, vdmaVars, SB_Bytes, clientVars>>

(* No transfer: direct samples are played, or silence.  The channel is      *)
(* looked up all the same, before the first reset too, when there is none;  *)
(* the counter read there is not used.                                      *)
SetUpSilent ==
  /\ isr = "setup" /\ ~Started
  /\ isr' = "idle"
  /\ \E room \in Spaces :
       IF room = 0 THEN UNCHANGED <<dspVars, dma>>
       ELSE /\ dma' \in DmaInUse
            /\ IF DirectCount >= 3 THEN ResetDirect ELSE UNCHANGED dspVars
  /\ UNCHANGED <<vdmaVars, samplesize, channels, SB_Bytes, left, clientVars>>

(* Samples played in one pass: what the card takes, what is left of the    *)
(* DMA buffer and of the block, but at least one.  The block's rest is     *)
(* unsigned: a position beyond the end leaves the whole of 32 bits.        *)
Frames(bytes) == (bytes \div samplesize) \div channels
AtLeastOne(n) == IF n < 1 THEN 1 ELSE n
DmaFrames == AtLeastOne(Frames(GetCounter(dma)))
SbFrames  == IF Pos > GetSampleBytes THEN left ELSE AtLeastOne(Frames(GetSampleBytes - Pos))
CountIgnoringBlock == Least(left, DmaFrames)
CountIgnoringDma   == Least(left, SbFrames)
CountIgnoringRoom  == Least(DmaFrames, SbFrames)
Count == Least(left, Least(DmaFrames, SbFrames))
Bytes == Count * samplesize * channels

GoesOnWithoutRoom == GetAuto(dma)' /\ Started'
GoesOn == GetAuto(dma)' /\ left' > 0 /\ Started'

PlayPass ==
  /\ isr = "loop"
  /\ UNCHANGED <<dma, samplesize, channels, driver, todo>>
  /\ SetIndexCounter(dma, GetIndex(dma) + Bytes, GetCounter(dma) - Bytes)
  /\ Play(Pos + Bytes)
  /\ left' = left - Count
  /\ IF BlockEnded(Pos + Bytes)
     THEN isr' = "irq" /\ SB_Bytes' = GetSampleBytes /\ InvokeIRQ
     ELSE isr' = (IF GoesOn THEN "loop" ELSE "idle") /\ UNCHANGED <<SB_Bytes, handlerTodo>>

(* The position and the size are read again, the format is not. *)
BlockDone ==
  /\ isr = "irq" /\ handlerTodo = <<>>
  /\ UNCHANGED left
  /\ IF SB_Bytes <= DetectBytes
     THEN CountDetection /\ isr' = "idle"
     ELSE UNCHANGED dspVars /\ isr' = (IF GetAuto(dma) /\ left > 0 /\ Started THEN "loop" ELSE "idle")
  /\ UNCHANGED <<vdmaVars, dma, samplesize, channels, SB_Bytes, clientVars>>

Interrupt == Tick \/ TriggerDone \/ SetUp \/ SetUpSilent \/ PlayPass \/ BlockDone \/ HandlerStep

IsrNext == ProgramStep \/ NextScript \/ Interrupt

(* The card interrupts for ever, the handlers run on and return, and the    *)
(* card plays what it was given, so that it has room again and again.       *)
(* Nothing is assumed of the client's program.                              *)
Fairness == WF_isrVars(Interrupt) /\ SF_isrVars(SetUp /\ left' > 0)
IsrSpec == IsrInit /\ [][IsrNext]_isrVars /\ Fairness

---------------------------------------------------------------------------
(* While a transfer plays, the DSP's position in the block and the DMA      *)
(* channel's position in the buffer agree, if one length is a multiple of   *)
(* the other: a client that polls the counter and one that waits for the    *)
(* interrupt refill the same part of the buffer.                            *)
BufferBytes(c) == Channel[c].counter * SizeOf(c)
Agree(c) == (GetIndex(c) - Pos) % Least(GetSampleBytes, BufferBytes(c)) = 0
InStep == Started => \E c \in DmaInUse : Agree(c)

(* The interrupt fetches no byte beyond the buffer the client programmed.   *)
FetchInBuffer ==
  isr = "loop" => GetIndex(dma) + Bytes <= BufferBytes(dma)

(* The interrupt of a block comes when the block is complete, not earlier   *)
(* and not later: the next pass does not go beyond it.                      *)
BlockExact == isr = "loop" => Pos + Bytes <= GetSampleBytes

(* Every pass plays at least one sample and no more than the card has room  *)
(* for, so that the loop over the blocks comes to its end, whatever the     *)
(* client's handler did in between (main.c:1267-1354).                      *)
PassAdvances == isr = "loop" => Count \in 1 .. left

(* A transfer as a client must have programmed it for the three to hold:    *)
(* samples, in whole frames; a buffer and a block of which one is a multiple *)
(* of the other; and a channel in auto mode, or a block that ends with the   *)
(* buffer at the latest.                                                     *)
FrameBytes == SampleSize * GetChannels
FrameAligned(c) ==
  \A n \in {GetIndex(c), GetCounter(c), Pos, GetSampleBytes} : n % FrameBytes = 0
InBuffer(c) ==
  GetIndex(c) >= 0 /\ GetCounter(c) > 0 /\ GetIndex(c) + GetCounter(c) = BufferBytes(c)
Commensurate(c) ==
  GetSampleBytes % BufferBytes(c) = 0 \/ BufferBytes(c) % GetSampleBytes = 0
LastsLongEnough(c) ==
  GetAuto(c) \/ (~AutoMode /\ GetSampleBytes - Pos <= GetCounter(c))
Programmed ==
  /\ Bits \in {8, 16} /\ Pos < GetSampleBytes
  /\ \A c \in DmaInUse :
       InBuffer(c) /\ FrameAligned(c) /\ Commensurate(c) /\ LastsLongEnough(c) /\ Agree(c)

(* The format the interrupt read before its loop is still the one in force. *)
FormatRead == dma \in DmaInUse /\ samplesize = SampleSize /\ channels = GetChannels

(* No access of the client leaves a transfer playing that is not programmed *)
(* like that, whatever the interrupt did meanwhile; and its handler starts  *)
(* none of another format in the middle of the interrupt's loop, which does *)
(* not read the format again (main.c:1236-1265).                            *)
WellProgrammed ==
  [][(ProgramStep \/ HandlerStep) /\ Started' =>
       Programmed' /\ (isr = "irq" => FormatRead')]_isrVars

(* What the proofs assume of an instance: channels as the options allow them *)
(* (main.c:727 checks /D and main.c:753 sets /H unless it is an SB16; the    *)
(* help text, main.c:402, gives its values), and a client that resets the    *)
(* DSP before anything else, since only that selects the channels; and a     *)
(* bound on the bytes played at a time that the frames (of 4 bytes at most)  *)
(* for which the card has room do not exceed.                                *)
ConfiguredChannels ==
  /\ DMA \in {0, 1, 3}
  /\ IF IsSB16 THEN HDMA \in 5 .. 7 ELSE HDMA = DMA
ResetsFirst ==
  \A d \in Drivers : d.start # <<>> /\ Head(d.start) = [op |-> "reset", v |-> 1]
FetchBound == \A frames \in Spaces : 4 * frames <= MaxFetch

(* A transfer that plays comes to the end of its block or is stopped.       *)
BlockEnds == Started ~> (isr = "irq" \/ ~Started)

(* An interrupt the client asks for reaches its handler.                    *)
TriggerServed == TriggerIRQ ~> (isr = "trigger" \/ ~TriggerIRQ)
=============================================================================
