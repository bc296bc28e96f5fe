---------------------------- MODULE SbIsrProofs ----------------------------
(***************************************************************************)
(* The DSP, the DMA channels and the sound interrupt together: whatever    *)
(* scripts the client's program and its handler run, every variable keeps  *)
(* its type, the DSP keeps its invariant although the interrupt works with *)
(* what it read before the handler ran, and the loop over the blocks ends. *)
(* If the client programs its transfers as WellProgrammed says, the        *)
(* interrupt keeps them so, fetches from the buffer only, ends its blocks  *)
(* where they end and stays in step with the channel.                      *)
(***************************************************************************)
EXTENDS SbIsr, SbDspProofs, VdmaProofs

(* The mixer names the configured channels, from the first reset on. *)
Assigned == MixerRegs[DMA_SETUP] = DmaSetup
Untouched ==
  /\ todo = driver.start /\ isr \in {"idle", "setup"}
  /\ ~Started /\ ~TriggerIRQ /\ MixerRegs[DMA_SETUP] = {}

LocalOK ==
  /\ isr \in {"idle", "trigger", "setup", "loop", "irq"}
  /\ dma \in Channels \cup {NoLine} /\ (isr \in {"loop", "irq"} => dma \in Channels)
  /\ samplesize \in 1 .. 2 /\ channels \in 1 .. 2
  /\ SB_Bytes \in Nat /\ left \in Nat
ScriptsOK ==
  /\ driver \in Drivers /\ todo \in Seq(Accesses) /\ handlerTodo \in Seq(Accesses)
RoomLeft == isr = "loop" => left > 0

IsrInv ==
  IInv /\ VdmaTypeOK /\ LocalOK /\ ScriptsOK /\ RoomLeft /\ (Assigned \/ Untouched)

---------------------------------------------------------------------------
(* What the accesses of a script carry. *)
LEMMA AccessFields ==
  ASSUME NEW a \in Accesses
  PROVE  /\ a.op = "reset" => a.v \in {0, 1}
         /\ a.op = "dsp" => a.v \in Writes
         /\ a.op \in {"poll", "flip", "reg", "page", "mode"} => a.c \in Channels
         /\ a.op = "reg" => a.r \in Registers
         /\ a.op \in {"reg", "page"} => a.v \in VByte
         /\ a.op = "mode" => a.v \in SUBSET ModeBits
BY DEF Accesses

(* The status bits and the stereo switch are in other mixer registers than  *)
(* the channels.                                                            *)
LEMMA SetupKept ==
  ASSUME MixerTypeOK
  PROVE  /\ \A on : WithStereo(on)[DMA_SETUP] = MixerRegs[DMA_SETUP]
         /\ \A bit : /\ WithStatus(bit)[DMA_SETUP] = MixerRegs[DMA_SETUP]
                     /\ WithoutStatus(bit)[DMA_SETUP] = MixerRegs[DMA_SETUP]
BY MixerAssumption
DEF MixerTypeOK, WithStereo, WithStatus, WithoutStatus, DMA_SETUP, MODEFILTER, INT_STS

LEMMA ResetAssigns ==
  ASSUME MixerTypeOK, DSP_Reset(1)
  PROVE  Assigned'
<1>1. MixerRegs' = DspResetRegs
  BY DEF DSP_Reset
<1>2. DspResetRegs[DMA_SETUP] = DmaSetup
  BY MixerAssumption DEF MixerTypeOK, DspResetRegs, DMA_SETUP, MODEFILTER, INT_SETUP
<1>3. Assigned' <=> MixerRegs'[DMA_SETUP] = DmaSetup
  BY DEF Assigned
<1> QED
  BY <1>1, <1>2, <1>3, Zenon

(* No byte on the command port touches another register of the mixer.       *)
LEMMA WriteKeepsSetup ==
  ASSUME MixerTypeOK, NEW v, DSP_Write(v)
  PROVE  MixerRegs'[DMA_SETUP] = MixerRegs[DMA_SETUP]
<1>1. CASE CmdTrigger(v)
  BY <1>1, SetupKept, Zenon DEF CmdTrigger
<1>2. CASE CmdStartAdpcmAuto(v)
  BY <1>2, SetupKept, Zenon DEF CmdStartAdpcmAuto
<1>3. CASE ParAdpcm(v)
  BY <1>3, SetupKept, Zenon DEF ParAdpcm, SizeLow, mixerVars
<1>4. CASE ParMode(v)
  BY <1>4, SetupKept, Zenon DEF ParMode, SizeLow, mixerVars
<1>5. CASE ParSize(v)
  BY <1>5, Zenon DEF ParSize, SizeLow, mixerVars
<1>6. CASE CmdIgnored(v) \/ CmdHaltContinue(v) \/ CmdStart8(v) \/ CmdExitAuto(v) \/ CmdPending(v)
  BY <1>6, Zenon DEF CmdIgnored, CmdHaltContinue, CmdStart8, CmdExitAuto, CmdPending, mixerVars
<1>7. CASE ParTimeConst(v) \/ Par8or16(v) \/ ParRate(v) \/ ParDirect(v) \/ ParOther(v)
  BY <1>7, Zenon DEF ParTimeConst, Par8or16, ParRate, ParDirect, ParOther, mixerVars
<1>8. CASE DroppedWrite
  BY <1>8, Zenon DEF DroppedWrite, dspVars, mixerVars
<1> QED
  BY <1>1, <1>2, <1>3, <1>4, <1>5, <1>6, <1>7, <1>8, Zenon DEF DSP_Write

(* A port access of the client keeps the DSP's invariant and the types of   *)
(* the channels, and once they are assigned they stay so.                   *)
LEMMA AccessInv ==
  ASSUME IInv, VdmaTypeOK, NEW a \in Accesses, Access(a)
  PROVE  /\ IInv' /\ VdmaTypeOK'
         /\ Assigned => Assigned'
<1>0. MixerTypeOK
  BY DEF IInv, DspTypeOK
<1>a. Assigned' <=> MixerRegs'[DMA_SETUP] = DmaSetup
  BY DEF Assigned
<1>b. (UNCHANGED vdmaVars) => VdmaTypeOK'
  BY DEF vdmaVars, VdmaTypeOK
<1>c. (UNCHANGED dspVars) => IInv' /\ MixerRegs' = MixerRegs
  BY StutterInv, Zenon DEF dspVars, mixerVars
<1>1. CASE DspAccess(a) /\ UNCHANGED vdmaVars
  <2>1. CASE a.op = "reset" /\ DSP_Reset(a.v)
    <3>1. a.v \in {0, 1}
      BY <2>1, AccessFields
    <3>2. IInv'
      BY <2>1, <3>1, ResetInv
    <3>3. a.v = 1 => Assigned'
      BY <2>1, <1>0, ResetAssigns
    <3>4. a.v = 0 => MixerRegs' = MixerRegs
      BY <2>1 DEF DSP_Reset, mixerVars
    <3>5. Assigned => Assigned'
      BY <3>1, <3>3, <3>4, <1>a DEF Assigned
    <3> QED
      BY <3>2, <3>5, <1>1, <1>b
  <2>2. CASE \E reply \in Replies : DSP_Read(reply)
    <3>1. PICK reply \in Replies : DSP_Read(reply)
      BY <2>2
    <3>2. IInv'
      BY <3>1, ReadInv
    <3>3. MixerRegs' = MixerRegs
      BY <3>1, Zenon DEF DSP_Read, mixerVars
    <3> QED
      BY <3>2, <3>3, <1>1, <1>a, <1>b, Zenon DEF Assigned
  <2>3. CASE DSP_ReadStatus \/ DSP_INT16ACK
    <3>1. PICK bit \in {0, 1} : Acknowledge(bit)
      BY <2>3 DEF DSP_ReadStatus, DSP_INT16ACK
    <3>2. IInv'
      BY <3>1, AcknowledgeInv
    <3>3. MixerRegs'[DMA_SETUP] = MixerRegs[DMA_SETUP]
      BY <3>1, <1>0, SetupKept, Zenon DEF Acknowledge
    <3> QED
      BY <3>2, <3>3, <1>1, <1>a, <1>b, Zenon DEF Assigned
  <2> QED
    BY <1>1, <2>1, <2>2, <2>3, Zenon DEF DspAccess
<1>2. CASE VdmaAccess(a) /\ UNCHANGED dspVars
  <2>1. ASSUME a.op = "reg", WriteReg(a.c, a.r, a.v) PROVE VdmaTypeOK'
    BY <2>1, AccessFields, WriteRegType
  <2>2. ASSUME a.op = "poll", ReadReg(a.c) PROVE VdmaTypeOK'
    BY <2>2, AccessFields, ReadRegType
  <2>3. ASSUME a.op = "flip", ClearFlipFlop(ControllerOf(a.c)) PROVE VdmaTypeOK'
    BY <2>3, ClearFlipFlopType DEF ControllerOf
  <2>4. ASSUME a.op = "page", WritePage(a.c, a.v) PROVE VdmaTypeOK'
    BY <2>4, AccessFields, WritePageType
  <2>5. ASSUME a.op = "mode", WriteMode(a.c, a.v) PROVE VdmaTypeOK'
    BY <2>5, AccessFields, WriteModeType
  <2>6. VdmaTypeOK'
    BY <1>2, <2>1, <2>2, <2>3, <2>4, <2>5, Zenon DEF VdmaAccess
  <2> QED
    BY <1>2, <2>6, <1>a, <1>c, Zenon DEF Assigned
<1>3. CASE /\ a.op = "dsp" /\ DSP_Write(a.v)
           /\ \/ WriteData(DMA)
              \/ UNCHANGED vdmaVars
  <2>1. IInv'
    BY <1>3, AccessFields, WriteInv
  <2>2. MixerRegs'[DMA_SETUP] = MixerRegs[DMA_SETUP]
    BY <1>3, <1>0, WriteKeepsSetup
  <2>3. VdmaTypeOK'
    BY <1>3, <1>b, IsrAssumption, WriteDataType
  <2> QED
    BY <2>1, <2>2, <2>3, <1>a, Zenon DEF Assigned
<1> QED
  BY <1>1, <1>2, <1>3, Zenon DEF Access

---------------------------------------------------------------------------
(* The channels a reset selects. *)
LEMMA LeastOfSet ==
  ASSUME NEW x \in Int, NEW y \in Int
  PROVE  BSF({x, y}) \in {x, y} /\ BSF({x}) = x
<1>1. \E b \in {x, y} : \A c \in {x, y} : b <= c
  OBVIOUS
<1>2. \E b \in {x} : \A c \in {x} : b <= c
  OBVIOUS
<1> QED
  BY <1>1, <1>2 DEF BSF

LEMMA SetupChannels ==
  ASSUME ConfiguredChannels
  PROVE  DmaSetup = {DMA, HDMA}
BY MixerAssumption DEF ConfiguredChannels, DmaSetup

LEMMA ChannelInUse ==
  ASSUME ConfiguredChannels, Assigned
  PROVE  DmaInUse \subseteq Channels
<1>1. MixerRegs[DMA_SETUP] = {DMA, HDMA}
  BY SetupChannels DEF Assigned
<1>2. DMA \in Int /\ HDMA \in Int /\ {DMA, HDMA} # {}
  BY MixerAssumption
<1>3. GetDMA \in {DMA, HDMA}
  BY <1>1, <1>2, LeastOfSet DEF GetDMA
<1>4. ASSUME IsSB16 PROVE GetHDMA = {HDMA}
  <2>1. {b \in {DMA, HDMA} : b >= 4} = {HDMA}
    BY <1>4 DEF ConfiguredChannels
  <2>2. BSF({HDMA}) = HDMA
    BY <1>2, LeastOfSet
  <2> QED
    BY <1>1, <2>1, <2>2, Zenon DEF GetHDMA
<1>5. {DMA, HDMA} \subseteq Channels
  BY IsrAssumption
<1> QED
  BY <1>3, <1>4, <1>5 DEF DmaInUse

LEMMA NoChannelYet ==
  ASSUME MixerRegs[DMA_SETUP] = {}
  PROVE  DmaInUse = {NoLine}
<1>1. GetDMA = NoLine
  BY DEF GetDMA
<1>2. GetHDMA = {NoLine}
  BY DEF GetHDMA
<1> QED
  BY <1>1, <1>2 DEF DmaInUse

(* The length of a pass. *)
LEMMA BlockLength ==
  ASSUME TransferOK
  PROVE  GetSampleBytes \in Nat
<1>1. Samples \in Nat
  BY DEF TransferOK, Uint16
<1> DEFINE bits == IF Bits = 16 THEN 16 ELSE 8
<1>2. (Samples + 1) * bits \in Nat
  BY <1>1
<1> QED
  BY <1>2, DivNat DEF GetSampleBytes, SampleBytesOf

LEMMA FramesType ==
  ASSUME LocalOK, NEW bytes \in Nat
  PROVE  AtLeastOne(Frames(bytes)) \in Nat /\ AtLeastOne(Frames(bytes)) >= 1
<1>1. /\ samplesize \in Nat /\ samplesize > 0
      /\ channels \in Nat /\ channels > 0
  BY DEF LocalOK
<1>2. bytes \div samplesize \in Nat
  BY <1>1, DivNat
<1>3. Frames(bytes) \in Nat
  BY <1>1, <1>2, DivNat, Zenon DEF Frames
<1> QED
  BY <1>3 DEF AtLeastOne

LEMMA PassLength ==
  ASSUME TransferOK, VdmaTypeOK, LocalOK, isr = "loop", left > 0
  PROVE  Count \in 1 .. left /\ Bytes \in Nat
<1>1. left \in Nat /\ dma \in Channels /\ samplesize \in Nat /\ channels \in Nat
  BY DEF LocalOK
<1>2. GetCounter(dma) \in Nat
  BY <1>1, CounterType
<1>3. DmaFrames \in Nat /\ DmaFrames >= 1
  BY <1>2, FramesType DEF DmaFrames
<1>4. SbFrames \in Nat /\ SbFrames >= 1
  <2>1. CASE Pos > GetSampleBytes
    BY <2>1, <1>1 DEF SbFrames
  <2>2. CASE ~(Pos > GetSampleBytes)
    <3>1. GetSampleBytes - Pos \in Nat
      BY <2>2, BlockLength DEF TransferOK
    <3> QED
      BY <2>2, <3>1, FramesType DEF SbFrames
  <2> QED
    BY <2>1, <2>2
<1>5. Count \in 1 .. left
  BY <1>1, <1>3, <1>4 DEF Count, Least
<1>6. Count \in Nat
  BY <1>1, <1>5
<1>7. Count * samplesize \in Nat
  BY <1>1, <1>6, ProductNat
<1>8. Bytes \in Nat
  BY <1>1, <1>7, ProductNat, Zenon DEF Bytes
<1> QED
  BY <1>5, <1>8

---------------------------------------------------------------------------
(* What a step keeps when it leaves variables alone. *)
LEMMA IsrKeeps ==
  /\ IInv /\ (UNCHANGED dspVars) => IInv' /\ (Assigned => Assigned') /\ (UNCHANGED Started)
  /\ VdmaTypeOK /\ (UNCHANGED vdmaVars) => VdmaTypeOK'
  /\ ScriptsOK /\ (UNCHANGED clientVars) => ScriptsOK'
<1>1. IInv /\ (UNCHANGED dspVars) => IInv'
  BY StutterInv
<1>2. (UNCHANGED dspVars) => (Assigned => Assigned') /\ (UNCHANGED Started)
  BY Zenon DEF Assigned, dspVars, mixerVars, xferVars
<1>3. VdmaTypeOK /\ (UNCHANGED vdmaVars) => VdmaTypeOK'
  BY DEF vdmaVars, VdmaTypeOK
<1>4. ScriptsOK /\ (UNCHANGED clientVars) => ScriptsOK'
  BY Zenon DEF ScriptsOK, clientVars
<1> QED
  BY <1>1, <1>2, <1>3, <1>4, Zenon

LEMMA AccessHead ==
  ASSUME NEW script \in Seq(Accesses), script # <<>>
  PROVE  Head(script) \in Accesses /\ Tail(script) \in Seq(Accesses)
OBVIOUS

LEMMA IsrInitInv == ResetsFirst /\ IsrInit => IsrInv
<1> SUFFICES ASSUME ResetsFirst, IsrInit PROVE IsrInv
  OBVIOUS
<1>1. IInv /\ VdmaTypeOK
  BY InitInv, VdmaInitType DEF IsrInit
<1>2. LocalOK
  BY IsrAssumption DEF IsrInit, LocalOK
<1>3. ScriptsOK
  BY IsrAssumption DEF IsrInit, ScriptsOK
<1>4. RoomLeft
  BY DEF IsrInit, RoomLeft
<1>5. MixerRegs[DMA_SETUP] = {}
  <2>1. DMA_SETUP \in MixerIdx /\ DMA_SETUP \notin VolumeRegs /\ DMA_SETUP # RESET
    BY MixerAssumption DEF VolumeRegs, StereoRegs, VolumePairRegs, DMA_SETUP, RESET,
       MASTERVOL, MIDIVOL, CDVOL, VOICEVOL, VOICESTEREO, MASTERSTEREO, MIDISTEREO, CDSTEREO
  <2> QED
    BY <2>1 DEF IsrInit, DspInit, MixerInit
<1>6. Untouched
  BY <1>5 DEF IsrInit, Untouched, DspInit
<1> QED
  BY <1>1, <1>2, <1>3, <1>4, <1>6, Zenon DEF IsrInv

(* The program's first access is the reset that assigns the channels.       *)
LEMMA ProgramStepInv ==
  ASSUME ResetsFirst, IsrInv, ProgramStep
  PROVE  IsrInv'
<1>1. /\ isr = "idle" /\ todo # <<>>
      /\ Access(Head(todo)) /\ todo' = Tail(todo)
      /\ UNCHANGED <<isr, localVars, driver, handlerTodo>>
  BY Zenon DEF ProgramStep
<1>2. IInv /\ VdmaTypeOK /\ LocalOK /\ ScriptsOK /\ RoomLeft /\ (Assigned \/ Untouched)
  BY Zenon DEF IsrInv
<1>3. Head(todo) \in Accesses /\ Tail(todo) \in Seq(Accesses)
  BY <1>1, <1>2, AccessHead DEF ScriptsOK
<1>4. IInv' /\ VdmaTypeOK' /\ (Assigned => Assigned')
  BY <1>1, <1>2, <1>3, AccessInv
<1>5. LocalOK' /\ RoomLeft'
  BY <1>1, <1>2, Zenon DEF LocalOK, RoomLeft, localVars
<1>6. ScriptsOK'
  BY <1>1, <1>2, <1>3, Zenon DEF ScriptsOK
<1>7. ASSUME Untouched PROVE Assigned'
  <2>1. Head(todo) = [op |-> "reset", v |-> 1]
    BY <1>2, <1>7, Zenon DEF ResetsFirst, ScriptsOK, Untouched
  <2>2. DSP_Reset(1)
    BY <1>1, <2>1 DEF Access, DspAccess, VdmaAccess
  <2> QED
    BY <1>2, <2>2, ResetAssigns DEF IInv, DspTypeOK
<1> QED
  BY <1>2, <1>4, <1>5, <1>6, <1>7, Zenon DEF IsrInv

LEMMA NextScriptInv ==
  ASSUME ResetsFirst, IsrInv, NextScript
  PROVE  IsrInv'
<1>1. /\ isr = "idle" /\ todo = <<>> /\ todo' \in driver.program
      /\ UNCHANGED <<dspVars, vdmaVars, isr, localVars, driver, handlerTodo>>
  BY Zenon DEF NextScript
<1>2. IInv /\ VdmaTypeOK /\ LocalOK /\ ScriptsOK /\ RoomLeft /\ (Assigned \/ Untouched)
  BY Zenon DEF IsrInv
<1>3. Assigned
  BY <1>1, <1>2 DEF ResetsFirst, ScriptsOK, Untouched
<1>4. IInv' /\ VdmaTypeOK' /\ Assigned'
  BY <1>1, <1>2, <1>3, IsrKeeps, Zenon
<1>5. LocalOK' /\ RoomLeft'
  BY <1>1, <1>2, Zenon DEF LocalOK, RoomLeft, localVars
<1>6. ScriptsOK'
  BY <1>1, <1>2, IsrAssumption DEF ScriptsOK
<1> QED
  BY <1>4, <1>5, <1>6, Zenon DEF IsrInv

LEMMA HandlerStepInv ==
  ASSUME IsrInv, HandlerStep
  PROVE  IsrInv'
<1>1. /\ isr \in {"trigger", "irq"} /\ handlerTodo # <<>>
      /\ Access(Head(handlerTodo)) /\ handlerTodo' = Tail(handlerTodo)
      /\ UNCHANGED <<isr, localVars, driver, todo>>
  BY Zenon DEF HandlerStep
<1>2. IInv /\ VdmaTypeOK /\ LocalOK /\ ScriptsOK /\ RoomLeft /\ (Assigned \/ Untouched)
  BY Zenon DEF IsrInv
<1>3. Assigned
  BY <1>1, <1>2 DEF Untouched
<1>4. Head(handlerTodo) \in Accesses /\ Tail(handlerTodo) \in Seq(Accesses)
  BY <1>1, <1>2, AccessHead DEF ScriptsOK
<1>5. IInv' /\ VdmaTypeOK' /\ Assigned'
  BY <1>1, <1>2, <1>3, <1>4, AccessInv
<1>6. LocalOK' /\ RoomLeft'
  BY <1>1, <1>2, Zenon DEF LocalOK, RoomLeft, localVars
<1>7. ScriptsOK'
  BY <1>1, <1>2, <1>4, Zenon DEF ScriptsOK
<1> QED
  BY <1>5, <1>6, <1>7, Zenon DEF IsrInv

LEMMA TickInv ==
  ASSUME IsrInv, Tick
  PROVE  IsrInv'
<1>1. /\ isr = "idle"
      /\ \/ TriggerIRQ /\ isr' = "trigger" /\ InvokeIRQ
         \/ ~TriggerIRQ /\ isr' = "setup" /\ UNCHANGED handlerTodo
      /\ UNCHANGED <<dspVars, vdmaVars, localVars, driver, todo>>
  BY Zenon DEF Tick
<1>2. IInv /\ VdmaTypeOK /\ LocalOK /\ ScriptsOK /\ RoomLeft /\ (Assigned \/ Untouched)
  BY Zenon DEF IsrInv
<1>3. IInv' /\ VdmaTypeOK' /\ (Assigned => Assigned')
  BY <1>1, <1>2, IsrKeeps, Zenon
<1>4. LocalOK' /\ RoomLeft'
  BY <1>1, <1>2 DEF LocalOK, RoomLeft, localVars
<1>5. ScriptsOK'
  BY <1>1, <1>2, IsrAssumption DEF ScriptsOK, InvokeIRQ
<1>6. Untouched => Untouched'
  BY <1>1 DEF Untouched, dspVars, xferVars, hostVars, mixerVars
<1> QED
  BY <1>2, <1>3, <1>4, <1>5, <1>6, Zenon DEF IsrInv

LEMMA TriggerDoneInv ==
  ASSUME IsrInv, TriggerDone
  PROVE  IsrInv'
<1>1. /\ isr = "trigger" /\ ClearTrigger /\ isr' = "setup"
      /\ UNCHANGED <<vdmaVars, localVars, clientVars>>
  BY Zenon DEF TriggerDone
<1>2. IInv /\ VdmaTypeOK /\ LocalOK /\ ScriptsOK /\ RoomLeft /\ (Assigned \/ Untouched)
  BY Zenon DEF IsrInv
<1>3. Assigned
  BY <1>1, <1>2 DEF Untouched
<1>4. Assigned'
  BY <1>1, <1>3, Zenon DEF ClearTrigger, Assigned, mixerVars
<1>5. IInv' /\ VdmaTypeOK' /\ ScriptsOK'
  BY <1>1, <1>2, ClearTriggerInv, IsrKeeps, Zenon
<1>6. LocalOK' /\ RoomLeft'
  BY <1>1, <1>2 DEF LocalOK, RoomLeft, localVars
<1> QED
  BY <1>4, <1>5, <1>6, Zenon DEF IsrInv

(* The channel of the loop is one that a reset selected.                    *)
LEMMA SetUpInv ==
  ASSUME ConfiguredChannels, IsrInv, SetUp
  PROVE  IsrInv'
<1>1. /\ isr = "setup" /\ Started /\ left' \in Spaces
      /\ \/ left' = 0 /\ isr' = "idle" /\ UNCHANGED <<dma, samplesize, channels>>
         \/ /\ left' # 0 /\ isr' = "loop" /\ dma' \in DmaInUse
            /\ samplesize' = SampleSize /\ channels' = GetChannels
      /\ UNCHANGED <<dspVars, vdmaVars, SB_Bytes, clientVars>>
  BY Zenon DEF SetUp
<1>2. IInv /\ VdmaTypeOK /\ LocalOK /\ ScriptsOK /\ RoomLeft /\ (Assigned \/ Untouched)
  BY Zenon DEF IsrInv
<1>3. Assigned
  BY <1>1, <1>2 DEF Untouched
<1>4. IInv' /\ VdmaTypeOK' /\ ScriptsOK' /\ Assigned'
  BY <1>1, <1>2, <1>3, IsrKeeps, Zenon
<1>5. DmaInUse \subseteq Channels
  BY <1>3, ChannelInUse
<1>6. SampleSize \in 1 .. 2 /\ GetChannels \in 1 .. 2
  BY DEF SampleSize, GetChannels, ChannelsOf
<1>7. left' \in Nat
  BY <1>1, IsrAssumption
<1>8. LocalOK' /\ RoomLeft'
  BY <1>1, <1>2, <1>5, <1>6, <1>7 DEF LocalOK, RoomLeft
<1> QED
  BY <1>4, <1>8, Zenon DEF IsrInv

LEMMA SetUpSilentInv ==
  ASSUME ConfiguredChannels, IsrInv, SetUpSilent
  PROVE  IsrInv'
<1>1. /\ isr = "setup" /\ isr' = "idle"
      /\ ResetDirect \/ UNCHANGED dspVars
      /\ dma' = dma \/ dma' \in DmaInUse
      /\ UNCHANGED <<vdmaVars, samplesize, channels, SB_Bytes, left, clientVars>>
  BY Zenon DEF SetUpSilent
<1>2. IInv /\ VdmaTypeOK /\ LocalOK /\ ScriptsOK /\ RoomLeft /\ (Assigned \/ Untouched)
  BY Zenon DEF IsrInv
<1>3. IInv' /\ VdmaTypeOK' /\ ScriptsOK'
  BY <1>1, <1>2, ResetDirectInv, IsrKeeps, Zenon
<1>4. LocalOK' /\ RoomLeft'
  <2>1. DmaInUse \subseteq Channels \cup {NoLine}
    BY <1>2, ChannelInUse, NoChannelYet DEF Untouched
  <2> QED
    BY <1>1, <1>2, <2>1 DEF LocalOK, RoomLeft
<1>5. UNCHANGED <<MixerRegs, Started, TriggerIRQ>>
  BY <1>1, Zenon DEF ResetDirect, dspVars, xferVars, hostVars, mixerVars
<1>6. Assigned => Assigned'
  BY <1>5, Zenon DEF Assigned
<1>7. Untouched => Untouched'
  BY <1>1, <1>5 DEF Untouched, clientVars
<1> QED
  BY <1>2, <1>3, <1>4, <1>6, <1>7, Zenon DEF IsrInv

(* A pass reports a position in the block and a rest of the buffer that the *)
(* channel can hold, and leaves room or ends the loop.                      *)
LEMMA PlayPassInv ==
  ASSUME IsrInv, PlayPass
  PROVE  IsrInv'
<1>1. /\ isr = "loop"
      /\ UNCHANGED <<dma, samplesize, channels, driver, todo>>
      /\ SetIndexCounter(dma, GetIndex(dma) + Bytes, GetCounter(dma) - Bytes)
      /\ Play(Pos + Bytes)
      /\ left' = left - Count
      /\ \/ isr' = "irq" /\ SB_Bytes' = GetSampleBytes /\ InvokeIRQ
         \/ /\ isr' = (IF GoesOn THEN "loop" ELSE "idle")
            /\ UNCHANGED <<SB_Bytes, handlerTodo>>
  BY Zenon DEF PlayPass
<1>2. IInv /\ VdmaTypeOK /\ LocalOK /\ ScriptsOK /\ RoomLeft /\ (Assigned \/ Untouched)
  BY Zenon DEF IsrInv
<1>3. MixerTypeOK /\ TransferOK
  BY <1>2 DEF IInv, DspTypeOK
<1>4. Assigned
  BY <1>1, <1>2 DEF Untouched
<1>5. Count \in 1 .. left /\ Bytes \in Nat /\ left \in Nat
  <2>1. left > 0
    BY <1>1, <1>2 DEF RoomLeft
  <2> QED
    BY <1>1, <1>2, <1>3, <2>1, PassLength DEF LocalOK
<1>6. IInv'
  <2>1. Pos + Bytes \in Nat
    BY <1>3, <1>5 DEF TransferOK
  <2> QED
    BY <1>1, <1>2, <2>1, PlayInv
<1>7. VdmaTypeOK'
  <2> DEFINE index == GetIndex(dma) + Bytes
             counter == GetCounter(dma) - Bytes
  <2>1. dma \in Channels
    BY <1>1, <1>2 DEF LocalOK
  <2>2. index \in Int /\ counter \in Int /\ counter <= Word * SizeOf(dma)
    BY <1>2, <1>5, <2>1, CounterType
  <2>3. SetIndexCounter(dma, index, counter)
    BY <1>1
  <2> HIDE DEF index, counter
  <2> QED
    BY <1>2, <2>1, <2>2, <2>3, ReportType
<1>8. Assigned'
  <2>1. MixerRegs'[DMA_SETUP] = MixerRegs[DMA_SETUP]
    BY <1>1, <1>3, SetupKept, Zenon DEF Play
  <2> QED
    BY <1>4, <2>1 DEF Assigned
<1>9. LocalOK' /\ RoomLeft'
  <2>1. left' \in Nat /\ SB_Bytes' \in Nat
    BY <1>1, <1>2, <1>3, <1>5, BlockLength DEF LocalOK
  <2>2. isr' \in {"irq", "loop", "idle"} /\ (isr' = "loop" => left' > 0)
    BY <1>1 DEF GoesOn
  <2> QED
    BY <1>1, <1>2, <2>1, <2>2 DEF LocalOK, RoomLeft
<1>10. ScriptsOK'
  BY <1>1, <1>2, IsrAssumption DEF ScriptsOK, InvokeIRQ
<1> QED
  BY <1>6, <1>7, <1>8, <1>9, <1>10, Zenon DEF IsrInv

LEMMA BlockDoneInv ==
  ASSUME IsrInv, BlockDone
  PROVE  IsrInv'
<1>1. /\ isr = "irq" /\ UNCHANGED left
      /\ \/ CountDetection /\ isr' = "idle"
         \/ /\ UNCHANGED dspVars
            /\ isr' = (IF GetAuto(dma) /\ left > 0 /\ Started THEN "loop" ELSE "idle")
      /\ UNCHANGED <<vdmaVars, dma, samplesize, channels, SB_Bytes, clientVars>>
  BY Zenon DEF BlockDone
<1>2. IInv /\ VdmaTypeOK /\ LocalOK /\ ScriptsOK /\ RoomLeft /\ (Assigned \/ Untouched)
  BY Zenon DEF IsrInv
<1>3. Assigned
  BY <1>1, <1>2 DEF Untouched
<1>4. IInv' /\ VdmaTypeOK' /\ ScriptsOK'
  BY <1>1, <1>2, CountDetectionInv, IsrKeeps, Zenon
<1>5. UNCHANGED MixerRegs
  BY <1>1, Zenon DEF CountDetection, dspVars, mixerVars
<1>6. Assigned'
  BY <1>3, <1>5, Zenon DEF Assigned
<1>7. LocalOK' /\ RoomLeft'
  BY <1>1, <1>2 DEF LocalOK, RoomLeft
<1> QED
  BY <1>4, <1>6, <1>7, Zenon DEF IsrInv

LEMMA IsrNextInv ==
  ConfiguredChannels /\ ResetsFirst /\ IsrInv /\ [IsrNext]_isrVars => IsrInv'
<1> SUFFICES ASSUME ConfiguredChannels, ResetsFirst, IsrInv, [IsrNext]_isrVars PROVE IsrInv'
  OBVIOUS
<1>1. CASE ProgramStep
  BY <1>1, ProgramStepInv
<1>2. CASE NextScript
  BY <1>2, NextScriptInv
<1>3. CASE Tick
  BY <1>3, TickInv
<1>4. CASE TriggerDone
  BY <1>4, TriggerDoneInv
<1>5. CASE SetUp
  BY <1>5, SetUpInv
<1>6. CASE SetUpSilent
  BY <1>6, SetUpSilentInv
<1>7. CASE PlayPass
  BY <1>7, PlayPassInv
<1>8. CASE BlockDone
  BY <1>8, BlockDoneInv
<1>9. CASE HandlerStep
  BY <1>9, HandlerStepInv
<1>10. CASE UNCHANGED isrVars
  <2>1. /\ UNCHANGED <<dspVars, vdmaVars, localVars, clientVars>> /\ UNCHANGED isr
    BY <1>10, Zenon DEF isrVars
  <2>2. IInv /\ VdmaTypeOK /\ LocalOK /\ ScriptsOK /\ RoomLeft /\ (Assigned \/ Untouched)
    BY Zenon DEF IsrInv
  <2>3. IInv' /\ VdmaTypeOK' /\ ScriptsOK' /\ (Assigned => Assigned')
    BY <2>1, <2>2, IsrKeeps, Zenon
  <2>4. LocalOK' /\ RoomLeft'
    BY <2>1, <2>2, Zenon DEF LocalOK, RoomLeft, localVars
  <2>5. Untouched => Untouched'
    BY <2>1, Zenon DEF Untouched, clientVars, dspVars, xferVars, hostVars, mixerVars
  <2> QED
    BY <2>2, <2>3, <2>4, <2>5, Zenon DEF IsrInv
<1> QED
  BY <1>1, <1>2, <1>3, <1>4, <1>5, <1>6, <1>7, <1>8, <1>9, <1>10, Zenon DEF IsrNext, Interrupt

(* For a client that begins with a reset, on channels as the options allow   *)
(* them: the DSP and the channels keep their invariants although the         *)
(* interrupt works with what it read before the client's handler ran, and    *)
(* the channel it plays from is one of the configured ones (main.c:1236-1354).*)
THEOREM IsrInvHolds ==
  ConfiguredChannels /\ ResetsFirst => (IsrSpec => []IsrInv)
<1> SUFFICES ASSUME ConfiguredChannels, ResetsFirst PROVE IsrSpec => []IsrInv
  OBVIOUS
<1>1. IsrInit => IsrInv
  BY IsrInitInv
<1>2. IsrInv /\ [IsrNext]_isrVars => IsrInv'
  BY IsrNextInv
<1> QED
  BY <1>1, <1>2, PTL DEF IsrSpec

(* No access of the client, in whatever order and between whatever steps of *)
(* the interrupt, gives a variable of the DSP, the channels or the          *)
(* interrupt a value of another kind.                                       *)
THEOREM IsrTypeCorrect ==
  ConfiguredChannels /\ ResetsFirst => (IsrSpec => []IsrTypeOK)
<1> SUFFICES ASSUME ConfiguredChannels, ResetsFirst PROVE IsrSpec => []IsrTypeOK
  OBVIOUS
<1>1. IsrInv => IsrTypeOK
  BY Zenon DEF IsrInv, IInv, LocalOK, ScriptsOK, IsrTypeOK
<1> QED
  BY <1>1, IsrInvHolds, PTL

(* Every pass of the loop over the blocks plays at least one sample and no   *)
(* more than there is room for, so that the loop ends, whatever the client's *)
(* handler programmed in between (main.c:1267-1354).                         *)
THEOREM PassAdvancesHolds ==
  ConfiguredChannels /\ ResetsFirst => (IsrSpec => []PassAdvances)
<1> SUFFICES ASSUME ConfiguredChannels, ResetsFirst PROVE IsrSpec => []PassAdvances
  OBVIOUS
<1>1. IsrInv => PassAdvances
  <2> SUFFICES ASSUME IsrInv, isr = "loop" PROVE Count \in 1 .. left
    BY DEF PassAdvances
  <2>1. TransferOK /\ VdmaTypeOK /\ LocalOK /\ left > 0
    BY Zenon DEF IsrInv, IInv, DspTypeOK, RoomLeft
  <2> QED
    BY <2>1, PassLength
<1> QED
  BY <1>1, IsrInvHolds, PTL

---------------------------------------------------------------------------
(* Multiples. *)
LEMMA MultipleOf ==
  ASSUME NEW m \in Nat, m > 0, NEW q \in Int
  PROVE  (m * q) % m = 0
<1>1. 0 \in 0 .. m - 1
  OBVIOUS
<1>2. m * q \in Int
  OBVIOUS
<1>3. 0 + m * q = m * q
  BY <1>2
<1> QED
  BY <1>1, <1>3, LowPlace

LEMMA SumOfMultiples ==
  ASSUME NEW m \in Nat, m > 0, NEW a \in Int, NEW b \in Int, a % m = 0, b % m = 0
  PROVE  (a + b) % m = 0 /\ (a - b) % m = 0
<1> DEFINE p == a \div m
           q == b \div m
<1>1. /\ p \in Int /\ a = m * p
      /\ q \in Int /\ b = m * q
  BY DivMod
<1> HIDE DEF p, q
<1>2. a + b = m * (p + q) /\ a - b = m * (p - q)
  BY <1>1
<1>3. (m * (p + q)) % m = 0 /\ (m * (p - q)) % m = 0
  BY <1>1, MultipleOf
<1> QED
  BY <1>2, <1>3

(* If one of two lengths is a multiple of the other, both are of the        *)
(* smaller one.                                                             *)
LEMMA Divides ==
  ASSUME NEW a \in Nat, a > 0, NEW b \in Nat, b > 0, b % a = 0
  PROVE  a <= b
<1> DEFINE q == b \div a
<1>1. q \in Int /\ b = a * q
  BY DivMod
<1> HIDE DEF q
<1>2. CASE q <= 0
  <2>1. a * (0 - q) \in Nat
    BY <1>1, <1>2, ProductNat
  <2>2. a * (0 - q) = 0 - a * q
    BY <1>1
  <2> QED
    BY <1>1, <2>1, <2>2
<1>3. CASE q >= 1
  <2>1. a * (q - 1) \in Nat
    BY <1>1, <1>3, ProductNat
  <2>2. a * (q - 1) = a * q - a
    BY <1>1
  <2> QED
    BY <1>1, <2>1, <2>2
<1> QED
  BY <1>1, <1>2, <1>3

LEMMA SmallerDivides ==
  ASSUME NEW a \in Nat, a > 0, NEW b \in Nat, b > 0, a % b = 0 \/ b % a = 0
  PROVE  /\ Least(a, b) \in Nat /\ Least(a, b) > 0
         /\ a % Least(a, b) = 0 /\ b % Least(a, b) = 0
<1>1. a % a = 0 /\ b % b = 0
  <2>1. a * 1 = a /\ b * 1 = b
    OBVIOUS
  <2> QED
    BY <2>1, MultipleOf
<1>2. CASE a < b
  <2>1. b % a = 0
    BY <1>2, Divides
  <2> QED
    BY <1>1, <1>2, <2>1 DEF Least
<1>3. CASE ~(a < b)
  <2>1. a % b = 0
    <3>1. CASE b % a = 0
      <4>1. a = b
        BY <1>3, <3>1, Divides
      <4> QED
        BY <4>1, <1>1
    <3> QED
      BY <3>1
  <2> QED
    BY <1>1, <1>3, <2>1 DEF Least
<1> QED
  BY <1>2, <1>3

(* Whole frames are what they are in bytes. *)
LEMMA WholePass ==
  ASSUME NEW x \in Nat, x > 0, NEW s \in {1, 2}, NEW c \in {1, 2}, x % (s * c) = 0
  PROVE  /\ (x \div s) \div c \in Nat /\ (x \div s) \div c >= 1
         /\ ((x \div s) \div c) * s * c = x
<1>1. CASE s = 1 /\ c = 1
  BY <1>1
<1>2. CASE s = 1 /\ c = 2
  BY <1>2
<1>3. CASE s = 2 /\ c = 1
  BY <1>3
<1>4. CASE s = 2 /\ c = 2
  BY <1>4
<1> QED
  BY <1>1, <1>2, <1>3, <1>4

LEMMA PartOfPass ==
  ASSUME NEW n \in Nat, NEW d \in Nat, n >= 1, n <= d, NEW s \in {1, 2}, NEW c \in {1, 2}
  PROVE  /\ n * s * c \in Nat /\ n * s * c > 0
         /\ n * s * c <= d * s * c /\ (n * s * c) % (s * c) = 0
<1>1. CASE s = 1 /\ c = 1
  BY <1>1
<1>2. CASE s = 1 /\ c = 2
  BY <1>2
<1>3. CASE s = 2 /\ c = 1
  BY <1>3
<1>4. CASE s = 2 /\ c = 2
  BY <1>4
<1> QED
  BY <1>1, <1>2, <1>3, <1>4

LEMMA InUnits ==
  ASSUME NEW x \in Int, NEW size \in {1, 2}, x % size = 0
  PROVE  (x \div size) * size = x
<1>1. CASE size = 1
  BY <1>1
<1>2. CASE size = 2
  BY <1>2
<1> QED
  BY <1>1, <1>2

---------------------------------------------------------------------------
(* The interrupt and a client that programs its transfers as it should:     *)
(* what plays is properly programmed all the time, and the interrupt's loop *)
(* works with the format in force.                                          *)
PlayingInv ==
  /\ IsrInv
  /\ Started => Programmed
  /\ isr = "loop" => Started
  /\ Started /\ isr \in {"loop", "irq"} => FormatRead

LEMMA FormatType ==
  /\ SampleSize \in {1, 2} /\ GetChannels \in {1, 2}
  /\ FrameBytes \in {1, 2, 4}
<1>1. SampleSize \in {1, 2} /\ GetChannels \in {1, 2}
  BY DEF SampleSize, GetChannels, ChannelsOf
<1> QED
  BY <1>1 DEF FrameBytes

LEMMA FramesAdd ==
  ASSUME NEW f \in {1, 2, 4}, NEW a \in Int, NEW b \in Int, a % f = 0, b % f = 0
  PROVE  (a + b) % f = 0 /\ (a - b) % f = 0
BY SumOfMultiples

(* There is one channel in use, and the one that counts in words plays      *)
(* 16-bit samples.                                                          *)
LEMMA OneChannel ==
  ASSUME ConfiguredChannels, Assigned, Bits \in {8, 16}
  PROVE  \E c \in Channels : DmaInUse = {c} /\ (SizeOf(c) = 2 => SampleSize = 2)
<1>1. MixerRegs[DMA_SETUP] = {DMA, HDMA} /\ {DMA, HDMA} # {}
  BY SetupChannels DEF Assigned
<1>2. DMA \in Int /\ HDMA \in Int /\ DMA <= HDMA /\ DMA <= 3
  BY MixerAssumption DEF ConfiguredChannels
<1>3. GetDMA = DMA
  <2>1. BSF({DMA, HDMA}) = DMA
    <3>1. \E b \in {DMA, HDMA} : \A c \in {DMA, HDMA} : b <= c
      BY <1>2
    <3>2. /\ BSF({DMA, HDMA}) \in {DMA, HDMA}
          /\ \A c \in {DMA, HDMA} : BSF({DMA, HDMA}) <= c
      BY <3>1 DEF BSF
    <3> QED
      BY <3>2, <1>2
  <2> QED
    BY <1>1, <2>1, Zenon DEF GetDMA
<1>4. {DMA, HDMA} \subseteq Channels
  BY IsrAssumption
<1>5. CASE Bits <= 8 \/ ~IsSB16
  <2>1. DmaInUse = {DMA}
    BY <1>3, <1>5 DEF DmaInUse
  <2>2. SizeOf(DMA) = 1
    BY <1>2 DEF SizeOf
  <2> QED
    BY <1>4, <2>1, <2>2
<1>6. CASE ~(Bits <= 8) /\ IsSB16
  <2>1. {b \in {DMA, HDMA} : b >= 4} = {HDMA} /\ {HDMA} # {}
    BY <1>2, <1>6 DEF ConfiguredChannels
  <2>2. BSF({HDMA}) = HDMA
    BY <1>2, LeastOfSet
  <2>3. GetHDMA = {HDMA}
    BY <1>1, <2>1, <2>2, Zenon DEF GetHDMA
  <2>4. DmaInUse = {HDMA}
    BY <1>6, <2>3 DEF DmaInUse
  <2>5. SampleSize = 2
    BY <1>6 DEF SampleSize
  <2> QED
    BY <1>4, <2>4, <2>5
<1> QED
  BY <1>5, <1>6

(* The samples of a pass are in the buffer and in the block.                *)
LEMMA PassFits ==
  ASSUME ConfiguredChannels, PlayingInv, isr = "loop"
  PROVE  /\ Started /\ dma \in Channels /\ DmaInUse = {dma}
         /\ SizeOf(dma) = 2 => FrameBytes \in {2, 4}
         /\ Bytes \in Nat /\ Bytes > 0 /\ Bytes % FrameBytes = 0
         /\ Bytes <= GetCounter(dma) /\ Bytes <= GetSampleBytes - Pos
<1>1. /\ Started /\ Programmed /\ FormatRead /\ Assigned
      /\ IInv /\ VdmaTypeOK /\ LocalOK /\ left > 0
  BY DEF PlayingInv, IsrInv, RoomLeft, Untouched
<1>2. Bits \in {8, 16} /\ dma \in DmaInUse /\ samplesize = SampleSize /\ channels = GetChannels
  BY <1>1 DEF Programmed, FormatRead
<1>3. /\ dma \in Channels /\ DmaInUse = {dma}
      /\ SizeOf(dma) = 2 => SampleSize = 2
  <2>1. PICK c \in Channels : DmaInUse = {c} /\ (SizeOf(c) = 2 => SampleSize = 2)
    BY <1>1, <1>2, OneChannel
  <2> QED
    BY <1>2, <2>1
<1>4. /\ GetCounter(dma) > 0 /\ GetCounter(dma) % FrameBytes = 0
      /\ Pos % FrameBytes = 0 /\ GetSampleBytes % FrameBytes = 0 /\ Pos < GetSampleBytes
  BY <1>1, <1>3 DEF Programmed, InBuffer, FrameAligned
<1>5. GetCounter(dma) \in Nat
  BY <1>1, <1>3, CounterType
<1>6. GetSampleBytes \in Nat /\ Pos \in Nat
  BY <1>1, BlockLength DEF IInv, DspTypeOK, TransferOK
<1> DEFINE rest == GetSampleBytes - Pos
<1>7. rest \in Nat /\ rest > 0 /\ rest % FrameBytes = 0
  <2>1. rest \in Nat /\ rest > 0
    BY <1>4, <1>6
  <2>2. FrameBytes \in {1, 2, 4} /\ GetSampleBytes \in Int /\ Pos \in Int
    BY <1>6, FormatType
  <2>3. (GetSampleBytes - Pos) % FrameBytes = 0
    BY <1>4, <2>2, FramesAdd, Zenon
  <2> QED
    BY <2>1, <2>3
<1>8. /\ samplesize \in {1, 2} /\ channels \in {1, 2}
      /\ FrameBytes = samplesize * channels
  BY <1>2, FormatType DEF FrameBytes
<1>9. /\ DmaFrames \in Nat /\ DmaFrames >= 1
      /\ DmaFrames * samplesize * channels = GetCounter(dma)
  <2>1. /\ Frames(GetCounter(dma)) \in Nat /\ Frames(GetCounter(dma)) >= 1
        /\ Frames(GetCounter(dma)) * samplesize * channels = GetCounter(dma)
    BY <1>4, <1>5, <1>8, WholePass DEF Frames
  <2>2. DmaFrames = Frames(GetCounter(dma))
    BY <2>1 DEF DmaFrames, AtLeastOne
  <2> QED
    BY <2>1, <2>2
<1>10. /\ SbFrames \in Nat /\ SbFrames >= 1
       /\ SbFrames * samplesize * channels = rest
  <2>1. /\ Frames(rest) \in Nat /\ Frames(rest) >= 1
        /\ Frames(rest) * samplesize * channels = rest
    BY <1>7, <1>8, WholePass DEF Frames
  <2>2. SbFrames = Frames(rest)
    BY <1>4, <1>6, <2>1 DEF SbFrames, AtLeastOne
  <2> QED
    BY <2>1, <2>2
<1> HIDE DEF rest
<1>11. left \in Nat
  BY <1>1 DEF LocalOK
<1>12. Count \in Nat /\ Count >= 1 /\ Count <= DmaFrames /\ Count <= SbFrames
  BY <1>1, <1>9, <1>10, <1>11 DEF Count, Least
<1>13. /\ Bytes \in Nat /\ Bytes > 0 /\ Bytes % FrameBytes = 0
       /\ Bytes <= GetCounter(dma) /\ Bytes <= rest
  <2>1. /\ Bytes \in Nat /\ Bytes > 0
        /\ Bytes <= DmaFrames * samplesize * channels /\ Bytes % (samplesize * channels) = 0
    BY <1>8, <1>9, <1>12, PartOfPass DEF Bytes
  <2>2. Bytes <= SbFrames * samplesize * channels
    BY <1>8, <1>10, <1>12, PartOfPass DEF Bytes
  <2> QED
    BY <1>8, <1>9, <1>10, <2>1, <2>2
<1>14. SizeOf(dma) = 2 => FrameBytes \in {2, 4}
  BY <1>3, FormatType DEF FrameBytes
<1> QED
  BY <1>1, <1>3, <1>13, <1>14 DEF rest

---------------------------------------------------------------------------
(* Where a report leaves the channel. *)
LEMMA MovedFields ==
  ASSUME NEW ch, ChannelOK(ch), NEW size \in {1, 2}, NEW index \in Int, NEW counter \in Int
  PROVE  LET done  == counter <= 0
             again == done /\ "auto" \in ch.mode
             moved == MovedTo(ch, size, index, counter)
         IN  /\ moved.index = (IF again THEN 0 ELSE index \div size)
             /\ moved.cur = (IF again THEN ch.counter ELSE IF done THEN Word ELSE counter \div size)
             /\ moved.counter = ch.counter /\ moved.mode = ch.mode
BY DEF MovedTo, ChannelOK, ChannelState

LEMMA SameShown ==
  ASSUME NEW ch, ChannelOK(ch)
  PROVE  /\ Refreshed(ch).counter = ch.counter /\ Refreshed(ch).mode = ch.mode
         /\ LET late == [ch EXCEPT !.delayed = TRUE]
            IN  /\ late.index = ch.index /\ late.cur = ch.cur
                /\ late.counter = ch.counter /\ late.mode = ch.mode
<1> DEFINE reg  == [r \in Registers |-> IF r = "addr" THEN (ch.addr + ch.index) % Word
                                        ELSE (ch.cur - 1) % Word]
           page == ((ch.addr + ch.index) \div Word) % Base
<1>1. Refreshed(ch) = [ch EXCEPT !.reg = reg, !.page = page]
  BY DEF Refreshed
<1> HIDE DEF reg, page
<1> QED
  BY <1>1 DEF ChannelOK, ChannelState

LEMMA ReportFields ==
  ASSUME VdmaTypeOK, NEW c \in Channels, NEW index \in Int, NEW counter \in Int,
         counter <= Word * SizeOf(c), SetIndexCounter(c, index, counter)
  PROVE  LET done  == counter <= 0
             again == done /\ "auto" \in Channel[c].mode
         IN  /\ Channel'[c].index = (IF again THEN 0 ELSE index \div SizeOf(c))
             /\ Channel'[c].cur = (IF again THEN Channel[c].counter
                                   ELSE IF done THEN Word ELSE counter \div SizeOf(c))
             /\ Channel'[c].counter = Channel[c].counter
             /\ Channel'[c].mode = Channel[c].mode
<1> DEFINE moved == MovedTo(Channel[c], SizeOf(c), index, counter)
           ch    == IF moved.inIO THEN [moved EXCEPT !.delayed = TRUE] ELSE Refreshed(moved)
<1>1. Channel' = [Channel EXCEPT ![c] = ch]
  BY DEF SetIndexCounter
<1>2. Channel'[c] = ch
  BY <1>1 DEF VdmaTypeOK
<1>3. ChannelOK(Channel[c]) /\ SizeOf(c) \in {1, 2}
  BY ChannelsOK
<1>4. ChannelOK(moved)
  BY <1>3, MovedToOK
<1>5. LET done  == counter <= 0
          again == done /\ "auto" \in Channel[c].mode
      IN  /\ moved.index = (IF again THEN 0 ELSE index \div SizeOf(c))
          /\ moved.cur = (IF again THEN Channel[c].counter
                          ELSE IF done THEN Word ELSE counter \div SizeOf(c))
          /\ moved.counter = Channel[c].counter /\ moved.mode = Channel[c].mode
  BY <1>3, MovedFields
<1> HIDE DEF moved
<1>6. /\ ch.index = moved.index /\ ch.cur = moved.cur
      /\ ch.counter = moved.counter /\ ch.mode = moved.mode
  BY <1>4, RefreshedOK, SameShown
<1> HIDE DEF ch
<1> QED
  BY <1>2, <1>5, <1>6

---------------------------------------------------------------------------
(* Steps that leave the transfer alone leave it well programmed. *)
LEMMA FormatKept ==
  ASSUME UNCHANGED Bits, MixerRegs'[DMA_SETUP] = MixerRegs[DMA_SETUP],
         MixerRegs'[MODEFILTER] = MixerRegs[MODEFILTER]
  PROVE  /\ DmaInUse' = DmaInUse /\ SampleSize' = SampleSize /\ GetChannels' = GetChannels
         /\ FrameBytes' = FrameBytes
<1>1. GetDMA' = GetDMA /\ GetHDMA' = GetHDMA
  BY Zenon DEF GetDMA, GetHDMA
<1>2. DmaInUse' = DmaInUse
  BY <1>1, Zenon DEF DmaInUse
<1>3. SampleSize' = SampleSize
  BY Zenon DEF SampleSize
<1>4. GetChannels' = GetChannels
  BY Zenon DEF GetChannels, ChannelsOf, StereoSet
<1> QED
  BY <1>2, <1>3, <1>4, Zenon DEF FrameBytes

LEMMA ProgrammedKept ==
  ASSUME UNCHANGED <<Bits, Samples, Pos, AutoMode, MixerRegs, Channel>>
  PROVE  /\ Programmed => Programmed'
         /\ FormatRead /\ (UNCHANGED <<dma, samplesize, channels>>) => FormatRead'
<1>1. /\ DmaInUse' = DmaInUse /\ SampleSize' = SampleSize /\ GetChannels' = GetChannels
      /\ FrameBytes' = FrameBytes
  BY FormatKept, Zenon
<1>2. GetSampleBytes' = GetSampleBytes
  BY Zenon DEF GetSampleBytes
<1>3. ASSUME NEW c
      PROVE  /\ InBuffer(c) => InBuffer(c)'
             /\ FrameAligned(c) => FrameAligned(c)'
             /\ Commensurate(c) => Commensurate(c)'
             /\ LastsLongEnough(c) => LastsLongEnough(c)'
             /\ Agree(c) => Agree(c)'
  <2>1. /\ GetIndex(c)' = GetIndex(c) /\ GetCounter(c)' = GetCounter(c)
        /\ BufferBytes(c)' = BufferBytes(c) /\ GetAuto(c)' = GetAuto(c)
    BY Zenon DEF GetIndex, GetCounter, BufferBytes, GetAuto
  <2>2. InBuffer(c) => InBuffer(c)'
    BY <2>1, Zenon DEF InBuffer
  <2>3. FrameAligned(c) => FrameAligned(c)'
    BY <1>1, <1>2, <2>1, Zenon DEF FrameAligned
  <2>4. Commensurate(c) => Commensurate(c)'
    BY <1>2, <2>1, Zenon DEF Commensurate
  <2>5. LastsLongEnough(c) => LastsLongEnough(c)'
    BY <1>2, <2>1, Zenon DEF LastsLongEnough
  <2>6. Agree(c) => Agree(c)'
    BY <1>2, <2>1, Zenon DEF Agree
  <2> QED
    BY <2>2, <2>3, <2>4, <2>5, <2>6, Zenon
<1>4. Programmed => Programmed'
  BY <1>1, <1>2, <1>3, Zenon DEF Programmed
<1>5. FormatRead /\ (UNCHANGED <<dma, samplesize, channels>>) => FormatRead'
  BY <1>1, Zenon DEF FormatRead
<1> QED
  BY <1>4, <1>5

(* The pass that completes the buffer lets an auto-mode channel start over,  *)
(* the one that completes the block lets an auto-mode transfer start over:  *)
(* what goes on playing is programmed as before.                            *)
LEMMA PlayPassProgrammed ==
  ASSUME ConfiguredChannels, PlayingInv, PlayPass, Started'
  PROVE  Programmed' /\ FormatRead'
<1>1. /\ isr = "loop"
      /\ UNCHANGED <<dma, samplesize, channels>>
      /\ SetIndexCounter(dma, GetIndex(dma) + Bytes, GetCounter(dma) - Bytes)
      /\ Play(Pos + Bytes)
  BY Zenon DEF PlayPass
<1>2. /\ Started /\ Programmed /\ FormatRead
      /\ MixerTypeOK /\ TransferOK /\ VdmaTypeOK
  BY <1>1 DEF PlayingInv, IsrInv, IInv, DspTypeOK
<1>3. /\ dma \in Channels /\ DmaInUse = {dma}
      /\ SizeOf(dma) = 2 => FrameBytes \in {2, 4}
      /\ Bytes \in Nat /\ Bytes > 0 /\ Bytes % FrameBytes = 0
      /\ Bytes <= GetCounter(dma) /\ Bytes <= GetSampleBytes - Pos
  BY <1>1, PassFits
(* The state before. *)
<1>4. PICK c \in Channels : c = dma
  BY <1>3
<1>5. PICK size \in {1, 2} : size = SizeOf(c)
  BY DEF SizeOf
<1>6. PICK f \in {1, 2, 4} : f = FrameBytes /\ (size = 2 => f \in {2, 4})
  BY <1>3, <1>4, <1>5, FormatType
<1>7. PICK at \in Int : at = GetIndex(c)
  BY <1>2, CounterType
<1>8. PICK rest \in Nat : rest = GetCounter(c)
  BY <1>2, CounterType
<1>9. PICK block \in Nat : block = GetSampleBytes
  BY <1>2, BlockLength
<1>10. PICK pos \in Nat : pos = Pos
  BY <1>2 DEF TransferOK
<1>11. PICK n \in Nat : n = Bytes
  BY <1>3
<1>12. PICK buffer \in Int : buffer = BufferBytes(c)
  <2>1. BufferBytes(c) = GetIndex(c) + GetCounter(c)
    BY <1>2, <1>3, <1>4 DEF Programmed, InBuffer
  <2> QED
    BY <1>7, <1>8, <2>1
<1>13. /\ at >= 0 /\ rest > 0 /\ at + rest = buffer /\ pos < block
       /\ at % f = 0 /\ rest % f = 0 /\ pos % f = 0 /\ block % f = 0
       /\ block % buffer = 0 \/ buffer % block = 0
       /\ (at - pos) % Least(block, buffer) = 0
  BY <1>2, <1>3, <1>4, <1>6, <1>7, <1>8, <1>9, <1>10, <1>12, Zenon
  DEF Programmed, InBuffer, FrameAligned, Commensurate, Agree
<1>14. GetAuto(c) \/ (~AutoMode /\ block - pos <= rest)
  BY <1>2, <1>3, <1>4, <1>8, <1>9, <1>10, Zenon DEF Programmed, LastsLongEnough
<1>15. n > 0 /\ n % f = 0 /\ n <= rest /\ n <= block - pos
  BY <1>3, <1>4, <1>6, <1>8, <1>9, <1>10, <1>11
(* What stays. *)
<1>16. /\ UNCHANGED <<Bits, Samples, AutoMode>>
       /\ MixerRegs'[DMA_SETUP] = MixerRegs[DMA_SETUP]
       /\ MixerRegs'[MODEFILTER] = MixerRegs[MODEFILTER]
  <2>1. UNCHANGED <<Bits, Samples, AutoMode>>
    BY <1>1, Zenon DEF Play
  <2>2. MixerRegs'[DMA_SETUP] = MixerRegs[DMA_SETUP]
    BY <1>1, <1>2, SetupKept, Zenon DEF Play
  <2>3. \A bit : WithStatus(bit)[MODEFILTER] = MixerRegs[MODEFILTER]
    BY <1>2, MixerAssumption DEF MixerTypeOK, WithStatus, MODEFILTER, INT_STS
  <2>4. MixerRegs'[MODEFILTER] = MixerRegs[MODEFILTER]
    BY <1>1, <2>3, Zenon DEF Play
  <2> QED
    BY <2>1, <2>2, <2>4
<1>17. /\ DmaInUse' = {c} /\ SampleSize' = SampleSize /\ GetChannels' = GetChannels
       /\ FrameBytes' = f
  BY <1>3, <1>4, <1>6, <1>16, FormatKept, Zenon
<1>18. GetSampleBytes' = block
  BY <1>9, <1>16, Zenon DEF GetSampleBytes
(* The new position in the buffer ... *)
<1>19. /\ SetIndexCounter(c, at + n, rest - n)
       /\ rest - n \in Int /\ at + n \in Int /\ rest - n <= Word * SizeOf(c)
  BY <1>1, <1>2, <1>4, <1>7, <1>8, <1>11, <1>15, CounterType
<1>20. LET done  == rest - n <= 0
           again == done /\ "auto" \in Channel[c].mode
       IN  /\ Channel'[c].index = (IF again THEN 0 ELSE (at + n) \div size)
           /\ Channel'[c].cur = (IF again THEN Channel[c].counter
                                 ELSE IF done THEN Word ELSE (rest - n) \div size)
           /\ Channel'[c].counter = Channel[c].counter
           /\ Channel'[c].mode = Channel[c].mode
  BY <1>2, <1>5, <1>19, ReportFields
<1>21. BufferBytes(c)' = buffer /\ (GetAuto(c)' <=> GetAuto(c))
  BY <1>12, <1>20, Zenon DEF BufferBytes, GetAuto
<1>22. /\ (at + n) % f = 0 /\ (rest - n) % f = 0 /\ (pos + n) % f = 0 /\ buffer % f = 0
  <2>1. at \in Int /\ rest \in Int /\ pos \in Int /\ n \in Int
    OBVIOUS
  <2>2. (at + n) % f = 0 /\ (rest - n) % f = 0 /\ (pos + n) % f = 0 /\ (at + rest) % f = 0
    BY <1>13, <1>15, <2>1, FramesAdd, Zenon
  <2> QED
    BY <1>13, <2>2
<1>23. (at + n) % size = 0 /\ (rest - n) % size = 0
  <2>1. ASSUME NEW x \in Int, x % f = 0 PROVE x % size = 0
    <3>1. CASE size = 1
      BY <3>1
    <3>2. CASE size = 2 /\ f = 2
      BY <2>1, <3>2
    <3>3. CASE size = 2 /\ f = 4
      BY <2>1, <3>3
    <3> QED
      BY <1>6, <3>1, <3>2, <3>3
  <2>2. rest - n \in Int
    OBVIOUS
  <2> QED
    BY <1>22, <2>1, <2>2
<1>24. /\ ((at + n) \div size) * size = at + n
       /\ ((rest - n) \div size) * size = rest - n
  BY <1>23, InUnits
<1>25. n = rest => GetAuto(c)
  <2> SUFFICES ASSUME n = rest, ~GetAuto(c) PROVE FALSE
    OBVIOUS
  <2>1. ~AutoMode /\ pos + n >= block
    BY <1>14, <1>15
  <2>2. BlockEnded(Pos + Bytes)
    BY <2>1, <1>9, <1>10, <1>11 DEF BlockEnded
  <2> QED
    BY <1>1, <2>1, <2>2, Zenon DEF Play
<1>26. \/ GetIndex(c)' = at + n /\ GetCounter(c)' = rest - n /\ n < rest
       \/ GetIndex(c)' = 0 /\ GetCounter(c)' = buffer /\ n = rest
  <2>1. CASE n < rest
    <3>1. Channel'[c].index = (at + n) \div size /\ Channel'[c].cur = (rest - n) \div size
      BY <1>20, <2>1
    <3> QED
      BY <1>5, <1>24, <2>1, <3>1, Zenon DEF GetIndex, GetCounter
  <2>2. CASE n = rest
    <3>1. Channel'[c].index = 0 /\ Channel'[c].cur = Channel[c].counter
      BY <1>20, <1>25, <2>2 DEF GetAuto
    <3>2. GetIndex(c)' = 0 * size /\ GetCounter(c)' = BufferBytes(c)
      BY <1>5, <3>1, Zenon DEF GetIndex, GetCounter, BufferBytes
    <3> QED
      BY <1>12, <2>2, <3>2
  <2> QED
    BY <1>15, <2>1, <2>2
(* ... and in the block. *)
<1>27. \/ Pos' = pos + n /\ pos + n < block
       \/ Pos' = 0 /\ pos + n = block
  <2>1. Pos' = IF pos + n >= block THEN 0 ELSE pos + n
    BY <1>1, <1>9, <1>10, <1>11, Zenon DEF Play, BlockEnded
  <2> QED
    BY <1>15, <2>1
<1>28. block > 0 /\ 0 % f = 0
  BY <1>13
<1>29. InBuffer(c)'
  BY <1>13, <1>15, <1>21, <1>26 DEF InBuffer
<1>30. FrameAligned(c)'
  BY <1>13, <1>17, <1>18, <1>22, <1>26, <1>27, <1>28, Zenon DEF FrameAligned
<1>31. Commensurate(c)'
  BY <1>13, <1>18, <1>21, Zenon DEF Commensurate
<1>32. LastsLongEnough(c)'
  <2>1. CASE GetAuto(c)
    BY <1>21, <2>1 DEF LastsLongEnough
  <2>2. CASE ~GetAuto(c)
    <3>1. ~AutoMode /\ n < rest /\ block - pos <= rest
      BY <1>14, <1>15, <1>25, <2>2
    <3>2. ~BlockEnded(Pos + Bytes)
      BY <1>1, <3>1, Zenon DEF Play
    <3>3. pos + n < block
      BY <3>2, <1>9, <1>10, <1>11 DEF BlockEnded
    <3> QED
      BY <1>16, <1>18, <1>26, <1>27, <3>1, <3>3 DEF LastsLongEnough
  <2> QED
    BY <2>1, <2>2
<1>33. Agree(c)'
  <2> DEFINE m == Least(block, buffer)
  <2>1. /\ buffer \in Nat /\ buffer > 0
        /\ m \in Nat /\ m > 0 /\ block % m = 0 /\ buffer % m = 0 /\ (at - pos) % m = 0
    <3>1. buffer \in Nat /\ buffer > 0
      BY <1>13
    <3> QED
      BY <1>13, <1>28, <3>1, SmallerDivides
  <2> HIDE DEF m
  <2>2. /\ at - pos \in Int /\ (at - pos) + block \in Int
        /\ block \in Int /\ buffer \in Int
    OBVIOUS
  <2>3. /\ ((at - pos) + block) % m = 0 /\ ((at - pos) - buffer) % m = 0
        /\ (((at - pos) + block) - buffer) % m = 0
    BY <2>1, <2>2, SumOfMultiples, Zenon
  <2>4. GetIndex(c)' - Pos' \in {at - pos, (at - pos) + block, (at - pos) - buffer,
                                ((at - pos) + block) - buffer}
    BY <1>13, <1>26, <1>27
  <2>5. (GetIndex(c)' - Pos') % m = 0
    BY <2>1, <2>3, <2>4
  <2> QED
    BY <1>18, <1>21, <2>5, Zenon DEF Agree, m
<1>34. Bits' \in {8, 16} /\ Pos' < GetSampleBytes'
  BY <1>2, <1>16, <1>18, <1>27, <1>28 DEF Programmed
<1>35. Programmed'
  BY <1>17, <1>29, <1>30, <1>31, <1>32, <1>33, <1>34 DEF Programmed
<1>36. FormatRead'
  BY <1>1, <1>2, <1>4, <1>17 DEF FormatRead
<1> QED
  BY <1>35, <1>36

---------------------------------------------------------------------------
(* A step of the client as WellProgrammed asks for it. *)
ClientRule ==
  (ProgramStep \/ HandlerStep) /\ Started' => Programmed' /\ (isr = "irq" => FormatRead')

LEMMA PlayingInit == ResetsFirst /\ IsrInit => PlayingInv
<1> SUFFICES ASSUME ResetsFirst, IsrInit PROVE PlayingInv
  OBVIOUS
<1>1. IsrInv
  BY IsrInitInv
<1>2. ~Started /\ isr = "idle"
  BY DEF IsrInit, DspInit
<1> QED
  BY <1>1, <1>2 DEF PlayingInv

(* What the host does but to play leaves the transfer alone or stops it.    *)
LEMMA HostKeeps ==
  ASSUME Started => Programmed, Started',
         \/ UNCHANGED dspVars \/ ClearTrigger \/ CountDetection \/ ResetDirect
  PROVE  /\ Started /\ UNCHANGED <<Bits, Samples, Pos, AutoMode, MixerRegs>>
         /\ (UNCHANGED vdmaVars) => Programmed'
<1>1. Started /\ UNCHANGED <<Bits, Samples, Pos, AutoMode, MixerRegs>>
  BY Zenon DEF dspVars, xferVars, mixerVars, ClearTrigger, CountDetection, ResetDirect
<1>2. (UNCHANGED vdmaVars) => UNCHANGED Channel
  BY Zenon DEF vdmaVars
<1> QED
  BY <1>1, <1>2, ProgrammedKept, Zenon

LEMMA PlayingNext ==
  ASSUME ConfiguredChannels, ResetsFirst, PlayingInv, [IsrNext]_isrVars,
         ClientRule \/ UNCHANGED isrVars
  PROVE  PlayingInv'
<1>1. IsrInv'
  BY IsrNextInv DEF PlayingInv
<1>2. Started => Programmed
  BY DEF PlayingInv
<1>3. CASE (ProgramStep \/ HandlerStep) /\ ~UNCHANGED isrVars
  <2>1. Started' => Programmed' /\ (isr = "irq" => FormatRead')
    BY <1>3 DEF ClientRule
  <2>2. isr' = isr /\ isr \in {"idle", "trigger", "irq"}
    BY <1>3, Zenon DEF ProgramStep, HandlerStep
  <2> QED
    BY <1>1, <2>1, <2>2 DEF PlayingInv
<1>4. CASE NextScript \/ Tick \/ TriggerDone \/ SetUpSilent
  <2>1. /\ isr' \in {"idle", "trigger", "setup"} /\ UNCHANGED vdmaVars
        /\ UNCHANGED dspVars \/ ClearTrigger \/ ResetDirect
    <3>1. CASE NextScript
      BY <3>1 DEF NextScript
    <3>2. CASE Tick
      BY <3>2 DEF Tick
    <3>3. CASE TriggerDone
      BY <3>3 DEF TriggerDone
    <3>4. CASE SetUpSilent
      BY <3>4 DEF SetUpSilent
    <3> QED
      BY <1>4, <3>1, <3>2, <3>3, <3>4
  <2>2. Started' => Programmed'
    BY <1>2, <2>1, HostKeeps
  <2> QED
    BY <1>1, <2>1, <2>2 DEF PlayingInv
<1>5. CASE SetUp
  <2>1. /\ Started /\ UNCHANGED <<dspVars, vdmaVars>>
        /\ \/ isr' = "idle"
           \/ isr' = "loop" /\ dma' \in DmaInUse /\ samplesize' = SampleSize /\ channels' = GetChannels
    BY <1>5, Zenon DEF SetUp
  <2>2. UNCHANGED <<Started, Bits, MixerRegs>>
    BY <2>1, Zenon DEF dspVars, xferVars, mixerVars
  <2>3. Programmed'
    BY <1>2, <2>1, <2>2, HostKeeps
  <2>4. isr' = "loop" => FormatRead'
    BY <2>1, <2>2, FormatKept DEF FormatRead
  <2>5. isr' \in {"idle", "loop"}
    BY <2>1
  <2> QED
    BY <1>1, <2>1, <2>2, <2>3, <2>4, <2>5 DEF PlayingInv
<1>6. CASE PlayPass
  <2>1. Started' => Programmed' /\ FormatRead'
    BY <1>6, PlayPassProgrammed
  <2>2. isr' = "loop" => Started'
    BY <1>6 DEF PlayPass, GoesOn
  <2> QED
    BY <1>1, <2>1, <2>2 DEF PlayingInv
<1>7. CASE BlockDone
  <2>1. /\ isr = "irq" /\ UNCHANGED <<vdmaVars, dma, samplesize, channels>>
        /\ \/ CountDetection /\ isr' = "idle"
           \/ UNCHANGED dspVars /\ isr' = (IF GetAuto(dma) /\ left > 0 /\ Started THEN "loop" ELSE "idle")
    BY <1>7, Zenon DEF BlockDone
  <2>2. Started' => Programmed' /\ Started /\ UNCHANGED <<Bits, MixerRegs>>
    BY <1>2, <2>1, HostKeeps
  <2>3. isr' \in {"idle", "loop"} /\ (isr' = "loop" => Started /\ UNCHANGED dspVars)
    BY <2>1
  <2>4. isr' = "loop" => Started'
    <3>1. (UNCHANGED dspVars) => (Started => Started')
      BY Zenon DEF dspVars, xferVars
    <3> QED
      BY <2>3, <3>1
  <2>5. Started => FormatRead
    BY <2>1 DEF PlayingInv
  <2>6. Started' => FormatRead'
    BY <2>1, <2>2, <2>5, FormatKept DEF FormatRead
  <2> QED
    BY <1>1, <2>2, <2>3, <2>4, <2>6 DEF PlayingInv
<1>8. CASE UNCHANGED isrVars
  <2>1. UNCHANGED <<dspVars, vdmaVars, localVars>> /\ UNCHANGED isr
    BY <1>8, Zenon DEF isrVars
  <2>2. Started' => Programmed' /\ Started /\ UNCHANGED <<Bits, Samples, Pos, AutoMode, MixerRegs>>
    BY <1>2, <2>1, HostKeeps
  <2>3. UNCHANGED <<Started, Channel, dma, samplesize, channels>>
    BY <2>1, Zenon DEF dspVars, xferVars, vdmaVars, localVars
  <2>4. Started /\ isr \in {"loop", "irq"} => FormatRead'
    BY <2>2, <2>3, ProgrammedKept DEF PlayingInv
  <2> QED
    BY <1>1, <2>1, <2>2, <2>3, <2>4 DEF PlayingInv
<1> QED
  BY <1>3, <1>4, <1>5, <1>6, <1>7, <1>8, Zenon DEF IsrNext, Interrupt

THEOREM PlayingHolds ==
  ConfiguredChannels /\ ResetsFirst => (IsrSpec /\ WellProgrammed => []PlayingInv)
<1> SUFFICES ASSUME ConfiguredChannels, ResetsFirst
             PROVE  IsrSpec /\ WellProgrammed => []PlayingInv
  OBVIOUS
<1>1. IsrInit => PlayingInv
  BY PlayingInit
<1>2. PlayingInv /\ [IsrNext]_isrVars /\ [ClientRule]_isrVars => PlayingInv'
  BY PlayingNext
<1>3. WellProgrammed => [][ClientRule]_isrVars
  BY PTL DEF WellProgrammed, ClientRule
<1> QED
  BY <1>1, <1>2, <1>3, PTL DEF IsrSpec

(* The three below follow for every program and handler, however the        *)
(* interrupt falls between their accesses, if no access leaves a transfer   *)
(* playing that is badly programmed.                                        *)

(* The DSP's position in the block and the channel's in the buffer agree.   *)
THEOREM InStepHolds ==
  ConfiguredChannels /\ ResetsFirst => (IsrSpec /\ WellProgrammed => []InStep)
<1> SUFFICES ASSUME ConfiguredChannels, ResetsFirst
             PROVE  IsrSpec /\ WellProgrammed => []InStep
  OBVIOUS
<1>1. PlayingInv => InStep
  <2> SUFFICES ASSUME PlayingInv, Started PROVE \E c \in DmaInUse : Agree(c)
    BY DEF InStep
  <2>1. Programmed /\ Assigned
    BY DEF PlayingInv, IsrInv, Untouched
  <2>2. PICK c \in Channels : DmaInUse = {c}
    BY <2>1, OneChannel DEF Programmed
  <2> QED
    BY <2>1, <2>2 DEF Programmed
<1> QED
  BY <1>1, PlayingHolds, PTL

(* The interrupt fetches nothing beyond the buffer the client programmed.   *)
THEOREM FetchInBufferHolds ==
  ConfiguredChannels /\ ResetsFirst => (IsrSpec /\ WellProgrammed => []FetchInBuffer)
<1> SUFFICES ASSUME ConfiguredChannels, ResetsFirst
             PROVE  IsrSpec /\ WellProgrammed => []FetchInBuffer
  OBVIOUS
<1>1. PlayingInv => FetchInBuffer
  <2> SUFFICES ASSUME PlayingInv, isr = "loop"
               PROVE  GetIndex(dma) + Bytes <= BufferBytes(dma)
    BY DEF FetchInBuffer
  <2>1. /\ Started /\ dma \in Channels /\ DmaInUse = {dma}
        /\ Bytes \in Nat /\ Bytes <= GetCounter(dma)
    BY PassFits
  <2>2. GetIndex(dma) + GetCounter(dma) = BufferBytes(dma)
    BY <2>1 DEF PlayingInv, Programmed, InBuffer
  <2>3. GetIndex(dma) \in Int /\ GetCounter(dma) \in Nat
    BY <2>1, CounterType DEF PlayingInv, IsrInv
  <2> QED
    BY <2>1, <2>2, <2>3
<1> QED
  BY <1>1, PlayingHolds, PTL

(* No pass goes beyond the end of the block: its interrupt comes at its end. *)
THEOREM BlockExactHolds ==
  ConfiguredChannels /\ ResetsFirst => (IsrSpec /\ WellProgrammed => []BlockExact)
<1> SUFFICES ASSUME ConfiguredChannels, ResetsFirst
             PROVE  IsrSpec /\ WellProgrammed => []BlockExact
  OBVIOUS
<1>1. PlayingInv => BlockExact
  <2> SUFFICES ASSUME PlayingInv, isr = "loop" PROVE Pos + Bytes <= GetSampleBytes
    BY DEF BlockExact
  <2>1. Bytes \in Nat /\ Bytes <= GetSampleBytes - Pos
    BY PassFits
  <2>2. GetSampleBytes \in Nat /\ Pos \in Nat
    BY BlockLength DEF PlayingInv, IsrInv, IInv, DspTypeOK, TransferOK
  <2> QED
    BY <2>1, <2>2
<1> QED
  BY <1>1, PlayingHolds, PTL

---------------------------------------------------------------------------
(* The composition implements the DSP on its own: what its theorems say of  *)
(* any client and any host holds of this client and of MAIN_Interrupt.  The *)
(* host of SbDsp plays at most MaxFetch bytes at a time.                    *)
LoopInv ==
  /\ IsrInv
  /\ isr = "loop" => Started
  /\ 4 * left <= MaxFetch

LEMMA LoopInit == FetchBound /\ ResetsFirst /\ IsrInit => LoopInv
<1> SUFFICES ASSUME FetchBound, ResetsFirst, IsrInit PROVE LoopInv
  OBVIOUS
<1>1. IsrInv
  BY IsrInitInv
<1>2. isr = "idle" /\ left = 0
  BY DEF IsrInit
<1> QED
  BY <1>1, <1>2, DspAssumption DEF LoopInv

LEMMA LoopNext ==
  ASSUME FetchBound, ConfiguredChannels, ResetsFirst, LoopInv, [IsrNext]_isrVars
  PROVE  LoopInv'
<1>1. IsrInv'
  BY IsrNextInv DEF LoopInv
<1>2. left \in Nat /\ MaxFetch \in Nat /\ 4 * left <= MaxFetch
  BY DspAssumption DEF LoopInv, IsrInv, LocalOK
<1>3. CASE \/ ProgramStep \/ HandlerStep \/ NextScript \/ Tick \/ TriggerDone \/ SetUpSilent
  <2>1. isr' # "loop" /\ UNCHANGED left
    <3>1. CASE ProgramStep
      BY <3>1 DEF ProgramStep, localVars
    <3>2. CASE HandlerStep
      BY <3>2 DEF HandlerStep, localVars
    <3>3. CASE NextScript
      BY <3>3 DEF NextScript, localVars
    <3>4. CASE Tick
      BY <3>4 DEF Tick, localVars
    <3>5. CASE TriggerDone
      BY <3>5 DEF TriggerDone, localVars
    <3>6. CASE SetUpSilent
      BY <3>6 DEF SetUpSilent, localVars
    <3> QED
      BY <1>3, <3>1, <3>2, <3>3, <3>4, <3>5, <3>6
  <2> QED
    BY <1>1, <1>2, <2>1 DEF LoopInv
<1>4. CASE SetUp
  <2>1. left' \in Spaces /\ Started /\ UNCHANGED dspVars
    BY <1>4, Zenon DEF SetUp
  <2>2. (UNCHANGED dspVars) => (Started => Started')
    BY Zenon DEF dspVars, xferVars
  <2> QED
    BY <1>1, <2>1, <2>2 DEF LoopInv, FetchBound
<1>5. CASE PlayPass
  <2>1. isr = "loop" /\ left' = left - Count /\ (isr' = "loop" => Started')
    BY <1>5 DEF PlayPass, GoesOn
  <2>2. TransferOK /\ VdmaTypeOK /\ LocalOK /\ left > 0
    BY <2>1, Zenon DEF LoopInv, IsrInv, IInv, DspTypeOK, RoomLeft
  <2>3. Count \in 1 .. left
    BY <2>1, <2>2, PassLength
  <2>4. 4 * left' <= MaxFetch
    BY <1>2, <2>1, <2>3
  <2> QED
    BY <1>1, <2>1, <2>4 DEF LoopInv
<1>6. CASE BlockDone
  <2>1. /\ UNCHANGED left
        /\ isr' = "loop" => Started /\ UNCHANGED dspVars
    BY <1>6 DEF BlockDone
  <2>2. (UNCHANGED dspVars) => (Started => Started')
    BY Zenon DEF dspVars, xferVars
  <2> QED
    BY <1>1, <1>2, <2>1, <2>2 DEF LoopInv
<1>7. CASE UNCHANGED isrVars
  <2>1. UNCHANGED left /\ UNCHANGED isr /\ UNCHANGED dspVars
    BY <1>7, Zenon DEF isrVars, localVars
  <2>2. (UNCHANGED dspVars) => (Started => Started')
    BY Zenon DEF dspVars, xferVars
  <2> QED
    BY <1>1, <2>1, <2>2 DEF LoopInv
<1> QED
  BY <1>3, <1>4, <1>5, <1>6, <1>7, Zenon DEF IsrNext, Interrupt

LEMMA AccessIsDspStep ==
  ASSUME NEW a \in Accesses, Access(a)
  PROVE  [DspNext]_dspVars
<1>1. CASE DspAccess(a)
  <2>1. CASE a.op = "reset" /\ DSP_Reset(a.v)
    BY <2>1, AccessFields, Zenon DEF DspNext, DspClient
  <2>2. CASE ~(a.op = "reset" /\ DSP_Reset(a.v))
    BY <1>1, <2>2, Zenon DEF DspAccess, DspNext, DspClient
  <2> QED
    BY <2>1, <2>2
<1>2. CASE UNCHANGED dspVars
  BY <1>2
<1>3. CASE a.op = "dsp" /\ DSP_Write(a.v)
  BY <1>3, AccessFields, Zenon DEF DspNext, DspClient
<1> QED
  BY <1>1, <1>2, <1>3, Zenon DEF Access

LEMMA DspStep ==
  ASSUME LoopInv, [IsrNext]_isrVars
  PROVE  [DspNext]_dspVars
<1>1. ScriptsOK /\ VdmaTypeOK /\ LocalOK /\ TransferOK /\ FlagsOK
  BY Zenon DEF LoopInv, IsrInv, IInv, DspTypeOK
<1>2. CASE ProgramStep
  <2>1. Head(todo) \in Accesses /\ Access(Head(todo))
    BY <1>1, <1>2, AccessHead DEF ProgramStep, ScriptsOK
  <2> QED
    BY <2>1, AccessIsDspStep
<1>3. CASE HandlerStep
  <2>1. Head(handlerTodo) \in Accesses /\ Access(Head(handlerTodo))
    BY <1>1, <1>3, AccessHead DEF HandlerStep, ScriptsOK
  <2> QED
    BY <2>1, AccessIsDspStep
<1>4. CASE TriggerDone
  <2>1. ClearTrigger
    BY <1>4 DEF TriggerDone
  <2>2. CASE TriggerIRQ
    BY <2>1, <2>2, Zenon DEF DspNext, DspHost
  <2>3. CASE ~TriggerIRQ
    <3>1. UNCHANGED <<DetectionCounter, DirectCount, cmdVars, pollVars, xferVars, rateVars, mixerVars>>
      BY <2>1, Zenon DEF ClearTrigger
    <3>2. TriggerIRQ' = TriggerIRQ
      BY <1>1, <2>1, <2>3 DEF ClearTrigger, FlagsOK
    <3>3. UNCHANGED hostVars
      BY <3>1, <3>2, Zenon DEF hostVars
    <3> QED
      BY <3>1, <3>3, Zenon DEF dspVars
  <2> QED
    BY <2>2, <2>3
<1>5. CASE PlayPass
  <2>1. isr = "loop" /\ Play(Pos + Bytes)
    BY <1>5, Zenon DEF PlayPass
  <2>2. Started /\ left > 0 /\ 4 * left <= MaxFetch
    BY <2>1 DEF LoopInv, IsrInv, RoomLeft
  <2>3. Count \in 1 .. left /\ Bytes \in Nat /\ left \in Nat
    BY <1>1, <2>1, <2>2, PassLength DEF LocalOK
  <2>4. /\ Count \in Nat /\ Count >= 1 /\ Count <= left
        /\ samplesize \in {1, 2} /\ channels \in {1, 2}
    BY <1>1, <2>3 DEF LocalOK
  <2>5. Bytes > 0 /\ Bytes <= left * samplesize * channels
    BY <2>3, <2>4, PartOfPass DEF Bytes
  <2>6. left * samplesize * channels <= 4 * left
    BY <2>3, <2>4
  <2>7. Bytes \in 1 .. MaxFetch
    BY <2>2, <2>3, <2>4, <2>5, <2>6, DspAssumption
  <2> QED
    BY <2>1, <2>2, <2>7, Zenon DEF DspNext, DspHost
<1>6. CASE SetUpSilent
  BY <1>6, Zenon DEF SetUpSilent, DspNext, DspHost
<1>7. CASE BlockDone
  BY <1>7, Zenon DEF BlockDone, DspNext, DspHost
<1>8. CASE NextScript \/ Tick \/ SetUp \/ UNCHANGED isrVars
  BY <1>8, Zenon DEF NextScript, Tick, SetUp, isrVars
<1> QED
  BY <1>2, <1>3, <1>4, <1>5, <1>6, <1>7, <1>8, Zenon DEF IsrNext, Interrupt

(* MAIN_Interrupt and a client of scripts are a host and a client as SbDsp  *)
(* has them: every step is one of the DSP's or leaves it alone.             *)
THEOREM ImplementsDsp ==
  ConfiguredChannels /\ ResetsFirst /\ FetchBound => (IsrSpec => DspSpec)
<1> SUFFICES ASSUME ConfiguredChannels, ResetsFirst, FetchBound PROVE IsrSpec => DspSpec
  OBVIOUS
<1>1. IsrInit => LoopInv /\ DspInit
  BY LoopInit DEF IsrInit
<1>2. LoopInv /\ [IsrNext]_isrVars => LoopInv'
  BY LoopNext
<1>3. LoopInv /\ [IsrNext]_isrVars => [DspNext]_dspVars
  BY DspStep
<1> QED
  BY <1>1, <1>2, <1>3, PTL DEF IsrSpec, DspSpec

(* So no command is left half done, high-speed mode never outlives its      *)
(* transfer and no transfer starts in the middle of its block, whatever the *)
(* client's handler does in the middle of the sound interrupt.              *)
THEOREM DspSafe ==
  ConfiguredChannels /\ ResetsFirst /\ FetchBound =>
    (IsrSpec => [](HighSpeedSafe /\ CommandPhase /\ HighSpeedRate) /\ StartRewinds)
<1> SUFFICES ASSUME ConfiguredChannels, ResetsFirst, FetchBound
             PROVE  IsrSpec => [](HighSpeedSafe /\ CommandPhase /\ HighSpeedRate) /\ StartRewinds
  OBVIOUS
<1>1. IsrSpec => DspSpec
  BY ImplementsDsp
<1> QED
  BY <1>1, PhaseCorrect, HighSpeedCorrect, RateCorrect, StartsCorrect, PTL
=============================================================================
