---------------------------- MODULE SbDspProofs ----------------------------
(***************************************************************************)
(* The DSP keeps its type, its command phase and the conditions of         *)
(* high-speed mode for every version, configuration and client.  None of   *)
(* the three is inductive alone: a parameter count stays in its type only  *)
(* because no command waits with two bytes received (CommandPhase), so     *)
(* IInv is their conjunction.  The rate of high-speed mode, and what a     *)
(* step may never do, rest on it.                                          *)
(***************************************************************************)
EXTENDS SbDsp, TLAPS

IInv == DspTypeOK /\ CommandPhase /\ HighSpeedSafe

---------------------------------------------------------------------------
(* A quotient of naturals is a natural. *)
LEMMA DivNat ==
  ASSUME NEW n \in Nat, NEW d \in Nat, d > 0
  PROVE  n \div d \in Nat
OBVIOUS

(* A limited time constant stays below 235. *)
LEMMA LeastBelow ==
  ASSUME NEW a \in 0 .. 255, NEW b \in 0 .. 234
  PROVE  Least(a, b) \in 0 .. 234
BY DEF Least

(* No limit of UpdateTC lets the divisor 65536 - 256*tc reach 0. *)
LEMMA TCLimitBelow ==
  ASSUME NEW bits, NEW hs
  PROVE  TCLimit(bits, hs) \in 0 .. 234
<1>1. CASE bits \in {2, 3, 4}
  BY <1>1 DEF TCLimit
<1>2. CASE bits \notin {2, 3, 4}
  BY <1>2 DEF TCLimit
<1> QED
  BY <1>1, <1>2

(* A time constant gives a natural rate. *)
LEMMA TCRateType ==
  ASSUME NEW tc \in 0 .. 255, NEW bits, NEW hs, NEW channels \in {1, 2}
  PROVE  TCRate(tc, bits, hs, channels) \in Nat
<1> DEFINE limited == Least(tc, TCLimit(bits, hs))
           divisor == 65536 - 256 * limited
<1>1. limited \in 0 .. 234
  BY LeastBelow, TCLimitBelow, Zenon
<1>2. divisor \in Nat /\ divisor > 0
  BY <1>1
<1> HIDE DEF divisor
<1>3. 256000000 \div divisor \in Nat
  BY <1>2, DivNat
<1>4. (256000000 \div divisor) \div channels \in Nat
  BY <1>3, DivNat
<1> QED
  BY <1>4 DEF TCRate, divisor

(* The rates /FIXTC rounds to are naturals, and so are their halves. *)
LEMMA FixedRateType ==
  ASSUME NEW tc, NEW channels \in {1, 2}
  PROVE  FixedRate(tc) \div channels \in Nat
<1>1. FixedRate(tc) \in Nat
  BY DEF FixedRate
<1> QED
  BY <1>1, DivNat

LEMMA ChannelsType ==
  ASSUME NEW regs
  PROVE  ChannelsOf(regs) \in {1, 2}
BY DEF ChannelsOf

(* Every update of the registers the code makes keeps them bytes. *)
LEMMA RegsType ==
  ASSUME MixerTypeOK
  PROVE  /\ \A on : WithStereo(on) \in [MixerIdx -> Byte]
         /\ \A bit \in 0 .. 7 : /\ WithStatus(bit) \in [MixerIdx -> Byte]
                               /\ WithoutStatus(bit) \in [MixerIdx -> Byte]
<1>1. 1 \in 0 .. 7
  OBVIOUS
<1> QED
  BY <1>1 DEF MixerTypeOK, WithStereo, WithStatus, WithoutStatus, Byte

LEMMA ResetRegsType ==
  ASSUME MixerTypeOK
  PROVE  DspResetRegs \in [MixerIdx -> Byte]
<1>1. IntSetup \in Byte
  BY DEF IntSetup, Byte
<1>2. DmaSetup \in Byte
  BY MixerAssumption DEF DmaSetup, Byte
<1>3. (0 .. 7) \ {1} \in Byte
  BY DEF Byte
<1> QED
  BY <1>1, <1>2, <1>3 DEF DspResetRegs, MixerTypeOK

LEMMA FullVolumeType ==
  ASSUME NEW i
  PROVE  FullVolume(i) \in Byte
<1>1. /\ 1 .. 3 \in Byte /\ 1 .. 2 \in Byte /\ 0 .. 7 \in Byte
      /\ (1 .. 3) \cup (5 .. 7) \in Byte /\ 3 .. 7 \in Byte
  BY DEF Byte
<1> QED
  BY <1>1, Zenon DEF FullVolume

LEMMA NibbleType ==
  ASSUME NEW i, NEW value \in Byte, NEW old \in Byte
  PROVE  Nibble(i, value, old) \in Byte
<1>1. {b \in old : b < 4} \cup {b \in value : b >= 4} \in Byte
  BY DEF Byte
<1>2. {b \in old : b >= 4} \cup {b \in 0 .. 3 : b + 4 \in value} \in Byte
  <2>1. 0 .. 3 \subseteq 0 .. 7
    OBVIOUS
  <2> QED
    BY <2>1, Zenon DEF Byte
<1> QED
  BY <1>1, <1>2 DEF Nibble

LEMMA MixerWrittenType ==
  ASSUME MixerTypeOK, NEW value \in Byte
  PROVE  MixerWritten(value) \in [MixerIdx -> Byte]
<1> DEFINE i      == MixerRegIndex
           stored == [MixerRegs EXCEPT ![i] = value]
<1>1. stored \in [MixerIdx -> Byte]
  BY DEF MixerTypeOK
<1> HIDE DEF stored
<1>2. [j \in MixerIdx |-> IF j \in VolumeRegs THEN FullVolume(j) ELSE stored[j]]
        \in [MixerIdx -> Byte]
  BY <1>1, FullVolumeType
<1>3. ASSUME i \in VolumePairRegs
      PROVE  [stored EXCEPT ![StereoOf(i)] = Nibble(i, value, @)] \in [MixerIdx -> Byte]
  <2>1. StereoOf(i) \in MixerIdx
    BY <1>3, MixerAssumption DEF MixerTypeOK
  <2>2. Nibble(i, value, stored[StereoOf(i)]) \in Byte
    BY <2>1, <1>1, NibbleType
  <2> QED
    BY <2>2, <1>1
<1> QED
  BY <1>1, <1>2, <1>3 DEF MixerWritten, stored

(* Each part of the type speaks of the variables of one group only. *)
LEMMA Keeps ==
  /\ MixerTypeOK /\ UNCHANGED mixerVars => MixerTypeOK'
  /\ CmdOK /\ UNCHANGED cmdVars => CmdOK'
  /\ PollOK /\ UNCHANGED pollVars => PollOK'
  /\ TransferOK /\ UNCHANGED <<Bits, Samples, Pos>> => TransferOK'
  /\ RateOK /\ UNCHANGED <<SampleRate, TimeConst>> => RateOK'
  /\ HostOK /\ UNCHANGED <<DetectionCounter, DirectCount>> => HostOK'
<1>1. MixerTypeOK /\ UNCHANGED mixerVars => MixerTypeOK'
  BY DEF MixerTypeOK, mixerVars
<1>2. CmdOK /\ UNCHANGED cmdVars => CmdOK'
  BY DEF CmdOK, cmdVars
<1>3. PollOK /\ UNCHANGED pollVars => PollOK'
  BY DEF PollOK, pollVars
<1>4. TransferOK /\ UNCHANGED <<Bits, Samples, Pos>> => TransferOK'
  BY DEF TransferOK
<1>5. RateOK /\ UNCHANGED <<SampleRate, TimeConst>> => RateOK'
  BY DEF RateOK
<1>6. HostOK /\ UNCHANGED <<DetectionCounter, DirectCount>> => HostOK'
  BY DEF HostOK
<1> QED
  BY <1>1, <1>2, <1>3, <1>4, <1>5, <1>6, Zenon

(* A new command starts with no parameter and no reply outstanding. *)
LEMMA CommandInv ==
  ASSUME DspTypeOK, CommandPhase, NEW next \in {INVALID, DIRECT} \cup Writes, Command(next)
  PROVE  CmdOK' /\ PollOK' /\ CommandPhase'
<1>1. DSPDATA_Subindex = 0
  BY DspAssumption
  DEF Command, CommandPhase, DspTypeOK, PollOK, INVALID, DSP_GETVER, DSP_COPYRIGHT
<1>2. CmdOK' /\ DSPCMD_Subindex' = 0
  BY DEF Command, CmdOK
<1>3. PollOK' /\ DSPDATA_Subindex' = 0
  BY <1>1, Keeps DEF DspTypeOK, Command, pollVars
<1> QED
  BY <1>2, <1>3 DEF CommandPhase

(* A parameter leaves its command with fewer than two bytes or ends it. *)
LEMMA ParameterInv ==
  ASSUME DspTypeOK, CommandPhase, NEW cmds, NEW sub \in 0 .. 2, Parameter(cmds, sub),
         cmds \cap {INVALID, DSP_GETVER, DSP_COPYRIGHT} = {},
         sub = 1 => cmds \subseteq TwoByteCmds
  PROVE  CmdOK' /\ PollOK' /\ CommandPhase'
<1>1. DSPDATA_Subindex = 0
  <2>1. DSPCMD \notin {DSP_GETVER, DSP_COPYRIGHT}
    BY Zenon DEF Parameter
  <2> QED
    BY <2>1, DspAssumption DEF CommandPhase, DspTypeOK, PollOK
<1>2. CmdOK'
  BY DEF Parameter, DspTypeOK, CmdOK
<1>3. PollOK' /\ DSPDATA_Subindex' = 0
  BY <1>1, Keeps DEF DspTypeOK, Parameter, pollVars
<1>4. DSPCMD' # INVALID => DSPCMD_Subindex' \in 0 .. 1
  BY DEF Parameter
<1>5. DSPCMD' # INVALID /\ DSPCMD_Subindex' = 1 => DSPCMD' \in TwoByteCmds
  BY Zenon DEF Parameter
<1> QED
  BY <1>2, <1>3, <1>4, <1>5 DEF CommandPhase

LEMMA LastParameterInv ==
  ASSUME DspTypeOK, CommandPhase, NEW cmds, Parameter(cmds, 2),
         cmds \cap {INVALID, DSP_GETVER, DSP_COPYRIGHT} = {}
  PROVE  CmdOK' /\ PollOK' /\ CommandPhase'
<1>1. 2 \in 0 .. 2 /\ 2 # 1
  OBVIOUS
<1> QED
  BY <1>1, ParameterInv, Zenon

---------------------------------------------------------------------------
(* The initial state, then every action. *)
LEMMA InitInv == DspInit => IInv
<1> SUFFICES ASSUME DspInit PROVE IInv
  OBVIOUS
<1>1. MixerTypeOK
  <2>1. RESET \in MixerIdx
    BY MixerAssumption
  <2>2. {0} \in Byte /\ {} \in Byte
    BY DEF Byte
  <2> QED
    BY <2>1, <2>2, FullVolumeType DEF DspInit, MixerInit, MixerTypeOK
<1>2. FlagsOK
  <2>1. /\ Started = FALSE /\ AutoMode = FALSE /\ HighSpeed = FALSE
        /\ UseTimeConst = FALSE /\ TriggerIRQ = FALSE
    BY DEF DspInit
  <2> QED
    BY <2>1, Zenon DEF FlagsOK
<1>3. CmdOK /\ PollOK
  BY DspAssumption DEF DspInit, CmdOK, PollOK
<1>4. TransferOK /\ RateOK /\ HostOK
  BY DspAssumption DEF DspInit, TransferOK, Uint16, RateOK, HostOK
<1>5. CommandPhase /\ HighSpeedSafe
  BY DEF DspInit, CommandPhase, HighSpeedSafe
<1> QED
  BY <1>1, <1>2, <1>3, <1>4, <1>5 DEF IInv, DspTypeOK

LEMMA ResetInv ==
  ASSUME IInv, NEW value \in {0, 1}, DSP_Reset(value)
  PROVE  IInv'
<1>1. CASE value = 1
  <2> USE <1>1 DEF DSP_Reset
  <2>1. MixerTypeOK'
    <3>1. 0 \in MixerIdx
      BY MixerAssumption DEF RESET
    <3> QED
      BY <3>1, ResetRegsType DEF IInv, DspTypeOK, MixerTypeOK
  <2>2. FlagsOK'
    <3>1. /\ Started' = FALSE /\ AutoMode' = FALSE /\ HighSpeed' = FALSE
          /\ UseTimeConst' = FALSE /\ TriggerIRQ' = FALSE
      OBVIOUS
    <3> QED
      BY <3>1, Zenon DEF FlagsOK
  <2>3. CmdOK' /\ PollOK'
    BY DspAssumption DEF CmdOK, PollOK
  <2>4. /\ TransferOK'
        /\ HostOK'
        /\ RateOK'
    <3>1. TransferOK'
      BY DEF TransferOK, Uint16
    <3>2. HostOK'
      BY DspAssumption DEF HostOK
    <3>3. RateOK'
      BY Keeps DEF IInv, DspTypeOK
    <3> QED
      BY <3>1, <3>2, <3>3
  <2>5. CommandPhase' /\ HighSpeedSafe'
    BY DEF CommandPhase, HighSpeedSafe
  <2> QED
    BY <2>1, <2>2, <2>3, <2>4, <2>5 DEF IInv, DspTypeOK
<1>2. CASE value = 0
  <2> USE <1>2 DEF DSP_Reset
  <2>1. PollOK' /\ DSPDATA_Subindex' = DSPDATA_Subindex
    BY DEF PollOK, IInv, DspTypeOK
  <2>2. UNCHANGED <<cmdVars, xferVars, rateVars, hostVars, mixerVars>>
    <3>1. value # 1
      OBVIOUS
    <3> QED
      BY <3>1, Zenon
  <2>3. FlagsOK'
    BY <2>2, Zenon DEF FlagsOK, IInv, DspTypeOK, xferVars, rateVars, hostVars
  <2>4. CommandPhase' /\ HighSpeedSafe'
    BY <2>1, <2>2, Zenon DEF CommandPhase, HighSpeedSafe, IInv, cmdVars, xferVars
  <2> QED
    BY <2>1, <2>2, <2>3, <2>4, Keeps, Zenon
    DEF IInv, DspTypeOK, xferVars, rateVars, hostVars
<1> QED
  BY <1>1, <1>2

LEMMA CmdTriggerInv ==
  ASSUME IInv, NEW v \in Writes, CmdTrigger(v)
  PROVE  IInv'
<1>1. MixerTypeOK'
  BY RegsType DEF CmdTrigger, IInv, DspTypeOK, MixerTypeOK
<1>2. FlagsOK'
  BY Zenon DEF CmdTrigger, FlagsOK, IInv, DspTypeOK, xferVars, rateVars
<1>3. CmdOK' /\ PollOK' /\ CommandPhase'
  BY CommandInv, Zenon DEF CmdTrigger, IInv
<1>4. TransferOK' /\ RateOK' /\ HostOK'
  BY Keeps, Zenon DEF CmdTrigger, IInv, DspTypeOK, xferVars, rateVars
<1>5. HighSpeedSafe'
  BY Zenon DEF CmdTrigger, Command, HighSpeedSafe, xferVars
<1> QED
  BY <1>1, <1>2, <1>3, <1>4, <1>5 DEF IInv, DspTypeOK

LEMMA CmdPlainInv ==
  ASSUME IInv, NEW v \in Writes, CmdIgnored(v) \/ CmdPending(v)
  PROVE  IInv'
<1> DEFINE next == IF CmdIgnored(v) THEN INVALID ELSE IF v = OUT_DIRECT THEN DIRECT ELSE v
<1>1. Command(next) /\ UNCHANGED <<xferVars, rateVars, hostVars, mixerVars>>
  BY Zenon DEF CmdIgnored, CmdPending
<1>2. CmdOK' /\ PollOK' /\ CommandPhase'
  BY <1>1, CommandInv, Zenon DEF IInv
<1>3. FlagsOK'
  BY <1>1, Zenon DEF FlagsOK, IInv, DspTypeOK, xferVars, rateVars, hostVars
<1>4. HighSpeedSafe'
  BY <1>1, Zenon DEF Command, HighSpeedSafe, xferVars
<1> QED
  BY <1>1, <1>2, <1>3, <1>4, Keeps, Zenon DEF IInv, DspTypeOK, xferVars, rateVars, hostVars

LEMMA CmdHaltContinueInv ==
  ASSUME IInv, NEW v \in Writes, CmdHaltContinue(v) \/ CmdExitAuto(v)
  PROVE  IInv'
<1>1. /\ Command(INVALID)
      /\ UNCHANGED <<HighSpeed, Bits, Samples, Pos, rateVars, hostVars, mixerVars>>
  BY Zenon DEF CmdHaltContinue, CmdExitAuto
<1>2. CmdOK' /\ PollOK' /\ CommandPhase'
  BY <1>1, CommandInv, Zenon DEF IInv
<1>3. FlagsOK'
  <2>1. ASSUME CmdHaltContinue(v) PROVE Started' \in BOOLEAN /\ AutoMode' = AutoMode
    <3>1. Started' \in BOOLEAN
      BY <2>1, SMT DEF CmdHaltContinue
    <3> QED
      BY <2>1, <3>1, Zenon DEF CmdHaltContinue
  <2>2. ASSUME CmdExitAuto(v) PROVE Started' \in BOOLEAN /\ AutoMode' = FALSE
    BY <2>2, Zenon DEF CmdExitAuto
  <2> QED
    BY <1>1, <2>1, <2>2, Zenon DEF FlagsOK, IInv, DspTypeOK, rateVars, hostVars
<1>4. HighSpeedSafe'
  BY <1>1, Zenon DEF Command, HighSpeedSafe
<1> QED
  BY <1>1, <1>2, <1>3, <1>4, Keeps, Zenon DEF IInv, DspTypeOK, rateVars, hostVars

LEMMA CmdStart8Inv ==
  ASSUME IInv, NEW v \in Writes, CmdStart8(v)
  PROVE  IInv'
<1>1. CmdOK' /\ PollOK' /\ CommandPhase'
  BY CommandInv, Zenon DEF CmdStart8, IInv
<1>2. FlagsOK'
  <2>1. AutoMode' \in BOOLEAN /\ HighSpeed' \in BOOLEAN
    BY SMT DEF CmdStart8
  <2>2. Started' = TRUE /\ UNCHANGED <<UseTimeConst, TriggerIRQ>>
    BY Zenon DEF CmdStart8, StartTransfer, UpdateTCSampleRate, hostVars
  <2> QED
    BY <2>1, <2>2, Zenon DEF FlagsOK, IInv, DspTypeOK
<1>3. TransferOK'
  <2>1. Bits' = 8 /\ Samples' = Samples /\ Pos' = 0
    BY Zenon DEF CmdStart8, StartTransfer
  <2> QED
    BY <2>1 DEF TransferOK, IInv, DspTypeOK
<1>4. RateOK'
  BY TCRateType, ChannelsType
  DEF CmdStart8, UpdateTCSampleRate, RateOK, IInv, DspTypeOK
<1>5. HighSpeedSafe'
  BY DEF CmdStart8, Command, StartTransfer, HighSpeedSafe
<1> QED
  BY <1>1, <1>2, <1>3, <1>4, <1>5, Keeps, Zenon DEF CmdStart8, IInv, DspTypeOK, hostVars

(* Every width an ADPCM command selects is one the type knows. *)
LEMMA AdpcmBitsType == ASSUME NEW cmd PROVE AdpcmBits(cmd) \in {2, 3, 4, 8, 16}
BY DEF AdpcmBits

LEMMA CmdStartAdpcmAutoInv ==
  ASSUME IInv, NEW v \in Writes, CmdStartAdpcmAuto(v)
  PROVE  IInv'
<1>1. CmdOK' /\ PollOK' /\ CommandPhase'
  BY CommandInv, Zenon DEF CmdStartAdpcmAuto, IInv
<1>2. FlagsOK'
  BY Zenon DEF CmdStartAdpcmAuto, StartTransfer, FlagsOK, IInv, DspTypeOK, rateVars, hostVars
<1>3. TransferOK'
  <2>1. Bits' = AdpcmBits(v) /\ Samples' = Samples /\ Pos' = 0
    BY Zenon DEF CmdStartAdpcmAuto, StartTransfer
  <2> QED
    BY <2>1, AdpcmBitsType DEF TransferOK, IInv, DspTypeOK
<1>4. MixerTypeOK'
  BY RegsType DEF CmdStartAdpcmAuto, MixerTypeOK, IInv, DspTypeOK
<1>5. HighSpeedSafe'
  BY Zenon DEF CmdStartAdpcmAuto, Command, HighSpeedSafe
<1> QED
  BY <1>1, <1>2, <1>3, <1>4, <1>5, Keeps, Zenon
  DEF CmdStartAdpcmAuto, IInv, DspTypeOK, rateVars, hostVars

LEMMA ParTimeConstInv ==
  ASSUME IInv, NEW v \in Writes, ParTimeConst(v)
  PROVE  IInv'
<1>1. CmdOK' /\ PollOK' /\ CommandPhase'
  <2>1. {SET_TIMECONST} \cap {INVALID, DSP_GETVER, DSP_COPYRIGHT} = {}
    BY DEF SET_TIMECONST, INVALID, DSP_GETVER, DSP_COPYRIGHT
  <2> QED
    BY <2>1, LastParameterInv, Zenon DEF ParTimeConst, IInv
<1>2. FlagsOK'
  BY Zenon DEF ParTimeConst, FlagsOK, IInv, DspTypeOK, xferVars, hostVars
<1>3. RateOK'
  <2>1. v \in 0 .. 255
    BY DspAssumption
  <2>2. GetChannels \in {1, 2}
    BY ChannelsType DEF GetChannels
  <2>3. TCRate(v, Bits, HighSpeed, GetChannels) \in Nat
    BY <2>1, <2>2, TCRateType
  <2>4. FixedRate(v) \div GetChannels \in Nat
    BY <2>2, FixedRateType
  <2> QED
    BY <2>1, <2>3, <2>4 DEF ParTimeConst, RateOK
<1>4. HighSpeedSafe'
  BY Zenon DEF ParTimeConst, Parameter, HighSpeedSafe, xferVars
<1> QED
  BY <1>1, <1>2, <1>3, <1>4, Keeps, Zenon
  DEF ParTimeConst, IInv, DspTypeOK, xferVars, hostVars

(* The commands that take parameters are none of those that are answered. *)
LEMMA ParameterCmds ==
  ASSUME NEW cmds \in {{SET_SIZE, OUT_1}, AdpcmSingle, Modes, {SET_SAMPLERATE}, {\h42}}
  PROVE  cmds \subseteq TwoByteCmds /\ cmds \cap {INVALID, DSP_GETVER, DSP_COPYRIGHT} = {}
<1>1. cmds \subseteq TwoByteCmds
  BY DEF TwoByteCmds
<1>2. TwoByteCmds \cap {INVALID, DSP_GETVER, DSP_COPYRIGHT} = {}
  BY DEF TwoByteCmds, SET_SIZE, OUT_1, SET_SAMPLERATE, AdpcmSingle, Modes,
         INVALID, DSP_GETVER, DSP_COPYRIGHT
<1> QED
  BY <1>1, <1>2, Zenon

LEMMA TwoBytes ==
  ASSUME NEW low \in 0 .. 255, NEW high \in 0 .. 255
  PROVE  low + 256 * high \in Uint16
<1>1. low \in Int /\ 0 <= low /\ low <= 255
  OBVIOUS
<1>2. high \in Int /\ 0 <= high /\ high <= 255
  OBVIOUS
<1>3. low + 256 * high \in Int /\ 0 <= low + 256 * high /\ low + 256 * high <= 65535
  BY <1>1, <1>2
<1> QED
  BY <1>3 DEF Uint16

(* The low and the high byte of a size keep it within 16 bits. *)
LEMMA SizeLowInv ==
  ASSUME IInv, NEW v \in Writes,
         NEW cmds \in {{SET_SIZE, OUT_1}, AdpcmSingle, Modes}, SizeLow(cmds, v)
  PROVE  IInv'
<1>1. CmdOK' /\ PollOK' /\ CommandPhase'
  <2>1. 1 \in 0 .. 2
    OBVIOUS
  <2> QED
    BY <2>1, ParameterCmds, ParameterInv, Zenon DEF SizeLow, IInv
<1>2. FlagsOK'
  BY Zenon DEF SizeLow, FlagsOK, IInv, DspTypeOK, rateVars, hostVars
<1>3. TransferOK'
  <2>1. Bits' = Bits /\ Samples' = v /\ Pos' = Pos
    BY Zenon DEF SizeLow
  <2>2. v \in Uint16
    BY DspAssumption DEF Uint16
  <2> QED
    BY <2>1, <2>2 DEF TransferOK, IInv, DspTypeOK
<1>4. HighSpeedSafe'
  BY Zenon DEF SizeLow, Parameter, HighSpeedSafe
<1> QED
  BY <1>1, <1>2, <1>3, <1>4, Keeps, Zenon DEF SizeLow, IInv, DspTypeOK, rateVars, hostVars

LEMMA SizeHighInv ==
  ASSUME IInv, NEW v \in Writes,
         NEW cmds \in {{SET_SIZE, OUT_1}, AdpcmSingle, Modes}, SizeHigh(cmds, v)
  PROVE  /\ CmdOK' /\ PollOK' /\ CommandPhase' /\ RateOK' /\ HostOK'
         /\ ~HighSpeed /\ Samples' \in Uint16
         /\ UNCHANGED <<MixerRegIndex, UseTimeConst, TriggerIRQ>>
<1>1. CmdOK' /\ PollOK' /\ CommandPhase'
  BY ParameterCmds, LastParameterInv, Zenon DEF SizeHigh, IInv
<1>2. RateOK' /\ HostOK' /\ UNCHANGED <<MixerRegIndex, UseTimeConst, TriggerIRQ>>
  BY Keeps, Zenon DEF SizeHigh, IInv, DspTypeOK, rateVars, hostVars
<1>3. ~HighSpeed
  BY Zenon DEF SizeHigh, Parameter
<1>4. Samples' \in Uint16
  <2>1. v \in 0 .. 255
    BY DspAssumption
  <2>2. Samples \in Nat
    <3>1. Samples \in Uint16
      BY Zenon DEF IInv, DspTypeOK, TransferOK
    <3> QED
      BY <3>1 DEF Uint16
  <2>3. Samples' = (Samples % 256) + 256 * v
    BY DEF SizeHigh
  <2>4. Samples % 256 \in 0 .. 255
    BY <2>2
  <2> QED
    BY <2>1, <2>3, <2>4, TwoBytes, Zenon
<1> QED
  BY <1>1, <1>2, <1>3, <1>4, Zenon

LEMMA ParSizeInv ==
  ASSUME IInv, NEW v \in Writes, ParSize(v)
  PROVE  IInv'
<1> DEFINE cmds == {SET_SIZE, OUT_1}
<1>1. CASE SizeLow(cmds, v)
  BY <1>1, SizeLowInv, Zenon
<1>2. CASE ~SizeLow(cmds, v)
  <2>1. /\ SizeHigh(cmds, v) /\ Started' = (DSPCMD = OUT_1)
        /\ HighSpeed' = FALSE /\ AutoMode' = FALSE
        /\ Bits' = (IF DSPCMD = OUT_1 THEN 8 ELSE Bits)
        /\ Pos' = (IF DSPCMD = OUT_1 THEN 0 ELSE Pos)
        /\ UNCHANGED MixerRegs
    BY <1>2, Zenon DEF ParSize
  <2>2. /\ CmdOK' /\ PollOK' /\ CommandPhase' /\ RateOK' /\ HostOK'
        /\ ~HighSpeed /\ Samples' \in Uint16
        /\ UNCHANGED <<MixerRegIndex, UseTimeConst, TriggerIRQ>>
    BY <2>1, SizeHighInv, Zenon
  <2>3. FlagsOK'
    BY <2>1, <2>2, Zenon DEF FlagsOK, IInv, DspTypeOK
  <2>4. TransferOK'
    <3>1. Bits' \in {2, 3, 4, 8, 16} /\ Pos' \in Nat
      BY <2>1 DEF IInv, DspTypeOK, TransferOK
    <3> QED
      BY <3>1, <2>2 DEF TransferOK
  <2>5. MixerTypeOK' /\ HighSpeedSafe'
    BY <2>1, <2>2, Keeps, Zenon DEF IInv, DspTypeOK, mixerVars, HighSpeedSafe
  <2> QED
    BY <2>2, <2>3, <2>4, <2>5, Zenon DEF IInv, DspTypeOK
<1> QED
  BY <1>1, <1>2

LEMMA ParAdpcmInv ==
  ASSUME IInv, NEW v \in Writes, ParAdpcm(v)
  PROVE  IInv'
<1>1. CASE SizeLow(AdpcmSingle, v)
  BY <1>1, SizeLowInv, Zenon
<1>2. CASE ~SizeLow(AdpcmSingle, v)
  <2>1. /\ SizeHigh(AdpcmSingle, v) /\ Started' = TRUE /\ AutoMode' = FALSE
        /\ Bits' = AdpcmBits(DSPCMD) /\ Pos' = 0
        /\ MixerRegs' = WithStereo(FALSE) /\ UNCHANGED HighSpeed
    BY <1>2, Zenon DEF ParAdpcm, StartTransfer
  <2>2. /\ CmdOK' /\ PollOK' /\ CommandPhase' /\ RateOK' /\ HostOK'
        /\ ~HighSpeed /\ Samples' \in Uint16
        /\ UNCHANGED <<MixerRegIndex, UseTimeConst, TriggerIRQ>>
    BY <2>1, SizeHighInv, Zenon
  <2>3. FlagsOK'
    BY <2>1, <2>2, Zenon DEF FlagsOK, IInv, DspTypeOK
  <2>4. TransferOK'
    <3>1. Bits' \in {2, 3, 4, 8, 16} /\ Pos' \in Nat
      BY <2>1, AdpcmBitsType
    <3> QED
      BY <3>1, <2>2 DEF TransferOK
  <2>5. MixerTypeOK'
    BY <2>1, <2>2, RegsType DEF IInv, DspTypeOK, MixerTypeOK
  <2>6. HighSpeedSafe'
    BY <2>1, <2>2, Zenon DEF HighSpeedSafe
  <2> QED
    BY <2>2, <2>3, <2>4, <2>5, <2>6, Zenon DEF IInv, DspTypeOK
<1> QED
  BY <1>1, <1>2

LEMMA ParModeInv ==
  ASSUME IInv, NEW v \in Writes, ParMode(v)
  PROVE  IInv'
<1>1. CASE SizeLow(Modes, v)
  BY <1>1, SizeLowInv, Zenon
<1>2. CASE ~SizeLow(Modes, v)
  <2>1. /\ SizeHigh(Modes, v) /\ Started' = TRUE /\ Pos' = 0
        /\ Bits' = (IF DSPCMD \in Modes16 THEN 16 ELSE 8)
        /\ MixerRegs' = WithStereo(DSPCMD \in StereoModes)
        /\ UNCHANGED <<AutoMode, HighSpeed>>
    BY <1>2, Zenon DEF ParMode, StartTransfer
  <2>2. /\ CmdOK' /\ PollOK' /\ CommandPhase' /\ RateOK' /\ HostOK'
        /\ ~HighSpeed /\ Samples' \in Uint16
        /\ UNCHANGED <<MixerRegIndex, UseTimeConst, TriggerIRQ>>
    BY <2>1, SizeHighInv, Zenon
  <2>3. FlagsOK'
    BY <2>1, <2>2, Zenon DEF FlagsOK, IInv, DspTypeOK
  <2>4. TransferOK'
    <3>1. Bits' \in {2, 3, 4, 8, 16} /\ Pos' \in Nat
      BY <2>1
    <3> QED
      BY <3>1, <2>2 DEF TransferOK
  <2>5. MixerTypeOK'
    BY <2>1, <2>2, RegsType DEF IInv, DspTypeOK, MixerTypeOK
  <2>6. HighSpeedSafe'
    BY <2>1, <2>2, Zenon DEF HighSpeedSafe
  <2> QED
    BY <2>2, <2>3, <2>4, <2>5, <2>6, Zenon DEF IInv, DspTypeOK
<1> QED
  BY <1>1, <1>2

(* The mode of an 8OR16 command is a command that waits for its size. *)
LEMMA Par8or16Inv ==
  ASSUME IInv, NEW v \in Writes, Par8or16(v)
  PROVE  IInv'
<1>1. DSPDATA_Subindex = 0
  <2>1. DSPCMD \notin {DSP_GETVER, DSP_COPYRIGHT}
    BY DEF Par8or16, Cmds8or16, Auto8or16, DSP_GETVER, DSP_COPYRIGHT
  <2> QED
    BY <2>1, DspAssumption DEF IInv, CommandPhase, DspTypeOK, PollOK
<1>2. /\ DSPCMD' = v /\ DSPCMD_Subindex' = 0 /\ UNCHANGED DSPDATA_Subindex
  BY Zenon DEF Par8or16, pollVars
<1>3. CmdOK' /\ CommandPhase'
  BY <1>1, <1>2 DEF CmdOK, CommandPhase
<1>4. FlagsOK'
  <2>1. AutoMode' \in BOOLEAN
    BY SMT DEF Par8or16
  <2> QED
    BY <2>1, Zenon DEF Par8or16, FlagsOK, IInv, DspTypeOK, rateVars, hostVars
<1>5. HighSpeedSafe'
  BY Zenon DEF Par8or16, HighSpeedSafe
<1> QED
  BY <1>3, <1>4, <1>5, Keeps, Zenon DEF Par8or16, IInv, DspTypeOK, rateVars, hostVars

LEMMA ParRateInv ==
  ASSUME IInv, NEW v \in Writes, ParRate(v)
  PROVE  IInv'
<1> DEFINE sub == DSPCMD_Subindex + 1
<1>1. sub \in 0 .. 2
  <2>1. DSPCMD # INVALID
    BY DEF ParRate, Parameter, SET_SAMPLERATE, INVALID
  <2> QED
    BY <2>1 DEF IInv, CommandPhase
<1>2. CmdOK' /\ PollOK' /\ CommandPhase'
  BY <1>1, ParameterCmds, ParameterInv, Zenon DEF ParRate, IInv
<1>3. FlagsOK'
  BY Zenon DEF ParRate, FlagsOK, IInv, DspTypeOK, xferVars, hostVars
<1>4. RateOK'
  <2>1. v \in 0 .. 255
    BY DspAssumption
  <2>2. SampleRate \in Nat /\ TimeConst' \in 0 .. 255
    BY DEF IInv, DspTypeOK, RateOK, ParRate
  <2>3. SampleRate' \in {256 * v, SampleRate - (SampleRate % 256) + v}
    BY DEF ParRate
  <2>4. SampleRate - (SampleRate % 256) \in Nat
    BY <2>2
  <2> QED
    BY <2>1, <2>2, <2>3, <2>4 DEF RateOK
<1>5. HighSpeedSafe'
  BY Zenon DEF ParRate, Parameter, HighSpeedSafe, xferVars
<1> QED
  BY <1>2, <1>3, <1>4, <1>5, Keeps, Zenon DEF ParRate, IInv, DspTypeOK, xferVars, hostVars

LEMMA ParDirectInv ==
  ASSUME IInv, NEW v \in Writes, ParDirect(v)
  PROVE  IInv'
<1>1. CmdOK' /\ PollOK' /\ CommandPhase'
  <2>1. {DIRECT} \cap {INVALID, DSP_GETVER, DSP_COPYRIGHT} = {}
    BY DEF DIRECT, INVALID, DSP_GETVER, DSP_COPYRIGHT
  <2> QED
    BY <2>1, LastParameterInv, Zenon DEF ParDirect, IInv
<1>2. FlagsOK'
  BY Zenon DEF ParDirect, FlagsOK, IInv, DspTypeOK, xferVars, rateVars
<1>3. HostOK'
  <2>1. /\ DirectCount < MaxDirect /\ DirectCount' = DirectCount + 1
        /\ DetectionCounter' = DetectionCounter
    BY Zenon DEF ParDirect
  <2> QED
    BY <2>1, DspAssumption DEF HostOK, IInv, DspTypeOK
<1>4. HighSpeedSafe'
  BY Zenon DEF ParDirect, Parameter, HighSpeedSafe, xferVars
<1> QED
  BY <1>1, <1>2, <1>3, <1>4, Keeps, Zenon DEF ParDirect, IInv, DspTypeOK, xferVars, rateVars

LEMMA ParOtherInv ==
  ASSUME IInv, NEW v \in Writes, ParOther(v)
  PROVE  IInv'
<1>1. CmdOK' /\ PollOK' /\ CommandPhase'
  <2>1. CASE Parameter({\h42}, DSPCMD_Subindex + 1)
    <3>1. DSPCMD_Subindex + 1 \in 0 .. 2
      <4>1. DSPCMD # INVALID
        BY <2>1 DEF Parameter, INVALID
      <4> QED
        BY <4>1 DEF IInv, CommandPhase
    <3> QED
      BY <2>1, <3>1, ParameterCmds, ParameterInv, Zenon DEF IInv
  <2>2. CASE Parameter({\hE4, DSP_DMA_ID}, 2)
    <3>1. {\hE4, DSP_DMA_ID} \cap {INVALID, DSP_GETVER, DSP_COPYRIGHT} = {}
      BY DEF DSP_DMA_ID, INVALID, DSP_GETVER, DSP_COPYRIGHT
    <3> QED
      BY <2>2, <3>1, LastParameterInv, Zenon DEF IInv
  <2>3. CASE Parameter({DSP_ID}, DSPCMD_Subindex)
    <3>1. {DSP_ID} \cap {INVALID, DSP_GETVER, DSP_COPYRIGHT} = {}
      BY DEF DSP_ID, INVALID, DSP_GETVER, DSP_COPYRIGHT
    <3>2. DSPCMD_Subindex \in 0 .. 2
      BY DEF IInv, DspTypeOK, CmdOK
    <3>3. DSPCMD = DSP_ID /\ DSP_ID # INVALID
      BY <2>3 DEF Parameter, DSP_ID, INVALID
    <3>4. DSP_ID \notin TwoByteCmds
      BY DEF TwoByteCmds, SET_SIZE, OUT_1, SET_SAMPLERATE, AdpcmSingle, Modes, DSP_ID
    <3>5. DSPCMD_Subindex # 1
      BY <3>3, <3>4, Zenon DEF IInv, CommandPhase
    <3> QED
      BY <2>3, <3>1, <3>2, <3>5, ParameterInv, Zenon DEF IInv
  <2> QED
    BY <2>1, <2>2, <2>3, Zenon DEF ParOther
<1>2. ~HighSpeed
  BY Zenon DEF ParOther, Parameter
<1>3. FlagsOK' /\ HighSpeedSafe'
  BY <1>2, Zenon
  DEF ParOther, FlagsOK, HighSpeedSafe, IInv, DspTypeOK, xferVars, rateVars, hostVars
<1> QED
  BY <1>1, <1>3, Keeps, Zenon DEF ParOther, IInv, DspTypeOK, xferVars, rateVars, hostVars

(* A read moves through the reply of the command that waits for it. *)
LEMMA ReadInv ==
  ASSUME IInv, NEW reply \in Replies, DSP_Read(reply)
  PROVE  IInv'
<1>1. CmdOK' /\ PollOK'
  BY DspAssumption
  DEF DSP_Read, Pending, IInv, DspTypeOK, CmdOK, PollOK, DSP_GETVER, DSP_COPYRIGHT, INVALID
<1>2. CommandPhase'
  BY DspAssumption
  DEF DSP_Read, Pending, IInv, DspTypeOK, PollOK, CommandPhase, DSP_GETVER, DSP_COPYRIGHT,
      INVALID
<1>3. UNCHANGED <<xferVars, rateVars, hostVars, mixerVars>>
  BY Zenon DEF DSP_Read
<1>4. DSPCMD' \in {DSPCMD, INVALID}
  BY Zenon DEF DSP_Read
<1>5. FlagsOK' /\ HighSpeedSafe'
  BY <1>3, <1>4, Zenon
  DEF FlagsOK, HighSpeedSafe, IInv, DspTypeOK, xferVars, rateVars, hostVars
<1> QED
  BY <1>1, <1>2, <1>3, <1>5, Keeps, Zenon DEF IInv, DspTypeOK, xferVars, rateVars, hostVars

LEMMA AcknowledgeInv ==
  ASSUME IInv, NEW bit \in {0, 1}, Acknowledge(bit)
  PROVE  IInv'
<1>1. MixerTypeOK'
  BY RegsType DEF Acknowledge, MixerTypeOK, IInv, DspTypeOK
<1>2. UNCHANGED <<cmdVars, pollVars, xferVars, rateVars, hostVars>>
  BY Zenon DEF Acknowledge
<1>3. FlagsOK' /\ HighSpeedSafe' /\ CommandPhase'
  BY <1>2, Zenon DEF FlagsOK, HighSpeedSafe, CommandPhase, IInv, DspTypeOK, cmdVars, pollVars,
                     xferVars, rateVars, hostVars
<1> QED
  BY <1>1, <1>2, <1>3, Keeps, Zenon DEF IInv, DspTypeOK, xferVars, rateVars, hostVars

LEMMA MixerAddressInv ==
  ASSUME IInv, NEW i \in ClientRegs, MixerAddress(i)
  PROVE  IInv'
<1>1. MixerTypeOK'
  BY DspAssumption DEF MixerAddress, Mixer_WriteAddr, MixerTypeOK, IInv, DspTypeOK
<1>2. UNCHANGED <<cmdVars, pollVars, xferVars, rateVars, hostVars>>
  BY Zenon DEF MixerAddress
<1>3. FlagsOK' /\ HighSpeedSafe' /\ CommandPhase'
  BY <1>2, Zenon DEF FlagsOK, HighSpeedSafe, CommandPhase, IInv, DspTypeOK, cmdVars, pollVars,
                     xferVars, rateVars, hostVars
<1> QED
  BY <1>1, <1>2, <1>3, Keeps, Zenon DEF IInv, DspTypeOK, xferVars, rateVars, hostVars

LEMMA MixerWriteInv ==
  ASSUME IInv, NEW value \in MixerVals, Mixer_Write(value)
  PROVE  IInv'
<1>1. MixerTypeOK'
  BY DspAssumption, MixerWrittenType DEF Mixer_Write, MixerTypeOK, IInv, DspTypeOK
<1>2. UNCHANGED <<cmdVars, pollVars, xferVars, hostVars>>
  BY Zenon DEF Mixer_Write
<1>3. RateOK' /\ UseTimeConst' = UseTimeConst
  BY TCRateType, ChannelsType
  DEF Mixer_Write, UpdateTCSampleRate, RateOK, IInv, DspTypeOK, rateVars
<1>4. FlagsOK' /\ HighSpeedSafe' /\ CommandPhase'
  BY <1>2, <1>3, Zenon DEF FlagsOK, HighSpeedSafe, CommandPhase, IInv, DspTypeOK, cmdVars,
                           pollVars, xferVars, hostVars
<1> QED
  BY <1>1, <1>2, <1>3, <1>4, Keeps, Zenon DEF IInv, DspTypeOK, xferVars, hostVars

(* What the host does: a transfer that stops leaves high-speed mode too. *)
LEMMA PlayInv ==
  ASSUME IInv, NEW pos \in Nat, Play(pos)
  PROVE  IInv'
<1>1. MixerTypeOK'
  BY RegsType DEF Play, MixerTypeOK, IInv, DspTypeOK
<1>2. UNCHANGED <<AutoMode, Bits, Samples, cmdVars, pollVars, rateVars, hostVars>>
  BY Zenon DEF Play
<1>3. TransferOK'
  <2>1. Pos' \in {0, pos}
    BY Zenon DEF Play
  <2> QED
    BY <1>2, <2>1 DEF TransferOK, IInv, DspTypeOK
<1>4. FlagsOK' /\ HighSpeedSafe' /\ CommandPhase'
  <2>1. /\ Started' = (Started /\ (AutoMode \/ ~BlockEnded(pos)))
        /\ HighSpeed' = (HighSpeed /\ (AutoMode \/ ~BlockEnded(pos)))
    BY Zenon DEF Play
  <2> QED
    BY <1>2, <2>1, Zenon DEF FlagsOK, HighSpeedSafe, CommandPhase, IInv, DspTypeOK, cmdVars,
                             pollVars, rateVars, hostVars
<1> QED
  BY <1>1, <1>2, <1>3, <1>4, Keeps, Zenon DEF IInv, DspTypeOK, rateVars, hostVars

LEMMA ClearTriggerInv ==
  ASSUME IInv, ClearTrigger
  PROVE  IInv'
<1>1. /\ TriggerIRQ' = FALSE
      /\ UNCHANGED <<DetectionCounter, DirectCount, cmdVars, pollVars, xferVars, rateVars,
                     mixerVars>>
  BY Zenon DEF ClearTrigger
<1>2. FlagsOK' /\ HighSpeedSafe' /\ CommandPhase'
  BY <1>1, Zenon DEF FlagsOK, HighSpeedSafe, CommandPhase, IInv, DspTypeOK, cmdVars, pollVars,
                     xferVars, rateVars
<1> QED
  BY <1>1, <1>2, Keeps, Zenon DEF IInv, DspTypeOK, xferVars, rateVars

LEMMA CountDetectionInv ==
  ASSUME IInv, CountDetection
  PROVE  IInv'
<1> DEFINE enough == DetectionCounter + 1 >= DetectLimit
<1>1. HostOK'
  <2>1. /\ DetectionCounter' = Least(DetectionCounter + 1, DetectLimit)
        /\ DirectCount' = DirectCount
    BY Zenon DEF CountDetection
  <2> QED
    BY <2>1, DspAssumption DEF Least, HostOK, IInv, DspTypeOK
<1>2. /\ UNCHANGED <<AutoMode, Bits, Samples, TriggerIRQ, cmdVars, pollVars, rateVars, mixerVars>>
      /\ \/ Started' = FALSE /\ HighSpeed' = FALSE /\ Pos' = 0
         \/ UNCHANGED <<Started, HighSpeed, Pos>>
  BY Zenon DEF CountDetection
<1>3. TransferOK'
  <2>1. Pos' \in {0, Pos} /\ UNCHANGED <<Bits, Samples>>
    BY <1>2, Zenon
  <2> QED
    BY <2>1 DEF TransferOK, IInv, DspTypeOK
<1>4. FlagsOK' /\ HighSpeedSafe'
  <2>1. CASE Started' = FALSE /\ HighSpeed' = FALSE
    BY <1>2, <2>1, Zenon DEF FlagsOK, HighSpeedSafe, IInv, DspTypeOK, rateVars
  <2>2. CASE UNCHANGED <<Started, HighSpeed>>
    BY <1>2, <2>2, Zenon DEF FlagsOK, HighSpeedSafe, IInv, DspTypeOK, cmdVars, rateVars
  <2> QED
    BY <1>2, <2>1, <2>2, Zenon
<1>5. CommandPhase'
  BY <1>2, Zenon DEF CommandPhase, IInv, cmdVars, pollVars
<1> QED
  BY <1>1, <1>2, <1>3, <1>4, <1>5, Keeps, Zenon DEF IInv, DspTypeOK, rateVars

LEMMA ResetDirectInv ==
  ASSUME IInv, ResetDirect
  PROVE  IInv'
<1>1. /\ DirectCount' = 0
      /\ UNCHANGED <<TriggerIRQ, DetectionCounter, cmdVars, pollVars, xferVars, rateVars,
                     mixerVars>>
  BY Zenon DEF ResetDirect
<1>2. HostOK'
  BY <1>1, DspAssumption DEF HostOK, IInv, DspTypeOK
<1>3. FlagsOK' /\ HighSpeedSafe' /\ CommandPhase'
  BY <1>1, Zenon DEF FlagsOK, HighSpeedSafe, CommandPhase, IInv, DspTypeOK, cmdVars, pollVars,
                     xferVars, rateVars
<1> QED
  BY <1>1, <1>2, <1>3, Keeps, Zenon DEF IInv, DspTypeOK, xferVars, rateVars

LEMMA StutterInv == IInv /\ UNCHANGED dspVars => IInv'
<1> SUFFICES ASSUME IInv, UNCHANGED dspVars PROVE IInv'
  OBVIOUS
<1>1. UNCHANGED <<cmdVars, pollVars, xferVars, rateVars, hostVars, mixerVars>>
  BY Zenon DEF dspVars
<1>2. FlagsOK' /\ HighSpeedSafe' /\ CommandPhase'
  BY <1>1, Zenon DEF FlagsOK, HighSpeedSafe, CommandPhase, IInv, DspTypeOK, cmdVars, pollVars,
                     xferVars, rateVars, hostVars
<1> QED
  BY <1>1, <1>2, Keeps, Zenon DEF IInv, DspTypeOK, xferVars, rateVars, hostVars

---------------------------------------------------------------------------
LEMMA WriteInv ==
  ASSUME IInv, NEW v \in Writes, DSP_Write(v)
  PROVE  IInv'
<1>1. CASE DroppedWrite
  BY <1>1, StutterInv, Zenon DEF DroppedWrite
<1>2. CASE ~DroppedWrite
  BY <1>2, CmdTriggerInv, CmdPlainInv, CmdHaltContinueInv, CmdStart8Inv, CmdStartAdpcmAutoInv,
     ParTimeConstInv, ParSizeInv, ParAdpcmInv, ParModeInv, Par8or16Inv, ParRateInv,
     ParDirectInv, ParOtherInv, Zenon
  DEF DSP_Write
<1> QED
  BY <1>1, <1>2

(* One step per action: the invariant is inductive. *)
LEMMA NextInv == IInv /\ [DspNext]_dspVars => IInv'
<1> SUFFICES ASSUME IInv, [DspNext]_dspVars PROVE IInv'
  OBVIOUS
<1>1. ASSUME NEW value \in {0, 1}, DSP_Reset(value) PROVE IInv'
  BY <1>1, ResetInv
<1>2. ASSUME NEW v \in Writes, DSP_Write(v) PROVE IInv'
  BY <1>2, WriteInv
<1>3. ASSUME NEW reply \in Replies, DSP_Read(reply) PROVE IInv'
  BY <1>3, ReadInv
<1>4. CASE DSP_ReadStatus \/ DSP_INT16ACK
  BY <1>4, AcknowledgeInv DEF DSP_ReadStatus, DSP_INT16ACK
<1>5. ASSUME NEW i \in ClientRegs, MixerAddress(i) PROVE IInv'
  BY <1>5, MixerAddressInv
<1>6. ASSUME NEW value \in MixerVals, Mixer_Write(value) PROVE IInv'
  BY <1>6, MixerWriteInv
<1>7. ASSUME NEW n \in 1 .. MaxFetch, Play(Pos + n) PROVE IInv'
  <2>1. Pos + n \in Nat
    BY DspAssumption DEF IInv, DspTypeOK, TransferOK
  <2> QED
    BY <1>7, <2>1, PlayInv
<1>8. CASE ClearTrigger
  BY <1>8, ClearTriggerInv
<1>9. CASE CountDetection
  BY <1>9, CountDetectionInv
<1>10. CASE ResetDirect
  BY <1>10, ResetDirectInv
<1>11. CASE UNCHANGED dspVars
  BY <1>11, StutterInv
<1> QED
  BY <1>1, <1>2, <1>3, <1>4, <1>5, <1>6, <1>7, <1>8, <1>9, <1>10, <1>11, Zenon
  DEF DspNext, DspClient, DspHost

(* Every behaviour of the DSP keeps the three parts of the invariant.       *)
THEOREM InvCorrect == DspSpec => []IInv
BY InitInv, NextInv, PTL DEF DspSpec

(* Whatever the client writes and whenever the host plays, every register   *)
(* of the emulated DSP and mixer keeps a value of its kind.                 *)
THEOREM TypeCorrect == DspSpec => []DspTypeOK
<1>1. IInv => DspTypeOK
  BY DEF IInv
<1> QED
  BY <1>1, InvCorrect, PTL

(* No reply and no parameter list is ever taken for another command's.      *)
THEOREM PhaseCorrect == DspSpec => []CommandPhase
<1>1. IInv => CommandPhase
  BY DEF IInv
<1> QED
  BY <1>1, InvCorrect, PTL

(* High-speed mode, in which the DSP is deaf to commands, is on only while  *)
(* an 8-bit transfer is playing and no command is half received.            *)
THEOREM HighSpeedCorrect == DspSpec => []HighSpeedSafe
<1>1. IInv => HighSpeedSafe
  BY DEF IInv
<1> QED
  BY <1>1, InvCorrect, PTL

---------------------------------------------------------------------------
(* What a step may never do, and the rate of high-speed mode. *)
(* In high-speed mode the command port is deaf. *)
LEMMA Deaf ==
  ASSUME NEW v, HighSpeed, DSP_Write(v)
  PROVE  UNCHANGED dspVars
BY Zenon
DEF DSP_Write, CmdTrigger, CmdIgnored, CmdHaltContinue, CmdStart8, CmdStartAdpcmAuto, CmdExitAuto,
    CmdPending, Command, ParTimeConst, ParSize, SizeLow, SizeHigh, ParAdpcm, ParMode, Par8or16,
    ParRate, ParDirect, ParOther, Parameter, DroppedWrite

(* Only a start command turns high-speed mode on. *)
LEMMA OnlyStart8 ==
  ASSUME NEW v, ~HighSpeed, DSP_Write(v), HighSpeed'
  PROVE  CmdStart8(v) /\ v \in HighSpeedCmds
<1>1. CmdStart8(v)
  BY Zenon
  DEF DSP_Write, CmdTrigger, CmdIgnored, CmdHaltContinue, CmdStartAdpcmAuto, CmdExitAuto,
      CmdPending, ParTimeConst, ParSize, SizeLow, ParAdpcm, ParMode, Par8or16,
      ParRate, ParDirect, ParOther, DroppedWrite, xferVars, dspVars
<1> QED
  BY <1>1, Zenon DEF CmdStart8

(* An interrupt cause is no stereo switch and no volume. *)
LEMMA StatusApart ==
  ASSUME MixerTypeOK, NEW bit, NEW s \in MixerIdx, s # INT_STS
  PROVE  WithStatus(bit)[s] = MixerRegs[s] /\ WithoutStatus(bit)[s] = MixerRegs[s]
BY DEF MixerTypeOK, WithStatus, WithoutStatus

LEMMA ChannelsKept ==
  ASSUME MixerTypeOK, NEW regs, regs[MODEFILTER] = MixerRegs[MODEFILTER]
  PROVE  ChannelsOf(regs) = ChannelsOf(MixerRegs)
BY Zenon DEF ChannelsOf, StereoSet

(* A write to a register other than the stereo switch keeps the switch.     *)
LEMMA SwitchKept ==
  ASSUME MixerTypeOK, NEW value, MixerRegIndex # MODEFILTER
  PROVE  MixerWritten(value)[MODEFILTER] = MixerRegs[MODEFILTER]
<1> DEFINE i      == MixerRegIndex
           stored == [MixerRegs EXCEPT ![i] = value]
<1>1. MODEFILTER \in MixerIdx
  BY MixerAssumption
<1>2. DOMAIN stored = MixerIdx /\ stored[MODEFILTER] = MixerRegs[MODEFILTER]
  BY <1>1 DEF MixerTypeOK
<1>3. MODEFILTER \notin VolumeRegs
  BY DEF MODEFILTER, VolumeRegs, StereoRegs, VolumePairRegs, MASTERVOL, MIDIVOL, CDVOL, VOICEVOL,
         VOICESTEREO, MASTERSTEREO, MIDISTEREO, CDSTEREO
<1>4. StereoOf(i) # MODEFILTER
  BY DEF StereoOf, MODEFILTER, VOICESTEREO, MASTERSTEREO, MIDISTEREO, CDSTEREO
<1> HIDE DEF stored
<1>5. CASE i = RESET
  <2>1. MixerWritten(value)[MODEFILTER] = stored[MODEFILTER]
    BY <1>1, <1>3, <1>5 DEF MixerWritten, stored
  <2> QED
    BY <1>2, <2>1
<1>6. CASE i # RESET /\ IsSB16 /\ i \in VolumePairRegs
  <2>1. MixerWritten(value) = [stored EXCEPT ![StereoOf(i)] = Nibble(i, value, @)]
    BY <1>6, Zenon DEF MixerWritten, stored
  <2> QED
    BY <1>2, <1>4, <2>1
<1>7. CASE i # RESET /\ ~(IsSB16 /\ i \in VolumePairRegs)
  BY <1>2, <1>7, Zenon DEF MixerWritten, stored
<1> QED
  BY <1>5, <1>6, <1>7

---------------------------------------------------------------------------
LEMMA RateKept ==
  ASSUME HighSpeedRate, UNCHANGED rateVars, HighSpeed' => HighSpeed,
         ChannelsOf(MixerRegs') = ChannelsOf(MixerRegs)
  PROVE  HighSpeedRate'
BY Zenon DEF HighSpeedRate, GetChannels, rateVars

LEMMA RateInit == DspInit => HighSpeedRate
BY DEF DspInit, HighSpeedRate

LEMMA RateNext == IInv /\ HighSpeedRate /\ [DspNext]_dspVars => HighSpeedRate'
<1> SUFFICES ASSUME IInv, HighSpeedRate, [DspNext]_dspVars PROVE HighSpeedRate'
  OBVIOUS
<1>1. MixerTypeOK /\ MODEFILTER \in MixerIdx /\ MODEFILTER # INT_STS
  BY MixerAssumption DEF IInv, DspTypeOK, MODEFILTER, INT_STS
<1>2. ASSUME NEW value \in {0, 1}, DSP_Reset(value) PROVE HighSpeedRate'
  BY <1>2, RateKept, Zenon DEF DSP_Reset, HighSpeedRate, mixerVars, xferVars
<1>3. ASSUME NEW v \in Writes, DSP_Write(v) PROVE HighSpeedRate'
  <2>1. CASE HighSpeed
    <3>1. UNCHANGED <<rateVars, HighSpeed, MixerRegs>>
      BY <1>3, <2>1, Deaf, Zenon DEF dspVars, xferVars, mixerVars
    <3> QED
      BY <3>1, RateKept, Zenon
  <2>2. CASE ~HighSpeed /\ HighSpeed'
    <3>1. CmdStart8(v) /\ v \in HighSpeedCmds
      BY <1>3, <2>2, OnlyStart8
    <3>2. /\ UpdateTCSampleRate(8, TRUE, MixerRegs) /\ MixerRegs' = MixerRegs
      <4>1. (v \in HighSpeedCmds) = TRUE
        BY <3>1
      <4> QED
        BY <3>1, <4>1, Zenon DEF CmdStart8, mixerVars
    <3> QED
      BY <3>2, Zenon DEF UpdateTCSampleRate, HighSpeedRate, GetChannels
  <2>3. CASE ~HighSpeed'
    BY <2>3 DEF HighSpeedRate
  <2> QED
    BY <2>1, <2>2, <2>3
<1>4. ASSUME NEW reply \in Replies, DSP_Read(reply) PROVE HighSpeedRate'
  BY <1>4, RateKept, Zenon DEF DSP_Read, xferVars, mixerVars
<1>5. ASSUME NEW bit, Acknowledge(bit) PROVE HighSpeedRate'
  <2>1. MixerRegs'[MODEFILTER] = MixerRegs[MODEFILTER]
    BY <1>1, <1>5, StatusApart, Zenon DEF Acknowledge
  <2> QED
    BY <1>1, <1>5, <2>1, ChannelsKept, RateKept, Zenon DEF Acknowledge, xferVars
<1>6. ASSUME NEW i \in ClientRegs, MixerAddress(i) PROVE HighSpeedRate'
  BY <1>6, RateKept, Zenon DEF MixerAddress, Mixer_WriteAddr, xferVars
<1>7. ASSUME NEW value \in MixerVals, Mixer_Write(value) PROVE HighSpeedRate'
  <2>1. UNCHANGED <<HighSpeed, Bits>> /\ MixerRegs' = MixerWritten(value)
    BY <1>7, Zenon DEF Mixer_Write, xferVars
  <2>2. CASE MixerRegIndex = MODEFILTER /\ HighSpeed
    <3>1. Bits = 8 /\ HighSpeed = TRUE
      BY <2>2, Zenon DEF IInv, HighSpeedSafe, DspTypeOK, FlagsOK
    <3>2. UpdateTCSampleRate(8, TRUE, MixerRegs')
      BY <1>7, <2>1, <2>2, <3>1, Zenon DEF Mixer_Write
    <3> QED
      BY <3>2, Zenon DEF UpdateTCSampleRate, HighSpeedRate, GetChannels
  <2>3. CASE MixerRegIndex = MODEFILTER /\ ~HighSpeed
    BY <2>1, <2>3, Zenon DEF HighSpeedRate
  <2>4. CASE MixerRegIndex # MODEFILTER
    <3>1. MixerRegs'[MODEFILTER] = MixerRegs[MODEFILTER]
      BY <1>1, <2>1, <2>4, SwitchKept, Zenon
    <3>2. UNCHANGED rateVars
      BY <1>7, <2>4, Zenon DEF Mixer_Write
    <3> QED
      BY <1>1, <2>1, <3>1, <3>2, ChannelsKept, RateKept, Zenon
  <2> QED
    BY <2>2, <2>3, <2>4
<1>8. ASSUME NEW pos, Play(pos) PROVE HighSpeedRate'
  <2>1. MixerRegs'[MODEFILTER] = MixerRegs[MODEFILTER]
    BY <1>1, <1>8, StatusApart, Zenon DEF Play
  <2>2. UNCHANGED rateVars /\ (HighSpeed' => HighSpeed)
    BY <1>8, Zenon DEF Play
  <2> QED
    BY <1>1, <2>1, <2>2, ChannelsKept, RateKept, Zenon
<1>9. CASE ClearTrigger \/ CountDetection \/ ResetDirect \/ UNCHANGED dspVars
  <2>1. UNCHANGED <<rateVars, mixerVars>>
    BY <1>9, Zenon DEF ClearTrigger, CountDetection, ResetDirect, dspVars
  <2>2. HighSpeed' => HighSpeed
    <3>1. CASE CountDetection
      BY <3>1, Zenon DEF CountDetection
    <3>2. CASE ~CountDetection
      BY <1>9, <3>2, Zenon DEF ClearTrigger, ResetDirect, dspVars, xferVars
    <3> QED
      BY <3>1, <3>2
  <2> QED
    BY <2>1, <2>2, RateKept, Zenon DEF mixerVars
<1> QED
  BY <1>2, <1>3, <1>4, <1>5, <1>6, <1>7, <1>8, <1>9, Zenon
  DEF DspNext, DspClient, DspHost, DSP_ReadStatus, DSP_INT16ACK

(* While a high-speed transfer plays, the rate is the one its time constant *)
(* gives for the channels now selected (SBEMU_UpdateTimeConstantSampleRate   *)
(* is called at each change of the stereo switch).                          *)
THEOREM RateCorrect == DspSpec => []HighSpeedRate
BY RateInit, RateNext, InvCorrect, PTL DEF DspSpec

---------------------------------------------------------------------------
(* A step that is no start, or a start from the beginning of the block.     *)
Rewinds == ~Started /\ Started' /\ Pos' # 0 =>
             UNCHANGED <<AutoMode, HighSpeed, Bits, Samples, Pos, MixerRegs>>

(* Only a command starts a transfer: a continue, or a start that rewinds.   *)
LEMMA WriteRewinds ==
  ASSUME NEW v, DSP_Write(v)
  PROVE  Rewinds
<1>1. CASE CmdHaltContinue(v)
  BY <1>1, Zenon DEF CmdHaltContinue, Rewinds, mixerVars
<1>2. CASE CmdStart8(v) \/ CmdStartAdpcmAuto(v)
  BY <1>2, Zenon DEF CmdStart8, CmdStartAdpcmAuto, StartTransfer, Rewinds
<1>3. CASE CmdTrigger(v) \/ CmdIgnored(v) \/ CmdExitAuto(v) \/ CmdPending(v)
  BY <1>3, Zenon DEF CmdTrigger, CmdIgnored, CmdExitAuto, CmdPending, xferVars, Rewinds
<1>4. CASE ParSize(v)
  BY <1>4, Zenon DEF ParSize, SizeLow, Rewinds
<1>5. CASE ParAdpcm(v) \/ ParMode(v)
  BY <1>5, Zenon DEF ParAdpcm, ParMode, SizeLow, StartTransfer, Rewinds
<1>6. CASE ParTimeConst(v) \/ Par8or16(v) \/ ParRate(v) \/ ParDirect(v) \/ ParOther(v)
  BY <1>6, Zenon DEF ParTimeConst, Par8or16, ParRate, ParDirect, ParOther, xferVars, Rewinds
<1>7. CASE DroppedWrite
  BY <1>7, Zenon DEF DroppedWrite, dspVars, xferVars, Rewinds
<1> QED
  BY <1>1, <1>2, <1>3, <1>4, <1>5, <1>6, <1>7, Zenon DEF DSP_Write

LEMMA NextRewinds == [DspNext]_dspVars => Rewinds
<1> SUFFICES ASSUME [DspNext]_dspVars PROVE Rewinds
  OBVIOUS
<1>1. ASSUME NEW value, DSP_Reset(value) PROVE Rewinds
  BY <1>1, Zenon DEF DSP_Reset, xferVars, Rewinds
<1>2. ASSUME NEW v, DSP_Write(v) PROVE Rewinds
  BY <1>2, WriteRewinds
<1>3. ASSUME NEW reply, DSP_Read(reply) PROVE Rewinds
  BY <1>3, Zenon DEF DSP_Read, xferVars, Rewinds
<1>4. ASSUME NEW bit, Acknowledge(bit) PROVE Rewinds
  BY <1>4, Zenon DEF Acknowledge, xferVars, Rewinds
<1>5. ASSUME NEW i, MixerAddress(i) PROVE Rewinds
  BY <1>5, Zenon DEF MixerAddress, xferVars, Rewinds
<1>6. ASSUME NEW value, Mixer_Write(value) PROVE Rewinds
  BY <1>6, Zenon DEF Mixer_Write, xferVars, Rewinds
<1>7. ASSUME NEW pos, Play(pos) PROVE Rewinds
  BY <1>7, Zenon DEF Play, Rewinds
<1>8. CASE CountDetection
  BY <1>8, Zenon DEF CountDetection, Rewinds
<1>9. CASE ClearTrigger \/ ResetDirect \/ UNCHANGED dspVars
  BY <1>9, Zenon DEF ClearTrigger, ResetDirect, dspVars, xferVars, Rewinds
<1> QED
  BY <1>1, <1>2, <1>3, <1>4, <1>5, <1>6, <1>7, <1>8, <1>9, Zenon
  DEF DspNext, DspClient, DspHost, DSP_ReadStatus, DSP_INT16ACK

(* A step that starts a transfer rewinds it, or is a continue that changes  *)
(* nothing else (SBEMU_DSP_Write).                                          *)
THEOREM StartsCorrect == DspSpec => StartRewinds
<1>1. [DspNext]_dspVars =>
        [~Started /\ Started' /\ Pos' # 0 =>
           UNCHANGED <<AutoMode, HighSpeed, Bits, Samples, Pos, MixerRegs>>]_dspVars
  BY NextRewinds, Zenon DEF Rewinds
<1> QED
  BY <1>1, PTL DEF DspSpec, StartRewinds

---------------------------------------------------------------------------
Side(left, bits) == IF left THEN {b \in bits : b < 4} ELSE {b \in bits : b >= 4}

(* The other side of a nibble is the old one. *)
LEMMA NibbleSide ==
  ASSUME NEW i, NEW value \in Byte, NEW old \in Byte
  PROVE  Side(IsLeft(i), Nibble(i, value, old)) = Side(IsLeft(i), old)
<1>1. CASE IsLeft(i)
  <2>1. {b \in {b \in old : b < 4} \cup {b \in value : b >= 4} : b < 4} = {b \in old : b < 4}
    <3>1. \A b \in value : ~(b >= 4 /\ b < 4)
      BY DEF Byte
    <3> QED
      BY <3>1, Zenon
  <2> QED
    BY <1>1, <2>1 DEF Side, Nibble
<1>2. CASE ~IsLeft(i)
  <2>1. {b \in {b \in old : b >= 4} \cup {b \in 0 .. 3 : b + 4 \in value} : b >= 4}
          = {b \in old : b >= 4}
    BY DEF Byte
  <2> QED
    BY <1>2, <2>1 DEF Side, Nibble
<1> QED
  BY <1>1, <1>2

Independent(s) == MixerRegs'[s] # MixerRegs[s] /\ MixerRegIndex \in VolumePairRegs =>
  Side(IsLeft(MixerRegIndex), MixerRegs'[s]) = Side(IsLeft(MixerRegIndex), MixerRegs[s])

LEMMA MixerWriteIndependent ==
  ASSUME IInv, NEW value \in MixerVals, Mixer_Write(value), NEW s \in StereoRegs \cap MixerIdx
  PROVE  Independent(s)
<1> SUFFICES ASSUME MixerRegIndex \in VolumePairRegs PROVE Independent(s)
  BY Zenon DEF Independent
<1> DEFINE i      == MixerRegIndex
           stored == [MixerRegs EXCEPT ![i] = value]
<1>1. /\ MixerRegs \in [MixerIdx -> Byte] /\ i \in MixerIdx /\ value \in Byte
      /\ MixerRegs' = MixerWritten(value)
  BY DspAssumption DEF IInv, DspTypeOK, MixerTypeOK, Mixer_Write
<1>2. i # RESET /\ i # s
  BY DEF VolumePairRegs, RESET, StereoRegs, VOICESTEREO, MASTERSTEREO, MIDISTEREO, CDSTEREO
<1>3. stored \in [MixerIdx -> Byte] /\ stored[s] = MixerRegs[s]
  BY <1>1, <1>2
<1> HIDE DEF stored
<1>4. CASE IsSB16 /\ s = StereoOf(i)
  <2>1. MixerRegs' = [stored EXCEPT ![StereoOf(i)] = Nibble(i, value, @)]
    BY <1>1, <1>2, <1>4, Zenon DEF MixerWritten, stored
  <2>2. MixerRegs'[s] = Nibble(i, value, stored[s])
    BY <1>3, <1>4, <2>1
  <2>3. stored[s] \in Byte
    BY <1>3
  <2> QED
    BY <1>1, <1>3, <2>2, <2>3, NibbleSide, Zenon DEF Independent
<1>5. CASE IsSB16 /\ s # StereoOf(i)
  <2>1. MixerRegs' = [stored EXCEPT ![StereoOf(i)] = Nibble(i, value, @)]
    BY <1>1, <1>2, <1>5, Zenon DEF MixerWritten, stored
  <2>2. MixerRegs'[s] = MixerRegs[s]
    BY <1>3, <1>5, <2>1
  <2> QED
    BY <2>2, Zenon DEF Independent
<1>6. CASE ~IsSB16
  <2>1. MixerRegs' = stored
    BY <1>1, <1>2, <1>6, Zenon DEF MixerWritten, stored
  <2> QED
    BY <1>3, <2>1, Zenon DEF Independent
<1> QED
  BY <1>4, <1>5, <1>6

(* No other step writes a volume. *)
LEMMA VolumesKept ==
  ASSUME IInv, NEW s \in StereoRegs \cap MixerIdx
  PROVE  /\ DspResetRegs[s] = MixerRegs[s]
         /\ \A on : WithStereo(on)[s] = MixerRegs[s]
         /\ \A bit : WithStatus(bit)[s] = MixerRegs[s] /\ WithoutStatus(bit)[s] = MixerRegs[s]
<1>1. s \notin {MODEFILTER, INT_STS, INT_SETUP, DMA_SETUP}
  BY DEF StereoRegs, VOICESTEREO, MASTERSTEREO, MIDISTEREO, CDSTEREO, MODEFILTER, INT_STS,
         INT_SETUP, DMA_SETUP
<1>2. MixerRegs \in [MixerIdx -> Byte]
  BY DEF IInv, DspTypeOK, MixerTypeOK
<1> QED
  BY <1>1, <1>2 DEF DspResetRegs, WithStereo, WithStatus, WithoutStatus

LEMMA WriteVolumes ==
  ASSUME NEW v, DSP_Write(v)
  PROVE  \/ MixerRegs' = MixerRegs
         \/ \E on : MixerRegs' = WithStereo(on)
         \/ \E bit : MixerRegs' = WithStatus(bit)
BY Zenon
DEF DSP_Write, CmdTrigger, CmdIgnored, CmdHaltContinue, CmdStart8, CmdStartAdpcmAuto, CmdExitAuto,
    CmdPending, ParTimeConst, ParSize, SizeLow, ParAdpcm, ParMode, Par8or16,
    ParRate, ParDirect, ParOther, DroppedWrite, dspVars, mixerVars

LEMMA NextIndependent ==
  ASSUME IInv, [DspNext]_dspVars, NEW s \in StereoRegs \cap MixerIdx
  PROVE  Independent(s)
<1>1. ASSUME NEW value, DSP_Reset(value) PROVE Independent(s)
  BY <1>1, VolumesKept, Zenon DEF DSP_Reset, mixerVars, Independent
<1>2. ASSUME NEW v, DSP_Write(v) PROVE Independent(s)
  BY <1>2, WriteVolumes, VolumesKept, Zenon DEF Independent
<1>3. ASSUME NEW bit, Acknowledge(bit) PROVE Independent(s)
  BY <1>3, VolumesKept, Zenon DEF Acknowledge, Independent
<1>4. ASSUME NEW value \in MixerVals, Mixer_Write(value) PROVE Independent(s)
  BY <1>4, MixerWriteIndependent
<1>5. ASSUME NEW pos, Play(pos) PROVE Independent(s)
  <2>1. MixerRegs' = MixerRegs \/ \E bit : MixerRegs' = WithStatus(bit)
    BY <1>5, Zenon DEF Play
  <2> QED
    BY <2>1, VolumesKept, Zenon DEF Independent
<1>6. ASSUME \/ \E reply \in Replies : DSP_Read(reply)
             \/ \E i \in ClientRegs : MixerAddress(i)
             \/ ClearTrigger \/ CountDetection \/ ResetDirect \/ UNCHANGED dspVars
      PROVE  Independent(s)
  <2>1. MixerRegs' = MixerRegs
    BY <1>6, Zenon
    DEF DSP_Read, MixerAddress, Mixer_WriteAddr, ClearTrigger, CountDetection, ResetDirect, dspVars,
        mixerVars
  <2> QED
    BY <2>1, Zenon DEF Independent
<1> QED
  BY <1>1, <1>2, <1>3, <1>4, <1>5, <1>6, Zenon
  DEF DspNext, DspClient, DspHost, DSP_ReadStatus, DSP_INT16ACK

(* A write to one side of an SB16 volume pair leaves the other side of the  *)
(* 4:4 register as it was (SBEMU_Mixer_Write).                              *)
THEOREM SidesCorrect == DspSpec => SidesIndependent
<1>1. IInv /\ [DspNext]_dspVars =>
        [\A s \in StereoRegs \cap MixerIdx :
           MixerRegs'[s] # MixerRegs[s] /\ MixerRegIndex \in VolumePairRegs =>
             IF IsLeft(MixerRegIndex)
             THEN {b \in MixerRegs'[s] : b < 4} = {b \in MixerRegs[s] : b < 4}
             ELSE {b \in MixerRegs'[s] : b >= 4} = {b \in MixerRegs[s] : b >= 4}]_dspVars
  BY NextIndependent, Zenon DEF Independent, Side
<1> QED
  BY <1>1, InvCorrect, PTL DEF DspSpec, SidesIndependent
=============================================================================
