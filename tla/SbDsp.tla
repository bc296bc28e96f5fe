------------------------------- MODULE SbDsp -------------------------------
(***************************************************************************)
(* The DSP of the emulated Sound Blaster (sbemu/sbemu.c).  The client (a   *)
(* DOS game) drives it through the reset, data and command ports; the      *)
(* sound card's interrupt handler (MAIN_Interrupt of main.c, "the host")   *)
(* plays the transfer the client started and reports its progress.         *)
(*                                                                         *)
(* Every trapped port access and every call of the host is one step.  A    *)
(* command byte is its number in sbemu.h.  Sample data (ADPCM predictor,   *)
(* direct samples, test register, identification bytes) is left out.       *)
(*                                                                         *)
(* An operator whose name says what it forgets (...KeepsRate, ...NoRewind, *)
(* ...OffByOne) stands just before the one it is a faulty variant of; the  *)
(* specification does not use it.                                          *)
(***************************************************************************)
EXTENDS SbMixer

CONSTANTS
  FixTC,         (* /FIXTC                                                  *)
  Writes,        (* the bytes the client writes to the command port         *)
  ClientRegs,    (* the mixer registers the client addresses                *)
  MixerVals,     (* the bytes the client writes to the mixer                *)
  MaxSamples,    (* bound of this model on a block size; 65535 is none      *)
  MaxFetch,      (* the most bytes the host plays at a time                 *)
  CopyrightLen,  (* length of the copyright text, 44 in the code            *)
  MaxDirect,     (* bound of this model on direct samples between two ticks *)
  DetectLimit    (* short blocks after which a transfer is stopped, 256     *)

Uint16 == 0 .. 65535

ASSUME DspAssumption ==
  /\ FixTC \in BOOLEAN
  /\ Writes \subseteq 0 .. 255
  /\ ClientRegs \subseteq MixerIdx
  /\ MixerVals \subseteq Byte
  /\ MaxSamples \in Uint16
  /\ MaxFetch \in Nat
  /\ CopyrightLen \in Nat \ {0}
  /\ MaxDirect \in Nat
  /\ DetectLimit \in Nat \ {0}

(* DSPCMD while no command is being received, and the internal command that *)
(* keeps 8BIT_DIRECT apart from MODE_PCM16_MONO: both have number \h10.      *)
INVALID == -1
DIRECT  == -4

TRIGGER_IRQ    == \hF2
TRIGGER_IRQ16  == \hF3
SET_TIMECONST  == \h40
SET_SAMPLERATE == \h41
SET_SIZE       == \h48
OUT_1          == \h14
OUT_DIRECT     == \h10
DSP_ID         == \hE0
DSP_GETVER     == \hE1
DSP_DMA_ID     == \hE2
DSP_COPYRIGHT  == \hE3
READ_TESTREG   == \hE8

(* The other commands by what they do, in the order of sbemu.h's names. *)
IgnoredCmds  == {\hD1, \hD3, \h2A}       (* DAC_SPEAKER_ON, _OFF, unknown          *)
HaltCmds     == {\hD0, \hD5}            (* HALT_DMA, HALT_DMA16                   *)
ContinueCmds == {\hD4, \h45, \hD6}       (* CONTINUE_DMA, _AUTO, _DMA16            *)
Auto8Cmds    == {\h1C, \h90}            (* 8BIT_OUT_AUTO, 8BIT_OUT_AUTO_HS        *)
HighSpeedCmds == {\h90, \h91}           (* 8BIT_OUT_AUTO_HS, 8BIT_OUT_1_HS        *)
ExitAutoCmds == {\hD9, \hDA}            (* EXIT_16BIT_AUTO, EXIT_8BIT_AUTO        *)
AdpcmAuto    == {\h1F, \h7F, \h7D}       (* 2BIT, 3BIT, 4BIT_OUT_AUTO              *)
AdpcmSingle  == {\h16, \h17, \h76, \h77, \h74, \h75}   (* 2, 3, 4BIT_OUT_1(_NREF)  *)
Auto8or16    == {\hC4, \hC6, \hB6}       (* 8BIT_AUTO_NOFIFO, 8BIT_AUTO, 16BIT_AUTO *)
Cmds8or16    == Auto8or16 \cup {\hC0, \hB0, \hB4}
Modes16      == {\h10, \h30}            (* MODE_PCM16_MONO, _STEREO               *)
StereoModes  == {\h20, \h30}            (* MODE_PCM8_STEREO, MODE_PCM16_STEREO    *)
Modes        == {\h00, \h20, \h10, \h30}
TwoByteCmds  == {SET_SIZE, OUT_1, SET_SAMPLERATE, \h42} \cup AdpcmSingle \cup Modes

VARIABLES
  ResetState,        (* "START", "POLL", "END": progress of the reset handshake *)
  DSPCMD,            (* the command being received or answered                  *)
  DSPCMD_Subindex,   (* parameter bytes received                                *)
  DSPDATA_Subindex,  (* reply bytes read                                        *)
  Started,           (* a transfer is playing                                   *)
  AutoMode,          (* ... and starts over at the end of each block            *)
  HighSpeed,         (* ... and the DSP takes no command meanwhile              *)
  Bits,              (* sample width: 2, 3, 4 (ADPCM), 8, 16                    *)
  Samples,           (* block size - 1                                          *)
  Pos,               (* bytes of the block played                               *)
  SampleRate, UseTimeConst, TimeConst,
  TriggerIRQ,        (* the client asked for an interrupt                       *)
  DetectionCounter,  (* short blocks played since the last reset                *)
  DirectCount        (* direct samples not yet played                           *)

cmdVars  == <<DSPCMD, DSPCMD_Subindex>>
pollVars == <<ResetState, DSPDATA_Subindex>>
xferVars == <<Started, AutoMode, HighSpeed, Bits, Samples, Pos>>
rateVars == <<SampleRate, UseTimeConst, TimeConst>>
hostVars == <<TriggerIRQ, DetectionCounter, DirectCount>>
dspVars  == <<cmdVars, pollVars, xferVars, rateVars, hostVars, mixerVars>>

Least(a, b) == IF a < b THEN a ELSE b

SampleBytesOf(samples, bits) == ((samples + 1) * (IF bits = 16 THEN 16 ELSE 8)) \div 8
GetSampleBytes == SampleBytesOf(Samples, Bits)

(* The width of an ADPCM command: numbers are compared, not named. *)
AdpcmBits(cmd) == IF cmd <= \h16 THEN 2 ELSE IF cmd >= \h76 THEN 3 ELSE 4

(* The rate of a time constant: 256000000 / (65536 - 256*tc) per channel,  *)
(* tc limited by the generation of the card, the width and the speed.      *)
TCLimit(bits, hs) ==
  LET isSB2 == DSPVER \in \h200 .. \h2FF
  IN  CASE bits = 2 -> IF isSB2 THEN 189 ELSE 165
        [] bits = 3 -> IF isSB2 THEN 172 ELSE 179
        [] bits = 4 -> 172
        [] OTHER    -> IF IsSB16 \/ hs THEN 234 ELSE IF isSB2 THEN 210 ELSE 212
TCRate(tc, bits, hs, channels) ==
  (256000000 \div (65536 - 256 * Least(tc, TCLimit(bits, hs)))) \div channels

(* The three rates /FIXTC rounds to. *)
FixedRate(tc) ==
  CASE tc \in \hA5 - 3 .. \hA5 + 3 -> 11025
    [] tc \in \hD2 - 3 .. \hD2 + 3 -> 22050
    [] tc \in \hE9 - 3 .. \hE9 + 3 -> 44100
    [] OTHER -> 0

(* Whether the client's rate is a time constant; the code stores the number *)
(* of channels, which is never 0.                                            *)
UpdateTCSampleRate(bits, hs, regs) ==
  /\ SampleRate' = IF UseTimeConst THEN TCRate(TimeConst, bits, hs, ChannelsOf(regs))
                   ELSE SampleRate
  /\ UNCHANGED <<UseTimeConst, TimeConst>>

FlagsOK    == /\ Started \in BOOLEAN /\ AutoMode \in BOOLEAN /\ HighSpeed \in BOOLEAN
              /\ UseTimeConst \in BOOLEAN /\ TriggerIRQ \in BOOLEAN
CmdOK      == DSPCMD \in {INVALID, DIRECT} \cup Writes /\ DSPCMD_Subindex \in 0 .. 2
PollOK     == ResetState \in {"START", "POLL", "END"} /\ DSPDATA_Subindex \in 0 .. CopyrightLen
TransferOK == Bits \in {2, 3, 4, 8, 16} /\ Samples \in Uint16 /\ Pos \in Nat
RateOK     == SampleRate \in Nat /\ TimeConst \in 0 .. 255
HostOK     == DetectionCounter \in 0 .. DetectLimit /\ DirectCount \in 0 .. MaxDirect

DspTypeOK ==
  MixerTypeOK /\ FlagsOK /\ CmdOK /\ PollOK /\ TransferOK /\ RateOK /\ HostOK

DspInit ==
  /\ MixerInit
  /\ ResetState = "END" /\ DSPDATA_Subindex = 0
  /\ DSPCMD = INVALID /\ DSPCMD_Subindex = 0
  /\ Started = FALSE /\ AutoMode = FALSE /\ HighSpeed = FALSE
  /\ Bits = 8 /\ Samples = 0 /\ Pos = 0
  /\ SampleRate = 22050 /\ UseTimeConst = FALSE /\ TimeConst = 0
  /\ TriggerIRQ = FALSE /\ DetectionCounter = 0 /\ DirectCount = 0

---------------------------------------------------------------------------
(* The reset port: 1 then 0, then a read of the data port answers.  The     *)
(* interrupt status and the sample rate survive.                            *)
DSP_Reset(value) ==
  \/ /\ value = 1
     /\ ResetState' = "START" /\ DSPDATA_Subindex' = 0
     /\ MixerRegs' = DspResetRegs /\ MixerRegIndex' = 0
     /\ DSPCMD' = INVALID /\ DSPCMD_Subindex' = 0
     /\ Started' = FALSE /\ AutoMode' = FALSE /\ HighSpeed' = FALSE
     /\ Bits' = 8 /\ Samples' = 0 /\ Pos' = 0
     /\ TriggerIRQ' = FALSE /\ DetectionCounter' = 0 /\ DirectCount' = 0
     /\ UseTimeConst' = FALSE
     /\ UNCHANGED <<SampleRate, TimeConst>>
  \/ /\ value = 0 /\ ResetState = "START"
     /\ ResetState' = "POLL"
     /\ UNCHANGED <<DSPDATA_Subindex, cmdVars, xferVars, rateVars, hostVars, mixerVars>>

(* The mixer data port; a new number of channels changes a rate that is     *)
(* given as a time constant.                                                *)
Mixer_WriteKeepsRate(value) ==
  /\ MixerRegs' = MixerWritten(value)
  /\ UNCHANGED <<MixerRegIndex, cmdVars, pollVars, xferVars, rateVars, hostVars>>
Mixer_Write(value) ==
  /\ MixerRegs' = MixerWritten(value)
  /\ IF MixerRegIndex = MODEFILTER
     THEN UpdateTCSampleRate(Bits, HighSpeed, MixerWritten(value))
     ELSE UNCHANGED rateVars
  /\ UNCHANGED <<MixerRegIndex, cmdVars, pollVars, xferVars, hostVars>>

---------------------------------------------------------------------------
(* A transfer starts at the beginning of its block. *)
StartTransferNoRewind == Started' = TRUE /\ UNCHANGED Pos
StartTransfer == Started' = TRUE /\ Pos' = 0

(* A byte on the command port that starts a command; next is what DSPCMD    *)
(* holds afterwards.  In high-speed mode every byte is dropped.             *)
CommandKeepsIndex(next) ==
  /\ ~HighSpeed /\ DSPCMD = INVALID
  /\ DSPCMD' = next
  /\ UNCHANGED <<DSPCMD_Subindex, pollVars>>
Command(next) ==
  /\ ~HighSpeed /\ DSPCMD = INVALID
  /\ DSPCMD' = next /\ DSPCMD_Subindex' = 0
  /\ UNCHANGED pollVars

CmdTrigger(v) ==
  /\ v \in {TRIGGER_IRQ, TRIGGER_IRQ16} /\ Command(INVALID)
  /\ MixerRegs' = WithStatus(IF v = TRIGGER_IRQ THEN 0 ELSE 1)
  /\ TriggerIRQ' = TRUE
  /\ UNCHANGED <<MixerRegIndex, DetectionCounter, DirectCount, xferVars, rateVars>>

CmdIgnored(v) ==
  /\ v \in IgnoredCmds /\ Command(INVALID)
  /\ UNCHANGED <<xferVars, rateVars, hostVars, mixerVars>>

CmdHaltContinue(v) ==
  /\ v \in HaltCmds \cup ContinueCmds /\ Command(INVALID)
  /\ Started' = (v \in ContinueCmds)
  /\ UNCHANGED <<AutoMode, HighSpeed, Bits, Samples, Pos, rateVars, hostVars, mixerVars>>

CmdStart8(v) ==
  /\ v \in Auto8Cmds \cup HighSpeedCmds /\ Command(INVALID)
  /\ AutoMode' = (v \in Auto8Cmds)
  /\ HighSpeed' = (v \in HighSpeedCmds)
  /\ Bits' = 8 /\ StartTransfer
  /\ UpdateTCSampleRate(8, v \in HighSpeedCmds, MixerRegs)
  /\ UNCHANGED <<Samples, hostVars, mixerVars>>

CmdStartAdpcmAuto(v) ==
  /\ v \in AdpcmAuto /\ Command(INVALID)
  /\ AutoMode' = TRUE /\ Bits' = AdpcmBits(v) /\ StartTransfer
  /\ MixerRegs' = WithStereo(FALSE)
  /\ UNCHANGED <<HighSpeed, Samples, MixerRegIndex, rateVars, hostVars>>

CmdExitAuto(v) ==
  /\ v \in ExitAutoCmds /\ Command(INVALID)
  /\ AutoMode' = FALSE
  /\ Started' = (Started /\ ~AutoMode)
  /\ UNCHANGED <<HighSpeed, Bits, Samples, Pos, rateVars, hostVars, mixerVars>>

(* Every other byte waits for its parameters or for a read.  A byte no case *)
(* knows waits as well, until a reset.                                      *)
CmdPending(v) ==
  /\ v \notin {TRIGGER_IRQ, TRIGGER_IRQ16} \cup IgnoredCmds \cup HaltCmds \cup ContinueCmds
              \cup Auto8Cmds \cup HighSpeedCmds \cup AdpcmAuto \cup ExitAutoCmds
  /\ Command(IF v = OUT_DIRECT THEN DIRECT ELSE v)
  /\ UNCHANGED <<xferVars, rateVars, hostVars, mixerVars>>

---------------------------------------------------------------------------
(* A byte on the command port that is a parameter of a command of cmds;     *)
(* after sub = 2 bytes the next one starts a command again.                 *)
ParameterOffByOne(cmds, sub) ==
  /\ ~HighSpeed /\ DSPCMD \in cmds
  /\ DSPCMD_Subindex' = sub
  /\ DSPCMD' = IF sub > 2 THEN INVALID ELSE DSPCMD
  /\ UNCHANGED pollVars
Parameter(cmds, sub) ==
  /\ ~HighSpeed /\ DSPCMD \in cmds
  /\ DSPCMD_Subindex' = sub
  /\ DSPCMD' = IF sub >= 2 THEN INVALID ELSE DSPCMD
  /\ UNCHANGED pollVars

ParTimeConst(v) ==
  /\ Parameter({SET_TIMECONST}, 2)
  /\ UseTimeConst' = TRUE /\ TimeConst' = v
  /\ SampleRate' = IF FixTC /\ FixedRate(v) # 0 THEN FixedRate(v) \div GetChannels
                   ELSE TCRate(v, Bits, HighSpeed, GetChannels)
  /\ UNCHANGED <<xferVars, hostVars, mixerVars>>

(* The low byte replaces the size at once, the high byte completes it. *)
SizeLow(cmds, v) ==
  /\ v <= MaxSamples
  /\ Parameter(cmds, 1) /\ DSPCMD_Subindex = 0
  /\ Samples' = v
  /\ UNCHANGED <<Started, AutoMode, HighSpeed, Bits, Pos, rateVars, hostVars, mixerVars>>
SizeHigh(cmds, v) ==
  /\ (Samples % 256) + 256 * v <= MaxSamples
  /\ Parameter(cmds, 2) /\ DSPCMD_Subindex = 1
  /\ Samples' = (Samples % 256) + 256 * v
  /\ UNCHANGED <<MixerRegIndex, rateVars, hostVars>>

ParSize(v) ==
  \/ SizeLow({SET_SIZE, OUT_1}, v)
  \/ /\ SizeHigh({SET_SIZE, OUT_1}, v)
     /\ Started' = (DSPCMD = OUT_1)
     /\ HighSpeed' = FALSE /\ AutoMode' = FALSE
     /\ Bits' = (IF DSPCMD = OUT_1 THEN 8 ELSE Bits)
     /\ Pos' = (IF DSPCMD = OUT_1 THEN 0 ELSE Pos)
     /\ UNCHANGED MixerRegs

ParAdpcm(v) ==
  \/ SizeLow(AdpcmSingle, v)
  \/ /\ SizeHigh(AdpcmSingle, v)
     /\ AutoMode' = FALSE /\ Bits' = AdpcmBits(DSPCMD) /\ StartTransfer
     /\ MixerRegs' = WithStereo(FALSE)
     /\ UNCHANGED HighSpeed

ParMode(v) ==
  \/ SizeLow(Modes, v)
  \/ /\ SizeHigh(Modes, v)
     /\ Bits' = (IF DSPCMD \in Modes16 THEN 16 ELSE 8)
     /\ MixerRegs' = WithStereo(DSPCMD \in StereoModes)
     /\ StartTransfer
     /\ UNCHANGED <<AutoMode, HighSpeed>>

(* The parameter of an 8OR16 command is a mode, received as a command of    *)
(* its own.                                                                 *)
Par8or16(v) ==
  /\ ~HighSpeed /\ DSPCMD \in Cmds8or16
  /\ AutoMode' = (DSPCMD \in Auto8or16)
  /\ DSPCMD' = v /\ DSPCMD_Subindex' = 0
  /\ UNCHANGED <<pollVars, Started, HighSpeed, Bits, Samples, Pos, rateVars, hostVars, mixerVars>>

ParRate(v) ==
  /\ Parameter({SET_SAMPLERATE}, DSPCMD_Subindex + 1)
  /\ SampleRate' = IF DSPCMD_Subindex = 0 THEN 256 * v ELSE SampleRate - (SampleRate % 256) + v
  /\ UseTimeConst' = (UseTimeConst /\ DSPCMD_Subindex = 0)
  /\ UNCHANGED <<TimeConst, xferVars, hostVars, mixerVars>>

ParDirect(v) ==
  /\ Parameter({DIRECT}, 2)
  /\ DirectCount < MaxDirect
  /\ DirectCount' = DirectCount + 1
  /\ UNCHANGED <<TriggerIRQ, DetectionCounter, xferVars, rateVars, mixerVars>>

(* Parameters that change nothing the model keeps: SET_SAMPLERATE_I (two    *)
(* bytes), WRITE_TESTREG and DSP_DMA_ID (one byte, and the host writes a    *)
(* byte to the DMA channel), DSP_ID (as many as the client writes).         *)
ParOther(v) ==
  /\ \/ Parameter({\h42}, DSPCMD_Subindex + 1)
     \/ Parameter({\hE4, DSP_DMA_ID}, 2)
     \/ Parameter({DSP_ID}, DSPCMD_Subindex)
  /\ UNCHANGED <<xferVars, rateVars, hostVars, mixerVars>>

(* Bytes that are lost: in high-speed mode, or while a command is pending   *)
(* that takes no parameter.                                                 *)
TakesParameter == {SET_TIMECONST, DIRECT, \hE4, DSP_DMA_ID, DSP_ID}
                    \cup TwoByteCmds \cup Cmds8or16
DroppedWrite ==
  /\ HighSpeed \/ DSPCMD \notin TakesParameter \cup {INVALID}
  /\ UNCHANGED dspVars

DSP_Write(v) ==
  \/ CmdTrigger(v) \/ CmdIgnored(v) \/ CmdHaltContinue(v) \/ CmdStart8(v)
  \/ CmdStartAdpcmAuto(v) \/ CmdExitAuto(v) \/ CmdPending(v)
  \/ ParTimeConst(v) \/ ParSize(v) \/ ParAdpcm(v) \/ ParMode(v) \/ Par8or16(v)
  \/ ParRate(v) \/ ParDirect(v) \/ ParOther(v)
  \/ DroppedWrite

---------------------------------------------------------------------------
(* A read of the data port; reply stands for the byte returned. *)
Pending == IF ResetState = "END" THEN DSPCMD ELSE INVALID

DSP_Read(reply) ==
  /\ \/ /\ ResetState # "END" /\ reply = "READY"        \* \hAA
        /\ ResetState' = "END"
        /\ UNCHANGED <<DSPDATA_Subindex, DSPCMD>>
     \/ /\ Pending = DSP_GETVER /\ DSPDATA_Subindex = 0 /\ reply = "MAJOR"
        /\ DSPDATA_Subindex' = 1
        /\ UNCHANGED <<ResetState, DSPCMD>>
     \/ /\ Pending = DSP_COPYRIGHT /\ DSPDATA_Subindex # CopyrightLen /\ reply = "TEXT"
        /\ DSPDATA_Subindex' = DSPDATA_Subindex + 1
        /\ UNCHANGED <<ResetState, DSPCMD>>
     \/ /\ \/ Pending = DSP_GETVER /\ DSPDATA_Subindex # 0 /\ reply = "MINOR"
           \/ Pending = DSP_COPYRIGHT /\ DSPDATA_Subindex = CopyrightLen /\ reply = "NONE"
           \/ Pending = READ_TESTREG /\ reply = "TESTREG"
           \/ Pending = DSP_ID /\ reply = "ID"
        /\ DSPDATA_Subindex' = 0 /\ DSPCMD' = INVALID
        /\ UNCHANGED ResetState
     \/ /\ ResetState = "END" /\ reply = "NONE"          \* \hFF
        /\ DSPCMD \notin {DSP_GETVER, DSP_COPYRIGHT, READ_TESTREG, DSP_ID}
        /\ UNCHANGED <<ResetState, DSPDATA_Subindex, DSPCMD>>
  /\ UNCHANGED <<DSPCMD_Subindex, xferVars, rateVars, hostVars, mixerVars>>

(* Reads of the status port and of the 16-bit port acknowledge.  The busy   *)
(* bit a poll returns alternates and is left out.                           *)
Acknowledge(bit) ==
  /\ MixerRegs' = WithoutStatus(bit)
  /\ UNCHANGED <<MixerRegIndex, cmdVars, pollVars, xferVars, rateVars, hostVars>>
DSP_ReadStatus == Acknowledge(0)
DSP_INT16ACK   == Acknowledge(1)

---------------------------------------------------------------------------
(* What the host calls. *)
(* The transfer has come to pos.  At the end of the block the interrupt     *)
(* cause of the width is set, a transfer without auto mode stops, and the   *)
(* position starts over (SBEMU_SetPos, SBEMU_Stop, SBEMU_SetPos).           *)
BlockEndedLate(pos) == pos > GetSampleBytes
BlockEnded(pos) == pos >= GetSampleBytes
PlayKeepsHighSpeed(pos) ==
  /\ MixerRegs' = IF BlockEnded(pos) THEN WithStatus(IF Bits <= 8 THEN 0 ELSE 1) ELSE MixerRegs
  /\ Pos' = IF BlockEnded(pos) THEN 0 ELSE pos
  /\ Started' = (Started /\ (AutoMode \/ ~BlockEnded(pos)))
  /\ UNCHANGED <<MixerRegIndex, HighSpeed, AutoMode, Bits, Samples, cmdVars, pollVars, rateVars,
                 hostVars>>
Play(pos) ==
  /\ MixerRegs' = IF BlockEnded(pos) THEN WithStatus(IF Bits <= 8 THEN 0 ELSE 1) ELSE MixerRegs
  /\ Pos' = IF BlockEnded(pos) THEN 0 ELSE pos
  /\ Started' = (Started /\ (AutoMode \/ ~BlockEnded(pos)))
  /\ HighSpeed' = (HighSpeed /\ (AutoMode \/ ~BlockEnded(pos)))
  /\ UNCHANGED <<MixerRegIndex, AutoMode, Bits, Samples, cmdVars, pollVars, rateVars, hostVars>>

ClearTrigger ==
  /\ TriggerIRQ' = FALSE
  /\ UNCHANGED <<DetectionCounter, DirectCount, cmdVars, pollVars, xferVars, rateVars, mixerVars>>

(* A block of at most 32 bytes had ended: the transfer is stopped when too  *)
(* many such blocks were played.  The client's interrupt handler runs before *)
(* this, so the DSP may be in any state by now.  Beyond the limit the count  *)
(* does not matter.                                                          *)
CountDetection ==
  /\ DetectionCounter' = Least(DetectionCounter + 1, DetectLimit)
  /\ IF DetectionCounter + 1 >= DetectLimit
     THEN Started' = FALSE /\ HighSpeed' = FALSE /\ Pos' = 0
     ELSE UNCHANGED <<Started, HighSpeed, Pos>>
  /\ UNCHANGED <<AutoMode, Bits, Samples, TriggerIRQ, DirectCount, cmdVars, pollVars, rateVars,
                 mixerVars>>

ResetDirect ==
  /\ DirectCount' = 0
  /\ UNCHANGED <<TriggerIRQ, DetectionCounter, cmdVars, pollVars, xferVars, rateVars, mixerVars>>

---------------------------------------------------------------------------
(* The DSP with a client that makes any access in any order, and a host     *)
(* that plays between any two of them.                                      *)
Replies == {"READY", "MAJOR", "MINOR", "TEXT", "TESTREG", "ID", "NONE"}

MixerAddress(i) ==
  /\ Mixer_WriteAddr(i)
  /\ UNCHANGED <<cmdVars, pollVars, xferVars, rateVars, hostVars>>

DspClient ==
  \/ \E value \in {0, 1} : DSP_Reset(value)
  \/ \E v \in Writes : DSP_Write(v)
  \/ \E reply \in Replies : DSP_Read(reply)
  \/ DSP_ReadStatus
  \/ DSP_INT16ACK
  \/ \E i \in ClientRegs : MixerAddress(i)
  \/ \E value \in MixerVals : Mixer_Write(value)

DspHost ==
  \/ Started /\ \E n \in 1 .. MaxFetch : Play(Pos + n)
  \/ TriggerIRQ /\ ClearTrigger
  \/ CountDetection
  \/ ResetDirect

DspNext == DspClient \/ DspHost
DspSpec == DspInit /\ [][DspNext]_dspVars

---------------------------------------------------------------------------
(* High-speed mode drops every command, so only a reset or the end of the   *)
(* block may leave it: it must never be on without a transfer that will     *)
(* end, nor with half a command received (sbemu.c:230).                     *)
HighSpeedSafe == HighSpeed => Started /\ DSPCMD = INVALID /\ Bits = 8

(* A reply or a parameter list is never half done for another command than  *)
(* the one being processed: otherwise the next GETVER answers with the      *)
(* minor version first, or the next command takes a parameter for its own.  *)
CommandPhase ==
  /\ DSPDATA_Subindex > 0 =>
       \/ DSPCMD = DSP_GETVER /\ DSPDATA_Subindex = 1
       \/ DSPCMD = DSP_COPYRIGHT
  /\ DSPCMD # INVALID => DSPCMD_Subindex \in 0 .. 1
  /\ DSPCMD # INVALID /\ DSPCMD_Subindex = 1 => DSPCMD \in TwoByteCmds

(* While a high-speed transfer plays, its rate is the one its time constant *)
(* gives for the number of channels now selected, in whatever order the     *)
(* client programmed the two (sbemu.c:180-184, 297).                        *)
HighSpeedRate ==
  HighSpeed /\ UseTimeConst => SampleRate = TCRate(TimeConst, 8, TRUE, GetChannels)

(* A step that starts a transfer rewinds to the beginning of the block, or   *)
(* is a continue that changes nothing else: otherwise the first block after a *)
(* halted one would be cut short and its interrupt come early.                *)
StartRewinds ==
  [][~Started /\ Started' /\ Pos' # 0 =>
       UNCHANGED <<AutoMode, HighSpeed, Bits, Samples, Pos, MixerRegs>>]_dspVars

(* A write to one side of an SB16 volume pair leaves the other side of the  *)
(* 4:4 register as it was: MAIN_Interrupt takes the volume from there.      *)
SidesIndependent ==
  [][\A s \in StereoRegs \cap MixerIdx :
       MixerRegs'[s] # MixerRegs[s] /\ MixerRegIndex \in VolumePairRegs =>
         IF IsLeft(MixerRegIndex)
         THEN {b \in MixerRegs'[s] : b < 4} = {b \in MixerRegs[s] : b < 4}
         ELSE {b \in MixerRegs'[s] : b >= 4} = {b \in MixerRegs[s] : b >= 4}]_dspVars

=============================================================================
