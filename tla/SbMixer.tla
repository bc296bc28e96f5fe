------------------------------ MODULE SbMixer ------------------------------
(***************************************************************************)
(* The mixer chip of the emulated Sound Blaster (sbemu/sbemu.c): an index  *)
(* register and 256 data registers behind two I/O ports.  The registers    *)
(* carry the volumes, the stereo switch, the interrupt and DMA selection   *)
(* and the interrupt status that the DSP and the sound interrupt share.    *)
(*                                                                         *)
(* A byte is the set of the numbers of its 1 bits.  MixerIdx is the part   *)
(* of the 256 registers an instance keeps.  NibbleOverwritesSide is a      *)
(* faulty variant of Nibble that the specification does not use.           *)
(***************************************************************************)
EXTENDS Integers

CONSTANTS
  DSPVER,     (* version of the emulated DSP: \h202, \h302, \h400 ...      *)
  IRQ,        (* /I: virtual interrupt line                                *)
  DMA,        (* /D: 8-bit DMA channel                                     *)
  HDMA,       (* /H: 16-bit DMA channel; main.c sets it to DMA unless SB16 *)
  MixerIdx    (* the mixer registers this instance keeps                   *)

(* Register numbers, named as in sbemu.h. *)
RESET        == \h00
MASTERVOL    == \h02
MIDIVOL      == \h06
CDVOL        == \h08
VOICEVOL     == \h0A
VOICESTEREO  == \h04
MODEFILTER   == \h0E
MASTERSTEREO == \h22
MIDISTEREO   == \h26
CDSTEREO     == \h28
INT_SETUP    == \h80
DMA_SETUP    == \h81
INT_STS      == \h82

IsSB16 == DSPVER >= \h400

(* The 5-bit registers MASTERL .. CDR of the SB16, and the 4:4 register that *)
(* carries the same pair of volumes; the left one has the even number.       *)
VolumePairRegs == \h30 .. \h37
StereoOf(i) ==
  CASE i \in \h30 .. \h31 -> MASTERSTEREO
    [] i \in \h32 .. \h33 -> VOICESTEREO
    [] i \in \h34 .. \h35 -> MIDISTEREO
    [] OTHER              -> CDSTEREO
IsLeft(i) == i % 2 = 0

ASSUME MixerAssumption ==
  /\ DSPVER \in Nat /\ IRQ \in Nat
  /\ DMA \in 0 .. 7 /\ HDMA \in 0 .. 7
  /\ MixerIdx \subseteq 0 .. 255
  /\ {RESET, MODEFILTER, INT_SETUP, DMA_SETUP, INT_STS} \subseteq MixerIdx
  /\ \A i \in VolumePairRegs \cap MixerIdx : StereoOf(i) \in MixerIdx

VARIABLES
  MixerRegIndex,   (* the register the data port addresses  *)
  MixerRegs        (* their contents, as sets of 1 bits     *)

mixerVars == <<MixerRegIndex, MixerRegs>>

Byte == SUBSET (0 .. 7)

MixerTypeOK ==
  /\ MixerRegIndex \in MixerIdx
  /\ MixerRegs \in [MixerIdx -> Byte]

---------------------------------------------------------------------------
(* What a write to register RESET loads: full volume in every volume      *)
(* register, in the width each one has on this generation of the card.    *)
StereoRegs == {VOICESTEREO, MASTERSTEREO, MIDISTEREO, CDSTEREO}
VolumeRegs == {MASTERVOL, MIDIVOL, CDVOL, VOICEVOL} \cup StereoRegs
                \cup (IF IsSB16 THEN VolumePairRegs ELSE {})
FullVolume(i) ==
  CASE i \in {MASTERVOL, MIDIVOL, CDVOL} -> 1 .. 3
    [] i = VOICEVOL                      -> 1 .. 2
    [] i \in StereoRegs                  -> IF IsSB16 THEN 0 .. 7 ELSE (1 .. 3) \cup (5 .. 7)
    [] OTHER                             -> 3 .. 7

(* The upper four bits of a 5-bit volume in one nibble of the 4:4 register, *)
(* the other nibble kept.                                                   *)
NibbleOverwritesSide(i, value, old) ==
  IF IsLeft(i) THEN {b \in value : b >= 4} ELSE {b \in 0 .. 3 : b + 4 \in value}
Nibble(i, value, old) ==
  IF IsLeft(i) THEN {b \in old : b < 4} \cup {b \in value : b >= 4}
               ELSE {b \in old : b >= 4} \cup {b \in 0 .. 3 : b + 4 \in value}

(* The registers after a write of value to the register addressed. *)
MixerWritten(value) ==
  LET i      == MixerRegIndex
      stored == [MixerRegs EXCEPT ![i] = value]
  IN  IF i = RESET
      THEN [j \in MixerIdx |-> IF j \in VolumeRegs THEN FullVolume(j) ELSE stored[j]]
      ELSE IF IsSB16 /\ i \in VolumePairRegs
           THEN [stored EXCEPT ![StereoOf(i)] = Nibble(i, value, @)]
           ELSE stored

(* After SBEMU_Init: all registers 0 but for a write of 1 to RESET. *)
MixerInit ==
  /\ MixerRegIndex = RESET
  /\ MixerRegs = [j \in MixerIdx |-> IF j \in VolumeRegs THEN FullVolume(j)
                                     ELSE IF j = RESET THEN {0} ELSE {}]

(* The registers a DSP reset loads.  An IRQ that IRQMap does not hold has   *)
(* index -1: 1<<-1 leaves no bit in the byte on x86.                        *)
IRQMap == [bit \in 0 .. 3 |-> IF bit = 0 THEN 2 ELSE IF bit = 1 THEN 5
                              ELSE IF bit = 2 THEN 7 ELSE 10]
IntSetup == {bit \in 0 .. 3 : IRQMap[bit] = IRQ}
DmaSetup == ({DMA} \cup (IF HDMA = 0 THEN {} ELSE {HDMA})) \ {2, 4}
DspResetRegs ==
  [MixerRegs EXCEPT ![INT_SETUP] = IntSetup, ![DMA_SETUP] = DmaSetup,
                    ![MODEFILTER] = (0 .. 7) \ {1}]

Mixer_WriteAddr(index) ==
  /\ MixerRegIndex' = index
  /\ UNCHANGED MixerRegs

---------------------------------------------------------------------------
(* What the DSP and the sound interrupt read from the registers. *)
BSF(bits) == CHOOSE b \in bits : \A c \in bits : b <= c
NoLine == \hFF
GetDMA == IF MixerRegs[DMA_SETUP] = {} THEN NoLine ELSE BSF(MixerRegs[DMA_SETUP])

(* BSF of a zero high nibble reads an uninitialised variable: any byte. *)
GetHDMA ==
  LET high == {b \in MixerRegs[DMA_SETUP] : b >= 4}
  IN  IF MixerRegs[DMA_SETUP] = {} THEN {NoLine}
      ELSE IF high = {} THEN 0 .. \hFF ELSE {BSF(high)}

StereoSet(regs) == 1 \in regs[MODEFILTER]
ChannelsOf(regs) == IF StereoSet(regs) THEN 2 ELSE 1
GetChannels == ChannelsOf(MixerRegs)
WithStereo(on) == [MixerRegs EXCEPT ![MODEFILTER] = IF on THEN @ \cup {1} ELSE @ \ {1}]
WithStatus(bit) == [MixerRegs EXCEPT ![INT_STS] = @ \cup {bit}]
WithoutStatus(bit) == [MixerRegs EXCEPT ![INT_STS] = @ \ {bit}]
=============================================================================
