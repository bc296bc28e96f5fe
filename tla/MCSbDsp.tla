------------------------------ MODULE MCSbDsp ------------------------------
(***************************************************************************)
(* Instances of SbDsp for TLC.  The registers an instance keeps are the    *)
(* ones the checked behaviour reads; the bytes the client writes are       *)
(* chosen so that each of them is also a parameter of the other commands.  *)
(***************************************************************************)
EXTENDS SbDsp

(* Transfers of an SB Pro: single, auto, high-speed and ADPCM blocks of one *)
(* to three samples, halted, continued and resized.                         *)
TransferWrites == {\h00, \h01, \h02, \h10, \h14, \h1C, \h48, \h7D, \h90, \h91, \hC6, \hD0, \hD4, \hDA}
TransferRegs   == {RESET, MODEFILTER, INT_SETUP, DMA_SETUP, INT_STS}
StereoSwitch   == {MODEFILTER}
StereoVals     == {{}, {1}}

(* Commands with their parameters and replies, the bytes the DSP ignores and *)
(* the ones it waits on for ever.                                            *)
ProtocolWrites == {\h00, \h01, \h10, \h16, \h20, \h42, \h80, \hB0, \hD1,
                   \hE0, \hE1, \hE3, \hE8, \hF2, \hF3}
NoRegs == {}

(* The rate and the mixer of an SB16: a time constant, a rate, high-speed   *)
(* transfers, the stereo switch and the master volume the mixer keeps twice. *)
RateWrites == {\h40, \h41, \h90}
MixerRegsKept == TransferRegs \cup {MASTERSTEREO, \h30, \h31}
MixerClientRegs == {MODEFILTER, \h30, \h31}
MixerClientVals == {{1, 5}}
=============================================================================
