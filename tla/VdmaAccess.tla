----------------------------- MODULE VdmaAccess -----------------------------
(***************************************************************************)
(* The virtual DMA controllers with a client that makes any access in any  *)
(* order and a sound interrupt that comes between any two of them.  Two    *)
(* history variables record what the client has seen or written.           *)
(***************************************************************************)
EXTENDS Vdma

CONSTANTS
  MaxIndex,    (* bound of this model on the position of a channel         *)
  MaxBytes     (* the most bytes the sound interrupt plays at a time       *)

ASSUME AccessAssumption == MaxIndex \in Nat /\ MaxBytes \in Nat

VARIABLES
  half,      (* the two-byte access the client's last access began, if any *)
  written    (* the channels written since their registers were refreshed  *)

accessVars == <<vdmaVars, half, written>>

None == [op |-> "none"]

AccessInit == VdmaInit /\ half = None /\ written = Channels

(* Whether the client's access to c refreshes the registers. *)
ReadRefreshes(c) == ~LowByteNext(c) /\ Channel[c].delayed

ClientWrites(c, r, byte) ==
  /\ WriteReg(c, r, byte)
  /\ half' = IF LowByteNext(c) THEN [op |-> "write", c |-> c, r |-> r, low |-> byte] ELSE None
  /\ written' = written \cup {c}

ClientReads(c, r) ==
  /\ ReadReg(c)
  /\ half' = IF LowByteNext(c) THEN [op |-> "read", c |-> c, r |-> r, word |-> Channel[c].reg[r]]
             ELSE None
  /\ written' = IF ReadRefreshes(c) THEN written \ {c} ELSE written

ClientSetsUp ==
  /\ \/ \E c \in Channels, byte \in VByte : WritePage(c, byte) /\ written' = written \cup {c}
     \/ \E c \in Channels, mode \in SUBSET ModeBits : WriteMode(c, mode) /\ UNCHANGED written
     \/ \E k \in {0, 1} : ClearFlipFlop(k) /\ UNCHANGED written
     \/ ReadStatus /\ UNCHANGED written
  /\ half' = None

Reported(c) == written' = IF Channel[c].inIO THEN written ELSE written \ {c}

HostPlays(c) ==
  \E n \in 1 .. MaxBytes :
    /\ GetIndex(c) + n <= MaxIndex
    /\ SetIndexCounter(c, GetIndex(c) + n * SizeOf(c), GetCounter(c) - n * SizeOf(c))
    /\ Reported(c) /\ UNCHANGED half

HostWritesData(c) ==
  /\ GetIndex(c) < MaxIndex
  /\ WriteData(c)
  /\ IF GetWriteMode(c) THEN Reported(c) ELSE UNCHANGED written
  /\ UNCHANGED half

Reconfigure(c) ==
  /\ \E enable \in BOOLEAN : Virtualize(c, enable)
  /\ UNCHANGED <<half, written>>

AccessNext ==
  \/ \E c \in Channels, r \in Registers, byte \in VByte : ClientWrites(c, r, byte)
  \/ \E c \in Channels, r \in Registers : ClientReads(c, r)
  \/ ClientSetsUp
  \/ \E c \in Channels : HostPlays(c) \/ HostWritesData(c) \/ Reconfigure(c)

AccessSpec == AccessInit /\ [][AccessNext]_accessVars

---------------------------------------------------------------------------
(* The two bytes of a register the client reads one after the other belong *)
(* to one value, however often the sound interrupt comes in between        *)
(* (vdma.c:213-220).                                                       *)
NoTornRead == half.op = "read" => Channel[half.c].reg[half.r] = half.word

(* ... and the second byte the client writes completes the first.          *)
NoTornWrite == half.op = "write" => Low(Channel[half.c].reg[half.r]) = half.low

(* Outside an access, the registers show the position the channel has      *)
(* reached, unless the client wrote to the channel since the last report:  *)
(* an update that came during an access is not lost.                       *)
ProgressShown ==
  \A c \in Channels \ written :
    ~Channel[c].inIO => Channel[c].reg = Refreshed(Channel[c]).reg

(* An update waits only for an access that is not finished. *)
DelayedInAccess == \A c \in Channels : Channel[c].delayed => Channel[c].inIO
=============================================================================
