-------------------------------- MODULE Vdma --------------------------------
(***************************************************************************)
(* The virtual DMA controllers (sbemu/vdma.c): the client programs and     *)
(* polls a channel through 8-bit ports, two accesses to each 16-bit        *)
(* register, while the sound interrupt moves the channel's position.       *)
(*                                                                         *)
(* Base is the number of values of a byte, 256 in the code: a smaller one  *)
(* gives an instance with registers of a few values.  Operators on the     *)
(* record of one channel come first, the accesses and calls after them.    *)
(* An operator whose name says what it leaves out (...NoWrap, ...NoUpdate,  *)
(* ...Torn) is a faulty variant of the one after it and is not used.        *)
(***************************************************************************)
EXTENDS Integers

CONSTANTS
  Base,       (* values of a byte                                *)
  Channels    (* the DMA channels this instance keeps            *)

ASSUME VdmaAssumption ==
  /\ Base \in Nat /\ Base > 1
  /\ Channels \subseteq 0 .. 7

Word      == Base * Base
VByte     == 0 .. Base - 1
Registers == {"addr", "count"}
ModeBits  == {"auto", "write"}       \* bit 4, and bits 3:2 = 01

(* Channels 4 to 7 count in words of two bytes; each of the two controllers *)
(* has one flip-flop for all its channels.                                  *)
SizeOf(c)       == IF c <= 3 THEN 1 ELSE 2
ControllerOf(c) == IF c <= 3 THEN 0 ELSE 1

VARIABLES
  Channel,     (* what the arrays of vdma.c hold at each channel's index *)
  FlipFlop,    (* parity of the accesses since the flip-flop was cleared *)
  VMask        (* the channels that are virtualized                      *)

vdmaVars == <<Channel, FlipFlop, VMask>>

ChannelState ==
  [reg : [Registers -> 0 .. Word - 1],   \* VDMA_Regs: what the client reads
   page : VByte,                         \* VDMA_PageRegs
   mode : SUBSET ModeBits,               \* VDMA_Modes
   addr : Nat,                           \* VDMA_Addr, page included
   index : Int,                          \* VDMA_Index
   counter : 0 .. Word,                  \* VDMA_Counter, as programmed
   cur : 0 .. Word,                      \* VDMA_CurCounter
   inIO : BOOLEAN,                       \* VDMA_InIO
   delayed : BOOLEAN,                    \* VDMA_DelayUpdate
   complete : BOOLEAN]                   \* VDMA_Complete

VdmaTypeOK ==
  /\ Channel \in [Channels -> ChannelState]
  /\ FlipFlop \in [{0, 1} -> {0, 1}]
  /\ VMask \subseteq Channels
  /\ \A c \in Channels : Channel[c].addr < Base * Word

VdmaInit ==
  /\ Channel = [c \in Channels |->
       [reg |-> [r \in Registers |-> 0], page |-> 0, mode |-> {}, addr |-> 0, index |-> 0,
        counter |-> 0, cur |-> 0, inIO |-> FALSE, delayed |-> FALSE, complete |-> FALSE]]
  /\ FlipFlop = [k \in {0, 1} |-> 0]
  /\ VMask = Channels

---------------------------------------------------------------------------
(* One channel. *)
Low(word)  == word % Base
High(word) == word \div Base

(* A byte written to register r; the address or the counter in force takes *)
(* the half-written value at once.                                         *)
PutByte(word, byte, low) == IF low THEN word - Low(word) + byte ELSE Low(word) + Base * byte
WithByte(ch, r, byte, low) ==
  LET word == PutByte(ch.reg[r], byte, low)
      put  == [ch EXCEPT !.reg[r] = word, !.inIO = low, !.delayed = low /\ @]
  IN  IF r = "addr"
      THEN [put EXCEPT !.index = 0, !.addr = @ - (@ % Word) + word]
      ELSE [put EXCEPT !.counter = word + 1, !.cur = word + 1]

WithPage(ch, byte) ==
  [ch EXCEPT !.page = byte, !.index = 0, !.addr = (@ % Word) + Word * byte]

(* The registers take the position the channel has reached. *)
RefreshedNoWrap(ch) ==
  [ch EXCEPT !.reg = [r \in Registers |-> IF r = "addr" THEN ch.addr + ch.index
                                          ELSE (ch.cur - 1) % Word],
             !.page = ((ch.addr + ch.index) \div Word) % Base]
Refreshed(ch) ==
  [ch EXCEPT !.reg = [r \in Registers |-> IF r = "addr" THEN (ch.addr + ch.index) % Word
                                          ELSE (ch.cur - 1) % Word],
             !.page = ((ch.addr + ch.index) \div Word) % Base]

(* A read of a register: the second byte ends the access and lets an update *)
(* in that came between the two.                                            *)
AfterReadNoUpdate(ch, low) ==
  IF low THEN [ch EXCEPT !.inIO = TRUE] ELSE [ch EXCEPT !.inIO = FALSE, !.delayed = FALSE]
AfterRead(ch, low) ==
  IF low THEN [ch EXCEPT !.inIO = TRUE]
  ELSE [(IF ch.delayed THEN Refreshed(ch) ELSE ch) EXCEPT !.inIO = FALSE, !.delayed = FALSE]

(* The position in bytes, and its report by the sound interrupt.  A counter *)
(* that has run out completes the transfer: in auto mode it starts over.    *)
(* The word address of a 16-bit channel gives bit 0 of the page, by an OR.  *)
GetAddress(c) ==
  LET bytes == (Channel[c].addr % Word) * SizeOf(c)
      page  == Channel[c].addr \div Word
  IN  (IF bytes >= Word /\ (page % 2) = 0 THEN page + 1 ELSE page) * Word + (bytes % Word)
GetCounter(c) == Channel[c].cur * SizeOf(c)
GetIndex(c)   == Channel[c].index * SizeOf(c)
GetAuto(c)    == "auto" \in Channel[c].mode
GetWriteMode(c) == "write" \in Channel[c].mode

MovedTo(ch, size, index, counter) ==
  LET done  == counter <= 0
      again == done /\ "auto" \in ch.mode
  IN  [ch EXCEPT !.index = IF again THEN 0 ELSE index \div size,
                 !.cur = IF again THEN ch.counter ELSE IF done THEN Word ELSE counter \div size,
                 !.complete = @ \/ done]

SetIndexCounterTorn(c, index, counter) ==
  /\ Channel' = [Channel EXCEPT ![c] = Refreshed(MovedTo(@, SizeOf(c), index, counter))]
  /\ UNCHANGED <<FlipFlop, VMask>>
SetIndexCounter(c, index, counter) ==
  /\ Channel' = [Channel EXCEPT ![c] =
       LET moved == MovedTo(@, SizeOf(c), index, counter)
       IN  IF moved.inIO THEN [moved EXCEPT !.delayed = TRUE] ELSE Refreshed(moved)]
  /\ UNCHANGED <<FlipFlop, VMask>>

---------------------------------------------------------------------------
(* The client's port accesses. *)
LowByteNext(c) == FlipFlop[ControllerOf(c)] = 0
Toggle(c) == FlipFlop' = [FlipFlop EXCEPT ![ControllerOf(c)] = 1 - @]

WriteReg(c, r, byte) ==
  /\ Channel' = [Channel EXCEPT ![c] = WithByte(@, r, byte, LowByteNext(c))]
  /\ Toggle(c)
  /\ UNCHANGED VMask

WritePage(c, byte) ==
  /\ Channel' = [Channel EXCEPT ![c] = WithPage(@, byte)]
  /\ UNCHANGED <<FlipFlop, VMask>>

WriteMode(c, mode) ==
  /\ Channel' = [Channel EXCEPT ![c].mode = mode]
  /\ UNCHANGED <<FlipFlop, VMask>>

ClearFlipFlop(k) ==
  /\ FlipFlop' = [FlipFlop EXCEPT ![k] = 0]
  /\ UNCHANGED <<Channel, VMask>>

(* A read of a channel that is not virtualized goes to the hardware. *)
ReadReg(c) ==
  /\ c \in VMask
  /\ Channel' = [Channel EXCEPT ![c] = AfterRead(@, LowByteNext(c))]
  /\ Toggle(c)
  /\ UNCHANGED VMask

(* The status port of the first controller clears the completion of every *)
(* virtualized channel.                                                   *)
ReadStatus ==
  /\ Channel' = [c \in Channels |-> IF c \in VMask THEN [Channel[c] EXCEPT !.complete = FALSE]
                                    ELSE Channel[c]]
  /\ UNCHANGED <<FlipFlop, VMask>>

---------------------------------------------------------------------------
(* Calls from the rest of SBEMU. *)
Virtualize(c, enable) ==
  /\ VMask' = IF enable THEN VMask \cup {c} ELSE VMask \ {c}
  /\ UNCHANGED <<Channel, FlipFlop>>

(* The DSP writes one byte into a channel in write mode. *)
WriteData(c) ==
  /\ IF GetWriteMode(c) THEN SetIndexCounter(c, GetIndex(c) + 1, GetCounter(c) - 1)
     ELSE UNCHANGED vdmaVars
=============================================================================
