-------------------------- MODULE VdmaAccessProofs --------------------------
(***************************************************************************)
(* The DMA channels keep their type, and no access of the client is torn   *)
(* by the sound interrupt, for every Base, set of channels and bound.      *)
(* A torn access is prevented by the channel being in access (Held), and a *)
(* report put off is not lost because it waits for that very access        *)
(* (DelayedInAccess) and nothing else makes the registers differ from the  *)
(* position (Shown): VInv is their conjunction with the type.              *)
(***************************************************************************)
EXTENDS VdmaAccess, VdmaProofs

(* A half-done access holds its channel and has its bytes in the register.  *)
HeldRead ==
  half.op = "read" =>
    /\ half.c \in Channels /\ half.r \in Registers
    /\ Channel[half.c].inIO
    /\ Channel[half.c].reg[half.r] = half.word
HeldWrite ==
  half.op = "write" =>
    /\ half.c \in Channels /\ half.r \in Registers
    /\ Channel[half.c].inIO
    /\ Low(Channel[half.c].reg[half.r]) = half.low

(* The registers of a channel no one wrote to differ from its position only *)
(* while an update waits.                                                   *)
Shown ==
  \A c \in Channels \ written :
    ~Channel[c].delayed => Channel[c].reg = Refreshed(Channel[c]).reg

VInv == VdmaTypeOK /\ DelayedInAccess /\ HeldRead /\ HeldWrite /\ Shown

---------------------------------------------------------------------------
(* A step that changes one channel. *)
LEMMA OneChannel ==
  ASSUME VdmaTypeOK, DelayedInAccess, NEW c \in Channels, NEW ch,
         ChannelOK(ch), ch.delayed => ch.inIO,
         Channel' = [Channel EXCEPT ![c] = ch],
         FlipFlop' \in [{0, 1} -> {0, 1}], UNCHANGED VMask
  PROVE  /\ VdmaTypeOK' /\ DelayedInAccess'
         /\ Channel'[c] = ch
         /\ \A d \in Channels : d # c => Channel'[d] = Channel[d]
<1>1. /\ VdmaTypeOK' /\ Channel'[c] = ch
      /\ \A d \in Channels : d # c => Channel'[d] = Channel[d]
  BY ChannelChanged
<1>2. DelayedInAccess'
  BY <1>1, Zenon DEF DelayedInAccess
<1> QED
  BY <1>1, <1>2

LEMMA InitInv == AccessInit => VInv
<1> SUFFICES ASSUME AccessInit PROVE VInv
  OBVIOUS
<1> USE DEF AccessInit, VdmaInit
<1>1. VdmaTypeOK
  <2>1. 0 \in 0 .. Word - 1 /\ 0 \in VByte /\ 0 \in Nat /\ 0 \in Int /\ 0 \in 0 .. Word
    BY WordType DEF VByte
  <2>2. 0 < Base * Word
    BY WordType, ProductNat DEF Word
  <2> DEFINE zero == 0
             start == [reg |-> [r \in Registers |-> zero], page |-> zero, mode |-> {},
                       addr |-> zero, index |-> zero, counter |-> zero, cur |-> zero,
                       inIO |-> FALSE, delayed |-> FALSE, complete |-> FALSE]
  <2>3. Channel = [c \in Channels |-> start]
    OBVIOUS
  <2>4. /\ zero \in 0 .. Word - 1 /\ zero \in VByte /\ zero \in Nat /\ zero \in Int
        /\ zero \in 0 .. Word /\ zero < Base * Word
    BY <2>1, <2>2
  <2> HIDE DEF zero
  <2>5. start \in ChannelState /\ start.addr < Base * Word
    BY <2>4 DEF ChannelState
  <2> HIDE DEF start
  <2>6. Channel \in [Channels -> ChannelState] /\ \A c \in Channels : Channel[c].addr < Base * Word
    BY <2>3, <2>5
  <2>7. FlipFlop \in [{0, 1} -> {0, 1}] /\ VMask \subseteq Channels
    OBVIOUS
  <2> QED
    BY <2>6, <2>7 DEF VdmaTypeOK
<1>2. DelayedInAccess
  BY DEF DelayedInAccess
<1>3. HeldRead /\ HeldWrite /\ Shown
  BY DEF HeldRead, HeldWrite, Shown, None
<1> QED
  BY <1>1, <1>2, <1>3 DEF VInv

(* A byte written holds the channel, or completes what it held.             *)
LEMMA WritesInv ==
  ASSUME VInv, NEW c \in Channels, NEW r \in Registers, NEW byte \in VByte,
         ClientWrites(c, r, byte)
  PROVE  VInv'
<1> DEFINE low == LowByteNext(c)
           ch  == WithByte(Channel[c], r, byte, low)
<1>1. VdmaTypeOK /\ DelayedInAccess /\ Shown
  BY DEF VInv
<1>2. ChannelOK(Channel[c]) /\ low \in BOOLEAN
  BY <1>1, ChannelsOK
<1>3. /\ Channel' = [Channel EXCEPT ![c] = ch] /\ Toggle(c) /\ UNCHANGED VMask
      /\ half' = (IF low THEN [op |-> "write", c |-> c, r |-> r, low |-> byte] ELSE None)
      /\ written' = written \cup {c}
  BY DEF ClientWrites, WriteReg
<1> HIDE DEF low
<1>4. /\ ChannelOK(ch) /\ ch.inIO = low /\ (ch.delayed => low)
      /\ ch.reg[r] = PutByte(Channel[c].reg[r], byte, low)
  BY <1>2, WithByteOK
<1> HIDE DEF ch
<1>5. FlipFlop' \in [{0, 1} -> {0, 1}]
  BY <1>1, <1>3, ToggleType
<1>6. /\ VdmaTypeOK' /\ DelayedInAccess' /\ Channel'[c] = ch
      /\ \A d \in Channels : d # c => Channel'[d] = Channel[d]
  BY <1>1, <1>3, <1>4, <1>5, OneChannel
<1>7. Shown'
  BY <1>1, <1>3, <1>6 DEF Shown
<1>8. HeldRead'
  BY <1>3 DEF HeldRead, None
<1>9. HeldWrite'
  <2>1. CASE low
    <3>1. Channel[c].reg[r] \in 0 .. Word - 1
      BY <1>2 DEF ChannelOK, ChannelState
    <3>2. Low(ch.reg[r]) = byte
      BY <1>4, <2>1, <3>1, PutByteLow
    <3>3. half'.c = c /\ half'.r = r /\ half'.low = byte
      BY <1>3, <2>1
    <3>4. Channel'[c].inIO /\ Low(Channel'[c].reg[r]) = byte
      BY <1>4, <1>6, <2>1, <3>2, Zenon
    <3> QED
      BY <3>3, <3>4, Zenon DEF HeldWrite
  <2>2. CASE ~low
    BY <1>3, <2>2 DEF HeldWrite, None
  <2> QED
    BY <2>1, <2>2
<1> QED
  BY <1>6, <1>7, <1>8, <1>9 DEF VInv

LEMMA ReadsInv ==
  ASSUME VInv, NEW c \in Channels, NEW r \in Registers, ClientReads(c, r)
  PROVE  VInv'
<1> DEFINE low == LowByteNext(c)
           ch  == AfterRead(Channel[c], low)
<1>1. VdmaTypeOK /\ DelayedInAccess /\ Shown
  BY DEF VInv
<1>2. ChannelOK(Channel[c]) /\ low \in BOOLEAN /\ (Channel[c].delayed => Channel[c].inIO)
  BY <1>1, ChannelsOK DEF DelayedInAccess
<1>3. /\ Channel' = [Channel EXCEPT ![c] = ch] /\ Toggle(c) /\ UNCHANGED VMask
      /\ half' = (IF low THEN [op |-> "read", c |-> c, r |-> r, word |-> Channel[c].reg[r]]
                  ELSE None)
      /\ written' = (IF ~low /\ Channel[c].delayed THEN written \ {c} ELSE written)
  BY DEF ClientReads, ReadReg, ReadRefreshes
<1> HIDE DEF low
<1>4. /\ ChannelOK(ch) /\ ch.inIO = low /\ (ch.delayed => low)
      /\ low => ch.reg = Channel[c].reg /\ ch.delayed = Channel[c].delayed
      /\ ~low /\ ~Channel[c].delayed => ch.reg = Channel[c].reg
      /\ ~low /\ Channel[c].delayed => ch.reg = Refreshed(Channel[c]).reg
      /\ Refreshed(ch).reg = Refreshed(Channel[c]).reg
  BY <1>2, AfterReadOK
<1> HIDE DEF ch
<1>5. FlipFlop' \in [{0, 1} -> {0, 1}]
  BY <1>1, <1>3, ToggleType
<1>6. /\ VdmaTypeOK' /\ DelayedInAccess' /\ Channel'[c] = ch
      /\ \A d \in Channels : d # c => Channel'[d] = Channel[d]
  BY <1>1, <1>3, <1>4, <1>5, OneChannel
<1>7. Shown'
  <2> SUFFICES ASSUME NEW d \in Channels, d \notin written', ~Channel'[d].delayed
               PROVE  Channel'[d].reg = Refreshed(Channel'[d]).reg
    BY Zenon DEF Shown
  <2>1. CASE d # c
    BY <1>1, <1>3, <1>6, <2>1 DEF Shown
  <2>2. CASE d = c /\ Channel[c].delayed
    BY <1>4, <1>6, <2>2
  <2>3. CASE d = c /\ ~Channel[c].delayed
    <3>1. Channel[c].reg = Refreshed(Channel[c]).reg
      BY <1>1, <1>3, <2>3 DEF Shown
    <3> QED
      BY <1>4, <1>6, <2>3, <3>1
  <2> QED
    BY <2>1, <2>2, <2>3
<1>8. HeldRead'
  <2>1. CASE low
    <3>1. half'.c = c /\ half'.r = r /\ half'.word = Channel[c].reg[r]
      BY <1>3, <2>1
    <3> QED
      BY <1>4, <1>6, <2>1, <3>1, Zenon DEF HeldRead
  <2>2. CASE ~low
    BY <1>3, <2>2 DEF HeldRead, None
  <2> QED
    BY <2>1, <2>2
<1>9. HeldWrite'
  BY <1>3 DEF HeldWrite, None
<1> QED
  BY <1>6, <1>7, <1>8, <1>9 DEF VInv

(* Page, mode, flip-flop and status: the client has left any half access.   *)
LEMMA SetsUpInv ==
  ASSUME VInv, ClientSetsUp
  PROVE  VInv'
<1>1. VdmaTypeOK /\ DelayedInAccess /\ Shown
  BY DEF VInv
<1>2. half' = None
  BY DEF ClientSetsUp
<1>3. HeldRead' /\ HeldWrite'
  BY <1>2 DEF HeldRead, HeldWrite, None
<1>4. ASSUME NEW c \in Channels, NEW byte \in VByte, WritePage(c, byte), written' = written \cup {c}
      PROVE  VInv'
  <2>1. /\ Channel' = [Channel EXCEPT ![c] = WithPage(Channel[c], byte)]
        /\ UNCHANGED <<FlipFlop, VMask>>
    BY <1>4 DEF WritePage
  <2>2. /\ ChannelOK(WithPage(Channel[c], byte))
        /\ WithPage(Channel[c], byte).delayed = Channel[c].delayed
        /\ WithPage(Channel[c], byte).inIO = Channel[c].inIO
    BY <1>1, ChannelsOK, WithPageOK
  <2>3. /\ VdmaTypeOK' /\ DelayedInAccess'
        /\ \A d \in Channels : d # c => Channel'[d] = Channel[d]
    BY <1>1, <2>1, <2>2, OneChannel DEF DelayedInAccess, VdmaTypeOK
  <2>4. Shown'
    BY <1>1, <1>4, <2>3 DEF Shown
  <2> QED
    BY <1>3, <2>3, <2>4 DEF VInv
<1>5. ASSUME NEW c \in Channels, NEW mode \in SUBSET ModeBits, WriteMode(c, mode), UNCHANGED written
      PROVE  VInv'
  <2> DEFINE ch == [Channel[c] EXCEPT !.mode = mode]
  <2>1. Channel' = [Channel EXCEPT ![c] = ch] /\ UNCHANGED <<FlipFlop, VMask>>
    BY <1>5 DEF WriteMode
  <2>2. ChannelOK(Channel[c])
    BY <1>1, ChannelsOK
  <2>3. /\ ChannelOK(ch) /\ ch.delayed = Channel[c].delayed /\ ch.inIO = Channel[c].inIO
        /\ ch.reg = Channel[c].reg /\ ch.addr = Channel[c].addr
        /\ ch.index = Channel[c].index /\ ch.cur = Channel[c].cur
    BY <2>2 DEF ChannelOK, ChannelState
  <2> HIDE DEF ch
  <2>4. Refreshed(ch).reg = Refreshed(Channel[c]).reg
    BY <2>2, <2>3, RefreshedSame
  <2>5. /\ VdmaTypeOK' /\ DelayedInAccess' /\ Channel'[c] = ch
        /\ \A d \in Channels : d # c => Channel'[d] = Channel[d]
    BY <1>1, <2>1, <2>3, OneChannel DEF DelayedInAccess, VdmaTypeOK
  <2>6. Shown'
    BY <1>1, <1>5, <2>3, <2>4, <2>5 DEF Shown
  <2> QED
    BY <1>3, <2>5, <2>6 DEF VInv
<1>6. ASSUME NEW k \in {0, 1}, ClearFlipFlop(k), UNCHANGED written
      PROVE  VInv'
  BY <1>1, <1>3, <1>6 DEF ClearFlipFlop, VInv, VdmaTypeOK, DelayedInAccess, Shown
<1>7. ASSUME ReadStatus, UNCHANGED written
      PROVE  VInv'
  <2> DEFINE seen(ch) == [ch EXCEPT !.complete = FALSE]
  <2>1. /\ UNCHANGED <<FlipFlop, VMask>>
        /\ Channel' = [c \in Channels |-> IF c \in VMask THEN seen(Channel[c]) ELSE Channel[c]]
    BY <1>7 DEF ReadStatus
  <2>2. ASSUME NEW c \in Channels
        PROVE  /\ ChannelOK(Channel'[c])
               /\ Channel'[c].delayed = Channel[c].delayed
               /\ Channel'[c].inIO = Channel[c].inIO
               /\ Channel'[c].reg = Channel[c].reg
               /\ Refreshed(Channel'[c]).reg = Refreshed(Channel[c]).reg
    <3>1. ChannelOK(Channel[c])
      BY <1>1, ChannelsOK
    <3> DEFINE old == Channel[c]
               ch == seen(old)
    <3>2. /\ ChannelOK(ch) /\ ch.delayed = old.delayed /\ ch.inIO = old.inIO
          /\ ch.reg = old.reg /\ ch.addr = old.addr /\ ch.index = old.index /\ ch.cur = old.cur
      BY <3>1 DEF ChannelOK, ChannelState
    <3>3. Channel'[c] = ch \/ Channel'[c] = old
      BY <2>1
    <3> HIDE DEF ch
    <3>4. Refreshed(ch).reg = Refreshed(old).reg
      BY <3>1, <3>2, RefreshedSame
    <3>5. CASE Channel'[c] = ch
      BY <3>2, <3>4, <3>5, Zenon
    <3>6. CASE Channel'[c] = old
      BY <3>1, <3>6, Zenon
    <3> QED
      BY <3>3, <3>5, <3>6
  <2>3. VdmaTypeOK'
    <3>1. Channel' \in [Channels -> ChannelState]
      BY <2>1, <2>2 DEF ChannelOK
    <3> QED
      BY <1>1, <2>1, <2>2, <3>1 DEF VdmaTypeOK, ChannelOK, AddressSpace
  <2>4. DelayedInAccess' /\ Shown'
    BY <1>1, <1>7, <2>2, Zenon DEF DelayedInAccess, Shown
  <2> QED
    BY <1>3, <2>3, <2>4 DEF VInv
<1> QED
  BY <1>4, <1>5, <1>6, <1>7 DEF ClientSetsUp

(* A report of the sound interrupt: put off while the channel is held,      *)
(* shown at once otherwise.                                                 *)
LEMMA ReportInv ==
  ASSUME VInv, NEW c \in Channels, NEW index \in Int, NEW counter \in Int,
         counter <= Word * SizeOf(c),
         SetIndexCounter(c, index, counter), Reported(c), UNCHANGED half
  PROVE  VInv'
<1> DEFINE old   == Channel[c]
           moved == MovedTo(old, SizeOf(c), index, counter)
           ch    == IF moved.inIO THEN [moved EXCEPT !.delayed = TRUE] ELSE Refreshed(moved)
<1>1. VdmaTypeOK /\ DelayedInAccess /\ HeldRead /\ HeldWrite /\ Shown
  BY DEF VInv
<1>2. ChannelOK(old) /\ SizeOf(c) \in {1, 2} /\ (old.delayed => old.inIO)
  BY <1>1, ChannelsOK DEF DelayedInAccess
<1>3. Channel' = [Channel EXCEPT ![c] = ch] /\ UNCHANGED <<FlipFlop, VMask>>
  BY DEF SetIndexCounter
<1>4. /\ ChannelOK(moved)
      /\ moved.inIO = old.inIO /\ moved.delayed = old.delayed /\ moved.reg = old.reg
  BY <1>2, MovedToOK
<1> HIDE DEF moved
<1>5. /\ ChannelOK(ch) /\ ch.inIO = old.inIO
      /\ old.inIO => ch.delayed /\ ch.reg = old.reg
      /\ ~old.inIO => ~ch.delayed /\ ch.reg = Refreshed(ch).reg
  <2>1. CASE moved.inIO
    <3> DEFINE waits == [moved EXCEPT !.delayed = TRUE]
    <3>1. /\ ChannelOK(waits) /\ waits.inIO = moved.inIO /\ waits.delayed
          /\ waits.reg = moved.reg
      BY <1>4 DEF ChannelOK, ChannelState
    <3>2. ch = waits
      BY <2>1
    <3> HIDE DEF waits, ch
    <3> QED
      BY <1>4, <2>1, <3>1, <3>2
  <2>2. CASE ~moved.inIO
    <3>1. ch = Refreshed(moved)
      BY <2>2
    <3>2. /\ ChannelOK(ch) /\ ch.inIO = moved.inIO /\ ch.delayed = moved.delayed
          /\ ch.addr = moved.addr /\ ch.index = moved.index /\ ch.cur = moved.cur
      BY <1>4, <3>1, RefreshedOK
    <3>3. Refreshed(ch).reg = Refreshed(moved).reg
      BY <1>4, <3>2, RefreshedSame
    <3> HIDE DEF ch
    <3> QED
      BY <1>2, <1>4, <2>2, <3>1, <3>2, <3>3
  <2> QED
    BY <2>1, <2>2
<1> HIDE DEF ch
<1>6. /\ VdmaTypeOK' /\ DelayedInAccess' /\ Channel'[c] = ch
      /\ \A d \in Channels : d # c => Channel'[d] = Channel[d]
  BY <1>1, <1>2, <1>3, <1>5, OneChannel DEF VdmaTypeOK
<1>7. Shown'
  <2> SUFFICES ASSUME NEW d \in Channels, d \notin written', ~Channel'[d].delayed
               PROVE  Channel'[d].reg = Refreshed(Channel'[d]).reg
    BY Zenon DEF Shown
  <2>1. CASE d = c
    BY <1>5, <1>6, <2>1
  <2>2. CASE d # c
    BY <1>1, <1>6, <2>2 DEF Shown, Reported
  <2> QED
    BY <2>1, <2>2
<1>8. \A d \in Channels : Channel[d].inIO =>
        Channel'[d].inIO /\ Channel'[d].reg = Channel[d].reg
  BY <1>5, <1>6, Zenon
<1>9. HeldRead' /\ HeldWrite'
  BY <1>1, <1>8, Zenon DEF HeldRead, HeldWrite
<1> QED
  BY <1>6, <1>7, <1>9 DEF VInv

LEMMA HostInv ==
  ASSUME VInv, NEW c \in Channels, HostPlays(c) \/ HostWritesData(c)
  PROVE  VInv'
<1>1. ChannelOK(Channel[c]) /\ SizeOf(c) \in {1, 2}
  BY ChannelsOK DEF VInv
<1>2. /\ GetIndex(c) \in Int /\ GetCounter(c) \in Int /\ GetCounter(c) <= Word * SizeOf(c)
  <2>1. Channel[c].index \in Int /\ Channel[c].cur \in 0 .. Word
    BY <1>1 DEF ChannelOK, ChannelState
  <2>2. CASE SizeOf(c) = 1
    BY <2>1, <2>2, WordType DEF GetIndex, GetCounter
  <2>3. CASE SizeOf(c) = 2
    BY <2>1, <2>3, WordType DEF GetIndex, GetCounter
  <2> QED
    BY <1>1, <2>2, <2>3
<1>3. Word * SizeOf(c) \in Int
  BY <1>1, WordType
<1>4. CASE HostPlays(c)
  <2>1. PICK n \in 1 .. MaxBytes :
          SetIndexCounter(c, GetIndex(c) + n * SizeOf(c), GetCounter(c) - n * SizeOf(c))
    BY <1>4 DEF HostPlays
  <2>2. n \in Nat
    BY AccessAssumption
  <2>3. n * SizeOf(c) \in Nat
    BY <1>1, <2>2
  <2> DEFINE index == GetIndex(c) + n * SizeOf(c)
             counter == GetCounter(c) - n * SizeOf(c)
  <2>4. index \in Int /\ counter \in Int /\ counter <= Word * SizeOf(c)
    BY <1>2, <1>3, <2>3
  <2> HIDE DEF index, counter
  <2>5. SetIndexCounter(c, index, counter) /\ Reported(c) /\ UNCHANGED half
    BY <1>4, <2>1, Zenon DEF HostPlays, index, counter
  <2> QED
    BY <2>4, <2>5, ReportInv
<1>5. CASE HostWritesData(c) /\ GetWriteMode(c)
  <2> DEFINE index == GetIndex(c) + 1
             counter == GetCounter(c) - 1
  <2>1. index \in Int /\ counter \in Int /\ counter <= Word * SizeOf(c)
    BY <1>2, <1>3
  <2> HIDE DEF index, counter
  <2>2. SetIndexCounter(c, index, counter) /\ Reported(c) /\ UNCHANGED half
    BY <1>5, Zenon DEF HostWritesData, WriteData, index, counter
  <2> QED
    BY <2>1, <2>2, ReportInv
<1>6. CASE HostWritesData(c) /\ ~GetWriteMode(c)
  <2>1. UNCHANGED accessVars
    BY <1>6 DEF HostWritesData, WriteData, accessVars
  <2> QED
    BY <2>1 DEF accessVars, vdmaVars, VInv, VdmaTypeOK, DelayedInAccess, HeldRead, HeldWrite, Shown
<1> QED
  BY <1>4, <1>5, <1>6

LEMMA ReconfigureInv ==
  ASSUME VInv, NEW c \in Channels, Reconfigure(c)
  PROVE  VInv'
<1>1. VMask' \subseteq Channels /\ UNCHANGED <<Channel, FlipFlop, half, written>>
  BY DEF Reconfigure, Virtualize, VInv, VdmaTypeOK
<1> QED
  BY <1>1 DEF VInv, VdmaTypeOK, DelayedInAccess, HeldRead, HeldWrite, Shown

---------------------------------------------------------------------------
(* One step per action: the invariant is inductive. *)
LEMMA NextInv == VInv /\ [AccessNext]_accessVars => VInv'
<1> SUFFICES ASSUME VInv, [AccessNext]_accessVars PROVE VInv'
  OBVIOUS
<1>1. ASSUME NEW c \in Channels, NEW r \in Registers, NEW byte \in VByte, ClientWrites(c, r, byte)
      PROVE  VInv'
  BY <1>1, WritesInv
<1>2. ASSUME NEW c \in Channels, NEW r \in Registers, ClientReads(c, r)
      PROVE  VInv'
  BY <1>2, ReadsInv
<1>3. CASE ClientSetsUp
  BY <1>3, SetsUpInv
<1>4. ASSUME NEW c \in Channels, HostPlays(c) \/ HostWritesData(c)
      PROVE  VInv'
  BY <1>4, HostInv
<1>5. ASSUME NEW c \in Channels, Reconfigure(c)
      PROVE  VInv'
  BY <1>5, ReconfigureInv
<1>6. CASE UNCHANGED accessVars
  BY <1>6 DEF accessVars, vdmaVars, VInv, VdmaTypeOK, DelayedInAccess, HeldRead, HeldWrite, Shown
<1> QED
  BY <1>1, <1>2, <1>3, <1>4, <1>5, <1>6, Zenon DEF AccessNext

(* Every behaviour of the channels keeps the parts of the invariant.        *)
THEOREM VInvCorrect == AccessSpec => []VInv
BY InitInv, NextInv, PTL DEF AccessSpec

(* Registers, pages, addresses and counters keep the width the code gives   *)
(* them (VDMA_Regs, VDMA_PageRegs, VDMA_Addr), whatever the client programs. *)
THEOREM VdmaTypeCorrect == AccessSpec => []VdmaTypeOK
<1>1. VInv => VdmaTypeOK
  BY DEF VInv
<1> QED
  BY <1>1, VInvCorrect, PTL

(* The two bytes of a register that the client reads one after the other    *)
(* belong to one value (VDMA_InIO and VDMA_DelayUpdate).                    *)
THEOREM ReadsCorrect == AccessSpec => []NoTornRead
<1>1. VInv => NoTornRead
  BY DEF VInv, HeldRead, NoTornRead
<1> QED
  BY <1>1, VInvCorrect, PTL

(* The second byte the client writes completes the first one.               *)
THEOREM WritesCorrect == AccessSpec => []NoTornWrite
<1>1. VInv => NoTornWrite
  BY DEF VInv, HeldWrite, NoTornWrite
<1> QED
  BY <1>1, VInvCorrect, PTL

(* No report of the sound interrupt is lost to an access of the client.     *)
THEOREM ProgressCorrect == AccessSpec => []ProgressShown
<1>1. VInv => ProgressShown
  BY DEF VInv, Shown, DelayedInAccess, ProgressShown
<1> QED
  BY <1>1, VInvCorrect, PTL
=============================================================================
