----------------------------- MODULE VdmaProofs -----------------------------
(***************************************************************************)
(* The operators and accesses of the virtual DMA controllers, for every    *)
(* Base and set of channels: what each makes of a channel, and that every  *)
(* one keeps the type.  The specifications that use the controllers rest   *)
(* on these.                                                               *)
(***************************************************************************)
EXTENDS Vdma, TLAPS

(* Numbers in places of b. *)
LEMMA DivMod ==
  ASSUME NEW n \in Int, NEW b \in Nat, b > 0
  PROVE  n \div b \in Int /\ n % b \in 0 .. b - 1 /\ n = b * (n \div b) + (n % b)
OBVIOUS

LEMMA ProductNat ==
  ASSUME NEW a \in Nat, NEW b \in Nat
  PROVE  a * b \in Nat
OBVIOUS

LEMMA PlaceValue ==
  ASSUME NEW b \in Nat, NEW m \in Nat, NEW low \in 0 .. b - 1, NEW high \in 0 .. m - 1
  PROVE  low + b * high \in 0 .. m * b - 1
<1>1. b * high \in Nat
  BY ProductNat
<1>2. b * (m - 1 - high) \in Nat
  BY ProductNat
<1>3. b * (m - 1 - high) = m * b - b - b * high
  OBVIOUS
<1> QED
  BY <1>1, <1>2, <1>3

LEMMA Quotient ==
  ASSUME NEW b \in Nat, NEW m \in Nat, b > 0, NEW n \in 0 .. m * b - 1
  PROVE  n \div b \in 0 .. m - 1
<1> DEFINE q == n \div b
<1>1. q \in Int /\ n % b \in 0 .. b - 1 /\ n = b * q + (n % b)
  BY DivMod
<1> HIDE DEF q
<1>2. CASE q < 0
  <2>1. b * (-1 - q) \in Nat
    BY <1>1, <1>2, ProductNat
  <2>2. b * (-1 - q) = 0 - b - b * q
    BY <1>1
  <2> QED
    BY <1>1, <2>1, <2>2
<1>3. CASE q >= m
  <2>1. b * (q - m) \in Nat
    BY <1>1, <1>3, ProductNat
  <2>2. b * (q - m) = b * q - m * b
    BY <1>1
  <2> QED
    BY <1>1, <2>1, <2>2
<1>4. CASE q \in 0 .. m - 1
  BY <1>4 DEF q
<1> QED
  BY <1>1, <1>2, <1>3, <1>4

LEMMA WordType == Base \in Nat /\ Base > 1 /\ Word \in Nat /\ Word > 1
<1>1. Base \in Nat /\ Base > 1
  BY VdmaAssumption
<1>2. Base * (Base - 2) \in Nat /\ Base * (Base - 2) = Base * Base - 2 * Base
  BY <1>1, ProductNat
<1> QED
  BY <1>1, <1>2 DEF Word

LEMMA PutByteType ==
  ASSUME NEW word \in 0 .. Word - 1, NEW byte \in VByte, NEW low \in BOOLEAN
  PROVE  PutByte(word, byte, low) \in 0 .. Word - 1
<1>1. High(word) \in VByte
  BY WordType, Quotient DEF High, VByte, Word
<1>2. Low(word) \in VByte /\ word = Base * High(word) + Low(word)
  BY WordType, DivMod DEF Low, High, VByte
<1> HIDE DEF High, Low
<1>3. byte + Base * High(word) \in 0 .. Word - 1
  BY WordType, <1>1, PlaceValue DEF VByte, Word
<1>4. Low(word) + Base * byte \in 0 .. Word - 1
  BY WordType, <1>2, PlaceValue DEF VByte, Word
<1>5. High(word) \in Int /\ Base * High(word) \in Int /\ Low(word) \in Int
  BY <1>1, <1>2, WordType DEF VByte
<1>6. word - Low(word) + byte = byte + Base * High(word)
  BY <1>2, <1>5 DEF VByte
<1> QED
  BY <1>3, <1>4, <1>6 DEF PutByte

(* The low place is the remainder. *)
LEMMA LowPlace ==
  ASSUME NEW b \in Nat, b > 0, NEW low \in 0 .. b - 1, NEW high \in Int
  PROVE  (low + b * high) % b = low
<1> DEFINE n == low + b * high
           q == n \div b
<1>1. n \in Int
  OBVIOUS
<1>2. q \in Int /\ n % b \in 0 .. b - 1 /\ n = b * q + (n % b)
  BY <1>1, DivMod
<1>3. n = low + b * high
  OBVIOUS
<1> HIDE DEF n, q
<1>4. CASE q < high
  <2>1. b * (high - q - 1) \in Nat
    BY <1>2, <1>4, ProductNat
  <2>2. b * (high - q - 1) = b * high - b * q - b
    BY <1>2
  <2>3. b * high \in Int /\ b * q \in Int
    BY <1>2
  <2> QED
    BY <1>2, <1>3, <2>1, <2>2, <2>3
<1>5. CASE q > high
  <2>1. b * (q - high - 1) \in Nat
    BY <1>2, <1>5, ProductNat
  <2>2. b * (q - high - 1) = b * q - b * high - b
    BY <1>2
  <2>3. b * high \in Int /\ b * q \in Int
    BY <1>2
  <2> QED
    BY <1>2, <1>3, <2>1, <2>2, <2>3
<1>6. CASE q = high
  <2>1. b * high \in Int
    OBVIOUS
  <2> QED
    BY <1>2, <1>3, <1>6, <2>1 DEF n
<1> QED
  BY <1>2, <1>4, <1>5, <1>6

(* The byte written first is the low byte of the register. *)
LEMMA PutByteLow ==
  ASSUME NEW word \in 0 .. Word - 1, NEW byte \in VByte
  PROVE  Low(PutByte(word, byte, TRUE)) = byte
<1>1. word \div Base \in Int /\ word % Base \in Int /\ word = Base * (word \div Base) + (word % Base)
  BY WordType, DivMod
<1>2. Base * (word \div Base) \in Int
  BY <1>1, WordType
<1>3. word - (word % Base) + byte = byte + Base * (word \div Base)
  BY <1>1, <1>2 DEF VByte
<1>4. (byte + Base * (word \div Base)) % Base = byte
  BY <1>1, WordType, LowPlace DEF VByte
<1> QED
  BY <1>3, <1>4 DEF PutByte, Low

---------------------------------------------------------------------------
(* One channel. *)
AddressSpace == Base * Word
ChannelOK(ch) == ch \in ChannelState /\ ch.addr < AddressSpace

(* Page and offset make an address. *)
LEMMA AddressType ==
  ASSUME NEW low \in 0 .. Word - 1, NEW page \in VByte
  PROVE  low + Word * page \in Nat /\ low + Word * page < AddressSpace
<1>1. low + Word * page \in 0 .. Base * Word - 1
  BY WordType, PlaceValue DEF VByte
<1>2. Base * Word \in Nat
  BY WordType, ProductNat
<1> QED
  BY <1>1, <1>2 DEF AddressSpace

LEMMA RewoundOK ==
  ASSUME NEW ch, ChannelOK(ch), NEW addr \in Nat, addr < AddressSpace,
         NEW new, new = [ch EXCEPT !.index = 0, !.addr = addr]
  PROVE  /\ ChannelOK(new)
         /\ new.inIO = ch.inIO /\ new.delayed = ch.delayed /\ new.reg = ch.reg
<1> DEFINE start == 0
<1>1. start \in Int /\ new = [ch EXCEPT !.index = start, !.addr = addr]
  OBVIOUS
<1> HIDE DEF start
<1> QED
  BY <1>1 DEF ChannelOK, ChannelState

LEMMA WithByteOK ==
  ASSUME NEW ch, ChannelOK(ch), NEW r \in Registers, NEW byte \in VByte, NEW low \in BOOLEAN
  PROVE  /\ ChannelOK(WithByte(ch, r, byte, low))
         /\ WithByte(ch, r, byte, low).inIO = low
         /\ WithByte(ch, r, byte, low).delayed => low
         /\ WithByte(ch, r, byte, low).reg[r] = PutByte(ch.reg[r], byte, low)
<1> DEFINE word == PutByte(ch.reg[r], byte, low)
           put  == [ch EXCEPT !.reg[r] = word, !.inIO = low, !.delayed = low /\ @]
           base == put.addr - (put.addr % Word)
<1>1. ch.reg[r] \in 0 .. Word - 1
  BY DEF ChannelOK, ChannelState
<1>2. word \in 0 .. Word - 1
  BY <1>1, PutByteType
<1> HIDE DEF word
<1>3. /\ put \in ChannelState /\ put.addr = ch.addr /\ put.inIO = low /\ (put.delayed => low)
      /\ put.reg[r] = word /\ put.addr < AddressSpace
  BY <1>2 DEF ChannelOK, ChannelState
<1> HIDE DEF put
<1>4. base + word \in Nat /\ base + word < AddressSpace
  <2>1. ch.addr \in 0 .. Base * Word - 1
    BY WordType, ProductNat DEF ChannelOK, ChannelState, AddressSpace
  <2>2. ch.addr \div Word \in VByte
    BY <2>1, WordType, Quotient DEF VByte
  <2>3. ch.addr % Word \in Int /\ ch.addr = Word * (ch.addr \div Word) + (ch.addr % Word)
    BY <2>1, WordType, DivMod
  <2>4. Word * (ch.addr \div Word) \in Int
    BY <2>2, WordType DEF VByte
  <2>5. base + word = word + Word * (ch.addr \div Word)
    BY <1>2, <1>3, <2>3, <2>4
  <2> QED
    BY <1>2, <2>2, <2>5, AddressType
<1> HIDE DEF base
<1>5. word + 1 \in 0 .. Word
  BY <1>2, WordType
<1>6. CASE r = "addr"
  <2>1. WithByte(ch, r, byte, low) = [put EXCEPT !.index = 0, !.addr = base + word]
    BY <1>6 DEF WithByte, put, word, base
  <2>2. /\ ChannelOK(WithByte(ch, r, byte, low)) /\ WithByte(ch, r, byte, low).inIO = put.inIO
        /\ WithByte(ch, r, byte, low).delayed = put.delayed
        /\ WithByte(ch, r, byte, low).reg = put.reg
    <3>1. ChannelOK(put)
      BY <1>3 DEF ChannelOK
    <3> DEFINE addr == base + word
    <3>2. addr \in Nat /\ addr < AddressSpace
      BY <1>4
    <3>3. WithByte(ch, r, byte, low) = [put EXCEPT !.index = 0, !.addr = addr]
      BY <2>1
    <3> HIDE DEF addr
    <3> QED
      BY <3>1, <3>2, <3>3, RewoundOK
  <2> QED
    BY <1>3, <2>2, Zenon DEF word
<1>7. CASE r # "addr"
  <2>1. WithByte(ch, r, byte, low) = [put EXCEPT !.counter = word + 1, !.cur = word + 1]
    BY <1>7 DEF WithByte, put, word
  <2>2. /\ ChannelOK(WithByte(ch, r, byte, low)) /\ WithByte(ch, r, byte, low).inIO = put.inIO
        /\ WithByte(ch, r, byte, low).delayed = put.delayed
        /\ WithByte(ch, r, byte, low).reg = put.reg
    BY <1>3, <1>5, <2>1 DEF ChannelOK, ChannelState
  <2> QED
    BY <1>3, <2>2, Zenon DEF word
<1> QED
  BY <1>6, <1>7

LEMMA WithPageOK ==
  ASSUME NEW ch, ChannelOK(ch), NEW byte \in VByte
  PROVE  /\ ChannelOK(WithPage(ch, byte))
         /\ WithPage(ch, byte).delayed = ch.delayed /\ WithPage(ch, byte).inIO = ch.inIO
<1>1. ch.addr % Word \in 0 .. Word - 1
  BY WordType, DivMod DEF ChannelOK, ChannelState
<1> DEFINE addr == (ch.addr % Word) + Word * byte
<1>2. addr \in Nat /\ addr < AddressSpace
  BY <1>1, AddressType
<1> HIDE DEF addr
<1> DEFINE new == [ch EXCEPT !.page = byte]
<1>3. ChannelOK(new) /\ new.delayed = ch.delayed /\ new.inIO = ch.inIO /\ new.addr = ch.addr
  BY DEF ChannelOK, ChannelState
<1>4. WithPage(ch, byte) = [new EXCEPT !.index = 0, !.addr = addr]
  BY <1>3, Zenon DEF WithPage, addr, new
<1> HIDE DEF new
<1>5. /\ ChannelOK(WithPage(ch, byte))
      /\ WithPage(ch, byte).delayed = new.delayed /\ WithPage(ch, byte).inIO = new.inIO
  BY <1>2, <1>3, <1>4, RewoundOK
<1> QED
  BY <1>3, <1>5, Zenon

(* What the registers take is the position, and nothing else changes. *)
LEMMA RefreshedOK ==
  ASSUME NEW ch, ChannelOK(ch)
  PROVE  /\ ChannelOK(Refreshed(ch))
         /\ Refreshed(ch).delayed = ch.delayed /\ Refreshed(ch).inIO = ch.inIO
         /\ Refreshed(ch).addr = ch.addr /\ Refreshed(ch).index = ch.index
         /\ Refreshed(ch).cur = ch.cur
         /\ Refreshed(ch).reg = [r \in Registers |-> IF r = "addr" THEN (ch.addr + ch.index) % Word
                                                     ELSE (ch.cur - 1) % Word]
<1> DEFINE reg  == [r \in Registers |-> IF r = "addr" THEN (ch.addr + ch.index) % Word
                                        ELSE (ch.cur - 1) % Word]
           page == ((ch.addr + ch.index) \div Word) % Base
<1>1. ch.addr + ch.index \in Int /\ ch.cur - 1 \in Int
  BY WordType DEF ChannelOK, ChannelState
<1>2. /\ (ch.addr + ch.index) % Word \in 0 .. Word - 1
      /\ (ch.cur - 1) % Word \in 0 .. Word - 1
  BY <1>1, WordType, DivMod
<1>3. reg \in [Registers -> 0 .. Word - 1]
  BY <1>2
<1>4. (ch.addr + ch.index) \div Word \in Int
  BY <1>1, WordType, DivMod
<1>5. page \in VByte
  BY <1>4, WordType, DivMod DEF VByte
<1>6. Refreshed(ch) = [ch EXCEPT !.reg = reg, !.page = page]
  BY DEF Refreshed
<1> HIDE DEF reg, page
<1>7. /\ ChannelOK(Refreshed(ch))
      /\ Refreshed(ch).delayed = ch.delayed /\ Refreshed(ch).inIO = ch.inIO
      /\ Refreshed(ch).addr = ch.addr /\ Refreshed(ch).index = ch.index
      /\ Refreshed(ch).cur = ch.cur
      /\ Refreshed(ch).reg = reg
  BY <1>3, <1>5, <1>6 DEF ChannelOK, ChannelState
<1> QED
  BY <1>7, Zenon DEF reg

(* The registers a refresh gives depend on the position alone.              *)
LEMMA RefreshedSame ==
  ASSUME NEW old, ChannelOK(old), NEW new, ChannelOK(new),
         new.addr = old.addr, new.index = old.index, new.cur = old.cur
  PROVE  Refreshed(new).reg = Refreshed(old).reg
<1> DEFINE shown(addr, index, cur) ==
      [r \in Registers |-> IF r = "addr" THEN (addr + index) % Word ELSE (cur - 1) % Word]
<1>1. /\ Refreshed(old).reg = shown(old.addr, old.index, old.cur)
      /\ Refreshed(new).reg = shown(new.addr, new.index, new.cur)
  BY RefreshedOK, Zenon
<1> HIDE DEF shown
<1> QED
  BY <1>1, Zenon

LEMMA AfterReadOK ==
  ASSUME NEW ch, ChannelOK(ch), NEW low \in BOOLEAN, ch.delayed => ch.inIO
  PROVE  LET new == AfterRead(ch, low)
         IN  /\ ChannelOK(new)
             /\ new.inIO = low /\ (new.delayed => low)
             /\ low => new.reg = ch.reg /\ new.delayed = ch.delayed
             /\ ~low /\ ~ch.delayed => new.reg = ch.reg
             /\ ~low /\ ch.delayed => new.reg = Refreshed(ch).reg
             /\ Refreshed(new).reg = Refreshed(ch).reg
<1> DEFINE new == AfterRead(ch, low)
           seen == IF ch.delayed THEN Refreshed(ch) ELSE ch
<1>1. /\ ChannelOK(seen) /\ seen.addr = ch.addr /\ seen.index = ch.index /\ seen.cur = ch.cur
      /\ seen.reg = (IF ch.delayed THEN Refreshed(ch).reg ELSE ch.reg)
  <2>1. CASE ch.delayed
    BY <2>1, RefreshedOK
  <2>2. CASE ~ch.delayed
    BY <2>2
  <2> QED
    BY <2>1, <2>2
<1>2. CASE low
  <2>1. new = [ch EXCEPT !.inIO = TRUE]
    BY <1>2 DEF AfterRead
  <2> HIDE DEF new
  <2>2. /\ ChannelOK(new) /\ new.inIO = TRUE /\ new.delayed = ch.delayed /\ new.reg = ch.reg
        /\ new.addr = ch.addr /\ new.index = ch.index /\ new.cur = ch.cur
    BY <2>1 DEF ChannelOK, ChannelState
  <2>3. Refreshed(new).reg = Refreshed(ch).reg
    BY <2>2, RefreshedSame
  <2> QED
    BY <1>2, <2>2, <2>3 DEF new
<1>3. CASE ~low
  <2>1. new = [seen EXCEPT !.inIO = FALSE, !.delayed = FALSE]
    BY <1>3 DEF AfterRead, seen
  <2> HIDE DEF new, seen
  <2>2. /\ ChannelOK(new) /\ new.inIO = FALSE /\ new.delayed = FALSE /\ new.reg = seen.reg
        /\ new.addr = seen.addr /\ new.index = seen.index /\ new.cur = seen.cur
    BY <1>1, <2>1 DEF ChannelOK, ChannelState
  <2>3. Refreshed(new).reg = Refreshed(ch).reg
    BY <1>1, <2>2, RefreshedSame
  <2> QED
    BY <1>1, <1>3, <2>2, <2>3 DEF new
<1> QED
  BY <1>2, <1>3

(* Half of a count of words is a count again. *)
LEMMA UnitsType ==
  ASSUME NEW size \in {1, 2}, NEW counter \in 1 .. Word * size
  PROVE  counter \div size \in 0 .. Word
<1>1. CASE size = 1
  BY <1>1, WordType
<1>2. CASE size = 2
  BY <1>2, WordType
<1> QED
  BY <1>1, <1>2

(* A progress report moves the position and leaves the registers.           *)
LEMMA MovedToOK ==
  ASSUME NEW ch, ChannelOK(ch), NEW size \in {1, 2}, NEW index \in Int, NEW counter \in Int,
         counter <= Word * size
  PROVE  LET moved == MovedTo(ch, size, index, counter)
         IN  /\ ChannelOK(moved)
             /\ moved.inIO = ch.inIO /\ moved.delayed = ch.delayed /\ moved.reg = ch.reg
<1> DEFINE done  == counter <= 0
           again == done /\ "auto" \in ch.mode
           at    == IF again THEN 0 ELSE index \div size
           rest  == IF again THEN ch.counter ELSE IF done THEN Word ELSE counter \div size
           ended == ch.complete \/ done
           moved == MovedTo(ch, size, index, counter)
<1>1. at \in Int
  OBVIOUS
<1>2. rest \in 0 .. Word
  <2>1. CASE again
    BY <2>1 DEF ChannelOK, ChannelState
  <2>2. CASE ~again /\ done
    BY <2>2, WordType
  <2>3. CASE ~done
    <3>1. counter \in 1 .. Word * size
      BY <2>3, WordType
    <3> QED
      BY <2>3, <3>1, UnitsType
  <2> QED
    BY <2>1, <2>2, <2>3
<1>3. ended \in BOOLEAN
  OBVIOUS
<1>4. moved = [ch EXCEPT !.index = at, !.cur = rest, !.complete = ended]
  BY DEF MovedTo
<1> HIDE DEF at, rest, ended, moved
<1>5. /\ ChannelOK(moved)
      /\ moved.inIO = ch.inIO /\ moved.delayed = ch.delayed /\ moved.reg = ch.reg
  BY <1>1, <1>2, <1>3, <1>4 DEF ChannelOK, ChannelState
<1> QED
  BY <1>5 DEF moved

---------------------------------------------------------------------------
(* The parts of the invariant over a step that changes one channel. *)
LEMMA ChannelsOK ==
  ASSUME VdmaTypeOK, NEW c \in Channels
  PROVE  ChannelOK(Channel[c]) /\ LowByteNext(c) \in BOOLEAN /\ SizeOf(c) \in {1, 2}
BY DEF VdmaTypeOK, ChannelOK, AddressSpace, LowByteNext, SizeOf

LEMMA ToggleType ==
  ASSUME VdmaTypeOK, NEW c \in Channels, Toggle(c)
  PROVE  FlipFlop' \in [{0, 1} -> {0, 1}]
BY DEF VdmaTypeOK, Toggle, ControllerOf

LEMMA ChannelChanged ==
  ASSUME VdmaTypeOK, NEW c \in Channels, NEW ch, ChannelOK(ch),
         Channel' = [Channel EXCEPT ![c] = ch],
         FlipFlop' \in [{0, 1} -> {0, 1}], UNCHANGED VMask
  PROVE  /\ VdmaTypeOK' /\ Channel'[c] = ch
         /\ \A d \in Channels : d # c => Channel'[d] = Channel[d]
<1>1. Channel'[c] = ch /\ \A d \in Channels : d # c => Channel'[d] = Channel[d]
  BY DEF VdmaTypeOK
<1>2. Channel' \in [Channels -> ChannelState]
  BY DEF VdmaTypeOK, ChannelOK
<1>3. \A d \in Channels : Channel'[d].addr < Base * Word
  BY <1>1, Zenon DEF VdmaTypeOK, ChannelOK, AddressSpace
<1> QED
  BY <1>1, <1>2, <1>3, Zenon DEF VdmaTypeOK

---------------------------------------------------------------------------
(* Every access and every call keeps the type. *)
LEMMA WriteRegType ==
  ASSUME VdmaTypeOK, NEW c \in Channels, NEW r \in Registers, NEW byte \in VByte,
         WriteReg(c, r, byte)
  PROVE  VdmaTypeOK'
<1> DEFINE ch == WithByte(Channel[c], r, byte, LowByteNext(c))
<1>1. ChannelOK(ch)
  BY ChannelsOK, WithByteOK
<1>2. Channel' = [Channel EXCEPT ![c] = ch] /\ Toggle(c) /\ UNCHANGED VMask
  BY DEF WriteReg
<1> HIDE DEF ch
<1> QED
  BY <1>1, <1>2, ToggleType, ChannelChanged

LEMMA AfterReadType ==
  ASSUME NEW ch, ChannelOK(ch), NEW low \in BOOLEAN
  PROVE  ChannelOK(AfterRead(ch, low))
<1> DEFINE seen == IF ch.delayed THEN Refreshed(ch) ELSE ch
<1>1. ChannelOK(seen)
  BY RefreshedOK
<1>2. AfterRead(ch, low) = IF low THEN [ch EXCEPT !.inIO = TRUE]
                           ELSE [seen EXCEPT !.inIO = FALSE, !.delayed = FALSE]
  BY DEF AfterRead
<1> HIDE DEF seen
<1>3. CASE low
  BY <1>2, <1>3 DEF ChannelOK, ChannelState
<1>4. CASE ~low
  BY <1>1, <1>2, <1>4 DEF ChannelOK, ChannelState
<1> QED
  BY <1>3, <1>4

LEMMA ReadRegType ==
  ASSUME VdmaTypeOK, NEW c \in Channels, ReadReg(c)
  PROVE  VdmaTypeOK'
<1> DEFINE ch == AfterRead(Channel[c], LowByteNext(c))
<1>1. ChannelOK(ch)
  BY ChannelsOK, AfterReadType
<1>2. Channel' = [Channel EXCEPT ![c] = ch] /\ Toggle(c) /\ UNCHANGED VMask
  BY DEF ReadReg
<1> HIDE DEF ch
<1> QED
  BY <1>1, <1>2, ToggleType, ChannelChanged

LEMMA ClearFlipFlopType ==
  ASSUME VdmaTypeOK, NEW k \in {0, 1}, ClearFlipFlop(k)
  PROVE  VdmaTypeOK'
BY DEF VdmaTypeOK, ClearFlipFlop

LEMMA WritePageType ==
  ASSUME VdmaTypeOK, NEW c \in Channels, NEW byte \in VByte, WritePage(c, byte)
  PROVE  VdmaTypeOK'
<1> DEFINE ch == WithPage(Channel[c], byte)
<1>1. ChannelOK(ch)
  BY ChannelsOK, WithPageOK
<1>2. /\ Channel' = [Channel EXCEPT ![c] = ch] /\ UNCHANGED VMask
      /\ FlipFlop' \in [{0, 1} -> {0, 1}]
  BY DEF WritePage, VdmaTypeOK
<1> HIDE DEF ch
<1> QED
  BY <1>1, <1>2, ChannelChanged

LEMMA WriteModeType ==
  ASSUME VdmaTypeOK, NEW c \in Channels, NEW mode \in SUBSET ModeBits, WriteMode(c, mode)
  PROVE  VdmaTypeOK'
<1> DEFINE ch == [Channel[c] EXCEPT !.mode = mode]
<1>1. ChannelOK(Channel[c])
  BY ChannelsOK
<1>2. ChannelOK(ch)
  BY <1>1 DEF ChannelOK, ChannelState
<1>3. Channel' = [Channel EXCEPT ![c] = ch]
  BY DEF WriteMode
<1>4. UNCHANGED VMask /\ FlipFlop' \in [{0, 1} -> {0, 1}]
  BY DEF WriteMode, VdmaTypeOK
<1> HIDE DEF ch
<1> QED
  BY <1>2, <1>3, <1>4, ChannelChanged

LEMMA CounterType ==
  ASSUME VdmaTypeOK, NEW c \in Channels
  PROVE  /\ GetIndex(c) \in Int /\ GetCounter(c) \in Nat /\ GetCounter(c) <= Word * SizeOf(c)
         /\ Word * SizeOf(c) \in Nat
<1>1. ChannelOK(Channel[c]) /\ SizeOf(c) \in {1, 2}
  BY ChannelsOK
<1>2. Channel[c].index \in Int /\ Channel[c].cur \in 0 .. Word
  BY <1>1 DEF ChannelOK, ChannelState
<1>3. CASE SizeOf(c) = 1
  BY <1>2, <1>3, WordType DEF GetIndex, GetCounter
<1>4. CASE SizeOf(c) = 2
  BY <1>2, <1>4, WordType DEF GetIndex, GetCounter
<1> QED
  BY <1>1, <1>3, <1>4

LEMMA ReportType ==
  ASSUME VdmaTypeOK, NEW c \in Channels, NEW index \in Int, NEW counter \in Int,
         counter <= Word * SizeOf(c), SetIndexCounter(c, index, counter)
  PROVE  VdmaTypeOK'
<1> DEFINE moved == MovedTo(Channel[c], SizeOf(c), index, counter)
           ch    == IF moved.inIO THEN [moved EXCEPT !.delayed = TRUE] ELSE Refreshed(moved)
<1>1. Channel' = [Channel EXCEPT ![c] = ch] /\ UNCHANGED <<FlipFlop, VMask>>
  BY DEF SetIndexCounter
<1>2. ChannelOK(moved)
  BY ChannelsOK, MovedToOK
<1> HIDE DEF moved
<1>3. ChannelOK([moved EXCEPT !.delayed = TRUE])
  BY <1>2 DEF ChannelOK, ChannelState
<1>4. ChannelOK(ch)
  BY <1>2, <1>3, RefreshedOK
<1> HIDE DEF ch
<1>5. FlipFlop' \in [{0, 1} -> {0, 1}]
  BY <1>1 DEF VdmaTypeOK
<1> QED
  BY <1>1, <1>4, <1>5, ChannelChanged

LEMMA WriteDataType ==
  ASSUME VdmaTypeOK, NEW c \in Channels, WriteData(c)
  PROVE  VdmaTypeOK'
<1>1. CASE GetWriteMode(c)
  <2> DEFINE index == GetIndex(c) + 1
             counter == GetCounter(c) - 1
  <2>1. index \in Int /\ counter \in Int /\ counter <= Word * SizeOf(c)
    BY CounterType
  <2>2. SetIndexCounter(c, index, counter)
    BY <1>1 DEF WriteData
  <2> HIDE DEF index, counter
  <2> QED
    BY <2>1, <2>2, ReportType
<1>2. CASE ~GetWriteMode(c)
  BY <1>2 DEF WriteData, vdmaVars, VdmaTypeOK
<1> QED
  BY <1>1, <1>2

LEMMA VdmaInitType == VdmaInit => VdmaTypeOK
<1> SUFFICES ASSUME VdmaInit PROVE VdmaTypeOK
  OBVIOUS
<1> DEFINE zero == 0
           ch == [reg |-> [r \in Registers |-> zero], page |-> zero, mode |-> {}, addr |-> zero,
                  index |-> zero, counter |-> zero, cur |-> zero, inIO |-> FALSE,
                  delayed |-> FALSE, complete |-> FALSE]
<1>1. zero \in 0 .. Word - 1 /\ zero \in VByte /\ zero \in Nat /\ zero \in 0 .. Word
  BY WordType DEF VByte
<1>2. Channel = [c \in Channels |-> ch]
  BY Zenon DEF VdmaInit
<1>3. zero < Base * Word
  BY WordType
<1> HIDE DEF zero
<1>4. ch \in ChannelState /\ ch.addr < Base * Word
  BY <1>1, <1>3 DEF ChannelState
<1> HIDE DEF ch
<1>5. Channel \in [Channels -> ChannelState] /\ \A c \in Channels : Channel[c].addr < Base * Word
  BY <1>2, <1>4
<1> QED
  BY <1>5 DEF VdmaTypeOK, VdmaInit
=============================================================================
