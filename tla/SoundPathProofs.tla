-------------------------- MODULE SoundPathProofs --------------------------
(***************************************************************************)
(* What the ring buffer keeps, for every size of buffer, frame and         *)
(* protection, that it implements the queue, and that a pass of the sound  *)
(* interrupt reads the client's buffer.                                    *)
(***************************************************************************)
EXTENDS SoundPath, TLAPS

(* Division, as far as whole frames need it. *)
LEMMA ModBounds == \A n \in Int : n % Sign \in 0 .. Sign - 1
  BY RingAssumption

LEMMA DivMod == \A s \in Nat \ {0}, m \in Int : m = s * (m \div s) + (m % s)
  BY SMT

LEMMA SmallMultiple ==
  ASSUME NEW d \in Int, 0 <= Sign * d, Sign * d < Sign
  PROVE  d = 0
<1>1. CASE d >= 1
  <2>1. Sign * d >= Sign
    BY <1>1, RingAssumption, SMT
  <2> QED BY <2>1, RingAssumption
<1>2. CASE d <= -1
  <2>1. Sign * d <= -Sign
    BY <1>2, RingAssumption, SMT
  <2> QED BY <2>1, RingAssumption
<1> QED BY <1>1, <1>2

LEMMA MultipleIsWhole ==
  ASSUME NEW q \in Int
  PROVE  (Sign * q) % Sign = 0
<1> DEFINE m == Sign * q
           r == m % Sign
           p == m \div Sign
<1>1. m \in Int /\ r \in 0 .. Sign - 1 /\ p \in Int
  BY ModBounds, RingAssumption
<1>2. m = Sign * p + r
  BY <1>1, DivMod, RingAssumption
<1>3. Sign * (q - p) = r
  BY <1>1, <1>2, RingAssumption
<1>4. q - p = 0
  BY <1>1, <1>3, SmallMultiple, RingAssumption
<1> QED BY <1>1, <1>2, <1>4, RingAssumption

LEMMA WholeIsMultiple ==
  ASSUME NEW n \in Int, n % Sign = 0
  PROVE  n = Sign * (n \div Sign) /\ n \div Sign \in Int
<1>1. n \div Sign \in Int
  BY RingAssumption
<1> QED BY <1>1, DivMod, RingAssumption

(* Sums and differences of whole frames are whole frames. *)
LEMMA WholeSum ==
  ASSUME NEW a \in Int, NEW b \in Int, a % Sign = 0, b % Sign = 0
  PROVE  (a + b) % Sign = 0 /\ (a - b) % Sign = 0
<1> DEFINE p == a \div Sign
           q == b \div Sign
<1>1. a = Sign * p /\ b = Sign * q /\ p \in Int /\ q \in Int
  BY WholeIsMultiple
<1> HIDE DEF p, q
<1>2. a + b = Sign * (p + q) /\ a - b = Sign * (p - q)
  BY <1>1, RingAssumption
<1>3. (Sign * (p + q)) % Sign = 0 /\ (Sign * (p - q)) % Sign = 0
  BY <1>1, MultipleIsWhole
<1> QED BY <1>2, <1>3

LEMMA RoundedDownFacts ==
  ASSUME NEW n \in Nat
  PROVE  /\ RoundedDown(n) \in Nat /\ RoundedDown(n) <= n
         /\ n - RoundedDown(n) < Sign
         /\ RoundedDown(n) % Sign = 0
<1> DEFINE r == n % Sign
           p == n \div Sign
<1>1. r \in 0 .. Sign - 1 /\ p \in Int /\ n = Sign * p + r
  BY ModBounds, DivMod, RingAssumption
<1>2. p >= 0
  BY RingAssumption, SMT
<1> HIDE DEF r, p
<1>3. RoundedDown(n) = n - r
  BY DEF RoundedDown, r
<1>4. n - r = Sign * p
  BY <1>1, RingAssumption
<1>5. Sign * p \in Nat
  BY <1>1, <1>2, RingAssumption
<1>6. (Sign * p) % Sign = 0
  BY <1>1, MultipleIsWhole
<1>7. RoundedDown(n) % Sign = 0 /\ RoundedDown(n) \in Nat
  BY <1>3, <1>4, <1>5, <1>6
<1>8. r \in Nat /\ r < Sign /\ Sign \in Nat
  BY <1>1, RingAssumption
<1> QED BY <1>3, <1>7, <1>8

(* The protection is at least a frame, and fits in half the buffer. *)
LEMMA Sizes ==
  /\ DmaSize \in Nat /\ Sign \in Nat /\ Sign >= 1 /\ MaxLate \in Nat /\ MaxLate < DmaSize
  /\ Protected \in Nat /\ Protected % Sign = 0 /\ Protected >= Sign
  /\ DmaSize % Sign = 0 /\ (DmaSize \div 2) % Sign = 0
  /\ DmaSize \div 2 \in Nat /\ Protected <= DmaSize \div 2
  /\ 2 * (DmaSize \div 2) <= DmaSize
<1> DEFINE m == PROTECTION + Sign - 1
<1>1. m \in Nat /\ m >= Sign
  BY RingAssumption
<1>2. /\ RoundedDown(m) \in Nat /\ m - RoundedDown(m) < Sign
      /\ RoundedDown(m) % Sign = 0
  BY <1>1, RoundedDownFacts
<1>3. Protected = RoundedDown(m)
  BY DEF Protected
<1> HIDE DEF m
<1>4. Protected \in Nat /\ Protected % Sign = 0 /\ Protected >= 1
  BY <1>1, <1>2, <1>3, RingAssumption
<1>5. Protected >= Sign
  <2>1. SUFFICES ASSUME Protected < Sign PROVE FALSE
    BY <1>4, RingAssumption
  <2>2. Protected % Sign = Protected
    BY <1>4, <2>1, RingAssumption
  <2> QED BY <1>4, <2>2
<1>6. DmaSize \div 2 \in Nat /\ 2 * (DmaSize \div 2) <= DmaSize
  BY RingAssumption
<1> QED BY <1>4, <1>5, <1>6, RingAssumption

---------------------------------------------------------------------------
(* The inductive invariant: the four about the ring need one another, and  *)
(* what is written is a number of frames.                                  *)
RingInv ==
  /\ RingTypeOK /\ CursorsAgree /\ WholeFrames /\ RoomIsThere
  /\ samples \in Nat /\ pos \in Nat

LEMMA InitRing == PathInit => RingInv
<1> SUFFICES ASSUME PathInit PROVE RingInv
  OBVIOUS
<1> DEFINE half == DmaSize \div 2
<1>1. bufpos = 0 /\ lastput = half /\ dmaspace = DmaSize - half /\ ahead = half
  BY DEF PathInit, RingInit
<1>2. half \in Nat /\ half >= Sign /\ 2 * half <= DmaSize /\ half % Sign = 0
  BY Sizes
<1>3. (DmaSize - half) % Sign = 0
  BY Sizes, WholeSum
<1> HIDE DEF half
<1>4. RingTypeOK /\ CursorsAgree /\ RoomIsThere
  BY <1>1, <1>2, Sizes DEF RingTypeOK, CursorsAgree, RoomIsThere, Wrapped
<1>5. WholeFrames
  BY <1>1, <1>2, <1>3 DEF WholeFrames
<1> QED BY <1>4, <1>5 DEF PathInit, RingInv

LEMMA CardPlaysKeeps ==
  ASSUME RingInv, CardPlays
  PROVE  RingTypeOK' /\ CursorsAgree' /\ WholeFrames' /\ RoomIsThere'
<1>1. RingTypeOK' /\ CursorsAgree' /\ RoomIsThere'
  BY Sizes DEF RingInv, CardPlays, RingTypeOK, CursorsAgree, RoomIsThere, Wrapped
<1>2. WholeFrames'
  BY DEF RingInv, CardPlays, WholeFrames
<1> QED BY <1>1, <1>2

(* What the look finds is a number of frames and free, even where it takes *)
(* the old content for new.                                                *)
LEMMA LookKeeps ==
  ASSUME RingInv, AU_cardbuf_space
  PROVE  RingTypeOK' /\ CursorsAgree' /\ WholeFrames' /\ RoomIsThere'
<1> DEFINE p == RoundedDown(bufpos)
<1>1. p \in Nat /\ p <= bufpos /\ bufpos - p < Sign /\ p % Sign = 0
  BY RoundedDownFacts, Sizes DEF RingInv, RingTypeOK
<1>2. Room = Smaller(RoomFrom(p), DmaSize)
  BY DEF Room
<1> HIDE DEF p
<1>3. /\ bufpos \in 0 .. DmaSize - 1 /\ lastput \in 0 .. DmaSize - 1
      /\ ahead \in -MaxLate .. DmaSize - Sign
      /\ lastput = Wrapped(bufpos + ahead)
      /\ lastput % Sign = 0
  BY DEF RingInv, RingTypeOK, CursorsAgree, WholeFrames
<1>4. RoomFrom(p) % Sign = 0
  <2>1. (p - lastput) % Sign = 0 /\ (DmaSize - lastput) % Sign = 0
    BY <1>1, <1>3, Sizes, WholeSum
  <2>2. (DmaSize - lastput + p) % Sign = 0
    BY <1>1, <1>3, <2>1, Sizes, WholeSum
  <2> QED BY <2>1, <2>2 DEF RoomFrom
<1>5. Room % Sign = 0 /\ Room \in 0 .. DmaSize
  BY <1>1, <1>2, <1>3, <1>4, Sizes DEF Smaller, RoomFrom
<1>6. CASE ahead <= -Sign
  <2>1. Room <= -ahead
    BY <1>1, <1>2, <1>3, <1>6, Sizes DEF Smaller, RoomFrom, Wrapped
  <2>2. lastput = Wrapped(bufpos + ahead + DmaSize)
    BY <1>3, <1>6, Sizes DEF Wrapped
  <2>3. ahead' = ahead + DmaSize /\ dmaspace' = Room /\ bufpos' = bufpos /\ lastput' = lastput
    BY <1>6 DEF AU_cardbuf_space
  <2>4. RingTypeOK' /\ CursorsAgree' /\ RoomIsThere'
    BY <1>3, <1>5, <1>6, <2>1, <2>2, <2>3, Sizes
       DEF RingTypeOK, CursorsAgree, RoomIsThere, Wrapped
  <2> QED BY <1>3, <1>5, <2>3, <2>4 DEF WholeFrames
<1>7. CASE ~(ahead <= -Sign)
  <2>1. Room <= DmaSize - ahead
    BY <1>1, <1>2, <1>3, <1>7, Sizes DEF Smaller, RoomFrom, Wrapped
  <2>3. ahead' = ahead /\ dmaspace' = Room /\ bufpos' = bufpos /\ lastput' = lastput
    BY <1>7 DEF AU_cardbuf_space
  <2>4. RingTypeOK' /\ CursorsAgree' /\ RoomIsThere'
    BY <1>3, <1>5, <2>1, <2>3, Sizes DEF RingTypeOK, CursorsAgree, RoomIsThere, Wrapped
  <2> QED BY <1>3, <1>5, <2>3, <2>4 DEF WholeFrames
<1> QED BY <1>6, <1>7

(* What is put is a number of frames and leaves the protection free. *)
LEMMA PutblockFacts ==
  ASSUME RingInv, NEW outbytes \in Nat, outbytes % Sign = 0
  PROVE  /\ Putblock(outbytes) \in Nat /\ Putblock(outbytes) % Sign = 0
         /\ Putblock(outbytes) > 0 => Putblock(outbytes) <= dmaspace - Protected
<1>1. dmaspace \in Nat /\ dmaspace % Sign = 0
  BY Sizes DEF RingInv, RingTypeOK, WholeFrames
<1>2. (dmaspace - Protected) % Sign = 0
  <2>1. dmaspace \in Int /\ Protected \in Int /\ Protected % Sign = 0
    BY <1>1, Sizes
  <2> QED BY <1>1, <2>1, WholeSum, Zenon
<1>3. 0 % Sign = 0
  BY MultipleIsWhole, Sizes
<1> QED BY <1>1, <1>2, <1>3, Sizes DEF Putblock, Usable, Smaller

LEMMA WriteKeeps ==
  ASSUME RingInv, NEW outbytes \in Nat, outbytes % Sign = 0, AU_writedata(outbytes)
  PROVE  RingTypeOK' /\ CursorsAgree' /\ WholeFrames' /\ RoomIsThere'
<1> DEFINE n == Putblock(outbytes)
<1>1. n \in Nat /\ n % Sign = 0 /\ (n > 0 => n <= dmaspace - Protected)
  BY PutblockFacts
<1>2. /\ bufpos' = bufpos /\ ahead' = ahead + n /\ lastput' = Wrapped(lastput + n)
      /\ dmaspace' = IF dmaspace > n THEN dmaspace - n ELSE 0
  BY DEF AU_writedata, MDma_writedata
<1> HIDE DEF n
<1>3. /\ bufpos \in 0 .. DmaSize - 1 /\ lastput \in 0 .. DmaSize - 1
      /\ dmaspace \in 0 .. DmaSize /\ dmaspace <= DmaSize - ahead
      /\ ahead \in -MaxLate .. DmaSize - Sign
      /\ lastput = Wrapped(bufpos + ahead)
      /\ lastput % Sign = 0 /\ dmaspace % Sign = 0
  BY DEF RingInv, RingTypeOK, CursorsAgree, WholeFrames, RoomIsThere
<1>4. RingTypeOK' /\ RoomIsThere'
  BY <1>1, <1>2, <1>3, Sizes DEF RingTypeOK, RoomIsThere, Wrapped
<1>5. CursorsAgree'
  BY <1>1, <1>2, <1>3, Sizes DEF CursorsAgree, Wrapped
<1>6. lastput' % Sign = 0
  <2>1. (lastput + n) % Sign = 0
    BY <1>1, <1>3, Sizes, WholeSum
  <2>2. lastput + n \in Int /\ DmaSize \in Int /\ lastput + n >= 0 /\ DmaSize % Sign = 0
    BY <1>1, <1>3, Sizes
  <2> DEFINE end == lastput + n
  <2>3. end \in Int /\ end % Sign = 0
    BY <2>1, <2>2
  <2>4. lastput' = end \/ lastput' = end - DmaSize
    BY <1>2, <2>2 DEF Wrapped
  <2> HIDE DEF end
  <2>5. (end - DmaSize) % Sign = 0
    BY <2>2, <2>3, WholeSum
  <2> QED BY <2>3, <2>4, <2>5
<1>7. dmaspace' % Sign = 0
  <2>1. (dmaspace - n) % Sign = 0 /\ 0 % Sign = 0
    BY <1>1, <1>3, Sizes, WholeSum, MultipleIsWhole
  <2> QED BY <1>2, <2>1
<1> QED BY <1>4, <1>5, <1>6, <1>7 DEF WholeFrames

LEMMA SetRateKeeps ==
  ASSUME RingInv, AU_setrate
  PROVE  RingTypeOK' /\ CursorsAgree' /\ WholeFrames' /\ RoomIsThere'
<1> DEFINE half == DmaSize \div 2
<1>1. half \in Nat /\ half >= Sign /\ 2 * half <= DmaSize /\ half % Sign = 0
  BY Sizes
<1>2. lastput % Sign = 0
  BY DEF RingInv, WholeFrames
<1>3. bufpos' = 0 /\ lastput' = half /\ dmaspace' = DmaSize - half /\ ahead' = half
  BY <1>1, <1>2 DEF AU_setrate
<1>4. (DmaSize - half) % Sign = 0
  BY Sizes, WholeSum
<1> HIDE DEF half
<1>5. RingTypeOK' /\ CursorsAgree' /\ RoomIsThere'
  BY <1>1, <1>3, Sizes DEF RingTypeOK, CursorsAgree, RoomIsThere, Wrapped
<1>6. WholeFrames'
  BY <1>1, <1>3, <1>4 DEF WholeFrames
<1> QED BY <1>5, <1>6

LEMMA NextRing == RingInv /\ [PathNext]_pathVars => RingInv'
<1> SUFFICES ASSUME RingInv, [PathNext]_pathVars
             PROVE  RingInv'
  OBVIOUS
<1> DEFINE Ring == RingTypeOK /\ CursorsAgree /\ WholeFrames /\ RoomIsThere
<1>0. ASSUME UNCHANGED ringVars PROVE Ring'
  BY <1>0 DEF RingInv, ringVars, RingTypeOK, CursorsAgree, WholeFrames, RoomIsThere
<1>1. CASE Plays
  BY <1>1, CardPlaysKeeps DEF Plays, passVars, RingInv
<1>2. CASE SetRate
  BY <1>2, SetRateKeeps DEF SetRate, passVars, RingInv
<1>3. CASE Reprogram
  BY <1>3, <1>0 DEF Reprogram, RingInv
<1>4. CASE Look
  <2>1. Ring'
    BY <1>4, LookKeeps DEF Look
  <2>2. samples' \in Nat /\ pos' \in Nat
    <3> DEFINE room == Usable(dmaspace') \div Sign
    <3>0. dmaspace' \in Nat
      BY <2>1, Sizes DEF RingTypeOK
    <3>1. Usable(dmaspace') \in Nat
      <4>1. Protected \in Nat
        BY Sizes
      <4>2. \A r \in Nat : Usable(r) \in Nat
        BY <4>1 DEF Usable
      <4> QED BY <3>0, <4>2
    <3>2. room \in Int /\ Stretch \in Nat
      BY <3>1, Sizes, PathAssumption
    <3> QED BY <1>4, <3>2 DEF Look, RingInv
  <2> QED BY <2>1, <2>2 DEF RingInv
<1>5. CASE MapWindow
  BY <1>5, <1>0 DEF MapWindow, passVars, RingInv
<1>6. CASE Copy
  <2>1. PICK bytes \in 1 .. loc.count, frames \in 1 .. samples - pos + Stretch : pos' = pos + frames
    BY <1>6 DEF Copy
  <2>2. pos' \in Nat
    BY <2>1, PathAssumption DEF RingInv
  <2> QED BY <1>6, <1>0, <2>2 DEF Copy, RingInv
<1>7. CASE HandlerReturns
  BY <1>7, <1>0 DEF HandlerReturns, RingInv
<1>8. CASE Write
  <2> DEFINE out == Smaller(samples, pos)
  <2>1. out \in Nat
    BY DEF RingInv, Smaller
  <2> HIDE DEF out
  <2>2. out * Sign = Sign * out /\ out * Sign \in Nat /\ (Sign * out) % Sign = 0
    BY <2>1, MultipleIsWhole, Sizes
  <2>3. AU_writedata(out * Sign)
    BY <1>8 DEF Write, out
  <2>4. Ring'
    BY <2>2, <2>3, WriteKeeps
  <2> QED BY <1>8, <2>4 DEF Write, RingInv
<1>9. CASE UNCHANGED pathVars
  BY <1>9, <1>0 DEF pathVars, passVars, RingInv
<1> QED
  BY <1>1, <1>2, <1>3, <1>4, <1>5, <1>6, <1>7, <1>8, <1>9 DEF PathNext, Interrupt

(* Throughout every behaviour, for every size of the buffer, the frame and *)
(* the protection, the four invariants of the ring hold together.          *)
THEOREM RingHolds == PathSpec => []RingInv
<1>1. PathSpec => []RingInv
  BY InitRing, NextRing, PTL DEF PathSpec
<1> QED BY <1>1

(* The write cursor is where the bytes written and played put it           *)
(* (MDma_writedata).                                                       *)
THEOREM CursorsAgreeHolds == PathSpec => []CursorsAgree
<1>1. RingInv => CursorsAgree
  BY DEF RingInv
<1> QED BY <1>1, RingHolds, PTL

(* The writer stops at whole frames only, whatever part of a frame the     *)
(* card is in (AU_cardbuf_space).                                          *)
THEOREM WholeFramesHolds == PathSpec => []WholeFrames
<1>1. RingInv => WholeFrames
  BY DEF RingInv
<1> QED BY <1>1, RingHolds, PTL

(* The room found is still there when it is written to (card_dmaspace).    *)
THEOREM RoomIsThereHolds == PathSpec => []RoomIsThere
<1>1. RingInv => RoomIsThere
  BY DEF RingInv
<1> QED BY <1>1, RingHolds, PTL

---------------------------------------------------------------------------
LEMMA InitQueue == PathInit => Queue!Init
  BY Sizes DEF PathInit, RingInit, Queue!Init

LEMMA NextQueue ==
  ASSUME RingInv, RingInv', [PathNext]_pathVars
  PROVE  [Queue!Put \/ Queue!Play \/ Queue!Late \/ Queue!Renew]_ahead
<1>0. CASE UNCHANGED ringVars
  BY <1>0 DEF ringVars
<1>1. CASE Plays
  BY <1>1 DEF Plays, CardPlays, Queue!Play
<1>2. CASE SetRate
  <2>1. ahead' = DmaSize \div 2
    BY <1>2, Sizes DEF SetRate, AU_setrate, RingInv, WholeFrames
  <2> QED BY <2>1 DEF Queue!Renew
<1>3. CASE Look
  <2>1. ahead' = ahead \/ (ahead <= -Sign /\ ahead' = ahead + DmaSize)
    BY <1>3 DEF Look, AU_cardbuf_space
  <2> QED BY <2>1, Sizes DEF RingInv, RingTypeOK, Queue!Late
<1>4. CASE Write
  <2> DEFINE out == Smaller(samples, pos)
             n == Putblock(out * Sign)
  <2>1. out \in Nat
    BY DEF RingInv, Smaller
  <2>2. out * Sign = Sign * out /\ out * Sign \in Nat /\ (Sign * out) % Sign = 0
    BY <2>1, MultipleIsWhole, Sizes
  <2>3. n \in Nat /\ (n > 0 => n <= dmaspace - Protected)
    BY <2>2, PutblockFacts
  <2>4. ahead' = ahead + n
    BY <1>4 DEF Write, AU_writedata
  <2> HIDE DEF n
  <2>5. ahead \in Int /\ dmaspace \in Int /\ dmaspace <= DmaSize - ahead
    BY Sizes DEF RingInv, RingTypeOK, RoomIsThere
  <2>6. n = 0 \/ ahead' \in ahead + 1 .. DmaSize - Protected
    BY <2>3, <2>4, <2>5, Sizes
  <2> QED BY <2>4, <2>5, <2>6 DEF Queue!Put
<1> QED
  BY <1>0, <1>1, <1>2, <1>3, <1>4
  DEF PathNext, Interrupt, Reprogram, MapWindow, Copy, HandlerReturns, pathVars

(* The ring implements the queue: no byte not yet played is ever covered,  *)
(* and between the writer and the card the protection is left free.        *)
THEOREM NothingOverwrittenHolds == PathSpec => NothingOverwritten
<1>1. RingInv /\ RingInv' /\ [PathNext]_pathVars
        => [Queue!Put \/ Queue!Play \/ Queue!Late \/ Queue!Renew]_ahead
  BY NextQueue
<1> QED
  BY <1>1, InitQueue, RingHolds, PTL DEF PathSpec, NothingOverwritten, Queue!Spec

---------------------------------------------------------------------------
(* A pass of the sound interrupt reads the client's buffer.  The argument: *)
(* the window that is kept either lies in the first megabyte, where linear *)
(* and physical addresses are the same, or is one of the mappings the host *)
(* granted, of which no two overlap; and when a pass copies, the window    *)
(* covers what is left of the buffer the channel is set up for.            *)
Channels ==
  [addr : Nat, index : Nat, count : Nat \ {0}, buffer : Buffers]

(* The channel is somewhere in the buffer it was set up for, or, without   *)
(* auto-initialisation, has run out of it.                                 *)
InBuffer(c) == c.index + c.count <= c.buffer.size
ChannelInv ==
  /\ chan \in Channels /\ chan.addr = chan.buffer.addr
  /\ InBuffer(chan) \/ ~chan.buffer.auto

PassInv ==
  /\ phase \in {"idle", "pass", "copy", "handler", "write"}
  /\ phase \in {"pass", "copy"} => loc = Local(chan) /\ InBuffer(chan)
  /\ phase \in {"pass", "copy", "handler"} => samples <= DmaSize \div Sign
  /\ samples \in 0 .. (DmaSize \div Sign) + Stretch /\ pos \in 0 .. (DmaSize \div Sign) + Stretch

(* What the window stands for. *)
Low == MAIN_DMA_MappedAddr = MAIN_DMA_Addr /\ MAIN_DMA_Addr + MAIN_DMA_Size <= Megabyte
IsMapping(n) ==
  /\ MAIN_DMA_MappedAddr = Linear(n)
  /\ MAIN_DMA_Addr = maps[n].addr /\ MAIN_DMA_Size = maps[n].size
WindowInv ==
  /\ MAIN_DMA_Addr \in Nat /\ MAIN_DMA_Size \in Nat /\ MAIN_DMA_MappedAddr \in Nat
  /\ maps \in Seq([addr : Nat, size : Nat])
  /\ \A n \in DOMAIN maps : maps[n].size <= 1000 * Megabyte
  /\ MAIN_DMA_MappedAddr # Unmapped => Low \/ \E n \in DOMAIN maps : IsMapping(n)
  /\ phase = "copy" /\ MAIN_DMA_MappedAddr # Unmapped => Covers(loc)
PathInv == RingInv /\ ChannelInv /\ PassInv /\ WindowInv

---------------------------------------------------------------------------
(* Multiplication, division and pages. *)
LEMMA Multiples ==
  ASSUME NEW s \in Nat \ {0}, NEW a \in Int, NEW b \in Int
  PROVE  /\ s * a \in Int /\ s * b \in Int
         /\ a <= b => s * a <= s * b
         /\ s * a < s * b => a < b
  <1>1. s * a \in Int /\ s * b \in Int OBVIOUS
  <1>2. ASSUME a <= b PROVE s * a <= s * b
    <2>1. b - a \in Nat BY <1>2
    <2>2. s * (b - a) >= 0 BY <2>1, SMT
    <2>3. s * (b - a) = s * b - s * a BY SMT
    <2>4. QED BY <1>1, <2>2, <2>3
  <1>3. ASSUME NEW c \in Int, NEW d \in Int, c <= d PROVE s * c <= s * d
    <2>1. d - c \in Nat BY <1>3
    <2>2. s * (d - c) >= 0 BY <2>1, SMT
    <2>3. s * (d - c) = s * d - s * c BY SMT
    <2>4. s * c \in Int /\ s * d \in Int OBVIOUS
    <2>5. QED BY <2>2, <2>3, <2>4
  <1>4. ASSUME s * a < s * b PROVE a < b
    <2>1. SUFFICES ASSUME b <= a PROVE FALSE OBVIOUS
    <2>2. s * b <= s * a BY <1>3, <2>1
    <2>3. QED BY <1>1, <1>4, <2>2
  <1>5. QED BY <1>1, <1>2, <1>4

LEMMA DivGrows ==
  ASSUME NEW s \in Nat \ {0}, NEW m \in Nat, NEW n \in Nat, m <= n
  PROVE  m \div s \in Nat /\ m \div s <= n \div s
  <1> DEFINE p == m \div s
             q == n \div s
  <1>1. p \in Nat /\ q \in Nat BY SMT
  <1>2. /\ m = s * p + (m % s) /\ n = s * q + (n % s)
        /\ m % s \in 0 .. s - 1 /\ n % s \in 0 .. s - 1
    BY DivMod, SMT
  <1> HIDE DEF p, q
  <1>3. s * p \in Int /\ s * (q + 1) \in Int /\ s * q \in Int BY <1>1
  <1>4. s * (q + 1) = s * q + s BY <1>1, SMT
  <1>5. s * p < s * (q + 1) BY <1>2, <1>3, <1>4
  <1>6. p < q + 1 BY <1>1, <1>5, Multiples
  <1>7. QED BY <1>1, <1>6 DEF p, q

LEMMA PageFacts ==
  ASSUME NEW a \in Nat
  PROVE  /\ PageOf(a) \in Nat /\ PageOf(a) <= a /\ a - PageOf(a) < Page
         /\ \E q \in Nat : PageOf(a) = Page * q
  <1> DEFINE r == a % Page
             q == a \div Page
  <1>1. Page \in Nat \ {0} BY PathAssumption
  <1>2. r \in 0 .. Page - 1 /\ q \in Nat BY <1>1, SMT
  <1>3. a = Page * q + r BY <1>1, DivMod
  <1>4. PageOf(a) = a - r BY DEF PageOf
  <1> HIDE DEF r, q
  <1>5. Page * q \in Nat BY <1>1, <1>2, <1>3
  <1>6. PageOf(a) = Page * q BY <1>2, <1>3, <1>4, <1>5
  <1>7. QED BY <1>1, <1>2, <1>3, <1>4, <1>5, <1>6

(* Rounding up to pages stays within a number of pages. *)
LEMMA AlignFacts ==
  ASSUME NEW n \in Nat
  PROVE  /\ Align(n) \in Nat /\ n <= Align(n) /\ Align(n) < n + Page
         /\ \A r \in Nat : n <= Page * r => Align(n) <= Page * r
  <1>1. Page \in Nat \ {0} BY PathAssumption
  <1>2. n + Page - 1 \in Nat BY <1>1
  <1> DEFINE m == n + Page - 1
  <1>3. Align(n) = PageOf(m) /\ m = n + Page - 1 /\ m \in Nat BY <1>2 DEF Align
  <1> HIDE DEF m
  <1>4. PageOf(m) \in Nat /\ PageOf(m) <= m /\ m - PageOf(m) < Page BY <1>3, PageFacts
  <1>5. \E q \in Nat : Align(n) = Page * q BY <1>3, PageFacts, Zenon
  <1>6. Align(n) \in Nat /\ n <= Align(n) /\ Align(n) < n + Page BY <1>1, <1>3, <1>4
  <1>7. ASSUME NEW r \in Nat, n <= Page * r PROVE Align(n) <= Page * r
    <2>1. PICK q \in Nat : Align(n) = Page * q BY <1>5
    <2>2. Page * (r + 1) = Page * r + Page /\ Page * r \in Int /\ Page * q \in Int
      BY <1>1, SMT
    <2>3. Page * q < Page * (r + 1) BY <1>1, <1>6, <1>7, <2>1, <2>2
    <2>4. q < r + 1 BY <1>1, <2>3, Multiples
    <2>5. Page * q <= Page * r BY <1>1, <2>4, Multiples
    <2>6. QED BY <2>1, <2>5
  <1>8. QED BY <1>6, <1>7

(* No two mappings of the host overlap. *)
LEMMA LinearFacts ==
  ASSUME NEW n \in Nat \ {0}
  PROVE  /\ Linear(n) \in Nat /\ Linear(n) >= 2000 * Megabyte /\ Linear(n) > Megabyte
         /\ \A m \in Nat \ {0} : m < n => Linear(m) + 1000 * Megabyte <= Linear(n)
  <1> DEFINE K == 1000 * Megabyte
  <1>1. K \in Nat \ {0} /\ Megabyte \in Nat \ {0} BY PathAssumption
  <1>2. \A m \in Nat \ {0} : Linear(m) = K * (m + 1) BY <1>1, SMT DEF Linear
  <1> HIDE DEF K
  <1>3. K * 2 <= K * (n + 1) /\ K * (n + 1) \in Int BY <1>1, Multiples
  <1>4. K * 2 = 2000 * Megabyte BY <1>1 DEF K
  <1>5. Linear(n) \in Int /\ Linear(n) >= 2000 * Megabyte BY <1>2, <1>3, <1>4
  <1>6. ASSUME NEW m \in Nat \ {0}, m < n PROVE Linear(m) + K <= Linear(n)
    <2>1. m + 2 <= n + 1 /\ m + 2 \in Int /\ n + 1 \in Int BY <1>6
    <2>2. K * (m + 2) <= K * (n + 1) BY <1>1, <2>1, Multiples
    <2>3. K * (m + 2) = K * (m + 1) + K BY <1>1, SMT
    <2>4. QED BY <1>2, <2>2, <2>3
  <1>7. QED BY <1>1, <1>5, <1>6 DEF K

(* Through the mapping n the processor reads what it stands for. *)
LEMMA MappingReads ==
  ASSUME WindowInv, NEW n \in DOMAIN maps, NEW d \in 0 .. maps[n].size - 1
  PROVE  Physical(Linear(n) + d) = {maps[n].addr + d}
  <1>1. /\ DOMAIN maps = 1 .. Len(maps) /\ Len(maps) \in Nat
        /\ \A m \in DOMAIN maps : /\ maps[m].addr \in Nat /\ maps[m].size \in Nat
                                  /\ maps[m].size <= 1000 * Megabyte
    <2>1. maps \in Seq([addr : Nat, size : Nat]) BY DEF WindowInv
    <2>2. DOMAIN maps = 1 .. Len(maps) /\ Len(maps) \in Nat BY <2>1
    <2> DEFINE S == [addr : Nat, size : Nat]
    <2>3. maps \in Seq(S) BY <2>1
    <2> HIDE DEF S
    <2>4. \A m \in DOMAIN maps : maps[m] \in S BY <2>2, <2>3
    <2>5. \A m \in DOMAIN maps : maps[m].addr \in Nat /\ maps[m].size \in Nat BY <2>4 DEF S
    <2>6. \A m \in DOMAIN maps : maps[m].size <= 1000 * Megabyte BY DEF WindowInv
    <2>7. QED BY <2>2, <2>5, <2>6
  <1>2. n \in Nat \ {0} /\ DOMAIN maps \subseteq Nat \ {0} BY <1>1
  <1>3. Linear(n) \in Nat /\ Linear(n) > Megabyte BY <1>2, LinearFacts
  <1>4. d \in Nat /\ d < maps[n].size /\ Megabyte \in Nat BY <1>1, PathAssumption
  <1> DEFINE a == Linear(n) + d
  <1>5. a \in Nat /\ ~(a < Megabyte) BY <1>3, <1>4
  <1>6. Mapped(a) = {n}
    <2>1. n \in Mapped(a) BY <1>1, <1>3, <1>4 DEF Mapped
    <2>2. ASSUME NEW m \in Mapped(a) PROVE m = n
      <3>1. m \in DOMAIN maps /\ Linear(m) <= a /\ a < Linear(m) + maps[m].size
        BY <1>1, <1>2, LinearFacts DEF Mapped
      <3>2. m \in Nat \ {0} /\ Linear(m) \in Nat BY <1>2, <3>1, LinearFacts
      <3>3. CASE m < n
        <4>1. Linear(m) + 1000 * Megabyte <= Linear(n) BY <1>2, <3>2, <3>3, LinearFacts
        <4>2. maps[m].size \in Nat /\ maps[m].size <= 1000 * Megabyte BY <1>1, <3>1
        <4>3. QED BY <1>3, <1>4, <3>1, <3>2, <4>1, <4>2
      <3>4. CASE n < m
        <4>1. Linear(n) + 1000 * Megabyte <= Linear(m) BY <1>2, <3>2, <3>4, LinearFacts
        <4>2. maps[n].size \in Nat /\ maps[n].size <= 1000 * Megabyte BY <1>1
        <4>3. QED BY <1>3, <1>4, <3>1, <3>2, <4>1, <4>2
      <3>5. QED BY <1>2, <3>2, <3>3, <3>4
    <2>3. QED BY <2>1, <2>2
  <1>7. Physical(a) = {maps[m].addr + (a - Linear(m)) : m \in Mapped(a)}
    BY <1>5 DEF Physical
  <1>8. a - Linear(n) = d BY <1>3, <1>4
  <1>9. Physical(a) = {maps[n].addr + (a - Linear(n))} BY <1>6, <1>7
  <1>10. QED BY <1>8, <1>9

---------------------------------------------------------------------------
(* A window that covers what is left reads the buffer. *)
LEMMA WindowReads == PathInv => CopyReadsBuffer
  <1> SUFFICES ASSUME PathInv, phase = "copy", MAIN_DMA_MappedAddr # Unmapped,
                      NEW k \in 0 .. chan.count - 1
               PROVE  Physical(MAIN_DMA_MappedAddr + (loc.addr - MAIN_DMA_Addr) + loc.index + k)
                        = {chan.addr + chan.index + k}
    BY DEF CopyReadsBuffer
  <1> DEFINE d == loc.addr - MAIN_DMA_Addr + loc.index + k
  <1>1. /\ loc.addr = chan.addr /\ loc.index = chan.index /\ loc.count = chan.count
        /\ chan.addr \in Nat /\ chan.index \in Nat /\ chan.count \in Nat
        /\ MAIN_DMA_Addr \in Nat /\ MAIN_DMA_Size \in Nat /\ MAIN_DMA_MappedAddr \in Nat
    BY DEF PathInv, PassInv, ChannelInv, Channels, Local, WindowInv
  <1>2. loc.addr >= MAIN_DMA_Addr /\ End(loc) <= MAIN_DMA_Addr + MAIN_DMA_Size
    BY DEF PathInv, WindowInv, Covers
  <1>3. d \in 0 .. MAIN_DMA_Size - 1 /\ MAIN_DMA_Addr + d = chan.addr + chan.index + k
    BY <1>1, <1>2 DEF End
  <1>4. MAIN_DMA_MappedAddr + (loc.addr - MAIN_DMA_Addr) + loc.index + k = MAIN_DMA_MappedAddr + d
    BY <1>1
  <1> HIDE DEF d
  <1>5. CASE Low
    <2>1. MAIN_DMA_MappedAddr = MAIN_DMA_Addr /\ MAIN_DMA_Addr + d < Megabyte
      BY <1>1, <1>3, <1>5, PathAssumption DEF Low
    <2>2. Physical(MAIN_DMA_Addr + d) = {MAIN_DMA_Addr + d} BY <2>1 DEF Physical
    <2>3. QED BY <1>3, <1>4, <2>1, <2>2
  <1>6. CASE \E n \in DOMAIN maps : IsMapping(n)
    <2>1. PICK n \in DOMAIN maps : IsMapping(n) BY <1>6
    <2>2. d \in 0 .. maps[n].size - 1 BY <1>3, <2>1 DEF IsMapping
    <2>3. Physical(Linear(n) + d) = {maps[n].addr + d}
      BY <2>2, MappingReads DEF PathInv
    <2>4. QED BY <1>3, <1>4, <2>1, <2>3 DEF IsMapping
  <1>7. QED BY <1>5, <1>6 DEF PathInv, WindowInv

---------------------------------------------------------------------------
(* The steps. *)
LEMMA BufferFacts ==
  /\ Page \in Nat \ {0} /\ Window \in Nat \ {0} /\ Megabyte \in Nat \ {0}
  /\ Page <= Megabyte /\ Window <= Megabyte /\ Megabyte % Page = 0
  /\ Stretch \in Nat /\ DmaSize \div Sign \in Nat
  /\ \A b \in Buffers :
       /\ b.addr \in Nat /\ b.size \in Nat \ {0} /\ b.size <= Megabyte /\ b.auto \in BOOLEAN
       /\ b.addr >= Page
       /\ PageOf(b.addr) + Window <= Megabyte \/ b.addr >= Megabyte
       /\ b.addr + b.size <= Megabyte \/ b.addr >= Megabyte
  <1>1. DmaSize \div Sign \in Nat BY RingAssumption, SMT
  <1>2. QED BY <1>1, PathAssumption

LEMMA ProgrammedFacts ==
  ASSUME NEW b \in Buffers
  PROVE  /\ Programmed(b) \in Channels /\ InBuffer(Programmed(b))
         /\ Programmed(b).addr = b.addr /\ Programmed(b).buffer = b
  BY BufferFacts DEF Programmed, Channels, InBuffer

LEMMA PathInitInv == PathInit => PathInv
  <1> SUFFICES ASSUME PathInit PROVE PathInv OBVIOUS
  <1>1. RingInv BY InitRing
  <1>2. ChannelInv BY ProgrammedFacts DEF PathInit, ChannelInv
  <1>3. PassInv BY BufferFacts DEF PathInit, PassInv
  <1>4. WindowInv
    <2>1. maps = <<>> /\ MAIN_DMA_MappedAddr = Unmapped /\ MAIN_DMA_Addr = 0 /\ MAIN_DMA_Size = 0
      BY DEF PathInit
    <2>2. <<>> \in Seq([addr : Nat, size : Nat]) /\ DOMAIN <<>> = {} OBVIOUS
    <2>3. Unmapped \in Nat BY DEF Unmapped
    <2>4. QED BY <2>1, <2>2, <2>3 DEF WindowInv
  <1>5. QED BY <1>1, <1>2, <1>3, <1>4 DEF PathInv

(* The window that a pass maps covers what is left of the buffer. *)
LEMMA MapWindowKeeps == PathInv /\ MapWindow => WindowInv'
  <1> SUFFICES ASSUME PathInv, MapWindow PROVE WindowInv' OBVIOUS
  <1>1. /\ phase = "pass" /\ loc' = loc /\ loc = Local(chan) /\ InBuffer(chan)
        /\ WindowInv /\ chan \in Channels /\ chan.addr = chan.buffer.addr
    BY DEF MapWindow, passVars, PathInv, PassInv, ChannelInv
  <1>2. CASE Covers(loc)
    <2>1. UNCHANGED windowVars BY <1>2 DEF MapWindow
    <2>2. QED
      BY <1>1, <1>2, <2>1 DEF WindowInv, windowVars, Low, IsMapping, Linear, Covers, End
  <1>3. CASE ~Covers(loc)
    <2> DEFINE p == PageOf(loc.addr)
               used == loc.addr - p + loc.index + loc.count
               size == WindowSize(loc)
    <2>1. /\ loc.addr \in Nat /\ loc.index \in Nat /\ loc.count \in Nat \ {0}
          /\ chan.buffer \in Buffers /\ loc.addr = chan.buffer.addr
          /\ loc.index + loc.count <= chan.buffer.size
      BY <1>1 DEF Local, Channels, InBuffer
    <2>2. /\ MAIN_DMA_Addr' = p /\ MAIN_DMA_Size' = size
          /\ IF End(loc) <= Megabyte THEN MAIN_DMA_MappedAddr' = p /\ UNCHANGED maps
             ELSE MapMemory(p, size)
      BY <1>3 DEF MapWindow
    <2>3. /\ p \in Nat /\ p <= loc.addr /\ loc.addr - p < Page
          /\ \E q \in Nat : p = Page * q
      BY <2>1, PageFacts
    <2> HIDE DEF p
    <2>4. /\ used \in Nat /\ p + used = End(loc) /\ used <= Page + chan.buffer.size
      BY <2>1, <2>3, BufferFacts DEF End
    <2> DEFINE most == IF used > Window THEN used ELSE Window
    <2>5. size = Align(most) BY DEF WindowSize, p
    <2>6. most \in Nat /\ used <= most /\ most <= 2 * Megabyte
      BY <2>1, <2>4, BufferFacts
    <2> HIDE DEF size, used, most
    <2>7. size \in Nat /\ most <= size /\ size < most + Page BY <2>5, <2>6, AlignFacts
    <2>8. size <= 1000 * Megabyte BY <2>6, <2>7, BufferFacts
    <2>9. loc.addr >= p /\ End(loc) <= p + size BY <2>3, <2>4, <2>6, <2>7
    <2>10. MAIN_DMA_MappedAddr' # Unmapped => Covers(loc)'
      BY <1>1, <2>2, <2>9 DEF Covers, End
    <2>11. maps \in Seq([addr : Nat, size : Nat])
           /\ \A n \in DOMAIN maps : maps[n].size <= 1000 * Megabyte
      BY <1>1 DEF WindowInv
    <2>12. CASE End(loc) <= Megabyte
      <3>1. loc.addr < Megabyte BY <2>1, <2>12, BufferFacts DEF End
      <3>2. p + Window <= Megabyte BY <2>1, <3>1, BufferFacts DEF p
      <3>3. p + most <= Megabyte BY <2>3, <2>4, <2>12, <3>2 DEF most
      <3>4. p + size <= Megabyte
        <4>1. PICK q \in Nat : p = Page * q BY <2>3
        <4> DEFINE r == Megabyte \div Page
        <4>2. r \in Nat /\ Megabyte = Page * r
          <5>1. Megabyte = Page * (Megabyte \div Page) + (Megabyte % Page)
            BY BufferFacts, DivMod
          <5>2. r \in Nat BY BufferFacts, SMT
          <5>3. Page * r \in Int BY <5>2, BufferFacts
          <5>4. QED BY <5>1, <5>2, <5>3, BufferFacts
        <4> HIDE DEF r
        <4>3. Page * q <= Page * r BY <2>6, <3>3, <4>1, <4>2, BufferFacts
        <4>4. q <= r
          <5>1. SUFFICES ASSUME r < q PROVE FALSE BY <4>2
          <5>2. Page * r < Page * q
            <6>1. Page * (r + 1) <= Page * q BY <4>2, <5>1, BufferFacts, Multiples
            <6>2. Page * (r + 1) = Page * r + Page BY <4>2, BufferFacts, SMT
            <6>3. Page * r \in Int /\ Page * q \in Int BY <4>2, BufferFacts
            <6>4. QED BY <6>1, <6>2, <6>3, BufferFacts
          <5>3. Page * r \in Int /\ Page * q \in Int BY <4>2, BufferFacts
          <5>4. QED BY <4>3, <5>2, <5>3
        <4>5. r - q \in Nat /\ Page * (r - q) = Page * r - Page * q
          BY <4>2, <4>4, BufferFacts, SMT
        <4>6. most <= Page * (r - q) BY <2>3, <2>6, <3>3, <4>1, <4>2, <4>5, BufferFacts
        <4>7. size <= Page * (r - q) BY <2>5, <2>6, <4>5, <4>6, AlignFacts
        <4>8. QED BY <2>3, <2>7, <4>1, <4>2, <4>5, <4>7, BufferFacts
      <3>5. MAIN_DMA_MappedAddr' = p /\ maps' = maps BY <2>2, <2>12
      <3>6. Low' BY <2>2, <3>4, <3>5 DEF Low
      <3>7. QED BY <2>2, <2>3, <2>7, <2>10, <2>11, <3>5, <3>6 DEF WindowInv
    <2>13. CASE ~(End(loc) <= Megabyte)
      <3>1. MapMemory(p, size) BY <2>2, <2>13
      <3>2. CASE MAIN_DMA_MappedAddr' = Unmapped /\ UNCHANGED maps
        BY <2>2, <2>3, <2>7, <2>10, <2>11, <3>2 DEF WindowInv, Unmapped
      <3>3. CASE /\ maps' = Append(maps, [addr |-> p, size |-> size])
                 /\ MAIN_DMA_MappedAddr' = Linear(Len(maps'))
        <4> DEFINE w == [addr |-> p, size |-> size]
                   S == [addr : Nat, size : Nat]
        <4>1. w \in S /\ w.addr = p /\ w.size = size BY <2>3, <2>7
        <4>2. maps \in Seq(S) /\ maps' = Append(maps, w) BY <2>11, <3>3
        <4> HIDE DEF w, S
        <4>3. /\ maps' \in Seq(S) /\ Len(maps') = Len(maps) + 1 /\ Len(maps) \in Nat
              /\ DOMAIN maps = 1 .. Len(maps) /\ DOMAIN maps' = 1 .. Len(maps')
              /\ maps'[Len(maps')] = w
              /\ \A n \in 1 .. Len(maps) : maps'[n] = maps[n]
          BY <4>1, <4>2
        <4>4. \A n \in DOMAIN maps' : maps'[n].size <= 1000 * Megabyte
          BY <2>8, <2>11, <4>1, <4>3
        <4>5. Len(maps') \in DOMAIN maps' /\ Len(maps') \in Nat \ {0} BY <4>3
        <4>6. Linear(Len(maps')) \in Nat BY <4>5, LinearFacts
        <4>7. PICK n : n = Len(maps') OBVIOUS
        <4>8. IsMapping(n)' BY <2>2, <3>3, <4>1, <4>3, <4>7 DEF IsMapping
        <4>9. \E m \in DOMAIN maps' : IsMapping(m)' BY <4>5, <4>7, <4>8
        <4>10. /\ MAIN_DMA_Addr' \in Nat /\ MAIN_DMA_Size' \in Nat /\ MAIN_DMA_MappedAddr' \in Nat
          BY <2>2, <2>3, <2>7, <3>3, <4>6
        <4>11. maps' \in Seq([addr : Nat, size : Nat]) BY <4>3 DEF S
        <4>12. QED BY <2>10, <4>4, <4>9, <4>10, <4>11 DEF WindowInv
      <3>4. QED BY <3>1, <3>2, <3>3 DEF MapMemory
    <2>14. QED BY <2>12, <2>13
  <1>4. QED BY <1>2, <1>3

(* A channel with another index and counter. *)
MovedTo(c, k, i, n) ==
  /\ c \in Channels /\ c.index = i /\ c.count = n /\ c.addr = k.addr /\ c.buffer = k.buffer

LEMMA Moved ==
  ASSUME NEW k \in Channels, NEW i \in Nat, NEW n \in Nat \ {0},
         NEW c, c = [k EXCEPT !.index = i, !.count = n]
  PROVE  MovedTo(c, k, i, n)
  <1>1. /\ k = [addr |-> k.addr, index |-> k.index, count |-> k.count, buffer |-> k.buffer]
        /\ k.addr \in Nat /\ k.buffer \in Buffers
    BY DEF Channels
  <1>2. c = [addr |-> k.addr, index |-> i, count |-> n, buffer |-> k.buffer] BY <1>1
  <1>3. QED BY <1>1, <1>2 DEF Channels, MovedTo

(* Wherever a pass ends, the channel is in its buffer or has run out of it. *)
LEMMA AdvancedFacts ==
  ASSUME ChannelInv, InBuffer(chan), loc = Local(chan), NEW bytes \in 1 .. loc.count,
         NEW c, c = Advanced(bytes)
  PROVE  /\ c \in Channels /\ c.addr = c.buffer.addr
         /\ InBuffer(c) \/ ~c.buffer.auto
  <1>1. /\ chan \in Channels /\ chan.addr = chan.buffer.addr /\ chan.buffer \in Buffers
        /\ chan.addr \in Nat /\ chan.index \in Nat /\ chan.count \in Nat \ {0}
        /\ loc.count = chan.count /\ loc.index = chan.index
    BY DEF ChannelInv, Channels, Local
  <1>2. CASE bytes < loc.count
    <2>1. c = [chan EXCEPT !.index = loc.index + bytes, !.count = loc.count - bytes]
      BY <1>2 DEF Advanced
    <2>2. loc.index + bytes \in Nat /\ loc.count - bytes \in Nat \ {0} BY <1>1, <1>2
    <2>3. MovedTo(c, chan, loc.index + bytes, loc.count - bytes) BY <1>1, <2>1, <2>2, Moved
    <2>4. c.index + c.count = chan.index + chan.count BY <1>1, <2>3 DEF MovedTo
    <2>5. QED BY <1>1, <2>3, <2>4 DEF InBuffer, MovedTo
  <1>3. CASE ~(bytes < loc.count) /\ chan.buffer.auto
    BY <1>1, <1>3, ProgrammedFacts DEF Advanced
  <1>4. CASE ~(bytes < loc.count) /\ ~chan.buffer.auto
    <2>1. PICK n \in Nat \ {0} : n = 65536 OBVIOUS
    <2>2. c = [chan EXCEPT !.index = loc.index + bytes, !.count = n] BY <1>4, <2>1 DEF Advanced
    <2>3. loc.index + bytes \in Nat BY <1>1
    <2>4. MovedTo(c, chan, loc.index + bytes, n) BY <1>1, <2>2, <2>3, Moved
    <2>5. QED BY <1>1, <1>4, <2>4 DEF MovedTo
  <1>5. QED BY <1>2, <1>3, <1>4

(* What is not in the window's or the channel's hands. *)
LEMMA WindowStays ==
  ASSUME WindowInv, UNCHANGED windowVars, phase' # "copy"
  PROVE  WindowInv'
  BY DEF WindowInv, windowVars, Low, IsMapping, Linear

LEMMA CopyKeeps == PathInv /\ Copy => ChannelInv' /\ PassInv' /\ WindowInv'
  <1> SUFFICES ASSUME PathInv, Copy PROVE ChannelInv' /\ PassInv' /\ WindowInv' OBVIOUS
  <1>1. /\ phase = "copy" /\ samples' = samples /\ UNCHANGED windowVars
        /\ loc' = Local(chan') /\ phase' \in {IF GoesOn THEN "pass" ELSE "write", "handler"}
        /\ ChannelInv /\ PassInv /\ WindowInv
    BY DEF Copy, PathInv
  <1>2. PICK bytes \in 1 .. loc.count, frames \in 1 .. samples - pos + Stretch :
          pos' = pos + frames /\ chan' = Advanced(bytes)
    BY DEF Copy
  <1>3. loc = Local(chan) /\ InBuffer(chan) BY <1>1 DEF PassInv
  <1>4. /\ chan' \in Channels /\ chan'.addr = chan'.buffer.addr
        /\ InBuffer(chan') \/ ~chan'.buffer.auto
    BY <1>1, <1>2, <1>3, AdvancedFacts
  <1>5. ChannelInv' BY <1>4 DEF ChannelInv, InBuffer
  <1>6. samples \in Nat /\ pos \in Nat /\ samples <= DmaSize \div Sign
    BY <1>1, BufferFacts DEF PassInv
  <1>7. pos' \in 0 .. (DmaSize \div Sign) + Stretch BY <1>2, <1>6, BufferFacts
  <1>8. phase' = "pass" => InBuffer(chan') BY <1>1, <1>4 DEF GoesOn
  <1>9. phase' \in {"pass", "write", "handler"} BY <1>1
  <1>10. PassInv' BY <1>1, <1>6, <1>7, <1>8, <1>9, BufferFacts DEF PassInv, InBuffer, Local
  <1>11. WindowInv' BY <1>1, <1>9, WindowStays
  <1>12. QED BY <1>5, <1>10, <1>11

LEMMA LookKeepsPath == PathInv /\ Look /\ RingInv' => ChannelInv' /\ PassInv' /\ WindowInv'
  <1> SUFFICES ASSUME PathInv, Look, RingInv' PROVE ChannelInv' /\ PassInv' /\ WindowInv' OBVIOUS
  <1> DEFINE room == Usable(dmaspace') \div Sign
  <1>1. /\ phase = "idle" /\ UNCHANGED <<chan, windowVars>>
        /\ ChannelInv /\ PassInv /\ WindowInv
        /\ \/ room = 0 /\ UNCHANGED <<phase, samples, pos, loc>>
           \/ /\ room > 0 /\ chan.index + chan.count <= chan.buffer.size /\ phase' = "pass"
              /\ samples' = room /\ pos' = 0 /\ loc' = Local(chan)
           \/ /\ room > 0 /\ phase' = "write"
              /\ samples' \in 1 .. room + Stretch /\ pos' = samples' /\ UNCHANGED loc
    BY DEF Look, PathInv
  <1>2. room \in Nat /\ room <= DmaSize \div Sign
    <2>1. dmaspace' \in 0 .. DmaSize BY DEF RingInv, RingTypeOK
    <2>2. Usable(dmaspace') \in Nat /\ Usable(dmaspace') <= DmaSize
      <3>1. Protected \in Nat /\ DmaSize \in Nat BY Sizes
      <3>2. \A r \in 0 .. DmaSize : Usable(r) \in Nat /\ Usable(r) <= DmaSize
        BY <3>1 DEF Usable
      <3>3. QED BY <2>1, <3>2
    <2>3. PICK u : u = Usable(dmaspace') OBVIOUS
    <2>4. u \in Nat /\ u <= DmaSize BY <2>2, <2>3
    <2>5. u \div Sign \in Nat /\ u \div Sign <= DmaSize \div Sign
      BY <2>4, DivGrows, RingAssumption
    <2>6. room = u \div Sign BY <2>3
    <2> HIDE DEF room
    <2>7. QED BY <2>5, <2>6
  <1> HIDE DEF room
  <1>3. ChannelInv' BY <1>1 DEF ChannelInv, InBuffer
  <1>4. PassInv' BY <1>1, <1>2, BufferFacts DEF PassInv, InBuffer, Local
  <1>5. WindowInv' BY <1>1, WindowStays
  <1>6. QED BY <1>3, <1>4, <1>5

LEMMA NextPath == PathInv /\ [PathNext]_pathVars => PathInv'
  <1> SUFFICES ASSUME PathInv, [PathNext]_pathVars PROVE PathInv' OBVIOUS
  <1>1. RingInv' BY NextRing DEF PathInv
  <1>2. ChannelInv /\ PassInv /\ WindowInv BY DEF PathInv
  <1>3. SUFFICES ChannelInv' /\ PassInv' /\ WindowInv' BY <1>1 DEF PathInv
  <1>4. CASE UNCHANGED <<phase, passVars, windowVars>>
    <2>1. ChannelInv' /\ PassInv'
      BY <1>2, <1>4 DEF passVars, ChannelInv, PassInv, InBuffer, Local
    <2>2. WindowInv'
      BY <1>2, <1>4 DEF passVars, windowVars, WindowInv, Low, IsMapping, Linear, Covers, End
    <2>3. QED BY <2>1, <2>2
  <1>5. CASE Reprogram
    <2>1. PICK b \in Buffers : chan' = Programmed(b) BY <1>5 DEF Reprogram
    <2>2. ChannelInv' BY <2>1, ProgrammedFacts DEF ChannelInv, InBuffer
    <2>3. PassInv' BY <1>2, <1>5 DEF Reprogram, PassInv
    <2>4. WindowInv' BY <1>2, <1>5, WindowStays DEF Reprogram
    <2>5. QED BY <2>2, <2>3, <2>4
  <1>6. CASE Look BY <1>1, <1>6, LookKeepsPath
  <1>7. CASE MapWindow
    <2>1. ChannelInv' BY <1>2, <1>7 DEF MapWindow, passVars, ChannelInv, InBuffer
    <2>2. PassInv' BY <1>2, <1>7 DEF MapWindow, passVars, PassInv, InBuffer, Local
    <2>3. QED BY <1>7, <2>1, <2>2, MapWindowKeeps
  <1>8. CASE Copy BY <1>8, CopyKeeps
  <1>9. CASE HandlerReturns
    <2>1. /\ phase = "handler" /\ loc' = Local(chan) /\ UNCHANGED <<samples, pos, chan, windowVars>>
          /\ phase' \in {"write", "pass"} /\ (phase' = "pass" => chan.buffer.auto)
      BY <1>9 DEF HandlerReturns
    <2>2. ChannelInv' BY <1>2, <2>1 DEF ChannelInv, InBuffer
    <2>3. PassInv' BY <1>2, <2>1 DEF PassInv, ChannelInv, InBuffer, Local
    <2>4. WindowInv' BY <1>2, <2>1, WindowStays
    <2>5. QED BY <2>2, <2>3, <2>4
  <1>10. CASE Write
    <2>1. /\ phase' = "idle" /\ samples' = 0 /\ pos' = 0 /\ UNCHANGED <<loc, chan, windowVars>>
      BY <1>10 DEF Write
    <2>2. ChannelInv' BY <1>2, <2>1 DEF ChannelInv, InBuffer
    <2>3. PassInv' BY <2>1, BufferFacts DEF PassInv
    <2>4. WindowInv' BY <1>2, <2>1, WindowStays
    <2>5. QED BY <2>2, <2>3, <2>4
  <1>11. QED
    BY <1>4, <1>5, <1>6, <1>7, <1>8, <1>9, <1>10
    DEF PathNext, Interrupt, Plays, SetRate, pathVars

(* The invariant of the window is inductive with that of the ring, for     *)
(* every set of buffers and sizes of page, window and ring.                *)
THEOREM PathInvHolds == PathSpec => []PathInv
  <1>1. QED BY PathInitInv, NextPath, PTL DEF PathSpec

(* Type correctness of the whole way of the sound. *)
THEOREM SoundPathTypeCorrect == PathSpec => []SoundPathTypeOK
  <1>1. PathInv => SoundPathTypeOK
    BY DEF PathInv, RingInv, ChannelInv, Channels, PassInv, WindowInv, SoundPathTypeOK
  <1>2. QED BY <1>1, PathInvHolds, PTL

(* Whatever windows earlier passes left and whatever the handler set up in *)
(* the middle of an interrupt, a pass reads the bytes the channel points   *)
(* to (MAIN_DMA_* and the re-reading in main.c).                           *)
THEOREM CopyReadsBufferHolds == PathSpec => []CopyReadsBuffer
  <1>1. QED BY WindowReads, PathInvHolds, PTL
=============================================================================
