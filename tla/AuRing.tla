------------------------------- MODULE AuRing -------------------------------
(***************************************************************************)
(* The ring buffer between SBEMU and the sound card (AU_cardbuf_space and  *)
(* AU_writedata of au_cards.c, MDma_* of dmairq.c).  The card plays from   *)
(* its position on while the sound interrupt computes the room, mixes and  *)
(* writes what the room was then.  An interrupt that comes late finds that *)
(* the card has overtaken the writer and plays old sound.                  *)
(*                                                                         *)
(* Positions and lengths are bytes.  Of the three writers SBEMU selects    *)
(* the one that does not wait.  The monitor of the timer interrupt and its *)
(* dmafilled are not part of SBEMU, and only the ICH driver reports an     *)
(* underrun, which is left out.                                            *)
(* (As in SbDsp, an operator named for what it ignores is a faulty variant *)
(* of the one that follows it.)                                            *)
(***************************************************************************)
EXTENDS Integers

CONSTANTS
  DmaSize,       (* card_dmasize                                     *)
  Sign,          (* card_bytespersign: the bytes of one stereo frame *)
  PROTECTION,    (* SOUNDCARD_BUFFER_PROTECTION                      *)
  MaxLate        (* bound: how far the card overtakes the writer     *)

RoundedDown(n) == n - (n % Sign)

(* buffer_protection: PROTECTION, rounded up to frames. *)
Protected == RoundedDown(PROTECTION + Sign - 1)

ASSUME RingAssumption ==
  /\ DmaSize \in Nat /\ Sign \in Nat \ {0} /\ PROTECTION \in Nat \ {0} /\ MaxLate \in Nat
  /\ DmaSize % Sign = 0 /\ (DmaSize \div 2) % Sign = 0
  /\ Protected <= DmaSize \div 2 /\ MaxLate < DmaSize

VARIABLES
  bufpos,        (* the card's position                                        *)
  lastput,       (* card_dmalastput: where the next byte is written            *)
  dmaspace,      (* card_dmaspace: the room found at the last look             *)
  ahead          (* bytes written and not played, negative when the card has   *)
                 (* overtaken the writer (not in the code)                     *)

ringVars == <<bufpos, lastput, dmaspace, ahead>>

Smaller(m, n) == IF m < n THEN m ELSE n
Usable(room) == IF room > Protected THEN room - Protected ELSE 0
WrappedAfterEnd(n) == IF n > DmaSize THEN n - DmaSize ELSE IF n < 0 THEN n + DmaSize ELSE n
Wrapped(n) == IF n >= DmaSize THEN n - DmaSize ELSE IF n < 0 THEN n + DmaSize ELSE n

RingTypeOK ==
  /\ bufpos \in 0 .. DmaSize - 1
  /\ lastput \in 0 .. DmaSize - 1
  /\ dmaspace \in 0 .. DmaSize
  /\ ahead \in -MaxLate .. DmaSize - Sign

(* The buffer starts half full, of silence (MDma_init_pcmoutbuf). *)
RingInit ==
  /\ bufpos = 0
  /\ lastput = DmaSize \div 2
  /\ dmaspace = DmaSize - lastput
  /\ ahead = lastput

---------------------------------------------------------------------------
CardPlays ==
  /\ ahead > -MaxLate /\ ahead' = ahead - 1
  /\ bufpos' = Wrapped(bufpos + 1)
  /\ UNCHANGED <<lastput, dmaspace>>

(* AU_cardbuf_space: the room between the write cursor and the card, whose *)
(* position is rounded down to a frame; cursors that meet mean an empty    *)
(* buffer.  A card that overtook the writer is taken for one that is about *)
(* to catch up with it.                                                    *)
RoomFrom(position) ==
  IF position > lastput THEN position - lastput ELSE DmaSize - lastput + position
RoomOfBytes == Smaller(RoomFrom(bufpos), DmaSize)
Room == Smaller(RoomFrom(RoundedDown(bufpos)), DmaSize)
AU_cardbuf_space ==
  /\ dmaspace' = Room
  /\ ahead' = IF ahead <= -Sign THEN ahead + DmaSize ELSE ahead
  /\ UNCHANGED <<bufpos, lastput>>

(* aucards_writedata_nowait: what does not fit is dropped. *)
PutblockUnprotected(outbytes) == Smaller(dmaspace, outbytes)
Putblock(outbytes) == IF Usable(dmaspace) >= Sign THEN Smaller(Usable(dmaspace), outbytes) ELSE 0
MDma_writedataFromStart(n) == lastput' = IF lastput + n >= DmaSize THEN 0 ELSE lastput + n
MDma_writedata(n) == lastput' = Wrapped(lastput + n)
AU_writedata(outbytes) ==
  LET n == Putblock(outbytes)
  IN /\ MDma_writedata(n)
     /\ dmaspace' = IF dmaspace > n THEN dmaspace - n ELSE 0
     /\ ahead' = ahead + n
     /\ UNCHANGED bufpos

(* AU_setrate, AU_prestart and AU_start when the rate changes: the card is *)
(* stopped, its buffer made new, and it plays from the start.  A change    *)
(* that lets the buffer be is taken for one that does not.                 *)
AU_setrateKeepingRoom ==
  /\ bufpos' = 0
  /\ lastput' = (DmaSize \div 2) - (lastput % Sign)
  /\ ahead' = lastput'
  /\ UNCHANGED dmaspace
AU_setrate ==
  /\ bufpos' = 0
  /\ lastput' = (DmaSize \div 2) - (lastput % Sign)
  /\ dmaspace' = DmaSize - lastput'
  /\ ahead' = lastput'

---------------------------------------------------------------------------
(* The cursors tell how far the writer is ahead of the card, whatever      *)
(* wrapped around in between (MDma_writedata).                             *)
CursorsAgree == lastput = Wrapped(bufpos + ahead)

(* Whatever part of a frame the card is in, the writer only ever stops at  *)
(* whole frames: else left and right would be swapped from then on.        *)
WholeFrames == lastput % Sign = 0 /\ dmaspace % Sign = 0

(* The room found at the last look is still there, however long ago that   *)
(* was and whether the card overtook the writer or not: the handler may    *)
(* have run in between.                                                    *)
RoomIsThere == dmaspace <= DmaSize - ahead

(* The program never covers a byte not yet played nor comes closer to the  *)
(* card from behind than the protection: the ring is a queue.              *)
Queue == INSTANCE PcmQueue WITH
  Size <- DmaSize, Capacity <- DmaSize - Protected, New <- DmaSize \div 2
NothingOverwritten == Queue!Spec
=============================================================================
