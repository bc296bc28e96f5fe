----------------------------- MODULE SoundPath -----------------------------
(***************************************************************************)
(* The way of the sound: from the client's DMA buffer to the card's ring   *)
(* buffer (MAIN_Interrupt of main.c, dpmi_dj2.c).  The sound interrupt     *)
(* looks for room, then copies in one pass after the other what the DMA    *)
(* channel points to, through a window of linear memory that it keeps from *)
(* one interrupt to the next, and writes it to the ring.  The card plays   *)
(* at any time; the client's handler runs between passes.                  *)
(*                                                                         *)
(* Addresses and lengths are in units of a part of a page.  Resampling     *)
(* makes of what a pass copies at least one frame of the card.  Assumed of *)
(* the client: no buffer of its spans the end of the first megabyte, nor   *)
(* begins so close below it that the smallest window from there would; the *)
(* code keeps such a window, unmapped, for buffers above the megabyte too. *)
(* The DSP's part of the interrupt is in SbIsr.                            *)
(***************************************************************************)
EXTENDS AuRing, Sequences

CONSTANTS
  Buffers,       (* the client's: [addr, size, auto]                          *)
  Page,          (* 4096                                                      *)
  Window,        (* the smallest window, 64*1024*2                            *)
  Megabyte,      (* 1024*1024                                                 *)
  Stretch,       (* bound: the frames one pass makes beyond what it needs     *)
  MaxMaps        (* bound: the mappings the DPMI host grants                  *)

PageOf(a) == a - (a % Page)
Align(n) == PageOf(n + Page - 1)

ASSUME PathAssumption ==
  /\ {Page, Window, Megabyte} \subseteq Nat \ {0} /\ Stretch \in Nat /\ MaxMaps \in Nat
  /\ Megabyte % Page = 0 /\ Page <= Megabyte /\ Window <= Megabyte
  /\ \A b \in Buffers :
       /\ b.addr \in Nat /\ b.size \in 1 .. Megabyte /\ b.auto \in BOOLEAN
       /\ b.addr >= Page
       /\ PageOf(b.addr) + Window <= Megabyte \/ b.addr >= Megabyte
       /\ b.addr + b.size <= Megabyte \/ b.addr >= Megabyte

Unmapped == 0

VARIABLES
  phase,         (* where the sound interrupt is; "idle" when it is not running *)
  samples, pos,  (* MAIN_Interrupt's samples and pos                          *)
  loc,           (* its DMA_Addr, DMA_Index and DMA_Count                     *)
  chan,          (* the same of the channel, and the buffer it was set up for *)
  maps,          (* the mappings the DPMI host granted: what each stands for  *)
  MAIN_DMA_Addr, MAIN_DMA_Size,
  MAIN_DMA_MappedAddr

windowVars == <<MAIN_DMA_Addr, MAIN_DMA_Size, MAIN_DMA_MappedAddr, maps>>
passVars   == <<samples, pos, loc, chan>>
pathVars   == <<ringVars, phase, passVars, windowVars>>

(* The host maps each window somewhere above the memory of all machines. *)
Linear(n) == (n + 1) * 1000 * Megabyte
Mapped(a) == {n \in DOMAIN maps : a \in Linear(n) .. Linear(n) + maps[n].size - 1}
Physical(a) ==
  IF a < Megabyte THEN {a} ELSE {maps[n].addr + (a - Linear(n)) : n \in Mapped(a)}

Programmed(b) == [addr |-> b.addr, index |-> 0, count |-> b.size, buffer |-> b]
Local(c) == [addr |-> c.addr, index |-> c.index, count |-> c.count]

SoundPathTypeOK ==
  /\ RingTypeOK
  /\ phase \in {"idle", "pass", "copy", "handler", "write"}
  /\ samples \in 0 .. (DmaSize \div Sign) + Stretch /\ pos \in 0 .. (DmaSize \div Sign) + Stretch
  /\ chan.buffer \in Buffers /\ chan.addr = chan.buffer.addr
  /\ chan.index \in Nat /\ chan.count \in Nat \ {0}
  /\ MAIN_DMA_Addr \in Nat /\ MAIN_DMA_Size \in Nat /\ MAIN_DMA_MappedAddr \in Nat

PathInit ==
  /\ RingInit
  /\ phase = "idle" /\ samples = 0 /\ pos = 0
  /\ chan \in {Programmed(b) : b \in Buffers} /\ loc = Local(chan)
  /\ MAIN_DMA_Addr = 0 /\ MAIN_DMA_Size = 0 /\ MAIN_DMA_MappedAddr = Unmapped
  /\ maps = <<>>

---------------------------------------------------------------------------
Plays == CardPlays /\ UNCHANGED <<phase, passVars, windowVars>>

SetRate ==
  /\ phase = "idle" /\ AU_setrate
  /\ UNCHANGED <<phase, passVars, windowVars>>

(* The client sets the channel up anew; while the interrupt runs only its  *)
(* handler can.                                                            *)
Reprogram ==
  /\ phase \in {"idle", "handler"}
  /\ chan' \in {Programmed(b) : b \in Buffers}
  /\ UNCHANGED <<ringVars, phase, samples, pos, loc, windowVars>>

(* The interrupt computes the room.  Without a transfer, which the client  *)
(* starts on a channel that it set up, it writes as much silence or        *)
(* synthesised sound, or direct sound, of which there may be less or more. *)
(* The client does not start one on a channel that ran out.                *)
Look ==
  /\ phase = "idle"
  /\ AU_cardbuf_space
  /\ LET room == Usable(dmaspace') \div Sign
     IN \/ room = 0 /\ UNCHANGED <<phase, samples, pos, loc>>
        \/ /\ room > 0 /\ chan.index + chan.count <= chan.buffer.size /\ phase' = "pass"
           /\ samples' = room /\ pos' = 0 /\ loc' = Local(chan)
        \/ /\ room > 0 /\ phase' = "write"
           /\ samples' \in 1 .. room + Stretch /\ pos' = samples' /\ UNCHANGED loc
  /\ UNCHANGED <<chan, windowVars>>

---------------------------------------------------------------------------
(* The window that is kept covers all that is left of the buffer. *)
End(l) == l.addr + l.index + l.count
Covers(l) ==
  /\ MAIN_DMA_MappedAddr # Unmapped
  /\ l.addr >= MAIN_DMA_Addr /\ End(l) <= MAIN_DMA_Addr + MAIN_DMA_Size

(* The host's mappings are never given back: the table that would record   *)
(* them is full from the first one on.  The host may refuse one.           *)
MapMemory(addr, size) ==
  \/ /\ Len(maps) < MaxMaps
     /\ maps' = Append(maps, [addr |-> addr, size |-> size])
     /\ MAIN_DMA_MappedAddr' = Linear(Len(maps'))
  \/ MAIN_DMA_MappedAddr' = Unmapped /\ UNCHANGED maps

WindowSize(l) ==
  LET used == l.addr - PageOf(l.addr) + l.index + l.count
  IN Align(IF used > Window THEN used ELSE Window)

MapWindow ==
  /\ phase = "pass" /\ phase' = "copy"
  /\ IF Covers(loc) THEN UNCHANGED windowVars
     ELSE /\ MAIN_DMA_Addr' = PageOf(loc.addr)
          /\ MAIN_DMA_Size' = WindowSize(loc)
          /\ IF End(loc) <= Megabyte
             THEN MAIN_DMA_MappedAddr' = PageOf(loc.addr) /\ UNCHANGED maps
             ELSE MapMemory(MAIN_DMA_Addr', MAIN_DMA_Size')
  /\ UNCHANGED <<ringVars, passVars>>

(* VDMA_SetIndexCounter: an auto-initialising channel starts over, another *)
(* one has its counter wrapped around.                                     *)
Advanced(bytes) ==
  IF bytes < loc.count
  THEN [chan EXCEPT !.index = loc.index + bytes, !.count = loc.count - bytes]
  ELSE IF chan.buffer.auto THEN Programmed(chan.buffer)
  ELSE [chan EXCEPT !.index = loc.index + bytes, !.count = 65536]

(* One pass copies, and ends the block or not: the handler comes, or the   *)
(* next pass if the channel goes on and there is room left.                *)
GoesOn == chan'.buffer.auto /\ pos' < samples

CopyRoundingDown ==
  /\ phase = "copy"
  /\ \E bytes \in 1 .. loc.count, frames \in 0 .. samples - pos + Stretch :
       pos' = pos + frames /\ chan' = Advanced(bytes)
  /\ loc' = Local(chan')
  /\ phase' \in {IF GoesOn THEN "pass" ELSE "write", "handler"}
  /\ UNCHANGED <<ringVars, samples, windowVars>>
Copy ==
  /\ phase = "copy"
  /\ \E bytes \in 1 .. loc.count, frames \in 1 .. samples - pos + Stretch :
       pos' = pos + frames /\ chan' = Advanced(bytes)
  /\ loc' = Local(chan')
  /\ phase' \in {IF GoesOn THEN "pass" ELSE "write", "handler"}
  /\ UNCHANGED <<ringVars, samples, windowVars>>

(* "incase IRQ handler re-programs DMA": all is read again, unless the     *)
(* block was that of a detection routine.                                  *)
HandlerReturnsSizeOnly ==
  /\ phase = "handler"
  /\ loc' = [loc EXCEPT !.count = chan.count, !.index = chan.index]
  /\ phase' \in {"write", IF chan.buffer.auto /\ pos < samples THEN "pass" ELSE "write"}
  /\ UNCHANGED <<ringVars, samples, pos, chan, windowVars>>
HandlerReturns ==
  /\ phase = "handler"
  /\ loc' = Local(chan)
  /\ phase' \in {"write", IF chan.buffer.auto /\ pos < samples THEN "pass" ELSE "write"}
  /\ UNCHANGED <<ringVars, samples, pos, chan, windowVars>>

(* Frames beyond the room computed are not written, but for direct sound. *)
Write ==
  /\ phase = "write" /\ phase' = "idle"
  /\ AU_writedata(Smaller(samples, pos) * Sign)
  /\ samples' = 0 /\ pos' = 0
  /\ UNCHANGED <<loc, chan, windowVars>>

Interrupt == MapWindow \/ Copy \/ HandlerReturns \/ Write
PathNext == Plays \/ SetRate \/ Reprogram \/ Look \/ Interrupt

(* The interrupt runs on once it has begun, and handlers return. *)
PathSpec == PathInit /\ [][PathNext]_pathVars /\ WF_pathVars(Interrupt)

---------------------------------------------------------------------------
(* Whatever windows earlier passes left behind and whatever the handler    *)
(* set up in the middle of an interrupt, a pass reads the very bytes the   *)
(* channel points to (MAIN_DMA_* and the re-reading in main.c).            *)
CopyReadsBuffer ==
  phase = "copy" /\ MAIN_DMA_MappedAddr # Unmapped =>
    \A k \in 0 .. chan.count - 1 :
      Physical(MAIN_DMA_MappedAddr + (loc.addr - MAIN_DMA_Addr) + loc.index + k)
        = {chan.addr + chan.index + k}

(* An interrupt comes to its end, however often its passes reach the end   *)
(* of a block or the handler sets the channel up anew in them.             *)
InterruptEnds == phase # "idle" ~> phase = "idle"
=============================================================================
