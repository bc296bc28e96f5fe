# A TLA+ model of SBEMU

SBEMU makes a PCI sound card look like a Sound Blaster to DOS programs. It traps
the I/O ports of the Sound Blaster, of the ISA DMA controllers, of the interrupt
controllers and of the OPL3, emulates those chips, and plays what the game ("the
client") asked for from the interrupt handler of the real card. This directory
holds TLA+ modules of the emulation, the TLC instances that check them, and proofs
that TLAPS checks. Line numbers refer to the files below `src/` of the repository.

## 1. Inventory

### 1.1 How the parts interact

```
  client program and client interrupt handler (DOS game)
      |  port accesses, each one trapped                   ^ INT
      v                                                    |
  qemm.c / hdpmipt.c  (port tables, routing) ------- virq.c, pic.c, irqguard.c
      |            |              |                        ^
      v            v              v                        | VIRQ_Invoke
  sbemu.c       vdma.c        opl3emu, MPU-401             |
  (DSP, mixer)  (DMA)             |                        |
      ^            ^              |                        |
      |  Get/SetPos, SetIndexCounter, ...                  |
      +----------- main.c: MAIN_Interrupt  (sound interrupt) 
                          |  samples
                          v
                   au_cards.c ring buffer -> PCI card, which interrupts
```

Everything runs on one processor. A trapped access is taken as one step: the servers that trap
the ports (HDPMI, JEMM, QEMM, all external) enter the callbacks as fault handlers, and no callback
of this code lets another one run. (The delay that gives the card time to interrupt, sbemu.c 502-507, is the
last thing a write does, so an interrupt during it comes after the step.) The sound interrupt comes between any two accesses of the
client, and from inside it the client's own interrupt handler runs and makes more
accesses before the sound interrupt goes on. All the shared state is therefore read
and written by three actors: client program, client handler, sound interrupt. Two more take part from outside:
the card, which plays at any time, and the handlers of other devices, which interrupt and are interrupted.

### 1.2 Components

| Component (source) | State | Operations | Hard behaviour | What makes it correct |
|---|---|---|---|---|
| Mixer (sbemu.c 20-215) | index, 256 registers | index/data port, reset values, IRQ/DMA selection, interrupt status | two layouts of each volume; the registers are shared by DSP, mixer and interrupt | sides of a pair stay independent; the configured line and channel are found again |
| DSP (sbemu.c 216-760) | reset handshake, pending command, parameter and reply index, transfer, rate, trigger, counters | about 50 command bytes, replies, acknowledgements, calls of the host | a byte is a command or a parameter depending on the history; high-speed mode ignores commands; the host stops transfers at any point | nothing is left half done for the next command; the DSP is never deaf for ever; a start rewinds; the rate follows the last programming |
| Virtual DMA (vdma.c) | 8 channels: registers, page, mode, address, index, counter, access flags; 2 flip-flops; mask of virtualized channels | register, page, mode, flip-flop and status ports; progress reports; DSP writes | 16-bit registers through 8-bit ports with the interrupt in between | no torn read or write, no lost progress, 16-bit wrap |
| Sound interrupt (main.c 1190-1480) | local variables of MAIN_Interrupt, kept while the client's handler runs | trigger, format, transfer loop, block end, detection, direct output, silence | values read before the handler runs and used after; three different rests limit a pass | no fetch beyond the buffer, interrupts at block ends only, positions in step, every block ends |
| Virtual interrupt controller (virq.c, pic.c) | line served, its in-service bits, last command, mask put aside | VIRQ_Invoke, PIC reads and writes | the client's writes must not reach the real controllers, other devices' must; EOI of the client; polled PIC state | it runs alone, everything put aside comes back, the client sees its own interrupt only |
| IRQ routing and guard (hdpmipt.c 318-403, irqguard.c) | routing of HDPMI, its copy, guard byte | read, disable, restore | what is restored is what was read; each call may be refused | routing is what it was, and off while the client's handler is called |
| Card ring buffer (au_cards.c 739-846, 1052-1253, dmairq.c) | write and play position, room at the last look | room, write, new buffer | full and empty look the same; the room is used long after it was computed; a late interrupt | nothing not yet played is covered, whole frames only |
| Memory windows (main.c 1267-1281, dpmi_dj2.c 38-61, 326-339) | the window kept, table of mappings | map, copy | the window outlives the buffer it was made for | a pass reads what the channel points to |
| Port traps (qemm.c, hdpmipt.c, untrapio.c) | lists of traps, pointers to their links, QEMM's old callback | install, uninstall, dispatch | failing installs, pointers that outlive their link | a failed start leaves nothing behind; nothing is removed twice; a refusal is noticed |
| Resident update (main.c 1433-1732) | options, installed traps, virtualized channels | re-configuration through the multiplex interrupt | old options say what to remove, new ones what to install | the traps match the options |
| Interrupt entry (main.c 1118-1188) | is it entered (`MAIN_InINT`, the wrapper's flag) | poll, EOI, old handler | shared interrupt lines; an interrupt that comes while it is entered | every interrupt is served or chained |
| OPL3 ports and timers (opl3emu.cpp) | timer registers, index latches | write, status | detection by timers | detection succeeds |
| MPU-401 (main.c 183-270, serial.c) | mode, pending acknowledgement | command, data, status | | a command is acknowledged once |
| Start-up and cleanup (main.c 596-1109) | options, what is present, what was installed | the traps one after the other, staying resident, giving up | a failure at any of them | all or nothing |
| Options and environment (main.c, utility.c) | options | parse, print | | constants of the model |
| ADPCM, resampling, OPL synthesis, heap, card drivers | sample data, hardware | | | not control of the emulation |

`PROJECT.json` lists the same components with what is modelled of each, and under
"hazards" the places, line by line, where this code can go wrong in a way a unit test
would hardly reach.

## 2. The modules

| Module | Models | Uses |
|---|---|---|
| `SbMixer` | the mixer chip; state and operators only | |
| `SbDsp` | the DSP with the mixer, any client, and a host that plays between any two accesses (`DspSpec`) | `SbMixer` |
| `MCSbDsp` | instances of `SbDsp` | `SbDsp` |
| `SbDspProofs` | the inductive invariant of `SbDsp`; the rate and the action properties from it | `SbDsp`, TLAPS |
| `Vdma` | the DMA controllers; state and operations | |
| `VdmaAccess` | `Vdma` with any client and a sound interrupt that reports progress (`AccessSpec`) | `Vdma` |
| `VdmaProofs` | lemmas: the digits of a register, what each operation of `Vdma` keeps | `Vdma`, TLAPS |
| `VdmaAccessProofs` | the inductive invariant of `VdmaAccess` | `VdmaAccess`, `VdmaProofs` |
| `SbIsr` | `MAIN_Interrupt` over the DSP and the DMA channels, with a client program and a client handler (`IsrSpec`) | `SbDsp`, `Vdma` |
| `MCSbIsr` | the clients of `SbIsr` | `SbIsr` |
| `SbIsrProofs` | the invariants of `SbIsr`; that it implements `DspSpec` | `SbIsr`, `SbDspProofs`, `VdmaProofs` |
| `Pic` | the two interrupt controllers and pic.c; operators only | |
| `ClientPic` | abstract: the controllers a client's handler expects | `Pic` |
| `VirtualIrq` | from the card's interrupt to the client's handler and back, among other devices' handlers (`Spec`); implements `ClientPic` | `Pic`, `ClientPic` |
| `MCVirtualIrq` | lines and devices for `VirtualIrq` | `VirtualIrq` |
| `VirtualIrqProofs` | the inductive invariant of `VirtualIrq`; the refinement of `ClientPic` | `VirtualIrq`, TLAPS |
| `VirqServiceProofs` | the lines in service of `VirtualIrq` | `VirtualIrqProofs` |
| `PcmQueue` | abstract: a bounded queue between the program and the card | |
| `AuRing` | the card's ring buffer; state and operations; implements `PcmQueue` | `PcmQueue` |
| `SoundPath` | `AuRing` with the sound interrupt that fills it through windows of the client's memory (`PathSpec`) | `AuRing` |
| `MCSoundPath` | client buffers for `SoundPath` | `SoundPath` |
| `SoundPathProofs` | the invariant of the ring, the refinement of the queue, the windows | `SoundPath`, TLAPS |
| `Resident` | start-up, cleanup and updates: the port traps (`ResidentSpec`) | |
| `MCResident` | machines, options and requests for `Resident` | `Resident` |
| `ResidentProofs` | the invariants of the start and of the updates | `Resident`, TLAPS |

### 2.1 State and actions against the code

*SbMixer.* `MixerRegs` and `MixerRegIndex` are `SBEMU_MixerRegs` and
`SBEMU_MixerRegIndex`. A byte is the set of the numbers of its 1 bits, because the
code uses these registers as bit fields. `MixerIdx` says which of the 256 registers an
instance keeps; the rest are storage nobody reads. `MixerWritten` is
`SBEMU_Mixer_Write` without its call of `SBEMU_UpdateTimeConstantSampleRate`, which
`Mixer_Write` in `SbDsp` adds. `GetHDMA` is a set: with no bit in the high nibble the
code executes BSF on 0 and reads a variable that was never set.

*SbDsp.* Variables are named for the globals (`SBEMU_DSPCMD` is `DSPCMD`; `SBEMU_Auto` is
`AutoMode`, a name the proof library leaves free; `SBEMU_TriggerIRQ` is `TriggerIRQ`).
`DSP_Write` is the function of that name: one disjunct per group of
commands for a byte that starts a command, one per group for a byte that is a parameter,
and `DroppedWrite` for a byte the code ignores. `Play` is the three calls
`SBEMU_SetPos`, `SBEMU_SetMixerIRQ`/`SBEMU_Stop` of one pass of the transfer loop up to
the client's handler. Not kept: the ADPCM predictor, sample bytes, the
test register's value, the identification answer, the alternating busy bit; none of them
decides what a later byte means. The length of the copyright text is a constant.

*Vdma.* `Channel[c]` is the record of what vdma.c keeps in a dozen arrays at index `c`;
each field is commented with its array. `Base` is the number of values of a byte, so that
an instance may have 16-bit registers with two digits of base 2. `SetIndexCounter` is
`VDMA_SetIndexCounter`. Accesses that the code passes on to the real controller change
no state here. The mask register is written and never consulted by the code, and is left out.

*SbIsr.* `isr` is the place `MAIN_Interrupt` is at. `Tick` is its beginning, `trigger` the client's handler for a
requested interrupt (main.c 1195-1200), `SetUp` the lines before the loop, `PlayPass` one pass of the loop up to
`VIRQ_Invoke`, `irq` the client's handler at a block end, `BlockDone` the lines after it. `HandlerStep` is one access
of the handler; `ProgramStep` one of the program, only between interrupts. The format variables `dma`, `samplesize`,
`channels`, `SB_Bytes` are the C locals with those names; `left` is `samples - pos`. The channel is looked up at every
interrupt with room for samples, with a transfer or without (`SetUpSilent`); before the first reset of the DSP there
is none, and `dma` is 255 then. The card plays at the client's rate, so one sample of the card is one of the client:
the resampling in the code (main.c 1286-1291) changes the number of samples, not the order of anything, and the
clients play PCM, so that the division of ADPCM (1294-1295) is left out as well: `Count` is the two lines between
them. Volumes and OPL mixing are left out. The scripts of program and handler hold accesses to the DSP and to the DMA
controllers and reads that acknowledge an interrupt; writes to the mixer's ports are in `SbDsp`'s runs only.

*Pic, VirtualIrq.* A register is the set of the lines whose bits are set. `stack` holds the handlers that run, each
with its line and the place it is at; an action is one step of the innermost, the program's (when there is none), or a
device raising its line. `EnterSound` is `MAIN_InterruptPM` up to `MAIN_Interrupt`, whose calls of `MAIN_InvokeIRQ`
are `InvokeIRQ` and `ClientReturns`, any number of times; `FinishSound` is its end. Another device's interrupt on the
card's line goes to the old handler (a `chain` frame): it may mask the line (`OldMasks`), ends the interrupt
(`OldEnds`; the frame is `late` from there) and returns (`CallOldISR`). If that device's handler allows interrupts
(`setup.sti` holds the card's line), the processor may take the card's next one, and the wrapper does not enter
`MAIN_InterruptPM` a second time (`EnterAgain`; main.c 1124-1137; in this build `MAIN_INSTALL_RM_ISR` and
`MAIN_ISR_CHAINED` are 0, main.c 42, 44): the interrupt stays in service, and `skipped`, a variable of the model's,
remembers it. Assumed of handlers that are not SBEMU's: each ends its interrupt once, with an end that names no line,
and returns. (An end that names one, 60h + n, `VIRQ_Write` would ignore; no client here sends it.) Each of HDPMI's
services for the routing may be refused for the lines in `setup.unsure`: reading it, taking it off and setting it
again (hdpmipt.c 366-380, 397-401). Nobody looks at the results (main.c 509, 515; the asserts are off in a release,
makefile 27). `refused`, again the model's, holds the lines for which the last attempt failed. A routing that was not
set again is read as none by the next virtual interrupt, and stays off for good. `VIRQ_Write` is the port handler, for
whoever writes. The server traps the controllers' ports in protected mode always, in real mode only while the client's
handler runs (`MAIN_TRAP_RMPIC_ONDEMAND`, in `Resident`); outside a virtual interrupt `VIRQ_Write` only remembers the
command and passes it on; what the difference changes is the mask of `VIRQ_Read`, an operator on the state that
`Shown` uses during a virtual interrupt. The card's line is taken to be level triggered, as a PCI card's is, and the
others edge triggered. A routed handler is its protected-mode address, set or not, and the two halves of the real-mode
one, because that is what the code gets wrong. What HDPMI, the processor, the 8259s, other devices and the client do
is marked external.

*AuRing, SoundPath.* `bufpos`, `lastput` and `dmaspace` are the fields of those names (`card_` and `card_dma` dropped);
`ahead` says how many bytes written are not played yet, negative when the card has overtaken the writer. One step of the card is
one byte. `Look` is `MAIN_Interrupt` up to its loop, `MapWindow` and `Copy` a pass, `HandlerReturns` the lines after the
client's handler, `Write` the end. `maps` lists the mappings the DPMI host granted; `Physical` says what
a linear address stands for. How many samples resampling makes of a pass is open (`frames`); the code sees to it that it is at
least one. `AU_setrate` has paths that keep the buffer when nothing changes (au_cards.c 739-846); such a call is taken for one that did not happen.

*Resident.* A trap is named for its ports. `links` are the links of a server's list by trap, with the base address
they were made for, `iopt` the traps whose `QEMM_IOPT` points to a link. The start is one action per group of traps,
in the order of the code, each of which may fail at any of its traps; the multiplex handler runs with interrupts off,
so that `Update` is one step: all traps go, those that are granted come back, and the new options are stored whatever
was granted (main.c 1724-1726). `Grants` says what a server may refuse. QEMM is asked for its callback by the first
link of an empty list only (qemm.c 181-224), so that it refuses the first trap and perhaps some after it, in the order
of `Turn`, but none after one it granted; HDPMI may refuse any of `Refusable`. The start looks at the results; an
update (main.c 1665-1711) and a virtual interrupt (main.c 501) do not, and `refused`, a variable of the model's, holds
what they missed. A later removal of such a trap goes through a pointer to a freed link or through none. `stale` tells
so, and the model stops there: from that point the program's behaviour is undefined. A refused install changes nothing
that is used again (it may free or allocate DOS memory for the next one). `callback` is the address QEMM calls, as the
two words ES and DI, and `old` are `QEMM_OldCallbackCS` and `QEMM_OldCallbackIP`: `Saved` stores them as qemm.c
189-190 do, and `Uninstall` hands them back as 290-291 do. A DPMI host that fails the call that hands them back
(qemm.c 294, not looked at) is left out.

Some operators are named for what they leave out: `PlayKeepsHighSpeed`,
`StartTransferNoRewind`, `SetIndexCounterTorn`, `InvokeIRQOpen`, `RoutingStaysOff`, `PutblockUnprotected` and so on. Each stands
just before the operator it is a faulty variant of and is used by no specification: it is the
bug that the property named beside it in `PROJECT.json` finds when it takes that operator's place.

## 3. What TLC checks

### 3.1 Runs that pass

| Run | Instance | Properties | Distinct states |
|---|---|---|---|
| `dsp_transfer` | SB Pro; 14 command bytes, stereo switch; blocks of 1 to 3 samples | `HighSpeedSafe`, `StartRewinds` | 1,219,320 |
| `dsp_protocol` | SB16; 15 bytes that are each other's parameters; copyright text of 2 bytes | `DspTypeOK`, `CommandPhase` | 74,688 |
| `dsp_rate` | SB16; time constant, rate, high-speed start; stereo switch and master volume; the rates the three bytes make | `HighSpeedRate`, `SidesIndependent` | 355,556 |
| `vdma` | one channel, registers 0..3 | `VdmaTypeOK`, `NoTornRead`, `NoTornWrite`, `ProgressShown` | 1,340,144 |
| `isr` | SB16, channels 1 and 5, seven clients | `IsrTypeOK`, `InStep`, `FetchInBuffer`, `BlockExact`, `PassAdvances`, `WellProgrammed`, `BlockEnds`, `TriggerServed` | 90,129 |
| `virq` | the card on line 11 and on line 6, each with two other devices, of higher and of lower priority, the higher allowing interrupts or, on line 6, the lower; on line 11 with a device that shares the line and allows interrupts, and one of lower priority; alone on line 11 with an HDPMI that may refuse the routing of line 5; one or two Sound Blaster lines, on either controller; two interrupts of others, any number of the card's | `VirtualIrqTypeOK`, `ServiceIsHandlers`, `ServedAlone`, `Restored`, `ClientReached`, `CardServed`, `ClientSeesItsLine` | 503,502 |
| `soundpath` | a ring of 4 frames of 2 bytes, one frame protected, a card up to 3 bytes late; 4 client buffers | `SoundPathTypeOK`, `CursorsAgree`, `WholeFrames`, `RoomIsThere`, `CopyReadsBuffer`, `NothingOverwritten`, `InterruptEnds` | 464,800 |
| `resident` | all machines; starts with the OPL3 and both modes asked for; updates of one or two options; QEMM may refuse its first trap, HDPMI one of each kind | `ResidentTypeOK`, `TrapsFollowOptions`, `NothingLeftBehind`, `RemovedOnce` | 23,744 |

* `HighSpeedSafe`: in high-speed mode the DSP drops every command byte (sbemu.c 230). The mode
  is on only while an 8-bit transfer plays and no command is pending, so that the end of the
  block or a reset ends it. The end of a transfer and of a detection, commands and resets in any
  order are tried against it.
* `StartRewinds`: halting and continuing keeps the position, everything else that starts a transfer goes
  to the beginning of its block.
* `CommandPhase`: indexes into a parameter list or a reply always belong to the pending command.
  The code has three indexes' worth of state for some fifty commands, with resets of the indexes
  scattered over the cases; the property is what those resets are for.
* `HighSpeedRate`: games program the time constant, the channels and the command in any order.
  Whatever the order, while a high-speed transfer plays the rate is the one the constant gives for
  the channels now selected. (Outside high-speed mode the limits of the width make it depend on
  the order, as the code wants.)
* `SidesIndependent`: a left volume never changes the right nibble of the 4:4 register, and vice versa.
* `NoTornRead`, `NoTornWrite`: the two bytes of a register the client reads or writes one after the
  other belong together, with any number of progress reports in between.
* `ProgressShown`: a report that came during an access is not lost; it shows when the access ends.
* `InStep`: the DSP's position in its block and the channel's position in its buffer agree modulo the
  shorter of the two, for clients that let one length be a multiple of the other.
* `FetchInBuffer`, `BlockExact`: a pass fetches nothing beyond the client's buffer and does not
  run over the end of a block, so its interrupt comes exactly then.
* `PassAdvances`: a pass plays at least one frame and no more than the card has room for, whatever the handler did since
  the room was read, so that the loop comes to its end.
* `WellProgrammed`: no access of the client, wherever in an interrupt it falls, leaves a transfer playing that is not
  in whole frames, inside its buffer, in step with the channel and of the format the interrupt has read. It is what the three
  properties before it need of a client, and what the theorems about them assume (section 4); it depends on the
  DSP as well, which must start a transfer at the beginning of its block for the two positions to agree.
* `BlockEnds` (liveness): a playing transfer reaches the end of its block or stops.
* `TriggerServed` (liveness): the interrupt a client asks for reaches its handler, with or without a transfer. (One asked for inside the handler
  of another is cleared with it, main.c 1197-1199, and would count as served; no client of the run asks so.)
* `ServiceIsHandlers`: what the real controllers have in service are the lines of the handlers that have not ended their interrupt;
  each end reaches the line it is meant for, once. Ends come from SBEMU (pic.c), the old handler, other devices,
  system management code, and from the client, whose ends must go nowhere. An interrupt that was skipped because `MAIN_InterruptPM` was entered is in
  service without a handler; from then on the property says nothing.
* `ServedAlone`: no handler runs on top of the client's during a virtual interrupt, since its port writes would stay with virq.c.
* `Restored`: outside a virtual interrupt the mask is the program's (but for the card's line while the device that shares it
  has it masked), the guard is off, and the routing of protected mode leads past the client, unless HDPMI refused to set it again.
* `ClientReached`: the handler called is that of the line shown (5 or 7), with the routing past it off, unless HDPMI refused that.
* `CardServed` (liveness): every interrupt of the card is acknowledged, whatever handlers it comes between and although
  its line is shared, but for the case main.c 1134-1137 documents: the handler of the device that shares it enables interrupts, one
  comes while it runs, "will never be processed" and blocks the line. The third setup reaches that case.
* `ClientSeesItsLine` (refinement of `ClientPic`): between the start and the end of its handler, the controllers a client finds
  have taken its line, cascade included, and nothing else; each end of interrupt removes what the real one would; a controller
  whose lines in service the handler selected shows them, and none shows another line, whatever was selected before the interrupt.
* `CursorsAgree`, `WholeFrames`, `RoomIsThere`, `NothingOverwritten` (refinement of `PcmQueue`): the ring is a
  queue of whole frames with the protection kept free, although the room is computed at the beginning of an
  interrupt and used at its end, and although the card may have overtaken the writer.
* `CopyReadsBuffer`: whatever windows were mapped before and whatever the client's handler programmed in between, a
  pass reads the bytes the channel points to.
* `InterruptEnds` (liveness): the loop over passes comes to its end even if each pass ends a block and
  each handler sets the channel up anew.
* `TrapsFollowOptions`: after any sequence of updates each port is trapped once if the options say so and it was not
  refused last, and not at all otherwise, at the address now in force.
* `NothingLeftBehind`: a start that fails anywhere ends with no trap and with no callback of SBEMU's in QEMM. Whether QEMM has its own
  again is the run `callback`'s question.
* `RemovedOnce`: a link is removed through a pointer to a freed one or to none only after a server refused a trap to an update
  or to a virtual interrupt, which did not look. (After such a refusal it does happen: that is hazard qemm.c 261.)

### 3.2 Bounds, and why they are enough

* Command bytes (`Writes`): every action of `DSP_Write` is reached by the union of the runs; within a
  group the code treats the bytes alike except for the flags the group's operator computes. In
  `dsp_protocol` each byte is also a parameter of the others, since confusion of the
  two is what is looked for.
* `MaxSamples` bounds the block size (the 16-bit register is full width in `isr`); `MaxFetch` bounds the bytes of one
  pass (200 in `isr`: the largest room, 50 frames of 4 bytes, so that no pass is cut by it). Blocks of 1 to 3 samples
  with passes of 1 or 2 bytes give a pass that ends before, at and after the end of the block. A transfer that goes on
  plays without bound otherwise, so the position is bounded by the block.
* `CopyrightLen` is 2 where the reply is read back byte by byte, 44 (the code's) in `isr`: first,
  middle and last byte are the cases the code tells apart.
* `MaxDirect` bounds the direct samples between two interrupts; in the code the buffer holds
  1024 and nothing stops a client at that point (see hazards). The host plays from 3 on, and 4 is enough to pass that.
* `DetectLimit` is 256 in the code; 1 to 3 here. The counter only counts up and is only compared with it.
* `Base = 2`: two digits are what tearing needs, and 4 values show every wrap. `MaxIndex` and
  `MaxBytes` bound the position and one report; three units with reports of up to two reach,
  pass and wrap a counter of any programmed value. One channel: the channels of
  a controller share only the flip-flop, and clearing or toggling it for another channel is a
  step the client of the run has too (`ClearFlipFlop`; an odd access).
* `Spaces = {0, 10, 25, 50}` against blocks of 36 or 40 and buffers of 36, 72 or 80 bytes: no room, part of a
  block, most of it, more than a block, so that every one of the three rests is the least one
  at some time. `DetectBytes` is the code's 32.
* The seven clients: double-buffered auto mode with a polling program; the same with a polling
  handler; a block longer than its buffer; single blocks started again by the handler; 16-bit
  stereo on channel 5; direct output and the identification byte; a block short enough to be taken for detection. They
  program the chips in the order real drivers do; a client that does nonsense is the business of the runs
  on single components, where any access comes in any order.

* `MaxRaises = 2` interrupts of other devices, of which there are two, one or none: handlers below and above the
  card's, three deep. The card interrupts without bound. `sb` holds 5 and 7, which a handler may be called for in
  protected mode, or 10 on the slave; `called` differs from it there, as the code has it ("else //7"). One line whose
  routing may be refused and one whose may not are enough, since the routing of a line is touched for that line only.
  The setups of `virq` have no handler of a lower priority and a lower number that allows interrupts: that case is the
  `nested` run.
* The ring of `soundpath`: 8 bytes of frames of 2, so that every position inside and between frames, every wrap and a full, an
  empty and an overtaken ring occur. `MaxLate = 3` is more than one frame and less than the ring: the code cannot tell
  a card that is late by a whole turn. `Page = 2`, `Window = 4`, `Megabyte = 10` keep the order of 4096 < 131072 < 1048576;
  the buffers lie at the start of a page, off it, beyond the megabyte, and at its boundary page, and one is longer than
  what is left of its window. `MaxMaps = 2` mappings, then the host refuses, as it may at any time.
* `resident` needs no bound but the lists', which stay at one link each, as `TrapsFollowOptions` says. The OPL3 is
  asked for at the start, as by default; otherwise see `resident_opl`. HDPMI's traps that may be refused (`Refusable`)
  are one of each kind, six of eleven: those of one kind are installed and removed side by side, by the same calls.
* What no client of `isr` does, by `WellProgrammed`: program another format in its handler (main.c 1260) or a size
  below the position (main.c 1293). Both are hazards without a property; the model has their consequences
  (`BlockDone`, `SbFrames`).

Only the `dsp_*` and `vdma` specifications allow every access at any time. `resident`, `resident_opl` and `callback`
disable the deadlock check because a start that failed is over, and a program that removed a link through a pointer to
none is past telling; no other run does.

### 3.3 Fairness

`DspSpec` and `AccessSpec` have none: their properties are safety. `IsrSpec` assumes
`WF(Interrupt)`: the card interrupts for ever, and a started handler, the client's included, runs on and
returns (MAIN_Interrupt waits for it; there is nothing else to run). It also assumes
`SF(SetUp /\ left' > 0)`: the card plays what it was given, so that, however often it has no room, it has
room again. Strong fairness is needed because a client that halts and continues disables the action between
interrupts. Nothing is assumed of the client's program, which may stop or
go on for ever.

`VirtualIrq` assumes that handlers come to their ends (weak fairness of `EndOther`, `ReturnOther`, `OldEnds`, `CallOldISR`, `ClientReturns`: nothing
else runs on top of them for ever) and that the loop of `MAIN_Interrupt` does (strong fairness of `FinishSound`, since each virtual
interrupt disables it for a while; `BlockEnds` and `InterruptEnds` are about that loop). The processor takes an interrupt
that is raised at one of the chances it has: strong fairness of `EnterSound` and `EnterOther`, since handlers, and programs
that mask lines, take chances away. `SoundPath` assumes that a sound interrupt once begun runs on (`WF(Interrupt)`);
neither that the card plays nor that it interrupts.

### 3.4 Runs that find a disagreement

Each checks one statement of the repository that the code does not keep.

| Run | Statement | What the code does |
|---|---|---|
| `nested` | "shared IRQ handled by other handlers(EOI sent) or new irq arrived after EOI but not for us" (main.c 1121) | with a handler of a lower number and a lower priority below it, the card's interrupt is taken for the other's (pic.c 71), and its line stays in service |
| `routing` | "restore routing" (main.c 515) | the real-mode address is shifted out before it is stored (hdpmipt.c 341), so that half of it is lost |
| `callback` | "restore old handler" (qemm.c 293) | ES is stored as the offset and DI as the segment (qemm.c 189-190), and handed back the other way round (290-291): QEMM calls another address than before |
| `resident_opl` | "Enable OPL3 emulation", "re-install all" (main.c 404, 1629) | the OPL3's traps are removed only if the start installed them (main.c 1633, 1644); enabled by an update they stay for ever |

Other disagreements and weaknesses the modules reproduce without a run of their own: the widths of ADPCM commands 0x7D
and 0x1F (sbemu.c 310), the rate under /FIXTC after the start command (sbemu.c 297), the access flag after a clear of
the flip-flop (vdma.c 43), the format after the client's handler (main.c 1349), IRQ 9, which main.c 399 documents and
722 accepts and `SBEMU_IRQMap` lacks (sbemu.c 199), the refusals an update ignores (main.c 1665-1711) and the use of a
freed link after them, and the interrupt that is skipped while a sharing driver runs (main.c 1134-1137, documented
there). All but the first are under "hazards" (the widths decide sample data only).

## 4. What is proved

Every invariant and every action property that a passing run checks, but `WellProgrammed`, which is a client's duty,
is also a theorem, and so are the three refinements: of `ClientPic`, of `PcmQueue`, and of `DspSpec` by `IsrSpec`. The
assumptions on constants are `MixerAssumption`, `DspAssumption`, `VdmaAssumption`, `AccessAssumption`,
`IsrAssumption`, `VirtualIrqAssumption`, `RingAssumption`, `PathAssumption` and the one of `Resident`: versions and
lines are numbers, DMA channels are 0..7, an instance keeps the registers the code reads, client bytes are bytes. No
bound is assumed beyond being a number, so the theorems hold for 16-bit sizes, 256-valued bytes, the 44-byte text and
a detection limit of 256. `PathAssumption` also says of the memory windows what the code's constants make true: the
megabyte is a number of pages and no smaller than a page or a window (4096, 128K and 1M), a buffer is no longer than
the megabyte (the DMA counter allows 128K), does not lie in page 0 (the interrupt vectors), does not cross from below
the megabyte to above it, where physical and linear addresses part, and does not begin so close below it that the
smallest window, 128K, would cross. The last is not what the code makes true: main.c 1269-1280 keep such a window
unmapped, and a later buffer above the megabyte that lies inside it would be read at the wrong place. Programs'
buffers lie in conventional memory, below 640K.

Five hypotheses stand in the theorems that need them, and not among the assumptions, because the code does not enforce them:

| Hypothesis | Says | Needed because |
|---|---|---|
| `NumbersArePriorities` (`VirqServiceProofs`) | no handler that allows interrupts has a lower priority and a lower number than the card | otherwise `ServiceIsHandlers` is false: the finding of `nested` |
| `DefaultStart` (`ResidentProofs`) | real mode and OPL3 are asked for at the start, as by default | otherwise `TrapsFollowOptions` is false: the finding of `resident_opl`; the OPL3's real-mode flag is not set either when the start does not ask for real mode, which an update can then enable |
| `ConfiguredChannels` (`SbIsr`) | /D is 0, 1 or 3 (checked, main.c 727); /H is 5, 6 or 7 on an SB16 (documented, main.c 402, not checked) and /D on others (main.c 753) | another /H has no bit in the mixer's register, and the channel is what an unset variable holds |
| `ResetsFirst` (`SbIsr`) | a client resets the DSP before anything else, as detection does | only a reset names the channels (sbemu.c 200); a transfer before it is on channel 0xFF |
| `FetchBound` (`SbIsr`) | `MaxFetch` is at least four times the largest room | `DspSpec` bounds the bytes of one pass by `MaxFetch`, the interrupt by the room |

The instances of the runs satisfy them: `MCSbIsr` has the last three as an assumption that TLC evaluates, and the setups of `virq` and the
options of `resident` are chosen by the first two.

*The DSP* (`SbDspProofs`). `IInv == DspTypeOK /\ CommandPhase /\ HighSpeedSafe` is inductive:

* `DspTypeOK` alone is not. `DSPCMD_Subindex` is incremented without a check by SET_SAMPLERATE, and stays
  at most 2 only because a command that has had two bytes is no longer pending, which `CommandPhase` says.
* `CommandPhase` needs the type, and is itself stronger than the code's comments suggest:
  a reply index may be left over only with the command it answers, and a parameter count of 1 only
  with a command of two bytes.
* `HighSpeedSafe` needs that the mode drops commands (`Command` and `Parameter` are disabled), and that the
  host's two ways to stop a transfer, the end of a block and the detection limit, clear the mode with it.

`InvCorrect` states the invariant; `TypeCorrect`, `PhaseCorrect` and `HighSpeedCorrect` are its
parts. There is one lemma per action, and `Keeps` says once that each part of the type speaks of one
group of variables, so that an action is asked only about the groups it changes.

*Steps of the DSP* (the end of `SbDspProofs`). `RateCorrect` proves `HighSpeedRate` by induction relative to
`IInv`: in high-speed mode only the stereo switch changes the channels (`SwitchKept`, `StatusApart`), and its
write recalculates the rate at 8 bits because `HighSpeedSafe` says that is the width. `StartsCorrect`
and `SidesCorrect` go through the actions once each.

*The DMA channels* (`VdmaProofs` and `VdmaAccessProofs`). `VInv` strengthens the four checked invariants:

* `HeldRead` and `HeldWrite` add to "not torn" that the channel is in access. That is what makes
  the interrupt put its update off; without it a report between the two bytes would break the property.
* `Shown` says that the registers of a channel nobody wrote to differ from the position only while an
  update waits, and `DelayedInAccess` that it waits only during an access; together
  they give `ProgressShown`. `ProgressShown` alone is not inductive: it says nothing of a channel in access, and
  the end of the access must restore it.
* The type is arithmetic in places of `Base`: `PlaceValue`, `Quotient` and `LowPlace` state what two digits of
  a base are, and the operators on a channel (`WithByteOK`, `AfterReadOK`, `MovedToOK`, `RefreshedOK`) rest on them.

*The sound interrupt over both* (`SbIsrProofs`). Three invariants, each for every set of clients, that is of scripts of any length and content:

* `IsrInv` needs nothing of the client but `ResetsFirst`. It puts `IInv`, the channels' type and that of the
  interrupt's variables together with `Assigned` (the mixer's register still holds the configured channels) or
  `Untouched` (no access happened yet, and the register names no channel). The type alone is not inductive: `dma` is
  looked up in that register, and is a channel only because no access, reset or status bit changes it
  (`WriteKeepsSetup`, `SetupKept`). That the rest of a pass is never 0 (`RoomLeft`) gives `PassAdvances`: each of the
  limits of `Count` is at least one frame although three of them are read again after the handler ran.
* `PlayingInv` adds, for clients that keep `WellProgrammed`, that what plays is `Programmed` at all times and, inside the loop, of the format
  read before it. The step to prove is the interrupt's: a pass moves the position in the block and the one in the buffer by the
  same bytes, each wraps at its own end, and the difference stays a multiple of the shorter length. It is a multiple only because
  one length divides the other (`Commensurate`); whole frames (`FrameAligned`) make a pass end exactly at whichever end
  comes first. `WholePass`, `PartOfPass`, `Divides` and `SumOfMultiples` are that arithmetic.
  `InStepHolds`, `FetchInBufferHolds` and `BlockExactHolds` follow. They say
  `IsrSpec /\ WellProgrammed => []...`: of a single-mode channel whose buffer ends before the
  block a pass takes at least one frame more (main.c 1292), which lies beyond the buffer.
* `LoopInv` adds to `IsrInv` that the loop runs while a transfer plays and within the bound. With it each step of `IsrNext` is a step of `DspNext` or
  leaves the DSP alone: `ImplementsDsp` is `IsrSpec => DspSpec`, with no mapping to choose since the variables are the same. What `DspSpec` leaves to
  a host that may play, stop or acknowledge at any time is thus no weaker than the interrupt handler there is, and
  `DspSafe` takes `HighSpeedSafe`, `CommandPhase`, `HighSpeedRate` and `StartRewinds` over.

*The virtual interrupt* (`VirtualIrqProofs`). `Inv` strengthens the type and `Restored` by five facts:

* `ClientOnTop`: a virtual interrupt is served exactly while the client's frame is the innermost, and no other frame is a
  client's. It is kept because with every line masked nothing is delivered (`NothingDelivered`), so that no frame comes on top.
* `PutAside`: during a virtual interrupt every line is masked, the mask put aside is the program's, and of the routing
  (`RoutePutAside`) either what is put aside has a protected-mode handler, or nothing will be set again and nothing
  was taken off; unless HDPMI refused. Without it `Restored` is not inductive: it says nothing of the time in between.
* `RoutesWhole`: the routing of a line has a protected-mode handler or is none at all, so that what is read back as none leaves nothing to restore.
* `OneSound`: the interrupt is not entered twice, so that none is for a sharing device and for the card at a time; what a sharing device masks
  is not there to be put aside.
* `CardUnmasked`: the program masks other devices' lines only, so that unmasking the card's after the old handler
  (`PIC_UnmaskIRQ`) gives the mask the program wants.

`ServedAlone`, `Restored` and `ClientReached` follow, for every set of lines, of devices, of handlers that allow interrupts and of refusals.
`ClientSeesItsLineHolds` is the refinement of `ClientPic`: with `Served` (virq.c has no line in service but those its own one takes)
each controller has at most one (`OneEach`), so that clearing its register is the real end of interrupt; a step outside a virtual
interrupt, or one that leaves virq.c alone, changes nothing the client sees (`QuietView`).

*The lines in service* (`VirqServiceProofs`). `ServiceInv` is `Inv` with three facts that need one another: only a
handler that allows interrupts is ever interrupted (`HandlersOwn`), by one of a higher priority (`Ordered`), and the
controllers have in service the lines of the interrupted handlers that did not end theirs (`Kept`) and, until it ends,
that of the innermost (`InServiceIs`). So the highest line in service is the innermost handler's, which is what an end
of interrupt that names no line clears; on the slave the cascade's line goes with the last. A `late` frame, whose
interrupt the old handler has ended, is no bar to any line, and is left out of `Ordered` and `Kept`.
`ServiceIsHandlers` alone is not inductive: it does not say in which order the handlers came. After an interrupt was
skipped its line is in service without a handler and the three facts are false; `skipped` stays true (`SkippedStays`),
so the invariant is `skipped \/ ServiceInv`.

*The ring* (`SoundPathProofs`). `RingInv` is the four invariants of the ring with the types of `samples` and `pos`. They need one
another: that the writer stops at whole frames needs a room in whole frames, that the room is still there needs the
cursors to agree, and the cursors agree after a wrap only because the room is no more than the ring. The arithmetic of
rounding to frames is in `RoundedDownFacts`, `MultipleIsWhole` and `WholeSum`. `NothingOverwrittenHolds` is the refinement: each
step of the path is a `Put`, `Play`, `Late` or `Renew` of the queue or changes nothing of it.

*The windows* (the end of `SoundPathProofs`). `PathInv` adds to `RingInv` the place of the client's channel in its
buffer (`ChannelInv`), the pass under way (`PassInv`) and what the window stands for (`WindowInv`): a window lies in
the first megabyte, where linear and physical addresses are the same, or is one of the mappings the host granted; and
when a pass copies, it covers the rest of the buffer the channel was set up for. `CopyReadsBuffer` alone is not
inductive, since it is about the moment of the copy and the window was made interrupts before.

*Start and updates* (`ResidentProofs`). `StartInv` says that a server's `QEMM_IOPT`s tell exactly which traps are
linked (`Linked`), that QEMM calls SBEMU exactly while it has one of its traps and what was saved is not SBEMU's
address (`Hooked`), and that the flags of the start tell which of them the start made (`StartMade`): so that the
clean-up, which goes by the flags, removes all of them. It holds for all options and all refusals, since the start
looks at each. `DefaultInv` adds `FlagsTell`, `StartNoticed`, `ServedTrapped` and `ResidentMade`: after a default
start the flags of the start stay true to what is present, and what is linked is what the options want, less what was
`refused` last. So an update removes every link there is before it installs anew, and what it removes beyond that is
what was refused: then, and only then, the step goes through a pointer to no link (`stale`), after which nothing is
claimed. That is what `TrapsFollowOptionsHolds` and `RemovedOnceHolds` say. Nothing is assumed of how often a server
refuses.

Only model-checked: the four liveness properties (`BlockEnds`, `TriggerServed`, `CardServed`, `InterruptEnds`), since fairness and ENABLED are
out of the prover's reach; `PassAdvances` is the part of `BlockEnds` that is safety. `WellProgrammed` is a property of clients, of which the seven
of `isr` keep it. The four properties of section 3.4 are false of the code. The modules have no recursive definitions.

## 5. What is not modelled

* Sample data: ADPCM decoding, mixing, volumes applied, resampling, OPL synthesis. No sample value
  decides a branch of the emulation.
* The card drivers (PCI, MPXPlay, Linux) and the heap: third-party code for hardware that the emulation sees only through the ring. They are
  the larger part of the repository's lines.
* DPMI and XMS calls but for the physical mappings: thin wrappers of the host's services.
* The handlers' dispatch in qemm.c and hdpmipt.c: a trapped access is one step. Untrapped I/O is the access itself.
* The real-mode interrupt entry, which this build does not install (`MAIN_INSTALL_RM_ISR`), and `PIC_Remap*`, which nothing calls.
* Of an update: the reset of the card, volumes, the move of the guard to another line. Of the ring: cards that report their room themselves, the
  underrun of the ICH driver, the writers that wait (SBEMU selects the one that does not).
* Printing and parsing of options: straight-line code whose results are the constants.
* The OPL3's timers and index registers and the MPU-401: see the plan.
* What out-of-bounds accesses read: of DMA channel 0xFF, which the interrupt looks up before the first reset (main.c
  1245-1246), only the look-up is modelled, and a transfer on it is excluded by `ResetsFirst`; more than 1024 direct
  samples (sbemu.c 459) are beyond `MaxDirect`.
* Which line `SBEMU_GetIRQ` gives: the line of a virtual interrupt is any of `setup.sb`. That /I9 gives none is a hazard without a property.

## 6. Plan

Done so far, in the order of importance: the DSP and the mixer, the DMA channels, the sound interrupt over both, the
virtual interrupt, the ring and the windows, start-up and updates, and the proofs of their safety properties. Left:

1. Mixer writes in the scripts of `SbIsr`'s clients: volumes keep every invariant of `IsrInv`, writes to 0x80 and 0x81 change the
   channel under a playing transfer.
2. The virtualized channels in `Resident`: an update of HDMA to another channel releases the old one even if
   it is the 8-bit channel too (main.c 1596).
3. `Opl3Timer`: timer registers and status, on which detection rests. `Mpu401`: mode, acknowledgement, UART.
4. An abstract Sound Blaster transfer (a client-visible sequence of blocks and interrupts) that `IsrSpec` with `WellProgrammed`
   implements under a refinement mapping; `PlayingInv` is the invariant it needs.
