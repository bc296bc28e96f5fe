----------------------------- MODULE MCResident -----------------------------
(***************************************************************************)
(* Resident as it is by default, on machines with one or both servers: the *)
(* OPL3 and both modes asked for at the start.  A request gives one option *)
(* or two; HDPMI may refuse one trap of each kind.                         *)
(***************************************************************************)
EXTENDS Resident

AllMachines == [Servers -> BOOLEAN]
DefaultOptions == {o \in AllOptions : o.RM /\ o.PM /\ o.OPL}

(* One with both servers, started without the OPL3. *)
FullMachine == {[s \in Servers |-> TRUE]}
WithoutOpl == {o \in AllOptions : o.RM /\ o.PM /\ ~o.OPL}

OneOfEachKind == {"OPL", "MPU", "DMA1", "HDMA3", "PIC2", "SB"}

OneOrTwo ==
  UNION {{[k \in {a, b} |-> o[k]] : o \in AllOptions} : a, b \in {"RM", "PM", "OPL", "MPU", "ADDR"}}
=============================================================================
