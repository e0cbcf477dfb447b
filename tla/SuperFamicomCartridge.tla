------------------------ MODULE SuperFamicomCartridge ------------------------
(***************************************************************************)
(* The heuristics of icarus and daedalus for a Super Famicom image: where  *)
(* its header is, what board the header stands for, and the ROM files (the *)
(* nodes with a name ending in ".rom") that the generated manifest lists.  *)
(*                                                                         *)
(* An image is its size and what the code reads of its bytes: its start,   *)
(* and the header at each of the three places where one may be.  RAM nodes *)
(* and memory maps are left out: an import does not look at them.          *)
(***************************************************************************)
EXTENDS Integers, Sequences

Byte == 0..255
Titles == {"plain", "flash", "Satellaview BS-X", "Super GAMEBOY",
           "Super GAMEBOY2", "CC92", "PF94", "PREHISTORIK MAN"}

(* The opcode at the reset vector, by how the code rates it; "ram" stands  *)
(* for a vector below $8000.                                               *)
OpcodeScore == [likely |-> 8, plausible |-> 4, other |-> 0,
                implausible |-> -4, unlikely |-> -8]

Header ==
  [title : Titles,          \* with the checksum its comparison asks for
   mapper : Byte, romType : Byte, romSize : Byte, ramSize : Byte,
   region : Byte, company : Byte,
   checksum : BOOLEAN,      \* checksum and complement fit each other
   reset : DOMAIN OpcodeScore \cup {"ram"},
   extended : {"none", "marked", "zero"}]  \* Z..J before it, with zeros

Places == {"lo", "hi", "ex"}
Image ==
  [size : Nat,              \* with the copier header, if it has one
   start : {"other", "GameBoy", "SufamiTurbo", "SufamiTurboBIOS"},
   headers : [Places -> Header]]

(* skip copier header *)
CopierHeader(img) == IF img.size % \h8000 = 512 THEN 512 ELSE 0
Payload(img) == img.size - CopierHeader(img)

-------------------------------------------------------------------------------
(* findHeader and scoreHeader.                                             *)
Address == [lo |-> \h7fc0, hi |-> \hffc0, ex |-> \h40ffc0]

Points(b, n) == IF b THEN n ELSE 0
WithoutFastROM(mapper) ==
  IF (mapper \div 16) % 2 = 1 THEN mapper - 16 ELSE mapper
UsualMappers == [lo |-> {\h20, \h22}, hi |-> {\h21}, ex |-> {\h25}]

Score(img, place) ==
  LET h == img.headers[place]
      points == OpcodeScore[h.reset]
                + Points(h.checksum, 4)
                + Points(WithoutFastROM(h.mapper) \in UsualMappers[place], 2)
                + Points(h.company = \h33, 2)
                + Points(h.romType < 8, 1) + Points(h.romSize < 16, 1)
                + Points(h.ramSize < 8, 1) + Points(h.region < 14, 1)
  IN  IF Payload(img) < Address[place] + 64 \/ h.reset = "ram" \/ points < 0
      THEN 0 ELSE points

(* Images of more than 32 Mbit favour ExHiROM.                             *)
Rating(img, place) ==
  LET s == Score(img, place)
  IN  IF place = "ex" /\ s > 0 THEN s + 4 ELSE s

FindHeader(img) ==
  IF Rating(img, "lo") >= Rating(img, "hi") /\ Rating(img, "lo") >= Rating(img, "ex")
  THEN "lo"
  ELSE IF Rating(img, "hi") >= Rating(img, "ex") THEN "hi" ELSE "ex"

-------------------------------------------------------------------------------
(* readHeader.                                                             *)
IsFlash(h) ==
  /\ h.title = "flash"
  /\ h.mapper \in {\h00, \h80, \h84, \h9c, \hbc, \hfc}
  /\ h.company \in {\h33, \hff}

HasSatellaviewSlot(h) ==
  \/ h.extended # "none" /\ h.company = \h33
  \/ h.extended = "zero"

IsSuperFX(h) == h.mapper = \h20 /\ h.romType \in {\h13, \h14, \h15, \h1a}
IsSA1(h)     == h.mapper = \h23 /\ h.romType \in {\h32, \h34, \h35}

StandardType(place, h, size) ==
  CASE IsSuperFX(h) -> "SuperFX"
    [] IsSA1(h) -> "SA1"
    [] HasSatellaviewSlot(h) -> IF place = "lo" THEN "LoROMSatellaview"
                                                ELSE "HiROMSatellaview"
    [] place = "lo" /\ (size >= \h401000 \/ h.mapper = \h32) -> "ExLoROM"
    [] place = "hi" -> "HiROM"
    [] place = "ex" -> "ExHiROM"
    [] OTHER -> "LoROM"

(* The types that readHeader returns with at once, in its order.           *)
SpecialType(img, h) ==
  LET size == Payload(img) IN
  CASE img.start = "GameBoy" -> "GameBoy"
    [] img.start # "GameBoy" /\ IsFlash(h) -> "Satellaview"
    [] img.start = "SufamiTurbo" /\ ~IsFlash(h) -> "SufamiTurbo"
    [] img.start = "SufamiTurboBIOS" /\ ~IsFlash(h) -> "SufamiTurboBIOS"
    [] img.start = "other" /\ h.title = "Super GAMEBOY2" -> "SuperGameBoy2BIOS"
    [] img.start = "other" /\ h.title = "Super GAMEBOY" -> "SuperGameBoy1BIOS"
    [] img.start = "other" /\ h.title = "CC92" /\ size \in {\h1c0000, \h1c2000}
         -> "CampusChallenge92"
    [] img.start = "other" /\ h.title \in {"PF94", "PREHISTORIK MAN"}
         /\ size \in {\h240000, \h242000} -> "Powerfest94"
    [] img.start = "other" /\ HasSatellaviewSlot(h)
         /\ h.title = "Satellaview BS-X" -> "SatellaviewBIOS"
    [] OTHER -> "none"

(* The coprocessors that mapper and type name.                             *)
Coprocessors == {"DSP1", "DSP2", "DSP3", "DSP4", "ST010", "ST011", "ST018", "CX4", "SPC7110"}

HasChip(c, h) ==
  \/ c = "DSP1"  /\ h.mapper \in {\h20, \h21} /\ h.romType = \h03
  \/ c = "DSP1"  /\ h.mapper = \h30 /\ h.romType = \h05 /\ h.company # \hb2
  \/ c = "DSP1"  /\ h.mapper = \h31 /\ h.romType \in {\h03, \h05}
  \/ c = "DSP2"  /\ h.mapper = \h20 /\ h.romType = \h05
  \/ c = "DSP3"  /\ h.mapper = \h30 /\ h.romType = \h05 /\ h.company = \hb2
  \/ c = "DSP4"  /\ h.mapper = \h30 /\ h.romType = \h03
  \/ c = "ST010" /\ h.mapper = \h30 /\ h.romType = \hf6 /\ h.romSize >= 10
  \/ c = "ST011" /\ h.mapper = \h30 /\ h.romType = \hf6 /\ h.romSize < 10
  \/ c = "ST018" /\ h.mapper = \h30 /\ h.romType = \hf5
  \/ c = "CX4"   /\ h.mapper = \h20 /\ h.romType = \hf3
  \/ c = "SPC7110" /\ h.mapper = \h3a /\ h.romType \in {\hf5, \hf9}

(* The conditions exclude each other: no header has two of the chips.      *)
ChipOf(h) ==
  IF \E c \in Coprocessors : HasChip(c, h)
  THEN CHOOSE c \in Coprocessors : HasChip(c, h) ELSE "none"

ReadHeader(img) ==
  LET place == FindHeader(img)
      h == img.headers[place]
      special == SpecialType(img, h)
  IN  IF special # "none" THEN [type |-> special, chip |-> "none"]
      ELSE [type |-> StandardType(place, h, Payload(img)), chip |-> ChipOf(h)]

-------------------------------------------------------------------------------
(* The constructor.                                                        *)
Rom(name, size) == [name |-> name, size |-> size]
NecDsp(program, data) == <<Rom(program, \h1800), Rom(data, \h800)>>
Seta(program, data)   == <<Rom(program, \hc000), Rom(data, \h1000)>>

(* The ROM nodes of a chip's own, after the board's.                       *)
ChipRoms(c) ==
  CASE c = "DSP1"  -> NecDsp("dsp1b.program.rom", "dsp1b.data.rom")
    [] c = "DSP2"  -> NecDsp("dsp2.program.rom", "dsp2.data.rom")
    [] c = "DSP3"  -> NecDsp("dsp3.program.rom", "dsp3.data.rom")
    [] c = "DSP4"  -> NecDsp("dsp4.program.rom", "dsp4.data.rom")
    [] c = "ST010" -> Seta("st010.program.rom", "st010.data.rom")
    [] c = "ST011" -> Seta("st011.program.rom", "st011.data.rom")
    [] c = "ST018" -> <<Rom("st018.program.rom", \h20000), Rom("st018.data.rom", \h8000)>>
    [] OTHER -> <<>>

(* Firmware that is appended to an image shows in the rest of its size.    *)
Appended(c) ==
  CASE c \in {"DSP1", "DSP2", "DSP3", "DSP4"} -> [unit |-> \h8000, size |-> \h2000]
    [] c \in {"ST010", "ST011"} -> [unit |-> \h10000, size |-> \hd000]
    [] c = "ST018" -> [unit |-> \h40000, size |-> \h28000]
    [] c = "CX4" -> [unit |-> \h8000, size |-> \hc00]
    [] c \in {"SuperGameBoy1BIOS", "SuperGameBoy2BIOS"} -> [unit |-> \h8000, size |-> \h100]
    [] OTHER -> [unit |-> 1, size |-> 0]

FirmwareSize(img, cart) ==
  LET a == Appended(IF cart.chip = "none" THEN cart.type ELSE cart.chip)
  IN  IF Payload(img) % a.unit = a.size THEN a.size ELSE 0

(* uint: below zero it is 2^32 + n, for which a number stands that is also *)
(* above the size of any image and that TLC can count with.                *)
MutWrapped(n) == n                      \* mutant: the difference as a signed number
Wrapped(n) == IF n < 0 THEN \h7fffffff + n + 1 ELSE n

(* The competition cartridges, which hold their chip's firmware too.       *)
EventRoms(third) ==
  <<Rom("program.rom", \h40000), Rom("slot-1.rom", \h80000), Rom("slot-2.rom", \h80000),
    Rom("slot-3.rom", third)>> \o NecDsp("dsp1.program.rom", "dsp1.data.rom")

(* The boards that icarus and daedalus describe in the same way.           *)
CommonBoard(cart, size) ==
  LET rom == Rom("program.rom", size)
  IN  CASE cart.type = "SuperGameBoy1BIOS" -> <<rom, Rom("sgb1.boot.rom", \h100)>>
        [] cart.type = "SuperGameBoy2BIOS" -> <<rom, Rom("sgb2.boot.rom", \h100)>>
        [] cart.chip = "CX4" -> <<rom, Rom("cx4.data.rom", \hc00)>>
        [] cart.chip = "SPC7110" -> <<Rom("program.rom", \h100000),
                               Rom("data.rom", Wrapped(size - \h100000))>>
        [] OTHER -> <<rom>>

IsEvent(cart) == cart.type \in {"CampusChallenge92", "Powerfest94"}

IcarusBoard(img, cart) ==
  CASE cart.type = "CampusChallenge92" -> EventRoms(\h80000)
    [] cart.type = "Powerfest94" -> EventRoms(\h100000)
    [] OTHER -> CommonBoard(cart, Payload(img) - FirmwareSize(img, cart))

(* daedalus does not subtract the firmware, nor describe an event.         *)
DaedalusBoard(img, cart) ==
  CASE IsEvent(cart) -> <<>>
    [] cart.type = "SatellaviewBIOS" ->
         CommonBoard(cart, Payload(img)) \o CommonBoard(cart, Payload(img))
    [] OTHER -> CommonBoard(cart, Payload(img))

NoBoard == <<Rom("no markup", 0)>>

(* markup: the ROM nodes below its root, or nothing.                       *)
Markup(program, img, hasMSU1) ==
  LET cart == ReadHeader(img)
  IN  IF Payload(img) < \h8000 \/ cart.type \in {"GameBoy", "Satellaview", "SufamiTurbo"}
      THEN NoBoard
      ELSE (IF program = "icarus" THEN IcarusBoard(img, cart) ELSE DaedalusBoard(img, cart))
             \o ChipRoms(cart.chip)
             \o (IF hasMSU1 /\ (program = "icarus" => ~IsEvent(cart))
                 THEN <<Rom("msu1.rom", 0)>> ELSE <<>>)

(* The name of that root.                                                  *)
MutRoot(program) == "cartridge"         \* mutant: icarus has the root of daedalus
Root(program) == IF program = "icarus" THEN "board" ELSE "cartridge"
===============================================================================
