--------------------------- MODULE CartridgeImport ---------------------------
(***************************************************************************)
(* icarus (or daedalus) imports image files into a library of cartridge    *)
(* folders, one file of a folder after the other, and describes a folder   *)
(* by concatenating its ROM files again.  The process may be killed        *)
(* between any two files; the folders stay, and are imported over later.   *)
(* Writes may fail: no importer looks at what write() and copy() return.   *)
(* What is in a file of a folder is the slice of the image it was cut from.*)
(***************************************************************************)
EXTENDS SuperFamicomCartridge, SequencesExt

CONSTANTS
  Program,      \* "icarus" or "daedalus"
  Sources,      \* the files the user may import
  MaxImports,   \* bounds: imports,
  MaxLost       \* writes that fail in one

(* A source is what is at a path: its suffix (of the first entry's name,   *)
(* for an archive), the prefix of its name, and what is in it: an image as *)
(* the heuristics see it, with a size.  `state' is what Icarus::import     *)
(* finds before it looks at the suffix.                                    *)
ImportAssumption ==
  /\ Program \in {"icarus", "daedalus"}
  /\ MaxImports \in Nat /\ MaxLost \in Nat
  /\ \A s \in Sources : /\ s.image.size \in Nat
                         /\ s.image.prg \in Byte /\ s.image.chr \in Byte

VARIABLES
  pc,        \* "idle", or where the import is: "save", "write"
  source,    \* the file being imported, or that was imported last
  board,     \* the ROM files still to write, in order
  offset,    \* where the next one begins
  missing,   \* missingFiles
  lost,      \* history: the ROM files whose write failed in this import
  reported,  \* the result of the last import: "none", "success", "failure"
  library,   \* the cartridge folders that exist
  imports

vars == <<pc, source, board, offset, missing, lost, reported, library, imports>>

-------------------------------------------------------------------------------
(* One cartridge folder type for each system.                              *)
System(folder, types, save) == [folder |-> folder, types |-> types, save |-> save]

famicom         == System("Famicom",          {".fc", ".nes"},         ".sav")
superFamicom    == System("Super Famicom",    {".sfc", ".smc"},        ".srm")
masterSystem    == System("Master System",    {".ms", ".sms"},         ".sav")
megaDrive       == System("Mega Drive",       {".md", ".smd", ".gen"}, ".sav")
pcEngine        == System("PC Engine",        {".pce"},                ".sav")
superGrafx      == System("SuperGrafx",       {".sg", ".sgx"},         ".sav")
gameBoy         == System("Game Boy",         {".gb"},                 ".sav")
gameBoyColor    == System("Game Boy Color",   {".gbc"},                ".sav")
gameBoyAdvance  == System("Game Boy Advance", {".gba"},                ".sav")
gameGear        == System("Game Gear",        {".gg"},                 ".sav")
wonderSwan      == System("WonderSwan",       {".ws"},                 ".sav")
wonderSwanColor == System("WonderSwan Color", {".wsc"},                ".sav")
bsMemory        == System("BS Memory",        {".bs"},                 "none")
sufamiTurbo     == System("Sufami Turbo",     {".st"},                 ".sav")

Systems ==
  {superFamicom, bsMemory, sufamiTurbo} \cup
    (IF Program = "icarus"
     THEN {famicom, masterSystem, megaDrive, pcEngine, superGrafx, gameBoy,
           gameBoyColor, gameBoyAdvance, gameGear, wonderSwan, wonderSwanColor}
     ELSE {})

Recognized(s) == \E sys \in Systems : s.type \in sys.types
SystemOf(s)   == CHOOSE sys \in Systems : s.type \in sys.types
Target(s)     == <<SystemOf(s).folder, s.name>>

(* What the heuristics take for an image of each system.                   *)
IsFamicom(img)     == img.size >= 16 /\ img.ines
IsMegaDrive(img)   == img.size >= \h200
IsWonderSwan(img)  == img.size >= \h10000
IsGameBoy(img)     == img.size >= \h4000
IsSufamiTurbo(img) == img.size >= \h20000 /\ img.start # "other"

(* The iNES header gives the sizes; nothing compares them with the file's. *)
FamicomRoms(img) ==
  <<Rom("ines.rom", 16), Rom("program.rom", img.prg * \h4000)>>
    \o (IF img.chr > 0 THEN <<Rom("character.rom", img.chr * \h2000)>> ELSE <<>>)

(* superFamicomManifestScan, from the root that it is given.               *)
Scanned(img) == IF Root(Program) = "board" THEN Markup(Program, img, FALSE) ELSE <<>>

Parsed(s) ==
  CASE SystemOf(s) = superFamicom -> Markup(Program, s.image, FALSE) # NoBoard
    [] SystemOf(s) = famicom -> IsFamicom(s.image)
    [] SystemOf(s) = megaDrive -> IsMegaDrive(s.image)
    [] SystemOf(s) \in {wonderSwan, wonderSwanColor} -> IsWonderSwan(s.image)
    [] SystemOf(s) \in {gameBoy, gameBoyColor} -> IsGameBoy(s.image)
    [] SystemOf(s) = sufamiTurbo -> IsSufamiTurbo(s.image)
    [] OTHER -> TRUE

Roms(s) ==
  CASE SystemOf(s) = superFamicom -> Scanned(s.image)
    [] SystemOf(s) = famicom -> FamicomRoms(s.image)
    [] OTHER -> <<Rom("program.rom", s.image.size)>>

FirstByte(s) == IF SystemOf(s) = superFamicom THEN CopierHeader(s.image) ELSE 0

-------------------------------------------------------------------------------
(* Folders.                                                                *)
Slice(s, from, size) == [of |-> s, from |-> from, to |-> from + size]
NewFolder == [save |-> "none", files |-> [name \in {} |-> 0]]

Put(files, name, slice) ==
  [n \in DOMAIN files \cup {name} |-> IF n = name THEN slice ELSE files[n]]

Init ==
  /\ pc = "idle"
  /\ source = CHOOSE s \in Sources : TRUE   \* none, yet
  /\ board = <<>> /\ offset = 0 /\ missing = {} /\ lost = {}
  /\ reported = "none"
  /\ library = [t \in {} |-> NewFolder]
  /\ imports = 0

Failure == /\ pc' = "idle" /\ reported' = "failure"
           /\ UNCHANGED <<board, offset, library>>

(* Icarus::import, to the creation of the folder; which may fail.          *)
Import(s) ==
  /\ pc = "idle" /\ imports < MaxImports
  /\ imports' = imports + 1
  /\ source' = s
  /\ missing' = {} /\ lost' = {}
  /\ \/ Failure
     \/ /\ s.state = "readable" /\ Recognized(s) /\ Parsed(s)
        /\ pc' = "save"
        /\ reported' = "none"
        /\ board' = Roms(s)
        /\ offset' = FirstByte(s)
        /\ library' = [t \in DOMAIN library \cup {Target(s)} |->
                         IF t \in DOMAIN library THEN library[t] ELSE NewFolder]

(* A save file beside the image is copied into a folder that has none, if  *)
(* the copy does not fail.                                                 *)
MutCopySave ==                          \* mutant: it replaces the one there
  /\ pc = "save"
  /\ pc' = "write"
  /\ library' = IF source.save THEN [library EXCEPT ![Target(source)].save = "copied"]
                               ELSE library
  /\ UNCHANGED <<source, board, offset, missing, lost, reported, imports>>
CopySave ==
  /\ pc = "save"
  /\ pc' = "write"
  /\ \/ /\ source.save /\ SystemOf(source).save # "none"
        /\ library[Target(source)].save = "none"
        /\ library' = [library EXCEPT ![Target(source)].save = "copied"]
     \/ UNCHANGED library
  /\ UNCHANGED <<source, board, offset, missing, lost, reported, imports>>

(* Only the Super Famicom's importer looks whether the image is that long. *)
MutTooShort(size) ==                    \* mutant: the copier header is not counted
  SystemOf(source) = superFamicom /\ size > source.image.size - (offset - FirstByte(source))
TooShort(size) ==
  SystemOf(source) = superFamicom /\ size > source.image.size - offset

PutRom(name, slice) ==
  library' = [library EXCEPT ![Target(source)].files = Put(@, name, slice)]

(* A write that fails leaves the file as it is, or cuts it short, here to  *)
(* nothing; and the import goes on behind it.                              *)
WriteRom ==
  /\ pc = "write" /\ board # <<>>
  /\ LET rom == Head(board) IN
     IF TooShort(rom.size)
     THEN /\ missing' = missing \cup {rom.name}
          /\ UNCHANGED <<offset, lost, library>>
     ELSE /\ \/ PutRom(rom.name, Slice(source, offset, rom.size)) /\ UNCHANGED lost
             \/ /\ Cardinality(lost) < MaxLost
                /\ lost' = lost \cup {rom.name}
                /\ PutRom(rom.name, Slice(source, 0, 0)) \/ UNCHANGED library
          /\ offset' = offset + rom.size
          /\ UNCHANGED missing
  /\ board' = Tail(board)
  /\ UNCHANGED <<pc, source, reported, imports>>

MutEnd ==                               \* mutant: what is missing is not reported
  /\ pc = "write" /\ board = <<>>
  /\ pc' = "idle" /\ reported' = "success"
  /\ UNCHANGED <<source, board, offset, missing, lost, library, imports>>
End ==
  /\ pc = "write" /\ board = <<>>
  /\ pc' = "idle"
  /\ reported' = IF missing = {} THEN "success" ELSE "failure"
  /\ UNCHANGED <<source, board, offset, missing, lost, library, imports>>

Kill ==
  /\ pc # "idle"
  /\ pc' = "idle" /\ reported' = "none"
  /\ board' = <<>> /\ missing' = {} /\ lost' = {}
  /\ UNCHANGED <<source, offset, library, imports>>

(* The emulator, which keeps the game's progress in the folder.            *)
Play(t) ==
  /\ t \in DOMAIN library /\ pc = "idle"
  /\ library[t].save # "played"
  /\ library' = [library EXCEPT ![t].save = "played"]
  /\ UNCHANGED <<pc, source, board, offset, missing, lost, reported, imports>>

Continue == \/ CopySave \/ WriteRom \/ End \/ Kill
            \/ \E t \in DOMAIN library : Play(t)

Next == (\E s \in Sources : Import(s)) \/ Continue

Spec == Init /\ [][Next]_vars

-------------------------------------------------------------------------------
(* Icarus::manifest: the names of ROM files in the order in which the code *)
(* asks for them (program.rom, data.rom, slot-*.rom, *.boot.rom,           *)
(* *.program.rom, *.data.rom), those of one glob as the directory lists    *)
(* them; and the ones that a folder has, in that order.                    *)
SuperFamicomFiles ==
  <<"program.rom", "data.rom", "slot-1.rom", "slot-2.rom", "slot-3.rom",
    "sgb1.boot.rom", "sgb2.boot.rom",
    "dsp1.program.rom", "dsp1b.program.rom", "dsp2.program.rom", "dsp3.program.rom",
    "dsp4.program.rom", "st010.program.rom", "st011.program.rom", "st018.program.rom",
    "cx4.data.rom", "dsp1.data.rom", "dsp1b.data.rom", "dsp2.data.rom", "dsp3.data.rom",
    "dsp4.data.rom", "st010.data.rom", "st011.data.rom", "st018.data.rom">>
FamicomFiles == <<"ines.rom", "program.rom", "character.rom">>

Order(folder) ==
  CASE folder = "Super Famicom" -> SuperFamicomFiles
    [] folder = "Famicom" -> FamicomFiles
    [] OTHER -> <<"program.rom">>

Among(order, names) ==
  LET taken[i \in 0..Len(order)] ==
        IF i = 0 THEN <<>>
        ELSE IF order[i] \in names THEN Append(taken[i - 1], order[i]) ELSE taken[i - 1]
  IN  taken[Len(order)]

MutConcatenated(t) ==                   \* mutant: data ROMs before program ROMs
  Among(Reverse(Order(t[1])), DOMAIN library[t].files)
Concatenated(t) == Among(Order(t[1]), DOMAIN library[t].files)

-------------------------------------------------------------------------------
States == {"idle", "save", "write"}
(* The files of a folder that the last import did not write.               *)
Strangers ==
  {n \in DOMAIN library[Target(source)].files :
     library[Target(source)].files[n].of # source}

Succeeded == pc = "idle" /\ reported = "success"

(* Longer or shorter than its iNES header says.                            *)
WellSized(s) ==
  SystemOf(s) = famicom => s.image.size = 16 + s.image.prg * \h4000 + s.image.chr * \h2000

(* What icarus has split it puts together again: after a reported success  *)
(* the ROM files of the folder, concatenated the way --manifest does, are  *)
(* the whole image without its copier header, so that the manifest made    *)
(* from the folder has the digest and the board of the image.  (Files that *)
(* an earlier image left in the folder break it, a write that failed, and a*)
(* Famicom image whose size is not the one in its header.)                 *)
ImportRoundTrip ==
  Succeeded /\ lost = {} /\ Strangers = {} /\ WellSized(source) =>
    LET t == Target(source)
        names == Concatenated(t)
        At(i) == library[t].files[names[i]]
    IN  /\ names # <<>>
        /\ At(1).from = FirstByte(source)
        /\ \A i \in 1..(Len(names) - 1) : At(i).to = At(i + 1).from
        /\ At(Len(names)).to = source.image.size

(* An import that ended has named every ROM file for which the image has   *)
(* no data, and reported the failure; every other one is in the folder, cut*)
(* from this image, unless its write failed, of which no report speaks.    *)
FailureNamesMissing ==
  pc = "idle" /\ (reported = "success" \/ missing # {}) =>
    /\ missing # {} => reported = "failure"
    /\ \A rom \in Range(Roms(source)) :
         LET files == library[Target(source)].files
         IN  \/ rom.name \in missing \cup lost
             \/ rom.name \in DOMAIN files /\ files[rom.name].of = source

(* No ROM file of a Super Famicom folder reaches beyond its image, also    *)
(* when the sizes of the board do not suit it (an SPC7110 image below      *)
(* 1 MB makes data.rom's size wrap around).                                *)
SlicesLieInImage ==
  \A t \in DOMAIN library : t[1] = "Super Famicom" =>
    \A n \in DOMAIN library[t].files :
      library[t].files[n].to <= library[t].files[n].of.image.size

(* The progress of a game that was played is never replaced by an import.  *)
SavesAreKept ==
  \A t \in DOMAIN library : library[t].save = "played" => library'[t].save = "played"
SaveIsKept == [][SavesAreKept]_vars

(* The message "Import completed successfully." (ui/import-dialog.cpp): an *)
(* imported game's program is in its folder, unless it could not be written*)
(* (core.hpp:14: the result of write() is the caller's, which drops it).   *)
ImportedGameIsThere ==
  Succeeded => "program.rom" \in DOMAIN library[Target(source)].files \cup lost
===============================================================================
