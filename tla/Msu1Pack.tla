------------------------------- MODULE Msu1Pack -------------------------------
(***************************************************************************)
(* An MSU1 pack as Mercurial Magic sees it: the directory of a ZIP archive *)
(* (Decode::ZIP::file), the lookups by glob that the program makes in it,  *)
(* and the name that each entry is exported under.  Everything here is a   *)
(* constant-level operator; MercurialMagic.tla is the program itself.      *)
(***************************************************************************)
EXTENDS Integers, FiniteSets, SequencesExt

CONSTANTS
  Packs,         \* the archives that can be opened as a pack
  NoPack,        \* no archive opened / no patch cached
  Archive,       \* [Packs -> Seq(Entry)], the directory of each archive
  Stems,         \* the stems of the names in them
  OutputNames,   \* what the user may call an export; "" is one of them
  SlotStems,     \* stems of the names that "slot-*.rom" matches
  BootStems,     \* ... "*.boot.rom"
  ProgramStems,  \* ... "*.program.rom"
  DataStems      \* ... "*.data.rom"

(***************************************************************************)
(* A directory entry: the name without its suffix, the suffix, and the     *)
(* value of the first run of decimal digits of the name (0 if it has none).*)
(***************************************************************************)
TrackExts == {".pcm", ".wav", ".ogg", ".flac", ".mp3"}
Exts  == TrackExts \cup {".bps", ".rom", ".sfc", ".msu", ""}
Entry == [stem : Stems, ext : Exts, digits : Nat]

ASSUME PackAssumption ==
  /\ NoPack \notin Packs
  /\ "" \in OutputNames
  /\ Archive \in [Packs -> Seq(Entry)]

GamePak == "GamePak"
SD2SNES == "SD2SNES"
Methods == {GamePak, SD2SNES}

(* pack.file *)
Files(p) == IF p = NoPack THEN <<>> ELSE Archive[p]

(* Program::fetch: the index of the FIRST entry that matches, 0 for nothing. *)
Fetch(p, stems, ext) ==
  LET hits == {i \in DOMAIN Files(p) :
                 Files(p)[i].stem \in stems /\ Files(p)[i].ext = ext}
  IN  IF hits = {} THEN 0 ELSE CHOOSE i \in hits : \A j \in hits : i <= j

HasMsu1(p)  == Fetch(p, {"msu1"}, ".rom") # 0
HasROM(p)   == Fetch(p, {"program"}, ".rom") # 0
HasPatch(p) == Fetch(p, {"patch"}, ".bps") # 0

(* The globs of beginExport's `roms', in the order the images are merged.   *)
RomGlobs ==
  <<{"program"}, {"data"}, SlotStems, BootStems, ProgramStems, DataStems>>

(* What beginExport writes into the .sfc: one entry for each glob, if any.  *)
MergedROMs(p) == [g \in 1..6 |-> Fetch(p, RomGlobs[g], ".rom")]

-------------------------------------------------------------------------------
(* Names and places.  A file name is <<base, number, suffix>>.             *)
NoNumber == -1
NoName   == <<"", NoNumber, "">>
Name     == (Stems \cup OutputNames \cup {"track-", "program", "msu1"})
              \X Int \X Exts

ProgramRom  == <<"program", NoNumber, ".rom">>
Msu1Rom     == <<"msu1", NoNumber, ".rom">>
Sfc(out)    == <<out, NoNumber, ".sfc">>
Msu(out)    == <<out, NoNumber, ".msu">>

IsTrack(e)  == e.ext \in TrackExts
Converts(e) == e.ext \in TrackExts \ {".pcm"}

(* uint16_t trackID *)
TrackID(e) == e.digits % 65536

(* Program::setDestination; every pack lies in the same directory.          *)
Shared == <<"SD2SNES-Snes9x", "/">>
MutDestination(method, force, out) ==  \* mutant: the folder loses its suffix
  IF method = SD2SNES /\ ~force THEN Shared ELSE <<out, "/">>
Destination(method, force, out) ==
  IF method = SD2SNES /\ ~force THEN Shared ELSE <<out, ".sfc/">>

(* Where beginExport lets the patch write.                                  *)
MutROMName(method, force, out) ==      \* mutant: forgets the forced manifest
  IF method = GamePak THEN ProgramRom ELSE Sfc(out)
ROMName(method, force, out) ==
  IF method = GamePak \/ force THEN ProgramRom ELSE Sfc(out)

(* The name iterateExport gives an entry; NoName when it writes no file.    *)
MutExportName(e, method, force, out) == \* mutant: SD2SNES keeps other names
  IF IsTrack(e) THEN <<IF method = GamePak THEN "track-" ELSE out, TrackID(e), e.ext>>
  ELSE IF e.ext = ".bps" THEN NoName ELSE <<e.stem, NoNumber, e.ext>>
ExportName(e, method, force, out) ==
  CASE method = GamePak /\ IsTrack(e) -> <<"track-", TrackID(e), e.ext>>
    [] method = GamePak /\ ~IsTrack(e) /\ e.ext # ".bps" ->
         <<e.stem, NoNumber, e.ext>>
    [] method = SD2SNES /\ IsTrack(e) -> <<out, TrackID(e), e.ext>>
    [] method = SD2SNES /\ e.stem = "msu1" /\ e.ext = ".rom" ->
         IF force THEN Msu1Rom ELSE Msu(out)
    [] OTHER -> NoName

(* convert: {path, prefix, ".pcm"} *)
AsPcm(name) == <<name[1], name[2], ".pcm">>
===============================================================================
