----------------------- MODULE MercurialMagicProperties -----------------------
(***************************************************************************)
(* What Mercurial Magic promises, stated of MercurialMagic.tla.            *)
(***************************************************************************)
EXTENDS MercurialMagic

Steps == {"off", "iterate", "convert", "rename1", "rename2", "reset1",
          "reset2", "reset3", "reset4", "reset5", "dialog"}
Exporting(w) == worker[w].at \in {"iterate", "convert", "rename1", "rename2"}

AppType ==
  [packPath : PackPaths, romPath : RomPaths \cup {NoPath},
   outputName : OutputNames, exportMethod : Methods,
   createManifest : BOOLEAN, forceManifest : BOOLEAN, violateBPS : BOOLEAN,
   valid : BOOLEAN, pack : Packs \cup {NoPack}, mapped : BOOLEAN,
   patchContents : Packs \cup {NoPack}, noROMNeeded : BOOLEAN,
   basicEnabled : BOOLEAN, romEnabled : BOOLEAN, advancedEnabled : BOOLEAN,
   exportEnabled : BOOLEAN, zipIndex : Nat, trackIDs : SUBSET Nat,
   destination : Dirs]

WorkType == [at : Steps, failed : BOOLEAN, path : Path]

JobType ==
  [pack : Packs \cup {NoPack}, patch : Packs \cup {NoPack},
   exportMethod : Methods, createManifest : BOOLEAN, forceManifest : BOOLEAN,
   outputName : OutputNames, present : SUBSET Path]

(* The type invariant: in particular the program never leaves a path or a  *)
(* directory that its own naming rules (setDestination, iterateExport,     *)
(* convert, finishExport) do not produce.                                  *)
TypeOK ==
  /\ app \in AppType
  /\ worker \in [Workers -> WorkType]
  /\ guiDialog \in BOOLEAN
  /\ proc \in {"running", "exited", "crashed"}
  /\ DOMAIN disk \subseteq Path
  /\ \A path \in DOMAIN disk : disk[path] \in Content
  /\ manifest \in [Dirs -> Manifest]
  /\ romFile \in [RomPaths -> Images \cup {NoImage}]
  /\ exports \in 0..MaxExports
  /\ job \in JobType
  /\ overlapped \in BOOLEAN

-------------------------------------------------------------------------------
(* While an export copies, converts and renames, and until its own reset   *)
(* gets that far, no control that could change it is enabled, and there is *)
(* no second worker: unless Export was clicked between the end of reset's  *)
(* setEnabled(true) of the tabs and the end of the thread (overlapped).    *)
ControlsAreLocked ==
  ~overlapped =>
    \A w \in Workers : worker[w].at # "off" =>
      /\ \A v \in Workers \ {w} : worker[v].at = "off"
      /\ Exporting(w) \/ worker[w].at \in {"reset1", "reset2", "reset3"} =>
           ~app.basicEnabled /\ ~app.romEnabled /\ ~app.exportEnabled
      /\ worker[w].at \notin {"reset5", "dialog"} =>
           ~app.advancedEnabled

(* That window is the only way to a second worker: Export is first clicked *)
(* under a live worker only after reset() has enabled the basic tab.       *)
OverlapNeedsResetTail ==
  [][~overlapped /\ overlapped' =>
       \E w \in Workers : worker[w].at \in {"reset4", "reset5"}]_vars

Settings ==
  <<app.packPath, app.romPath, app.outputName, app.exportMethod,
    app.createManifest, app.forceManifest, app.violateBPS, app.pack,
    app.mapped, app.patchContents, app.destination>>

(* The worker reads the widgets and the options again for every entry; no  *)
(* step of the GUI thread changes them, or the opened pack, under it.      *)
SettingsAreFrozen ==
  [][~overlapped /\ (\E w \in Workers : Exporting(w)) /\ proc' = "running"
       => Settings' = Settings]_vars

(* An export writes only under its own output name: its own Game Pak       *)
(* folder, or its own files in the folder that all SD2SNES exports share.  *)
OnlyOwnFiles ==
  [][~overlapped =>
       \A path \in DOMAIN disk \cup DOMAIN disk' :
         At(disk, path) # At(disk', path) =>
           \/ path[1] = <<app.outputName, ".sfc/">>
           \/ path[1] = Shared /\ path[2][1] = app.outputName]_vars

-------------------------------------------------------------------------------
(* finishExport has just said "MSU1 pack exported!".                       *)
Delivered(w) == worker[w].at = "reset1" /\ ~worker[w].failed /\ ~overlapped

JobDir == Destination(job.exportMethod, job.forceManifest, job.outputName)
Forced == job.exportMethod = SD2SNES /\ job.forceManifest

(* The name that an export leaves an entry, and the game, under.           *)
FinalName(name) ==
  IF Forced /\ name = ProgramRom THEN Sfc(job.outputName)
  ELSE IF Forced /\ name = Msu1Rom THEN Msu(job.outputName)
  ELSE name

(* A rename that does not replace leaves the file under its first name if  *)
(* the other one was taken when Export was clicked.                        *)
Stays(name) == ~RenameReplaces /\ <<JobDir, FinalName(name)>> \in job.present
Final(name) == <<JobDir, IF Stays(name) THEN name ELSE FinalName(name)>>
NameOf(e) ==
  ExportName(e, job.exportMethod, job.forceManifest, job.outputName)
FinalOf(e) == Final(IF Converts(e) THEN AsPcm(NameOf(e)) ELSE NameOf(e))
FinalROM ==
  At(disk, Final(ROMName(job.exportMethod, job.forceManifest, job.outputName)))

(* No two entries are exported under one name.                             *)
WellFormed(p) ==
  \A i, j \in DOMAIN Files(p) :
    i # j /\ NameOf(Files(p)[i]) # NoName /\ NameOf(Files(p)[j]) # NoName =>
      FinalOf(Files(p)[i]) # FinalOf(Files(p)[j])

(* When an export reports success, every entry that has a name in the      *)
(* format is there, from this pack, tracks converted and their sources     *)
(* gone; also after an earlier export to that folder was cancelled half    *)
(* way, but for two cases.  A track that wav2msu could not convert passes  *)
(* if an older .pcm lay in its place when Export was clicked; and where    *)
(* rename does not replace (Windows), a forced manifest's data track is    *)
(* still called msu1.rom, next to the older one that has its name.         *)
ExportIsComplete ==
  \A w \in Workers : Delivered(w) /\ WellFormed(job.pack) =>
    \A i \in DOMAIN Files(job.pack) :
      LET e == Files(job.pack)[i] IN
      NameOf(e) # NoName =>
        IF Converts(e)
        THEN /\ \/ At(disk, FinalOf(e)) = <<"pcm", job.pack, i>>
                \/ FinalOf(e) \in job.present
             /\ ~Exists(disk, <<JobDir, NameOf(e)>>)
        ELSE At(disk, FinalOf(e)) = <<"entry", job.pack, i>>

(* A commercial pack (a patch, a data track and no ROM) exported within    *)
(* the BPS rules is the game that its own patch makes from the ROM it was  *)
(* made for, whatever became of the ROM file after it was checked and      *)
(* whichever packs were opened before.  (An archive without a data track,  *)
(* which validatePack refuses, can still be exported once a ROM suits the  *)
(* patch that is cached: then it is another game's.  Where rename does not *)
(* replace, the game of a forced manifest is still called program.rom when *)
(* an older image has its name.)                                           *)
StrictPatchIsExact ==
  \A w \in Workers :
    Delivered(w) /\ HasPatch(job.pack) /\ HasMsu1(job.pack)
                 /\ ~HasROM(job.pack) /\ ~app.violateBPS
      => FinalROM = <<"patched", job.pack>>

(* A manifest written by an export is made from the images that are in the *)
(* folder when it ends, the game among them unless the archive is one that *)
(* validatePack refuses (it can still be exported, once a ROM is chosen).  *)
(* If their header is a game's, it names the game and the data track, each *)
(* by the name that the two renames leave in the folder, and with a forced *)
(* manifest it lists the tracks of the pack.  (What it names beyond those, *)
(* the chips of the board, need not be in the folder.)                     *)
Written == Forced \/ (job.exportMethod = GamePak /\ job.createManifest)
BringsGame(p) == HasROM(p) \/ (HasMsu1(p) /\ HasPatch(p))

Mentions(name) ==
  /\ FinalName(name) \in manifest[JobDir].names
  /\ Exists(disk, <<JobDir, FinalName(name)>>)

ManifestMatchesFolder ==
  \A w \in Workers : Delivered(w) /\ Written =>
    LET m == manifest[JobDir] IN
      /\ \A image \in m.image : At(disk, Final(image[1])) = image[2]
      /\ BringsGame(job.pack) =>
           /\ \E image \in m.image : image[1] = ProgramRom
           /\ m.names # {} => Mentions(ProgramRom)
      /\ HasMsu1(job.pack) /\ m.names # {} => Mentions(Msu1Rom)
      /\ Forced => m.tracks =
                     {TrackID(e) : e \in {f \in ToSet(Files(job.pack)) : IsTrack(f)}}

(* Until the first export, Export is enabled without a ROM path only for   *)
(* an opened pack that brings its own ROM and a data track: `valid' then   *)
(* comes from validatePack, whatever was typed in between.                 *)
ExportNeedsPackOrROM ==
  exports = 0 /\ app.exportEnabled /\ app.romPath = NoPath =>
    HasMsu1(app.pack) /\ HasROM(app.pack)

(* Once an export runs, the window becomes usable again, unless the        *)
(* process ends.                                                           *)
ControlsComeBack ==
  (\E w \in Workers : Exporting(w)) ~>
    (proc # "running" \/ (Interactive /\ app.basicEnabled /\ app.advancedEnabled))

-------------------------------------------------------------------------------
(* What the README of the program says, and the code does not do.          *)

(* README.txt: "If patch.bps is present, the patch will be applied to a    *)
(* ROM, then the patched ROM will become "program.rom" in the Game Pak."   *)
PatchedROMIsProgramRom ==
  \A w \in Workers :
    Delivered(w) /\ job.exportMethod = GamePak /\ HasPatch(job.pack) =>
      \/ FinalROM = <<"patched", job.pack>>
      \/ FinalROM[1] = "forced"

-------------------------------------------------------------------------------
(* The threads, widgets and resets implement ExportJob.tla.                *)
Requests ==
  [pack : Packs, exportMethod : Methods, createManifest : BOOLEAN,
   forceManifest : BOOLEAN, violateBPS : BOOLEAN, outputName : OutputNames,
   destination : Dirs]
NoRequest == "none"

(* What the worker would read now, for its next entry.                     *)
Request ==
  [pack |-> app.pack, exportMethod |-> app.exportMethod,
   createManifest |-> app.createManifest, forceManifest |-> app.forceManifest,
   violateBPS |-> app.violateBPS, outputName |-> app.outputName,
   destination |-> app.destination]

Phase ==
  CASE proc # "running" -> "down"
    [] proc = "running" /\ overlapped -> "overlapped"
    [] proc = "running" /\ ~overlapped /\ guiDialog -> "failed"
    [] proc = "running" /\ ~overlapped /\ ~guiDialog ->
         IF \E w \in Workers : Exporting(w) THEN "running"
         ELSE IF \E w \in Workers : worker[w].failed THEN "failed"
         ELSE IF \E w \in Workers : worker[w].at # "off" THEN "delivered"
         ELSE "idle"

Job == INSTANCE ExportJob WITH
  Requests <- Requests, NoRequest <- NoRequest,
  Size    <- [r \in Requests |-> Len(Files(r.pack))],
  phase   <- Phase,
  request <- IF Phase = "running" THEN Request ELSE NoRequest,
  done    <- IF Phase = "running" THEN app.zipIndex ELSE 0

(* Whatever the user does meanwhile, an export is one job on the request   *)
(* that was clicked: all entries, in order, each once, and success only    *)
(* when all are copied; the one way out is a click in the tail of a reset. *)
ImplementsJob == Job!Spec

(* Under fair threads and a user who dismisses message boxes it also ends. *)
ImplementsFairJob == Job!FairSpec
===============================================================================
