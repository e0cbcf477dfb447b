---------------------------- MODULE MercurialMagic ----------------------------
(***************************************************************************)
(* The Mercurial Magic window and the exports it runs.                     *)
(*                                                                         *)
(* Two kinds of threads share the Program object.  The GUI thread runs the *)
(* widgets' callbacks, each to its end: one action each.  Every export     *)
(* that begins creates a worker thread; it copies one entry of the pack at *)
(* a time, runs external tools, and then resets the window itself, one     *)
(* widget after the other, while the GUI thread goes on serving the user.  *)
(* The files outlive the process, which may be left at any time.           *)
(***************************************************************************)
EXTENDS Msu1Pack

CONSTANTS
  NoPath,        \* the empty path
  Missing,       \* paths of no file
  Truncated,     \* paths of files under 22 bytes: no archive is that short
  Prefix,        \* [PackPaths -> OutputNames], Location::prefix
  RomPaths,      \* files the user may choose as ROM
  Images,        \* what such a file can hold
  NoImage,       \* there is no such file
  PatchSource,   \* [Packs -> Images], the image whose CRC32 the patch names
  SourcePrefix,  \* images that begin with it: bpspatch::apply takes these
  LongEnough,    \* images no shorter than it
  HasIcarus, HasDaedalus,     \* the tools that answer at startup
  Boards,        \* the stems of the chips' files that a header's board names
  NoBoard,       \* the header of no Super Famicom game
  RenameReplaces, \* rename() replaces its target (POSIX) or fails (Windows)
  Workers,       \* threads that may be alive at a time
  MaxExports     \* bound: clicks on Export

PackPaths == Packs \cup {NoPath} \cup Missing \cup Truncated

ASSUME ProgramAssumption ==
  /\ NoPath \notin Packs \cup Missing \cup Truncated
  /\ Packs \cap (Missing \cup Truncated) = {} /\ Missing \cap Truncated = {}
  /\ NoPath \notin RomPaths
  /\ NoImage \notin Images
  /\ Prefix \in [PackPaths -> OutputNames]
  /\ PatchSource \in [Packs -> Images]
  /\ SourcePrefix \in [Packs -> SUBSET Images]
  /\ LongEnough \in [Packs -> SUBSET Images]
  /\ \A p \in Packs : PatchSource[p] \in SourcePrefix[p]
                      /\ SourcePrefix[p] \subseteq LongEnough[p]
  /\ HasIcarus \in BOOLEAN /\ HasDaedalus \in BOOLEAN
  /\ Boards \subseteq SUBSET Stems /\ NoBoard \notin Boards
  /\ RenameReplaces \in BOOLEAN
  /\ MaxExports \in Nat

VARIABLES
  app,        \* the Program object and its widgets
  worker,     \* the export threads
  guiDialog,  \* the GUI thread shows an error box
  proc,       \* "running", "exited" or "crashed"
  disk,       \* destination files: a function on the paths that exist
  manifest,   \* the manifest.bml of each destination directory
  romFile,    \* the ROM files
  exports,    \* clicks on Export so far
  job,        \* history: the export in progress, as it was when clicked
  overlapped  \* history: Export was clicked while a worker was alive

vars == <<app, worker, guiDialog, proc, disk, manifest, romFile,
          exports, job, overlapped>>

-------------------------------------------------------------------------------
(* Files.                                                                  *)
NoEntry == <<"none">>
Junk    == <<"junk">>            \* what a failed or wild patch leaves behind

EntryContent == {"entry"} \X Packs \X Nat
Content ==
  EntryContent                         \* an entry of a pack
    \cup ({"pcm"} \X Packs \X Nat)    \* what wav2msu makes of it
    \cup ({"merged"} \X Packs \X Seq(Nat)) \* ROM entries, concatenated
    \cup ({"patched"} \X Packs)        \* the game of that pack
    \cup ({"forced"} \X Packs \X Images) \* its patch on whatever image
    \cup {Junk}

Dirs == {Shared} \cup {<<out, ".sfc/">> : out \in OutputNames}
Path == Dirs \X Name

Exists(d, path) == path \in DOMAIN d
WriteFile(d, path, c) ==
  [q \in DOMAIN d \cup {path} |-> IF q = path THEN c ELSE d[q]]
RemoveFile(d, path) == [q \in DOMAIN d \ {path} |-> d[q]]
(* file::rename, whose result nobody looks at: it fails without a source,  *)
(* and on Windows onto a file that exists.                                 *)
Renames(d, from, to) ==
  Exists(d, from) /\ from # to /\ (RenameReplaces \/ ~Exists(d, to))
RenameFile(d, from, to) ==
  IF Renames(d, from, to) THEN RemoveFile(WriteFile(d, to, d[from]), from) ELSE d
(* What is at a path. *)
At(d, path) == IF Exists(d, path) THEN d[path] ELSE NoEntry

(* superFamicomManifest: the images that icarus and daedalus put together  *)
(* and hash, to find the header in them.                                   *)
ROMImages(d, dir) ==
  {path \in DOMAIN d : path[1] = dir /\ path[2][3] = ".rom" /\
     path[2][1] \in UNION {RomGlobs[g] : g \in DOMAIN RomGlobs}}

(* The files that the markup then names: the header's board decides which, *)
(* whether they are there or not, but for the data track.                  *)
BoardFiles(d, dir, board) ==
  IF board = NoBoard THEN {}
  ELSE {ProgramRom} \cup {<<chip, NoNumber, ".rom">> : chip \in board}
         \cup {name \in {Msu1Rom} : Exists(d, <<dir, name>>)}

(* No header without an image. *)
BoardsOf(d, dir) == {NoBoard} \cup (IF ROMImages(d, dir) = {} THEN {} ELSE Boards)

(* finishExport's `substitute', which looks for the names anywhere in the  *)
(* text: dsp1.program.rom becomes dsp1."Song.sfc", the name of no file.    *)
MutSubstituted(name, out) ==            \* mutant: forgets msu1.rom
  IF name = ProgramRom THEN Sfc(out)
  ELSE IF name[1] \in ProgramStems /\ name[3] = ".rom" THEN NoName ELSE name
Substituted(name, out) ==
  IF name = ProgramRom THEN Sfc(out)
  ELSE IF name = Msu1Rom THEN Msu(out)
  ELSE IF name[1] \in ProgramStems /\ name[3] = ".rom" THEN NoName
  ELSE name

NoManifest == [image |-> {}, names |-> {}, tracks |-> {}]
Described(d, dir, names, tracks) ==
  [image |-> {<<path[2], d[path]>> : path \in ROMImages(d, dir)},
   names |-> names, tracks |-> tracks]
Manifest ==
  [image : SUBSET (Name \X Content), names : SUBSET Name, tracks : SUBSET Nat]

-------------------------------------------------------------------------------
(* Validation.  These operators return the Program object as the method    *)
(* leaves it, and the method's result.                                     *)

(* A path that file::exists accepts.                                       *)
PackExists(s) == s.packPath \notin Missing \cup {NoPath}

(* pack.open: a file too short to be an archive unmaps the old one but     *)
(* keeps its directory.                                                    *)
Opened(s) ==
  IF s.packPath \in Packs
  THEN [s EXCEPT !.pack = s.packPath, !.mapped = TRUE]
  ELSE [s EXCEPT !.mapped = FALSE]

ROMExists(s) == s.romPath # NoPath /\ romFile[s.romPath] # NoImage
MismatchedROM(s) ==
  /\ HasPatch(s.pack)
  /\ ~s.violateBPS
  /\ romFile[s.romPath] # PatchSource[s.patchContents]

(* validateROMPatch; a mismatch shows a warning before it returns.         *)
MutROMPatchIsValid(s) ==                \* mutant: accepts a missing ROM
  ROMExists(s) => ~MismatchedROM(s)
ROMPatchIsValid(s) == ROMExists(s) /\ ~MismatchedROM(s)

(* It indexes patchContents even when no patch was ever extracted.         *)
ROMPatchFaults(s) ==
  ROMExists(s) /\ HasPatch(s.pack) /\ ~s.violateBPS /\ s.patchContents = NoPack

(* validatePack, up to the test of the ROM.                                *)
Accepts(s) == /\ PackExists(s)
              /\ HasMsu1(Opened(s).pack)
              /\ HasROM(Opened(s).pack) \/ HasPatch(Opened(s).pack)

(* The patch of an opened pack is cached. *)
MutExtracted(s) ==                      \* mutant: keeps the first patch
  IF HasMsu1(s.pack) /\ HasPatch(s.pack) /\ s.patchContents = NoPack
  THEN [s EXCEPT !.patchContents = s.pack] ELSE s
Extracted(s) ==
  IF HasMsu1(s.pack) /\ HasPatch(s.pack)
  THEN [s EXCEPT !.patchContents = s.pack] ELSE s

ValidatePack(s) ==
  LET q == Extracted(Opened(s))
  IN  IF ~PackExists(s) THEN s
      ELSE IF ~Accepts(s) THEN q
      ELSE [q EXCEPT !.noROMNeeded = ~HasPatch(q.pack),
                     !.romEnabled  = HasPatch(q.pack),
                     !.romPath     = IF HasROM(q.pack) THEN NoPath ELSE @]

PackIsValid(s) ==
  Accepts(s) /\ (HasROM(Opened(s).pack) \/ ROMPatchIsValid(ValidatePack(s)))

(* It extracts the patch through a mapping that pack.open may have closed. *)
PackFaults(s) ==
  PackExists(s) /\ ~Opened(s).mapped /\ HasMsu1(s.pack) /\ HasPatch(s.pack)

(* The last two lines of the callbacks that revalidate.                    *)
Revalidated(s, ok) ==
  [s EXCEPT !.valid = ok, !.exportEnabled = ok /\ s.outputName # ""]

-------------------------------------------------------------------------------
(* Program::setEnabled(false), and reset() one call after the other.       *)
MutDisabledTabs(s) ==                   \* mutant: Export stays enabled
  [s EXCEPT !.basicEnabled = FALSE, !.romEnabled = FALSE,
            !.advancedEnabled = FALSE]
MutDisabledBasic(s) ==                  \* mutant: the advanced tab stays enabled
  [s EXCEPT !.basicEnabled = FALSE, !.romEnabled = FALSE, !.exportEnabled = FALSE]
Disabled(s) ==
  [s EXCEPT !.basicEnabled = FALSE, !.romEnabled = FALSE,
            !.advancedEnabled = FALSE, !.exportEnabled = FALSE]

ClosePack(s)  == [s EXCEPT !.pack = NoPack, !.mapped = FALSE]
ClearTexts(s) == [s EXCEPT !.packPath = NoPath, !.romPath = NoPath,
                           !.outputName = "", !.trackIDs = {}]
EnableBasic(s)    == [s EXCEPT !.basicEnabled = TRUE, !.romEnabled = TRUE]
MutEnableAdvanced(s) == s               \* mutant: the advanced tab stays disabled
EnableAdvanced(s) == [s EXCEPT !.advancedEnabled = TRUE]
EnableExport(s)   == [ValidatePack(s) EXCEPT !.exportEnabled = PackIsValid(s)]

Reset(s) ==
  EnableExport(EnableAdvanced(EnableBasic(ClearTexts(ClosePack(s)))))

(* The constructor; p and r are the command line's arguments.              *)
Fresh ==
  [packPath |-> NoPath, romPath |-> NoPath, outputName |-> "",
   exportMethod |-> GamePak, createManifest |-> HasDaedalus /\ ~HasIcarus,
   forceManifest |-> FALSE, violateBPS |-> FALSE, valid |-> FALSE,
   pack |-> NoPack, mapped |-> FALSE, patchContents |-> NoPack,
   noROMNeeded |-> FALSE, basicEnabled |-> TRUE, romEnabled |-> TRUE,
   advancedEnabled |-> TRUE, exportEnabled |-> FALSE,
   zipIndex |-> 0, trackIDs |-> {}, destination |-> Shared]

WithPack(p) ==
  LET s == [Fresh EXCEPT !.packPath = p]
  IN  [ValidatePack(s) EXCEPT !.valid = PackIsValid(s)]

WithROM(s, r) ==
  IF r # NoPath /\ HasPatch(s.pack) THEN [s EXCEPT !.romPath = r] ELSE s

StartFaults(p, r) == ROMPatchFaults(WithROM(WithPack(p), r))

Started(p, r) ==
  LET s == WithROM(WithPack(p), r)
      ok == IF r # NoPath /\ HasPatch(s.pack) THEN ROMPatchIsValid(s)
                                              ELSE s.valid
  IN  IF StartFaults(p, r) THEN Fresh
      ELSE [s EXCEPT !.valid = ok, !.exportEnabled = ok]

(* The process ends, its threads and its memory with it.                   *)
NoWork == [at |-> "off", failed |-> FALSE, path |-> <<Shared, NoName>>]
NoJob  == [pack |-> NoPack, patch |-> NoPack, exportMethod |-> GamePak,
           createManifest |-> FALSE, forceManifest |-> FALSE,
           outputName |-> "", present |-> {}]

Ends(how) ==
  /\ proc' = how
  /\ app' = Fresh
  /\ worker' = [w \in Workers |-> NoWork]
  /\ guiDialog' = FALSE
Crash == Ends("crashed")

Start(p, r) ==
  /\ p = NoPath => r = NoPath
  /\ app = Started(p, r)
  /\ proc = IF StartFaults(p, r) THEN "crashed" ELSE "running"

Init ==
  /\ romFile \in [RomPaths -> Images \cup {NoImage}]
  /\ \E p \in PackPaths, r \in RomPaths \cup {NoPath} : Start(p, r)
  /\ worker = [w \in Workers |-> NoWork]
  /\ guiDialog = FALSE
  /\ disk = [path \in {} |-> Junk]
  /\ manifest = [dir \in Dirs |-> NoManifest]
  /\ exports = 0
  /\ job = NoJob
  /\ overlapped = FALSE

-------------------------------------------------------------------------------
(* The GUI thread.  While a message box is up it takes all input.          *)
Interactive ==
  /\ proc = "running"
  /\ ~guiDialog
  /\ \A w \in Workers : worker[w].at # "dialog"

files   == <<disk, manifest, romFile>>
history == <<exports, job, overlapped>>

(* A callback that leaves the Program object as s, unless it faults.       *)
Callback(faults, s) ==
  /\ IF faults THEN Crash
               ELSE app' = s /\ UNCHANGED <<worker, guiDialog, proc>>
  /\ UNCHANGED <<files, history>>

(* packPath.onChange: typing, or the browse dialog ("" when cancelled).    *)
ChangePackPath(p) ==
  /\ Interactive /\ app.basicEnabled
  /\ LET s == [app EXCEPT !.packPath = p, !.outputName = Prefix[p]]
     IN  Callback(PackFaults(s), Revalidated(ValidatePack(s), PackIsValid(s)))

ChangeRomPath(r) ==
  /\ Interactive /\ app.romEnabled
  /\ LET s == [app EXCEPT !.romPath = r]
     IN  Callback(ROMPatchFaults(s), Revalidated(s, ROMPatchIsValid(s)))

ChangeOutputName(out) ==
  /\ Interactive /\ app.basicEnabled
  /\ Callback(FALSE, Revalidated([app EXCEPT !.outputName = out], app.valid))

ChooseMethod(m) ==
  /\ Interactive /\ app.basicEnabled
  /\ Callback(FALSE, [app EXCEPT !.exportMethod = m])

ToggleCreateManifest ==
  /\ Interactive /\ app.basicEnabled /\ app.exportMethod = GamePak
  /\ HasIcarus \/ HasDaedalus
  /\ Callback(FALSE, [app EXCEPT !.createManifest = ~@])

ToggleForceManifest ==
  /\ Interactive /\ app.advancedEnabled /\ HasIcarus /\ HasDaedalus
  /\ Callback(FALSE, [app EXCEPT !.forceManifest = ~@])

ToggleViolateBPS ==
  /\ Interactive /\ app.advancedEnabled
  /\ LET s == [app EXCEPT !.violateBPS = ~@]
     IN  Callback(ROMPatchFaults(s), Revalidated(s, ROMPatchIsValid(s)))

-------------------------------------------------------------------------------
(* Export.                                                                 *)
(* setProgress divides by the number of entries; the ROM entries are read  *)
(* through the mapping.                                                    *)
BeginFaults(s) ==
  \/ Files(s.pack) = <<>>
  \/ s.exportMethod = SD2SNES /\ ~s.mapped /\ \E g \in 1..6 : MergedROMs(s.pack)[g] # 0

ROMTarget(s) ==
  <<s.destination, ROMName(s.exportMethod, s.forceManifest, s.outputName)>>

(* The .sfc as merged from the pack, before any patch.                     *)
MergedFiles(s) ==
  IF s.exportMethod = SD2SNES
  THEN WriteFile(disk, ROMTarget(s), <<"merged", s.pack, MergedROMs(s.pack)>>)
  ELSE disk

Outcome(result, content) == [result |-> result, content |-> content]

(* modify, source, target and apply.  When source() finds no file, apply   *)
(* runs on uninitialised pointers and sizes.                               *)
MutPatchOutcomes(s) ==                  \* mutant: no source checksum
  LET p == s.patchContents
      image == romFile[s.romPath]
  IN  IF image \in SourcePrefix[p] THEN {Outcome("success", <<"patched", p>>)}
      ELSE IF image \in LongEnough[p]
      THEN {Outcome("success", <<"forced", p, image>>)}
      ELSE {Outcome("error", Junk)}
PatchOutcomes(s) ==
  LET p == s.patchContents
      image == romFile[s.romPath]
  IN  IF ~ROMExists(s)
      THEN {Outcome("error", Junk), Outcome("crash", Junk)} \cup
             (IF s.violateBPS THEN {Outcome("success", Junk)} ELSE {})
      ELSE IF s.violateBPS /\ image \in LongEnough[p]
      THEN {Outcome("success", <<"forced", p, image>>)}
      ELSE IF ~s.violateBPS /\ image \in SourcePrefix[p]
      THEN {Outcome("success", <<"patched", p>>)}
      ELSE {Outcome("error", Junk)}

MutBegun(s) ==                          \* mutant: zipIndex is not reset
  [Disabled(s) EXCEPT
     !.destination = Destination(s.exportMethod, s.forceManifest, s.outputName)]
Begun(s) ==
  [Disabled(s) EXCEPT
     !.destination = Destination(s.exportMethod, s.forceManifest, s.outputName),
     !.zipIndex = 0]

JobOf(s) ==
  [pack |-> s.pack, patch |-> s.patchContents,
   exportMethod |-> s.exportMethod, createManifest |-> s.createManifest,
   forceManifest |-> s.forceManifest, outputName |-> s.outputName,
   present |-> DOMAIN disk]

(* exportButton.onActivate: setEnabled(false), beginExport and the thread  *)
(* it creates.                                                             *)
ClickExport(w) ==
  /\ Interactive /\ app.exportEnabled
  /\ worker[w].at = "off" /\ exports < MaxExports
  /\ exports' = exports + 1
  /\ job' = JobOf(app)
  /\ overlapped' = (overlapped \/ \E v \in Workers : worker[v].at # "off")
  /\ UNCHANGED <<manifest, romFile>>
  /\ LET s == Begun(app) IN
     \/ /\ BeginFaults(s)
        /\ disk' = IF Files(s.pack) = <<>> THEN disk
                   ELSE WriteFile(disk, ROMTarget(s), Junk)
        /\ Crash
     \/ /\ ~BeginFaults(s) /\ s.patchContents = NoPack
        /\ disk' = MergedFiles(s)
        /\ app' = s
        /\ worker' = [worker EXCEPT ![w] = [NoWork EXCEPT !.at = "iterate"]]
        /\ UNCHANGED <<guiDialog, proc>>
     \/ /\ ~BeginFaults(s) /\ s.patchContents # NoPack
        /\ \E o \in PatchOutcomes(s) :
             /\ disk' = WriteFile(MergedFiles(s), ROMTarget(s), o.content)
             /\ \/ /\ o.result = "success"
                   /\ app' = s
                   /\ worker' = [worker EXCEPT ![w] = [NoWork EXCEPT !.at = "iterate"]]
                   /\ UNCHANGED <<guiDialog, proc>>
                \/ /\ o.result = "error"
                   /\ app' = Reset(s)
                   /\ guiDialog' = TRUE
                   /\ UNCHANGED <<worker, proc>>
                \/ o.result = "crash" /\ Crash

DismissGuiDialog ==
  /\ proc = "running" /\ guiDialog
  /\ guiDialog' = FALSE
  /\ job' = NoJob
  /\ UNCHANGED <<app, worker, proc, files, exports, overlapped>>

-------------------------------------------------------------------------------
(* The worker thread.                                                      *)
Moved(w, at) == [worker EXCEPT ![w].at = at]

WorkerAt(w, at) == proc = "running" /\ worker[w].at = at

(* iterateExport up to convert(): one entry.                               *)
Iterate(w) ==
  /\ WorkerAt(w, "iterate")
  /\ app.zipIndex < Len(Files(app.pack))
  /\ LET i == app.zipIndex + 1
         e == Files(app.pack)[i]
         name == ExportName(e, app.exportMethod, app.forceManifest, app.outputName)
         path == <<app.destination, name>>
     IN  IF name # NoName /\ ~app.mapped
         THEN Crash /\ UNCHANGED disk
         ELSE /\ app' = [app EXCEPT !.zipIndex = i,
                           !.trackIDs = @ \cup (IF IsTrack(e) THEN {TrackID(e)} ELSE {})]
              /\ disk' = IF name = NoName THEN disk
                         ELSE WriteFile(disk, path, <<"entry", app.pack, i>>)
              /\ worker' = IF Converts(e)
                           THEN [worker EXCEPT ![w] = [NoWork EXCEPT !.at = "convert", !.path = path]]
                           ELSE worker
              /\ UNCHANGED <<guiDialog, proc>>
  /\ UNCHANGED <<manifest, romFile, history>>

(* convert(): wav2msu (external) writes the .pcm or fails; what counts is  *)
(* that a .pcm is there.  The other formats have no converter.             *)
Wav2msu(path) ==
  {disk} \cup (IF path[2][3] = ".wav" /\ At(disk, path) \in EntryContent
               THEN {WriteFile(disk, <<path[1], AsPcm(path[2])>>,
                               <<"pcm", disk[path][2], disk[path][3]>>)}
               ELSE {})

Convert(w) ==
  /\ WorkerAt(w, "convert")
  /\ LET path == worker[w].path IN
     \E d \in Wav2msu(path) :
       IF ~Exists(d, <<path[1], AsPcm(path[2])>>)
       THEN /\ disk' = d
            /\ worker' = [worker EXCEPT ![w] = [NoWork EXCEPT !.at = "reset1", !.failed = TRUE]]
            /\ UNCHANGED <<app, guiDialog, proc>>
       ELSE /\ disk' = RemoveFile(d, path)
            /\ IF Files(app.pack) = <<>> THEN Crash
               ELSE /\ worker' = [worker EXCEPT ![w] = [NoWork EXCEPT !.at = "iterate"]]
                    /\ UNCHANGED <<app, guiDialog, proc>>
  /\ UNCHANGED <<manifest, romFile, history>>

(* finishExport: the manifest that icarus and daedalus make of the folder, *)
(* the names substituted and the tracks listed in a forced one; then the   *)
(* two renames of a forced manifest.                                       *)
ManifestOf(s, board) ==
  LET names == BoardFiles(disk, s.destination, board)
  IN  IF s.exportMethod = SD2SNES
      THEN Described(disk, s.destination,
                     {Substituted(name, s.outputName) : name \in names}, s.trackIDs)
      ELSE Described(disk, s.destination, names, {})

Finish(w) ==
  /\ WorkerAt(w, "iterate")
  /\ app.zipIndex >= Len(Files(app.pack))
  /\ LET forced == app.exportMethod = SD2SNES /\ app.forceManifest
         plain  == app.exportMethod = GamePak /\ app.createManifest
     IN  /\ IF forced \/ plain
            THEN \E board \in BoardsOf(disk, app.destination) :
                   manifest' = [manifest EXCEPT ![app.destination] = ManifestOf(app, board)]
            ELSE UNCHANGED manifest
         /\ worker' = Moved(w, IF forced THEN "rename1" ELSE "reset1")
  /\ UNCHANGED <<app, guiDialog, proc, disk, romFile, history>>

RenameROM(w) ==
  /\ WorkerAt(w, "rename1")
  /\ disk' = RenameFile(disk, <<app.destination, ProgramRom>>,
                              <<app.destination, Sfc(app.outputName)>>)
  /\ worker' = Moved(w, "rename2")
  /\ UNCHANGED <<app, guiDialog, proc, manifest, romFile, history>>

MutRenameMsu1(w) ==                     \* mutant: to the image's name
  /\ WorkerAt(w, "rename2")
  /\ disk' = RenameFile(disk, <<app.destination, Msu1Rom>>,
                              <<app.destination, Sfc(app.outputName)>>)
  /\ worker' = Moved(w, "reset1")
  /\ UNCHANGED <<app, guiDialog, proc, manifest, romFile, history>>
RenameMsu1(w) ==
  /\ WorkerAt(w, "rename2")
  /\ disk' = RenameFile(disk, <<app.destination, Msu1Rom>>,
                              <<app.destination, Msu(app.outputName)>>)
  /\ worker' = Moved(w, "reset1")
  /\ UNCHANGED <<app, guiDialog, proc, manifest, romFile, history>>

(* reset(), on the worker thread.                                          *)
ResetStep(w, from, to, s) ==
  /\ WorkerAt(w, from)
  /\ app' = s
  /\ worker' = Moved(w, to)
  /\ job' = NoJob
  /\ UNCHANGED <<guiDialog, proc, files, exports, overlapped>>

ResetPack(w)     == ResetStep(w, "reset1", "reset2", ClosePack(app))
ResetTexts(w)    == ResetStep(w, "reset2", "reset3", ClearTexts(app))
ResetBasic(w)    == ResetStep(w, "reset3", "reset4", EnableBasic(app))
ResetAdvanced(w) == ResetStep(w, "reset4", "reset5", EnableAdvanced(app))

(* validatePack and the Export button; then the thread ends, or shows the  *)
(* error box that makes it end.                                            *)
ResetExport(w) ==
  /\ WorkerAt(w, "reset5")
  /\ IF PackFaults(app) THEN Crash
     ELSE /\ app' = EnableExport(app)
          /\ worker' = [worker EXCEPT ![w] =
                          IF @.failed THEN [@ EXCEPT !.at = "dialog"] ELSE NoWork]
          /\ UNCHANGED <<guiDialog, proc>>
  /\ UNCHANGED <<files, history>>

DismissWorkerDialog(w) ==
  /\ WorkerAt(w, "dialog")
  /\ worker' = [worker EXCEPT ![w] = NoWork]
  /\ UNCHANGED <<app, guiDialog, proc, files, history>>

(* Two exports share the pack's directory and mapping without a lock.      *)
RaceCrash ==
  /\ proc = "running"
  /\ \E v, w \in Workers : v # w /\ worker[v].at = "iterate" /\ worker[w].at # "off"
  /\ Crash
  /\ UNCHANGED <<files, history>>

-------------------------------------------------------------------------------
(* The environment.                                                        *)
(* quit(): the exit button (it reads "Cancel" during an export) or the     *)
(* window; the process ends under its workers.                             *)
Quit ==
  /\ Interactive
  /\ Ends("exited")
  /\ UNCHANGED <<files, history>>

Restart(p, r) ==
  /\ proc # "running"
  /\ p = NoPath => r = NoPath
  /\ app' = Started(p, r)
  /\ proc' = IF StartFaults(p, r) THEN "crashed" ELSE "running"
  /\ overlapped' = FALSE
  /\ job' = NoJob
  /\ UNCHANGED <<worker, guiDialog, files, exports>>

(* Somebody else replaces or deletes a ROM file.                           *)
ChangeRomFile(r, image) ==
  /\ romFile' = [romFile EXCEPT ![r] = image]
  /\ UNCHANGED <<app, worker, guiDialog, proc, disk, manifest, history>>

-------------------------------------------------------------------------------
UserStep ==
  \/ \E p \in PackPaths : ChangePackPath(p)
  \/ \E r \in RomPaths \cup {NoPath} : ChangeRomPath(r)
  \/ \E out \in OutputNames : ChangeOutputName(out)
  \/ \E m \in Methods : ChooseMethod(m)
  \/ ToggleCreateManifest
  \/ ToggleForceManifest
  \/ ToggleViolateBPS
  \/ \E w \in Workers : ClickExport(w)
  \/ Quit

MutDismissDialog == DismissGuiDialog    \* mutant: a worker's box stays up
DismissDialog ==
  DismissGuiDialog \/ \E w \in Workers : DismissWorkerDialog(w)

WorkerStep(w) ==
  \/ Iterate(w) \/ Convert(w) \/ Finish(w) \/ RenameROM(w) \/ RenameMsu1(w)
  \/ ResetPack(w) \/ ResetTexts(w) \/ ResetBasic(w) \/ ResetAdvanced(w)
  \/ ResetExport(w)

EnvironmentStep ==
  \/ \E p \in PackPaths, r \in RomPaths \cup {NoPath} : Restart(p, r)
  \/ \E r \in RomPaths, image \in Images \cup {NoImage} : ChangeRomFile(r, image)

Next ==
  \/ UserStep
  \/ DismissDialog
  \/ \E w \in Workers : WorkerStep(w)
  \/ RaceCrash
  \/ EnvironmentStep

Spec == Init /\ [][Next]_vars

(* A thread that can run is scheduled, wav2msu and the tools end, and the  *)
(* user dismisses a message box some time.                                 *)
FairSpec ==
  /\ Spec
  /\ \A w \in Workers : WF_vars(WorkerStep(w))
  /\ WF_vars(DismissDialog)

===============================================================================
