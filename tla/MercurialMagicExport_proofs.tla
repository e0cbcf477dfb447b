------------------------ MODULE MercurialMagicExport_proofs ------------------------
(***************************************************************************)
(* Proof that a commercial pack exported within the BPS rules is its own   *)
(* game, and that an export that reports success is complete and the       *)
(* manifest it wrote is true: for every set of packs, of archives and of   *)
(* ROM files, and whatever an earlier export has left in the folder.       *)
(***************************************************************************)
EXTENDS MercurialMagic_proofs

-------------------------------------------------------------------------------
(* The patched game.                                                       *)
(* The cached patch is that of the opened pack, if that one has a patch    *)
(* that validatePack extracts.                                             *)
Cached(s) == HasMsu1(s.pack) /\ HasPatch(s.pack) => s.patchContents = s.pack

(* An error box of the GUI thread and an export exclude each other.        *)
DialogInv == ~overlapped /\ guiDialog => Idle

(* The export under way, up to its success.                                *)
Active(w) == Exporting(w) \/ (worker[w].at = "reset1" /\ ~worker[w].failed)

JobROM == ROMName(job.exportMethod, job.forceManifest, job.outputName)

(* Where the game of the export lies by now. *)
Where(w) == IF worker[w].at \in {"rename2", "reset1"} THEN Final(JobROM)
                                                      ELSE <<JobDir, JobROM>>

(* The two targets of the renames are there until then if they were when   *)
(* Export was clicked, and only then.                                      *)
SfcPath == <<JobDir, Sfc(job.outputName)>>
MsuPath == <<JobDir, Msu(job.outputName)>>
Targets(w) ==
  /\ worker[w].at # "rename2" => (Exists(disk, SfcPath) <=> SfcPath \in job.present)
  /\ Exists(disk, MsuPath) <=> MsuPath \in job.present

StrictJob == /\ HasPatch(job.pack) /\ HasMsu1(job.pack) /\ ~HasROM(job.pack)
             /\ ~app.violateBPS

(* The inductive invariant: the export is still the one that was clicked,  *)
(* only tracks are converted, nothing but the renames makes their targets, *)
(* and the patched game is where it should be.                             *)
PatchInv ==
  ~overlapped => \A w \in Workers : Active(w) =>
    /\ job.pack = app.pack /\ job.exportMethod = app.exportMethod
       /\ job.forceManifest = app.forceManifest /\ job.outputName = app.outputName
    /\ worker[w].at = "convert" => worker[w].path[2][2] # NoNumber
    /\ Forced /\ Exporting(w) => Targets(w)
    /\ StrictJob => At(disk, Where(w)) = <<"patched", job.pack>>

-------------------------------------------------------------------------------
(* What the helpers make of the cached patch.                              *)
LEMMA NothingOpened == ~HasMsu1(NoPack)
<1>1. {i \in DOMAIN Files(NoPack) :
         Files(NoPack)[i].stem \in {"msu1"} /\ Files(NoPack)[i].ext = ".rom"} = {}
  BY DEF Files
<1> QED BY <1>1 DEF HasMsu1, Fetch

LEMMA CachedFrame ==
  ASSUME NEW s, NEW t, Cached(s), t.pack = s.pack, t.patchContents = s.patchContents
  PROVE  Cached(t)
BY DEF Cached

LEMMA CachedValidate ==
  ASSUME NEW s \in AppType, Cached(s)
  PROVE  Cached(ValidatePack(s)) /\ ValidatePack(s) \in AppType
<1> DEFINE o == Opened(s)
           q == IF HasMsu1(o.pack) /\ HasPatch(o.pack)
                THEN [o EXCEPT !.patchContents = o.pack] ELSE o
           r == IF HasROM(q.pack) THEN NoPath ELSE q.romPath
           b == HasPatch(q.pack)
           nb == ~HasPatch(q.pack)
           v == [q EXCEPT !.noROMNeeded = nb, !.romEnabled = b, !.romPath = r]
<1>1. o \in AppType
  BY OpenedType
<1>2. Cached(q) /\ q \in AppType
  <2> HIDE DEF o
  <2>1. CASE HasMsu1(o.pack) /\ HasPatch(o.pack)
    <3>1. q.pack = o.pack /\ q.patchContents = o.pack /\ q \in AppType
      BY <1>1, <2>1 DEF AppType
    <3> QED BY <3>1 DEF Cached
  <2>2. CASE ~(HasMsu1(o.pack) /\ HasPatch(o.pack))
    BY <1>1, <2>2 DEF Cached
  <2> QED BY <2>1, <2>2
<1>3. v.pack = q.pack /\ v.patchContents = q.patchContents
  <2> HIDE DEF q, r, b, nb
  <2> QED BY <1>2 DEF AppType
<1>4. ValidatePack(s) = s \/ ValidatePack(s) = q \/ ValidatePack(s) = v
  BY Zenon DEF ValidatePack, Extracted
<1>5. Cached(v)
  <2> HIDE DEF q, v
  <2> QED BY <1>2, <1>3, CachedFrame
<1> HIDE DEF q, v
<1> QED BY <1>2, <1>4, <1>5, ValidatePackType

LEMMA CachedRevalidated ==
  ASSUME NEW s \in AppType, NEW ok, Cached(s)
  PROVE  Cached(Revalidated(s, ok))
<1>1. /\ Revalidated(s, ok).pack = s.pack
      /\ Revalidated(s, ok).patchContents = s.patchContents
  BY DEF AppType, Revalidated
<1> QED BY <1>1, CachedFrame

LEMMA CachedClose ==
  ASSUME NEW s \in AppType
  PROVE  Cached(ClosePack(s))
<1>1. ClosePack(s).pack = NoPack
  BY DEF AppType, ClosePack
<1> QED BY <1>1, NothingOpened DEF Cached

LEMMA CachedEnabling ==
  ASSUME NEW s \in AppType, Cached(s)
  PROVE  /\ Cached(ClearTexts(s)) /\ Cached(EnableBasic(s))
         /\ Cached(EnableAdvanced(s)) /\ Cached(EnableExport(s))
<1>1. \A t \in {ClearTexts(s), EnableBasic(s), EnableAdvanced(s)} :
        t.pack = s.pack /\ t.patchContents = s.patchContents
  BY DEF AppType, ClearTexts, EnableBasic, EnableAdvanced
<1>2. Cached(ClearTexts(s)) /\ Cached(EnableBasic(s)) /\ Cached(EnableAdvanced(s))
  BY <1>1 DEF Cached
<1>3. Cached(EnableExport(s))
  <2> DEFINE v == ValidatePack(s)
             ok == PackIsValid(s)
             t == [v EXCEPT !.exportEnabled = ok]
  <2>1. Cached(v) /\ v \in AppType
    BY CachedValidate
  <2> HIDE DEF v, ok
  <2>2. t.pack = v.pack /\ t.patchContents = v.patchContents
    BY <2>1 DEF AppType
  <2>3. Cached(t)
    BY <2>1, <2>2 DEF Cached
  <2> QED BY <2>3 DEF EnableExport, v, ok
<1> QED BY <1>2, <1>3

LEMMA CachedReset ==
  ASSUME NEW s \in AppType
  PROVE  Cached(Reset(s))
<1>1. ClosePack(s) \in AppType /\ Cached(ClosePack(s))
  BY EnablingType, CachedClose
<1>2. ClearTexts(ClosePack(s)) \in AppType /\ Cached(ClearTexts(ClosePack(s)))
  BY <1>1, EnablingType, CachedEnabling
<1>3. /\ EnableBasic(ClearTexts(ClosePack(s))) \in AppType
      /\ Cached(EnableBasic(ClearTexts(ClosePack(s))))
  BY <1>2, EnablingType, CachedEnabling
<1>4. /\ EnableAdvanced(EnableBasic(ClearTexts(ClosePack(s)))) \in AppType
      /\ Cached(EnableAdvanced(EnableBasic(ClearTexts(ClosePack(s)))))
  BY <1>3, EnablingType, CachedEnabling
<1> QED BY <1>4, CachedEnabling DEF Reset

LEMMA CachedFresh == Cached(Fresh)
<1>1. Fresh.pack = NoPack
  BY DEF Fresh
<1> QED BY <1>1, NothingOpened DEF Cached

LEMMA CachedStarted ==
  ASSUME NEW p \in PackPaths, NEW r \in RomPaths \cup {NoPath}
  PROVE  Cached(Started(p, r))
<1> DEFINE f == [Fresh EXCEPT !.packPath = p]
           v == ValidatePack(f)
           ok == PackIsValid(f)
           u == WithPack(p)
           s == WithROM(u, r)
           ok2 == IF r # NoPath /\ HasPatch(s.pack) THEN ROMPatchIsValid(s) ELSE s.valid
           t == [s EXCEPT !.valid = ok2, !.exportEnabled = ok2]
<1>1. Cached(f) /\ f \in AppType
  <2>1. f.pack = Fresh.pack /\ f.patchContents = Fresh.patchContents /\ f \in AppType
    BY FreshType DEF AppType
  <2> QED BY <2>1, CachedFresh, CachedFrame
<1>2. Cached(v) /\ v \in AppType
  BY <1>1, CachedValidate
<1>3. Cached(u) /\ u \in AppType
  <2> HIDE DEF v, ok
  <2>1. u = [v EXCEPT !.valid = ok]
    BY Zenon DEF WithPack, v, ok
  <2>2. ok \in BOOLEAN
    BY PackIsValidType DEF ok
  <2>3. u.pack = v.pack /\ u.patchContents = v.patchContents /\ u \in AppType
    BY <1>2, <2>1, <2>2 DEF AppType
  <2> HIDE DEF u
  <2> QED BY <1>2, <2>3, CachedFrame
<1>4. Cached(s) /\ s \in AppType
  <2> HIDE DEF u
  <2>1. s.pack = u.pack /\ s.patchContents = u.patchContents /\ s \in AppType
    BY <1>3 DEF AppType, WithROM
  <2> HIDE DEF s
  <2> QED BY <1>3, <2>1, CachedFrame
<1>5. Cached(t)
  <2> HIDE DEF s, ok2
  <2>1. t.pack = s.pack /\ t.patchContents = s.patchContents
    BY <1>4 DEF AppType
  <2> HIDE DEF t
  <2> QED BY <1>4, <2>1, CachedFrame
<1>6. Started(p, r) = Fresh \/ Started(p, r) = t
  BY Zenon DEF Started
<1> QED BY <1>5, <1>6, CachedFresh, Zenon

LEMMA CachedEnds ==
  ASSUME NEW how, Ends(how)
  PROVE  Cached(app')
BY CachedFresh DEF Ends

LEMMA BegunPack ==
  ASSUME NEW s \in AppType
  PROVE  /\ Begun(s).pack = s.pack /\ Begun(s).patchContents = s.patchContents
         /\ Begun(s).violateBPS = s.violateBPS /\ Begun(s).romPath = s.romPath
<1> DEFINE dir == Destination(s.exportMethod, s.forceManifest, s.outputName)
           d == Disabled(s)
<1>1. d \in AppType
  BY EnablingType
<1>2. /\ d.pack = s.pack /\ d.patchContents = s.patchContents
      /\ d.violateBPS = s.violateBPS /\ d.romPath = s.romPath
  BY DEF AppType, Disabled
<1> HIDE DEF d, dir
<1>3. LET b == [d EXCEPT !.destination = dir, !.zipIndex = 0]
      IN  /\ b.pack = s.pack /\ b.patchContents = s.patchContents
          /\ b.violateBPS = s.violateBPS /\ b.romPath = s.romPath
  BY <1>1, <1>2 DEF AppType
<1> QED BY <1>3 DEF Begun, d, dir

(* A callback that leaves pack and patch alone.                            *)
LEMMA CachedCallback ==
  ASSUME NEW faults, NEW s, Callback(faults, s), Cached(s)
  PROVE  Cached(app')
BY CachedEnds DEF Callback, Crash

LEMMA CachedUser ==
  ASSUME TypeOK, Cached(app), UserStep
  PROVE  Cached(app')
<1>1. app \in AppType
  BY DEF TypeOK
<1>2. ASSUME NEW s \in AppType, s.pack = app.pack, s.patchContents = app.patchContents
      PROVE  Cached(s) /\ (\A ok : Cached(Revalidated(s, ok)))
  BY <1>2, CachedFrame, CachedRevalidated
<1>3. ASSUME NEW p \in PackPaths, ChangePackPath(p) PROVE Cached(app')
  <2> DEFINE out == Prefix[p]
             s == [app EXCEPT !.packPath = p, !.outputName = out]
             ok == PackIsValid(s)
  <2>1. out \in OutputNames
    BY ConstantsType
  <2>2. s \in AppType /\ s.pack = app.pack /\ s.patchContents = app.patchContents
    <3> HIDE DEF out
    <3> QED BY <1>1, <2>1 DEF AppType
  <2>3. Callback(PackFaults(s), Revalidated(ValidatePack(s), ok))
    BY <1>3, Zenon DEF ChangePackPath
  <2> HIDE DEF s, ok
  <2>4. Cached(ValidatePack(s)) /\ ValidatePack(s) \in AppType
    BY <1>2, <2>2, CachedValidate
  <2> QED BY <2>3, <2>4, CachedRevalidated, CachedCallback
<1>4. ASSUME NEW r \in RomPaths \cup {NoPath}, ChangeRomPath(r) PROVE Cached(app')
  <2> DEFINE s == [app EXCEPT !.romPath = r]
  <2>1. s \in AppType /\ s.pack = app.pack /\ s.patchContents = app.patchContents
    BY <1>1, ZenonT(40) DEF AppType
  <2>2. Callback(ROMPatchFaults(s), Revalidated(s, ROMPatchIsValid(s)))
    BY <1>4, Zenon DEF ChangeRomPath
  <2> HIDE DEF s
  <2> QED BY <1>2, <2>1, <2>2, CachedCallback
<1>5. ASSUME NEW out \in OutputNames, ChangeOutputName(out) PROVE Cached(app')
  <2> DEFINE s == [app EXCEPT !.outputName = out]
  <2>1. s \in AppType /\ s.pack = app.pack /\ s.patchContents = app.patchContents
    BY <1>1, ZenonT(40) DEF AppType
  <2>2. Callback(FALSE, Revalidated(s, app.valid))
    BY <1>5, Zenon DEF ChangeOutputName
  <2> HIDE DEF s
  <2> QED BY <1>2, <2>1, <2>2, CachedCallback
<1>6. ASSUME NEW m \in Methods, ChooseMethod(m) PROVE Cached(app')
  <2> DEFINE s == [app EXCEPT !.exportMethod = m]
  <2>1. s \in AppType /\ s.pack = app.pack /\ s.patchContents = app.patchContents
    BY <1>1, ZenonT(40) DEF AppType
  <2>2. Callback(FALSE, s)
    BY <1>6 DEF ChooseMethod
  <2> HIDE DEF s
  <2> QED BY <1>2, <2>1, <2>2, CachedCallback
<1>7. CASE ToggleCreateManifest
  <2> DEFINE s == [app EXCEPT !.createManifest = ~@]
  <2>1. s \in AppType /\ s.pack = app.pack /\ s.patchContents = app.patchContents
    BY <1>1, ZenonT(40) DEF AppType
  <2>2. Callback(FALSE, s)
    BY <1>7 DEF ToggleCreateManifest
  <2> HIDE DEF s
  <2> QED BY <1>2, <2>1, <2>2, CachedCallback
<1>8. CASE ToggleForceManifest
  <2> DEFINE s == [app EXCEPT !.forceManifest = ~@]
  <2>1. s \in AppType /\ s.pack = app.pack /\ s.patchContents = app.patchContents
    BY <1>1, ZenonT(40) DEF AppType
  <2>2. Callback(FALSE, s)
    BY <1>8 DEF ToggleForceManifest
  <2> HIDE DEF s
  <2> QED BY <1>2, <2>1, <2>2, CachedCallback
<1>9. CASE ToggleViolateBPS
  <2> DEFINE s == [app EXCEPT !.violateBPS = ~@]
  <2>1. s \in AppType /\ s.pack = app.pack /\ s.patchContents = app.patchContents
    BY <1>1, ZenonT(40) DEF AppType
  <2>2. Callback(ROMPatchFaults(s), Revalidated(s, ROMPatchIsValid(s)))
    BY <1>9, Zenon DEF ToggleViolateBPS
  <2> HIDE DEF s
  <2> QED BY <1>2, <2>1, <2>2, CachedCallback
<1>10. ASSUME NEW w \in Workers, ClickExport(w) PROVE Cached(app')
  <2> DEFINE s == Begun(app)
  <2>1. s \in AppType /\ s.pack = app.pack /\ s.patchContents = app.patchContents
    BY <1>1, BegunType, BegunPack
  <2> HIDE DEF s
  <2>2. app' = s \/ app' = Reset(s) \/ Crash
    BY <1>10 DEF ClickExport, s
  <2> QED BY <1>2, <2>1, <2>2, CachedReset, CachedEnds DEF Crash
<1>11. CASE Quit
  BY <1>11, CachedEnds DEF Quit
<1> QED BY <1>3, <1>4, <1>5, <1>6, <1>7, <1>8, <1>9, <1>10, <1>11 DEF UserStep

LEMMA CachedStep ==
  ASSUME TypeOK, Cached(app), [Next]_vars
  PROVE  Cached(app')
<1>1. app \in AppType
  BY DEF TypeOK
<1>2. ASSUME Crash PROVE Cached(app')
  BY <1>2, CachedEnds DEF Crash
<1>3. CASE app' = app
  BY <1>3
<1>4. ASSUME NEW w \in Workers, Iterate(w) PROVE Cached(app')
  <2> DEFINE i == app.zipIndex + 1
             ids == app.trackIDs \cup (IF IsTrack(Files(app.pack)[i])
                                       THEN {TrackID(Files(app.pack)[i])} ELSE {})
             s == [app EXCEPT !.zipIndex = i, !.trackIDs = ids]
  <2>1. Crash \/ app' = s
    BY <1>4 DEF Iterate
  <2>2. s.pack = app.pack /\ s.patchContents = app.patchContents
    <3> HIDE DEF i, ids
    <3> QED BY <1>1 DEF AppType
  <2> HIDE DEF s
  <2> QED BY <1>2, <2>1, <2>2, CachedFrame
<1>5. ASSUME NEW w \in Workers, WorkerStep(w) PROVE Cached(app')
  <2>1. CASE Convert(w) \/ Finish(w) \/ RenameROM(w) \/ RenameMsu1(w)
    BY <1>2, <1>3, <2>1 DEF Convert, Finish, RenameROM, RenameMsu1
  <2>2. CASE ResetPack(w)
    BY <1>1, <2>2, CachedClose DEF ResetPack, ResetStep
  <2>3. CASE ResetTexts(w) \/ ResetBasic(w) \/ ResetAdvanced(w)
    BY <1>1, <2>3, CachedEnabling DEF ResetTexts, ResetBasic, ResetAdvanced, ResetStep
  <2>4. CASE ResetExport(w)
    BY <1>1, <1>2, <2>4, CachedEnabling DEF ResetExport
  <2> QED BY <1>4, <1>5, <2>1, <2>2, <2>3, <2>4 DEF WorkerStep
<1>6. CASE DismissDialog \/ RaceCrash \/ UNCHANGED vars
  BY <1>2, <1>3, <1>6 DEF vars, DismissDialog, DismissGuiDialog, DismissWorkerDialog,
     RaceCrash
<1>7. CASE EnvironmentStep
  BY <1>3, <1>7, CachedStarted DEF EnvironmentStep, Restart, ChangeRomFile
<1> QED BY <1>5, <1>6, <1>7, CachedUser DEF Next

-------------------------------------------------------------------------------
(* The error box of the GUI thread.                                        *)
LEMMA DialogStep ==
  ASSUME TypeOK, LockInv, DialogInv, [Next]_vars
  PROVE  DialogInv'
<1> worker \in [Workers -> WorkType]
  BY DEF TypeOK
<1>1. ASSUME NEW how, Ends(how) PROVE DialogInv'
  BY <1>1 DEF Ends, DialogInv
<1>2. CASE UNCHANGED <<guiDialog, worker, overlapped>>
  BY <1>2 DEF DialogInv, Idle
<1>3. ASSUME NEW faults, NEW s, Callback(faults, s) PROVE DialogInv'
  BY <1>1, <1>2, <1>3 DEF Callback, Crash, history
<1>4. ASSUME NEW w \in Workers, ClickExport(w) PROVE DialogInv'
  <2>1. CASE guiDialog' = guiDialog
    BY <1>4, <2>1 DEF ClickExport, Interactive, DialogInv
  <2>2. CASE UNCHANGED worker
    BY <1>4, <2>2 DEF ClickExport, DialogInv, Idle
  <2> QED BY <1>1, <1>4, <2>1, <2>2 DEF ClickExport, Crash
<1>5. CASE UserStep
  BY <1>1, <1>3, <1>4, <1>5 DEF UserStep, ChangePackPath, ChangeRomPath,
     ChangeOutputName, ChooseMethod, ToggleCreateManifest, ToggleForceManifest,
     ToggleViolateBPS, Quit
<1>6. CASE DismissDialog \/ RaceCrash \/ UNCHANGED vars
  <2>1. CASE DismissGuiDialog
    BY <2>1 DEF DismissGuiDialog, DialogInv
  <2>2. ASSUME NEW w \in Workers, DismissWorkerDialog(w) PROVE DialogInv'
    BY <2>2 DEF DismissWorkerDialog, WorkerAt, DialogInv, Idle, history
  <2> QED BY <1>1, <1>2, <1>6, <2>1, <2>2 DEF DismissDialog, RaceCrash, Crash, vars
<1>7. ASSUME NEW w \in Workers, WorkerStep(w) PROVE DialogInv'
  <2>1. worker[w].at # "off" /\ overlapped' = overlapped /\ (Crash \/ guiDialog' = guiDialog)
    BY <1>7 DEF WorkerStep, Iterate, Convert, Finish, RenameROM, RenameMsu1,
       ResetPack, ResetTexts, ResetBasic, ResetAdvanced, ResetStep, ResetExport,
       WorkerAt, history
  <2> QED BY <1>1, <2>1 DEF DialogInv, Idle, Crash
<1>8. CASE EnvironmentStep
  <2>1. ASSUME NEW p, NEW r, Restart(p, r) PROVE DialogInv'
    BY <2>1 DEF Restart, LockInv, DialogInv, Idle
  <2> QED BY <1>2, <1>8, <2>1 DEF EnvironmentStep, ChangeRomFile, history
<1> QED BY <1>5, <1>6, <1>7, <1>8 DEF Next

-------------------------------------------------------------------------------
(* No entry of a pack without program.rom is exported over the game.       *)
LEMMA NoProgramROM ==
  ASSUME NEW p \in Packs \cup {NoPack}, ~HasROM(p), NEW i \in DOMAIN Files(p)
  PROVE  ~(Files(p)[i].stem = "program" /\ Files(p)[i].ext = ".rom")
<1> DEFINE hits == {j \in DOMAIN Files(p) :
                     Files(p)[j].stem \in {"program"} /\ Files(p)[j].ext = ".rom"}
<1> SUFFICES ASSUME i \in hits PROVE FALSE
  OBVIOUS
<1>1. hits \subseteq Nat \ {0}
  BY FilesType
<1>2. \E k \in hits : \A j \in hits : k <= j
  BY <1>1, LeastNatural
<1>3. Fetch(p, {"program"}, ".rom") \in hits
  BY <1>2 DEF Fetch
<1> QED BY <1>1, <1>3 DEF HasROM

LEMMA TracksAreNumbered == \A n \in Nat : n # NoNumber
BY DEF NoNumber

LEMMA ROMNames ==
  ASSUME NEW m \in Methods, NEW force \in BOOLEAN, NEW out
  PROVE  \/ ROMName(m, force, out) = ProgramRom /\ ~(m = SD2SNES /\ ~force)
         \/ ROMName(m, force, out) = Sfc(out) /\ m = SD2SNES /\ ~force
BY DEF ROMName, Methods, GamePak, SD2SNES

LEMMA TrackNames ==
  ASSUME NEW e \in Entry, IsTrack(e), NEW m \in Methods, NEW force \in BOOLEAN, NEW out
  PROVE  ExportName(e, m, force, out)[2] # NoNumber
<1>1. TrackID(e) # NoNumber
  BY TrackIDType, TracksAreNumbered
<1>2. CASE m = GamePak
  <2>1. ExportName(e, m, force, out) = <<"track-", TrackID(e), e.ext>>
    BY <1>2 DEF ExportName, GamePak, SD2SNES
  <2> QED BY <1>1, <2>1
<1>3. CASE m = SD2SNES
  <2>1. e.ext # ".rom" /\ m # GamePak
    BY <1>3 DEF IsTrack, TrackExts, GamePak, SD2SNES
  <2>2. ExportName(e, m, force, out) = <<out, TrackID(e), e.ext>>
    BY <1>3, <2>1 DEF ExportName
  <2> QED BY <1>1, <2>2
<1> QED BY <1>2, <1>3 DEF Methods

LEMMA EntryIsNotROM ==
  ASSUME NEW e \in Entry, ~(e.stem = "program" /\ e.ext = ".rom"),
         NEW m \in Methods, NEW force \in BOOLEAN, NEW out
  PROVE  ExportName(e, m, force, out) # ROMName(m, force, out)
<1> DEFINE name == ExportName(e, m, force, out)
           rom == ROMName(m, force, out)
<1>1. rom[2] = NoNumber /\ rom # NoName
  <2>1. rom = ProgramRom \/ rom = Sfc(out)
    BY ROMNames
  <2>2. ProgramRom[2] = NoNumber /\ ProgramRom[3] = ".rom"
    BY DEF ProgramRom
  <2>3. Sfc(out)[2] = NoNumber /\ Sfc(out)[3] = ".sfc"
    BY DEF Sfc
  <2>4. NoName[3] = ""
    BY DEF NoName
  <2> HIDE DEF rom
  <2> QED BY <2>1, <2>2, <2>3, <2>4
<1>2. CASE IsTrack(e)
  BY <1>1, <1>2, TrackNames
<1>3. CASE ~IsTrack(e) /\ m = GamePak
  <2>1. name = <<e.stem, NoNumber, e.ext>> \/ name = NoName
    BY <1>3 DEF ExportName, GamePak, SD2SNES
  <2>2. rom = <<"program", NoNumber, ".rom">>
    BY <1>3 DEF ROMName, ProgramRom
  <2> QED BY <1>1, <2>1, <2>2
<1>4. CASE ~IsTrack(e) /\ m = SD2SNES
  <2>1. name = NoName \/ (force /\ name = Msu1Rom) \/ (~force /\ name = Msu(out))
    BY <1>4 DEF ExportName, GamePak, SD2SNES
  <2>2. force => Msu1Rom # rom
    BY <1>4 DEF ROMName, ProgramRom, Msu1Rom, GamePak, SD2SNES
  <2>3. ~force => Msu(out) # rom
    BY <1>4, ROMNames DEF Msu, Sfc
  <2> QED BY <1>1, <2>1, <2>2, <2>3
<1> QED BY <1>2, <1>3, <1>4 DEF Methods

-------------------------------------------------------------------------------
(* The patched game, action by action.                                     *)
LEMMA WriteHits ==
  ASSUME NEW d, NEW path, NEW c
  PROVE  At(WriteFile(d, path, c), path) = c
BY DEF At, Exists, WriteFile

LEMMA RenameMoves ==
  ASSUME NEW d, NEW from, NEW to, from # to, At(d, from) # NoEntry,
         RenameReplaces \/ ~Exists(d, to)
  PROVE  At(RenameFile(d, from, to), to) = At(d, from)
<1>1. Exists(d, from)
  BY DEF At
<1>2. At(WriteFile(d, to, d[from]), to) = d[from]
  BY WriteHits
<1>3. At(RemoveFile(WriteFile(d, to, d[from]), from), to) = At(WriteFile(d, to, d[from]), to)
  BY RemoveFrame
<1> QED BY <1>1, <1>2, <1>3 DEF RenameFile, Renames, At

LEMMA RenameFails ==
  ASSUME NEW d, NEW from, NEW to, ~RenameReplaces, Exists(d, to)
  PROVE  RenameFile(d, from, to) = d
BY DEF RenameFile, Renames

(* Which files are there. *)
LEMMA WriteExists ==
  ASSUME NEW d, NEW path, NEW c, NEW q
  PROVE  Exists(WriteFile(d, path, c), q) <=> (q = path \/ Exists(d, q))
BY DEF Exists, WriteFile

LEMMA RemoveExists ==
  ASSUME NEW d, NEW path, NEW q
  PROVE  Exists(RemoveFile(d, path), q) <=> (q # path /\ Exists(d, q))
BY DEF Exists, RemoveFile

LEMMA RenameKeeps ==
  ASSUME NEW d, NEW from, NEW to, NEW q, q # from, q # to
  PROVE  Exists(RenameFile(d, from, to), q) <=> Exists(d, q)
BY WriteExists, RemoveExists DEF RenameFile

(* The targets of the renames.                                             *)
LEMMA TargetNames ==
  /\ \A out : /\ Sfc(out)[2] = NoNumber /\ Sfc(out)[3] = ".sfc"
              /\ Msu(out)[2] = NoNumber /\ Msu(out)[3] = ".msu"
  /\ ProgramRom[2] = NoNumber /\ ProgramRom[3] = ".rom"
  /\ Msu1Rom[2] = NoNumber /\ Msu1Rom[3] = ".rom"
BY DEF Sfc, Msu, ProgramRom, Msu1Rom

(* The click leaves the pack's own game behind.                            *)
LEMMA StrictOutcome ==
  ASSUME NEW s, ~s.violateBPS, NEW o \in PatchOutcomes(s), o.result = "success"
  PROVE  o.content = <<"patched", s.patchContents>>
<1>1. ~ROMExists(s) => o = Outcome("error", Junk) \/ o = Outcome("crash", Junk)
  BY DEF PatchOutcomes
<1>2. ROMExists(s) => o = Outcome("error", Junk)
                      \/ o = Outcome("success", <<"patched", s.patchContents>>)
  BY DEF PatchOutcomes
<1> QED BY <1>1, <1>2 DEF Outcome

LEMMA JobFields ==
  /\ JobOf(app).pack = app.pack /\ JobOf(app).exportMethod = app.exportMethod
  /\ JobOf(app).forceManifest = app.forceManifest
  /\ JobOf(app).outputName = app.outputName
BY DEF JobOf

LEMMA PatchClick ==
  ASSUME TypeOK, Cached(app), NEW w \in Workers, ClickExport(w),
         app' = Begun(app), worker'[w].at = "iterate"
  PROVE  /\ job'.pack = app'.pack /\ job'.exportMethod = app'.exportMethod
         /\ job'.forceManifest = app'.forceManifest /\ job'.outputName = app'.outputName
         /\ Forced' => Targets(w)'
         /\ StrictJob' => At(disk', Where(w)') = <<"patched", job'.pack>>
<1> DEFINE s == Begun(app)
<1>1. app \in AppType
  BY DEF TypeOK
<1>2. /\ s.pack = app.pack /\ s.patchContents = app.patchContents
      /\ s.violateBPS = app.violateBPS
      /\ s.exportMethod = app.exportMethod /\ s.forceManifest = app.forceManifest
      /\ s.outputName = app.outputName
      /\ s.destination = Destination(s.exportMethod, s.forceManifest, s.outputName)
  BY <1>1, BegunPack, BegunFields
<1> HIDE DEF s
<1>3. /\ job'.pack = app'.pack /\ job'.exportMethod = app'.exportMethod
      /\ job'.forceManifest = app'.forceManifest /\ job'.outputName = app'.outputName
  BY <1>2, JobFields DEF ClickExport, s
<1>4. ASSUME StrictJob' PROVE At(disk', Where(w)') = <<"patched", job'.pack>>
  <2>1. app' = s /\ job'.pack = app.pack
    BY <1>2, <1>3 DEF s
  <2>2. HasMsu1(app.pack) /\ HasPatch(app.pack) /\ ~s.violateBPS
    BY <1>4, <2>1 DEF StrictJob
  <2>3. s.patchContents = app.pack /\ s.patchContents # NoPack
    BY <1>2, <2>2, NothingOpened DEF Cached
  <2>4. Where(w)' = ROMTarget(s)
    BY <1>2, <1>3, <2>1 DEF Where, JobDir, JobROM, ROMTarget
  <2>5. worker[w].at = "off"
    BY DEF ClickExport
  <2>6. ~Crash /\ worker' # worker
    BY <2>5 DEF Crash, Ends, NoWork
  <2>7. PICK o \in PatchOutcomes(s) :
          o.result = "success" /\ disk' = WriteFile(MergedFiles(s), ROMTarget(s), o.content)
    BY <2>3, <2>6, Zenon DEF ClickExport, s
  <2>8. o.content = <<"patched", s.patchContents>>
    BY <2>2, <2>7, StrictOutcome
  <2> QED BY <2>1, <2>3, <2>4, <2>7, <2>8, WriteHits
<1>5. ASSUME Forced', NEW q, q[2] # ProgramRom
      PROVE  Exists(disk', q) <=> q \in job'.present
  <2>1. ~Crash /\ worker' # worker
    BY DEF ClickExport, Crash, Ends, NoWork
  <2>2. ROMTarget(s)[2] = ProgramRom
    BY <1>2, <1>3, <1>5 DEF ROMTarget, ROMName, Forced, s
  <2>3. disk' = MergedFiles(s)
        \/ \E o \in PatchOutcomes(s) : disk' = WriteFile(MergedFiles(s), ROMTarget(s), o.content)
    BY <2>1, Zenon DEF ClickExport, s
  <2>4. q # ROMTarget(s)
    BY <1>5, <2>2
  <2>5. Exists(MergedFiles(s), q) <=> Exists(disk, q)
    BY <2>4, WriteExists DEF MergedFiles
  <2>6. Exists(disk', q) <=> Exists(disk, q)
    BY <2>3, <2>4, <2>5, WriteExists
  <2> QED BY <2>6 DEF Exists, ClickExport, JobOf
<1>6. Forced' => Targets(w)'
  <2>1. SfcPath'[2] # ProgramRom /\ MsuPath'[2] # ProgramRom
    BY TargetNames DEF SfcPath, MsuPath
  <2> QED BY <1>5, <2>1 DEF Targets
<1> QED BY <1>3, <1>4, <1>6

(* What a step leaves of an export that runs alone: the worker moves on,   *)
(* or nothing changes but the ROM files.                                   *)
LEMMA WorkerAlone ==
  ASSUME TypeOK, LockInv, DialogInv, [Next]_vars, ~overlapped, ~overlapped',
         NEW w \in Workers, Active(w), Active(w)'
  PROVE  \/ Iterate(w) \/ Convert(w) \/ Finish(w) \/ RenameROM(w) \/ RenameMsu1(w)
         \/ UNCHANGED <<app, job, disk, manifest>> /\ worker'[w] = worker[w]
<1> worker \in [Workers -> WorkType] /\ app \in AppType
  BY DEF TypeOK
<1>1. worker[w].at # "off" /\ worker[w].at # "dialog" /\ proc = "running" /\ ~guiDialog
      /\ \A v \in Workers \ {w} : worker[v].at = "off"
  BY DEF Active, Exporting, LockInv, Idle, DialogInv, ControlsAreLocked
<1>2. ~Crash /\ ~Ends("exited")
  BY DEF Crash, Ends, NoWork, Active, Exporting
<1>3. ~app.basicEnabled /\ ~app.romEnabled /\ ~app.exportEnabled /\ ~app.advancedEnabled
  BY NoControl DEF LockInv, Active
<1>4. ~UserStep
  BY <1>2, <1>3 DEF UserStep, ChangePackPath, ChangeRomPath, ChangeOutputName,
     ChooseMethod, ToggleCreateManifest, ToggleForceManifest, ToggleViolateBPS,
     ClickExport, Quit
<1>5. ~DismissDialog /\ ~RaceCrash
  BY <1>1, <1>2 DEF DismissDialog, DismissGuiDialog, DismissWorkerDialog, WorkerAt, RaceCrash
<1>6. ASSUME NEW v \in Workers, WorkerStep(v)
      PROVE  Iterate(w) \/ Convert(w) \/ Finish(w) \/ RenameROM(w) \/ RenameMsu1(w)
  <2>1. v = w
    BY <1>1, <1>6 DEF WorkerStep, Iterate, Convert, Finish, RenameROM, RenameMsu1,
       ResetPack, ResetTexts, ResetBasic, ResetAdvanced, ResetStep, ResetExport, WorkerAt
  <2>2. ~ResetPack(w)
    BY DEF ResetPack, ResetStep, Moved, Active, Exporting, WorkType
  <2>3. ~ResetTexts(w) /\ ~ResetBasic(w) /\ ~ResetAdvanced(w) /\ ~ResetExport(w)
    BY DEF ResetTexts, ResetBasic, ResetAdvanced, ResetExport, ResetStep, WorkerAt,
       Active, Exporting
  <2> QED BY <1>6, <2>1, <2>2, <2>3 DEF WorkerStep
<1>7. CASE EnvironmentStep \/ UNCHANGED vars
  <2>1. ASSUME NEW p, NEW r PROVE ~Restart(p, r)
    BY <1>1 DEF Restart
  <2> QED BY <1>7, <2>1 DEF EnvironmentStep, ChangeRomFile, history, vars
<1> QED BY <1>4, <1>5, <1>6, <1>7 DEF Next

(* While the export runs, the settings name the place of the game.         *)
LEMMA PlaceOfGame ==
  ASSUME OwnInv, PatchInv, ~overlapped, NEW w \in Workers, Exporting(w)
  PROVE  /\ JobDir = app.destination
         /\ JobROM = ROMName(app.exportMethod, app.forceManifest, app.outputName)
         /\ JobROM[2] = NoNumber
<1>1. /\ job.exportMethod = app.exportMethod /\ job.forceManifest = app.forceManifest
      /\ job.outputName = app.outputName
  BY DEF PatchInv, Active
<1>2. app.destination = Destination(app.exportMethod, app.forceManifest, app.outputName)
  BY DEF OwnInv
<1>3. JobROM[2] = NoNumber
  BY DEF JobROM, ROMName, ProgramRom, Sfc
<1> QED BY <1>1, <1>2, <1>3 DEF JobDir, JobROM

LEMMA PatchIterate ==
  ASSUME TypeOK, OwnInv, PatchInv, ~overlapped, NEW w \in Workers, Iterate(w), ~Crash
  PROVE  /\ worker'[w].at \in {"iterate", "convert"}
         /\ worker'[w].at = "convert" => worker'[w].path[2][2] # NoNumber
         /\ StrictJob => At(disk', <<JobDir, JobROM>>) = At(disk, <<JobDir, JobROM>>)
<1> DEFINE e == Files(app.pack)[app.zipIndex + 1]
           name == ExportName(e, app.exportMethod, app.forceManifest, app.outputName)
           path == <<app.destination, name>>
<1>1. worker \in [Workers -> WorkType] /\ app \in AppType
  BY DEF TypeOK
<1>2. worker[w].at = "iterate" /\ app.zipIndex + 1 \in DOMAIN Files(app.pack) /\ e \in Entry
  <2>1. app.zipIndex \in Nat /\ app.zipIndex < Len(Files(app.pack))
        /\ Files(app.pack) \in Seq(Entry)
    BY <1>1, AppFields, FilesType DEF Iterate
  <2> QED BY <2>1 DEF Iterate, WorkerAt
<1>3. /\ app.exportMethod \in Methods /\ app.forceManifest \in BOOLEAN
      /\ app.outputName \in OutputNames /\ app.pack \in Packs \cup {NoPack}
  BY <1>1, AppFields
<1>4. worker' = IF Converts(e)
                THEN [worker EXCEPT ![w] = [NoWork EXCEPT !.at = "convert", !.path = path]]
                ELSE worker
  BY DEF Iterate
<1>5. disk' = disk \/ \E c : disk' = WriteFile(disk, path, c)
  BY Zenon DEF Iterate
<1>6. Converts(e) => name[2] # NoNumber
  BY <1>2, <1>3, TrackNames DEF Converts, IsTrack
<1>7. JobDir = app.destination
      /\ JobROM = ROMName(app.exportMethod, app.forceManifest, app.outputName)
  BY <1>2, PlaceOfGame DEF Exporting
<1>8. ASSUME StrictJob PROVE name # JobROM
  <2>1. ~HasROM(app.pack)
    BY <1>2, <1>8 DEF PatchInv, Active, Exporting, StrictJob
  <2>2. ~(e.stem = "program" /\ e.ext = ".rom")
    BY <1>2, <1>3, <2>1, NoProgramROM
  <2> QED BY <1>2, <1>3, <1>7, <2>2, EntryIsNotROM
<1> HIDE DEF name, e
<1>9. /\ worker'[w].at \in {"iterate", "convert"}
      /\ worker'[w].at = "convert" => Converts(e) /\ worker'[w].path = path
  BY <1>1, <1>2, <1>4 DEF NoWork
<1>10. path[2] = name
  OBVIOUS
<1>11. ASSUME StrictJob
       PROVE  At(disk', <<JobDir, JobROM>>) = At(disk, <<JobDir, JobROM>>)
  <2>1. path # <<JobDir, JobROM>>
    BY <1>8, <1>11
  <2> HIDE DEF path
  <2> QED BY <1>5, <2>1, WriteFrame
<1> QED BY <1>6, <1>9, <1>10, <1>11

LEMMA PatchConvert ==
  ASSUME TypeOK, OwnInv, PatchInv, ~overlapped, NEW w \in Workers, Convert(w), ~Crash,
         Active(w)'
  PROVE  /\ worker'[w].at = "iterate"
         /\ At(disk', <<JobDir, JobROM>>) = At(disk, <<JobDir, JobROM>>)
<1> DEFINE path == worker[w].path
           pcm == <<path[1], AsPcm(path[2])>>
           rom == <<JobDir, JobROM>>
<1>1. worker \in [Workers -> WorkType] /\ worker[w].at = "convert"
  BY DEF TypeOK, Convert, WorkerAt
<1>2. path[2][2] # NoNumber
  BY <1>1 DEF PatchInv, Active, Exporting
<1>3. path # rom /\ pcm # rom
  <2>1. rom[2][2] = NoNumber /\ pcm[2][2] = path[2][2]
    BY <1>1, PlaceOfGame DEF Exporting, AsPcm
  <2> HIDE DEF rom, pcm, path
  <2> QED BY <1>2, <2>1
<1>4. PICK d \in Wav2msu(path) : disk' = d \/ disk' = RemoveFile(d, path)
  BY Zenon DEF Convert
<1>5. d = disk \/ \E c : d = WriteFile(disk, pcm, c)
  BY Zenon DEF Wav2msu
<1>6. worker'[w].at = "iterate"
  BY <1>1 DEF Convert, NoWork, Active, Exporting
<1> HIDE DEF path, pcm, rom
<1>7. At(d, rom) = At(disk, rom)
  BY <1>3, <1>5, WriteFrame
<1>8. At(disk', rom) = At(disk, rom)
  BY <1>3, <1>4, <1>7, RemoveFrame
<1> QED BY <1>6, <1>8 DEF rom

LEMMA PatchRenameROM ==
  ASSUME TypeOK, OwnInv, PatchInv, ~overlapped, NEW w \in Workers, RenameROM(w), StrictJob
  PROVE  At(disk', Final(JobROM)) = <<"patched", job.pack>>
<1> DEFINE from == <<app.destination, ProgramRom>>
           to == <<app.destination, Sfc(app.outputName)>>
<1>1. worker[w].at = "rename1" /\ Exporting(w) /\ Active(w)
  BY DEF RenameROM, WorkerAt, Exporting, Active
<1>2. app.exportMethod = SD2SNES /\ app.forceManifest
  BY <1>1 DEF OwnInv
<1>3. /\ job.exportMethod = app.exportMethod /\ job.forceManifest = app.forceManifest
      /\ job.outputName = app.outputName
      /\ At(disk, Where(w)) = <<"patched", job.pack>>
  BY <1>1 DEF PatchInv
<1>4. JobDir = app.destination /\ JobROM = ProgramRom
  BY <1>1, <1>2, PlaceOfGame DEF ROMName
<1>5. Where(w) = from
  BY <1>1, <1>4 DEF Where
<1>6. Forced /\ FinalName(JobROM) = Sfc(app.outputName) /\ to = SfcPath
  BY <1>2, <1>3, <1>4 DEF FinalName, Forced, SfcPath
<1>7. from # to
  BY DEF ProgramRom, Sfc
<1>8. <<"patched", job.pack>> # NoEntry
  BY DEF NoEntry
<1>9. disk' = RenameFile(disk, from, to)
  BY DEF RenameROM
<1>10. Stays(JobROM) <=> ~RenameReplaces /\ Exists(disk, to)
  <2>1. Exists(disk, to) <=> to \in job.present
    BY <1>1, <1>6 DEF PatchInv, Targets
  <2> QED BY <1>4, <1>6, <2>1 DEF Stays
<1>11. Final(JobROM) = IF Stays(JobROM) THEN from ELSE to
  BY <1>4, <1>6 DEF Final
<1> HIDE DEF from, to
<1>12. At(disk, from) = <<"patched", job.pack>>
  BY <1>3, <1>5
<1>13. CASE Stays(JobROM)
  BY <1>9, <1>10, <1>11, <1>12, <1>13, RenameFails
<1>14. CASE ~Stays(JobROM)
  <2>1. At(disk', to) = At(disk, from)
    BY <1>7, <1>8, <1>9, <1>10, <1>12, <1>14, RenameMoves
  <2> QED BY <1>11, <1>12, <1>14, <2>1
<1> QED BY <1>13, <1>14

LEMMA PatchRenameMsu1 ==
  ASSUME TypeOK, OwnInv, PatchInv, ~overlapped, NEW w \in Workers, RenameMsu1(w), StrictJob
  PROVE  At(disk', Final(JobROM)) = <<"patched", job.pack>>
<1> DEFINE from == <<app.destination, Msu1Rom>>
           to == <<app.destination, Msu(app.outputName)>>
<1>1. worker[w].at = "rename2" /\ Exporting(w) /\ Active(w)
  BY DEF RenameMsu1, WorkerAt, Exporting, Active
<1>2. app.exportMethod = SD2SNES /\ app.forceManifest
  BY <1>1 DEF OwnInv
<1>3. /\ job.exportMethod = app.exportMethod /\ job.forceManifest = app.forceManifest
      /\ job.outputName = app.outputName
      /\ At(disk, Final(JobROM)) = <<"patched", job.pack>>
  BY <1>1 DEF PatchInv, Where
<1>4. JobDir = app.destination /\ JobROM = ProgramRom
  BY <1>1, <1>2, PlaceOfGame DEF ROMName
<1>5. Final(JobROM)[2] \in {ProgramRom, Sfc(app.outputName)}
  BY <1>2, <1>3, <1>4 DEF Final, FinalName, Forced
<1>6. Final(JobROM) # from /\ Final(JobROM) # to
  BY <1>5 DEF Sfc, Msu, Msu1Rom, ProgramRom
<1>7. disk' = RenameFile(disk, from, to)
  BY DEF RenameMsu1
<1> HIDE DEF from, to
<1> QED BY <1>3, <1>6, <1>7, RenameFrame

(* Where nothing is renamed, the game is in its final place at once.       *)
LEMMA PlaceIsFinal ==
  ASSUME ~Forced
  PROVE  Final(JobROM) = <<JobDir, JobROM>>
BY DEF Final, FinalName

(* Until the renames no step makes or removes their targets.               *)
LEMMA TargetsWork ==
  ASSUME TypeOK, OwnInv, PatchInv, ~overlapped, NEW w \in Workers, ~Crash, Forced,
         Exporting(w), Exporting(w)', job' = job,
         Iterate(w) \/ Convert(w) \/ Finish(w) \/ RenameROM(w) \/ RenameMsu1(w)
  PROVE  Targets(w)'
<1>1. worker \in [Workers -> WorkType] /\ app \in AppType
  BY DEF TypeOK
<1>2. /\ job.exportMethod = app.exportMethod /\ job.forceManifest = app.forceManifest
      /\ job.outputName = app.outputName /\ JobDir = app.destination
      /\ Targets(w)
      /\ worker[w].at = "convert" => worker[w].path[2][2] # NoNumber
  BY PlaceOfGame DEF PatchInv, Active
<1>3. SfcPath' = SfcPath /\ MsuPath' = MsuPath
  BY DEF SfcPath, MsuPath, JobDir
<1>4. /\ SfcPath[2][2] = NoNumber /\ SfcPath[2] # Msu1Rom /\ SfcPath[2] # NoName
      /\ MsuPath[2][2] = NoNumber /\ MsuPath[2] # Msu1Rom /\ MsuPath[2] # NoName
      /\ MsuPath[2] # ProgramRom /\ MsuPath # SfcPath
  BY DEF SfcPath, MsuPath, Sfc, Msu, Msu1Rom, ProgramRom, NoName
<1>5. CASE Iterate(w)
  <2> DEFINE e == Files(app.pack)[app.zipIndex + 1]
             name == ExportName(e, app.exportMethod, app.forceManifest, app.outputName)
             path == <<app.destination, name>>
  <2>1. worker[w].at = "iterate" /\ e \in Entry
    <3>1. app.zipIndex \in Nat /\ app.zipIndex < Len(Files(app.pack))
          /\ Files(app.pack) \in Seq(Entry)
      BY <1>1, <1>5, AppFields, FilesType DEF Iterate
    <3> QED BY <1>5, <3>1 DEF Iterate, WorkerAt
  <2>2. disk' = disk \/ \E c : disk' = WriteFile(disk, path, c)
    BY <1>5, Zenon DEF Iterate
  <2>3. worker'[w].at # "rename2"
    BY <1>5, PatchIterate
  <2>4. name[2] # NoNumber \/ name = NoName \/ name = Msu1Rom
    <3>1. app.exportMethod = SD2SNES /\ app.forceManifest = TRUE
      BY <1>1, <1>2, AppFields DEF Forced
    <3>2. CASE IsTrack(e)
      BY <1>1, <2>1, <3>2, AppFields, TrackNames
    <3>3. CASE ~IsTrack(e)
      <4> HIDE DEF e
      <4> QED BY <3>1, <3>3 DEF ExportName, GamePak, SD2SNES
    <3> QED BY <3>2, <3>3
  <2>5. path[2] = name
    OBVIOUS
  <2> HIDE DEF name, path
  <2>6. path # SfcPath /\ path # MsuPath
    BY <1>4, <2>4, <2>5
  <2>7. /\ Exists(disk', SfcPath) <=> Exists(disk, SfcPath)
        /\ Exists(disk', MsuPath) <=> Exists(disk, MsuPath)
    BY <2>2, <2>6, WriteExists
  <2> QED BY <1>2, <1>3, <2>1, <2>3, <2>7 DEF Targets
<1>6. CASE Convert(w)
  <2> DEFINE path == worker[w].path
             pcm == <<path[1], AsPcm(path[2])>>
  <2>1. worker[w].at = "convert"
    BY <1>6 DEF Convert, WorkerAt
  <2>2. path[2][2] # NoNumber /\ pcm[2][2] = path[2][2]
    BY <1>2, <2>1 DEF AsPcm
  <2>3. PICK d \in Wav2msu(path) : disk' = d \/ disk' = RemoveFile(d, path)
    BY <1>6, Zenon DEF Convert
  <2>4. d = disk \/ \E c : d = WriteFile(disk, pcm, c)
    BY Zenon DEF Wav2msu
  <2>5. worker'[w].at # "rename2"
    BY <1>1, <1>6, Zenon DEF Convert, NoWork
  <2> HIDE DEF path, pcm
  <2>6. path # SfcPath /\ path # MsuPath /\ pcm # SfcPath /\ pcm # MsuPath
    BY <1>4, <2>2
  <2>7. /\ Exists(disk', SfcPath) <=> Exists(disk, SfcPath)
        /\ Exists(disk', MsuPath) <=> Exists(disk, MsuPath)
    BY <2>3, <2>4, <2>6, WriteExists, RemoveExists
  <2> QED BY <1>2, <1>3, <2>1, <2>5, <2>7 DEF Targets
<1>7. CASE Finish(w)
  <2>1. disk' = disk /\ worker[w].at = "iterate"
    BY <1>7 DEF Finish, WorkerAt
  <2> QED BY <1>2, <1>3, <2>1 DEF Targets
<1>8. CASE RenameROM(w)
  <2> DEFINE from == <<app.destination, ProgramRom>>
             to == <<app.destination, Sfc(app.outputName)>>
  <2>1. worker'[w].at = "rename2" /\ disk' = RenameFile(disk, from, to)
    BY <1>1, <1>8 DEF RenameROM, Moved, WorkType
  <2>2. MsuPath # from /\ MsuPath # to
    BY <1>2, <1>4 DEF SfcPath
  <2> HIDE DEF from, to
  <2>3. Exists(disk', MsuPath) <=> Exists(disk, MsuPath)
    BY <2>1, <2>2, RenameKeeps
  <2> QED BY <1>2, <1>3, <2>1, <2>3 DEF Targets
<1>9. CASE RenameMsu1(w)
  <2>1. worker'[w].at = "reset1"
    BY <1>1, <1>9 DEF RenameMsu1, Moved, WorkType
  <2> QED BY <2>1 DEF Exporting
<1> QED BY <1>5, <1>6, <1>7, <1>8, <1>9

(* A step of the export's worker keeps the game.                           *)
LEMMA PatchWork ==
  ASSUME TypeOK, OwnInv, PatchInv, ~overlapped, NEW w \in Workers, ~Crash, Active(w)',
         Iterate(w) \/ Convert(w) \/ Finish(w) \/ RenameROM(w) \/ RenameMsu1(w)
  PROVE  /\ worker'[w].at = "convert" => worker'[w].path[2][2] # NoNumber
         /\ job' = job
         /\ Forced /\ Exporting(w)' => Targets(w)'
         /\ StrictJob => At(disk', Where(w)') = <<"patched", job.pack>>
<1> worker \in [Workers -> WorkType]
  BY DEF TypeOK
<1>1. job' = job /\ Exporting(w) /\ Active(w)
  BY DEF Iterate, Convert, Finish, RenameROM, RenameMsu1, WorkerAt, Exporting, Active,
     history
<1>2. (JobDir' = JobDir) /\ (JobROM' = JobROM) /\ (Final(JobROM)' = Final(JobROM))
  BY <1>1 DEF JobDir, JobROM, Final, FinalName, Stays, Forced
<1>t. Forced /\ Exporting(w)' => Targets(w)'
  BY <1>1, TargetsWork
<1>3. StrictJob => At(disk, Where(w)) = <<"patched", job.pack>>
  BY <1>1 DEF PatchInv
<1>4. CASE Iterate(w)
  <2>1. Where(w) = <<JobDir, JobROM>>
    BY <1>4 DEF Iterate, WorkerAt, Where
  <2>2. Where(w)' = <<JobDir, JobROM>>
    BY <1>2, <1>4, PatchIterate DEF Where
  <2> QED BY <1>1, <1>3, <1>4, <1>t, <2>1, <2>2, PatchIterate
<1>5. CASE Convert(w)
  <2>1. Where(w) = <<JobDir, JobROM>>
    BY <1>5 DEF Convert, WorkerAt, Where
  <2>2. Where(w)' = <<JobDir, JobROM>> /\ worker'[w].at # "convert"
    BY <1>2, <1>5, PatchConvert DEF Where
  <2> QED BY <1>1, <1>3, <1>5, <1>t, <2>1, <2>2, PatchConvert
<1>6. CASE Finish(w)
  <2>1. Where(w) = <<JobDir, JobROM>> /\ disk' = disk
    BY <1>6 DEF Finish, WorkerAt, Where
  <2>2. worker'[w].at = IF Forced THEN "rename1" ELSE "reset1"
    BY <1>1, <1>6 DEF Finish, Moved, Forced, PatchInv, WorkType
  <2>3. Where(w)' = <<JobDir, JobROM>>
    BY <1>2, <2>2, PlaceIsFinal DEF Where
  <2> QED BY <1>1, <1>3, <1>t, <2>1, <2>2, <2>3
<1>7. CASE RenameROM(w) \/ RenameMsu1(w)
  <2>1. worker'[w].at \in {"rename2", "reset1"}
    BY <1>7 DEF RenameROM, RenameMsu1, Moved, WorkType
  <2>2. Where(w)' = Final(JobROM)
    BY <1>2, <2>1 DEF Where
  <2> QED BY <1>1, <1>7, <1>t, <2>1, <2>2, PatchRenameROM, PatchRenameMsu1
<1> QED BY <1>4, <1>5, <1>6, <1>7

(* An export that has just succeeded was under way.                        *)
LEMMA SuccessIsEarned ==
  ASSUME TypeOK, LockInv, [Next]_vars, ~overlapped', NEW w \in Workers,
         worker'[w].at = "reset1", ~worker'[w].failed
  PROVE  Active(w) /\ ~overlapped
<1> worker \in [Workers -> WorkType]
  BY DEF TypeOK
<1>1. ~Crash /\ ~Ends("exited")
  BY DEF Crash, Ends, NoWork
<1>2. ASSUME worker'[w] = worker[w], overlapped' = overlapped
      PROVE  Active(w) /\ ~overlapped
  BY <1>2 DEF Active
<1>3. ASSUME NEW faults, NEW s, Callback(faults, s) PROVE Active(w) /\ ~overlapped
  BY <1>1, <1>2, <1>3 DEF Callback, history
<1>4. ASSUME NEW v \in Workers, ClickExport(v) PROVE Active(w) /\ ~overlapped
  <2>1. ~overlapped /\ worker'[w] = worker[w]
    BY <1>1, <1>4 DEF ClickExport, NoWork, TypeOK
  <2> QED BY <2>1 DEF Active
<1>5. CASE UserStep
  BY <1>1, <1>3, <1>4, <1>5 DEF UserStep, ChangePackPath, ChangeRomPath,
     ChangeOutputName, ChooseMethod, ToggleCreateManifest, ToggleForceManifest,
     ToggleViolateBPS, Quit
<1>6. CASE DismissDialog \/ RaceCrash \/ UNCHANGED vars
  <2>1. CASE DismissGuiDialog
    BY <1>2, <2>1 DEF DismissGuiDialog
  <2>2. ASSUME NEW v \in Workers, DismissWorkerDialog(v)
        PROVE  worker'[w] = worker[w] /\ overlapped' = overlapped
    BY <2>2 DEF DismissWorkerDialog, NoWork, history
  <2> QED BY <1>1, <1>2, <1>6, <2>1, <2>2 DEF DismissDialog, RaceCrash, vars
<1>7. ASSUME NEW v \in Workers, WorkerStep(v) PROVE Active(w) /\ ~overlapped
  <2>1. overlapped' = overlapped
    BY <1>7 DEF WorkerStep, Iterate, Convert, Finish, RenameROM, RenameMsu1,
       ResetPack, ResetTexts, ResetBasic, ResetAdvanced, ResetStep, ResetExport, history
  <2>2. CASE Iterate(v) \/ Convert(v) \/ Finish(v) \/ RenameROM(v) \/ RenameMsu1(v)
    <3>1. CASE v = w
      BY <2>1, <2>2, <3>1 DEF Iterate, Convert, Finish, RenameROM, RenameMsu1,
         WorkerAt, Exporting, Active
    <3>2. CASE v # w
      <4>1. worker'[w] = worker[w]
        BY <1>1, <2>2, <3>2 DEF Iterate, Convert, Finish, RenameROM, RenameMsu1, Moved
      <4> QED BY <1>2, <2>1, <4>1
    <3> QED BY <3>1, <3>2
  <2>3. CASE ResetPack(v) \/ ResetTexts(v) \/ ResetBasic(v) \/ ResetAdvanced(v)
             \/ ResetExport(v)
    <3>1. worker'[w] = worker[w] \/ worker'[w].at # "reset1"
      BY <1>1, <2>3 DEF ResetPack, ResetTexts, ResetBasic, ResetAdvanced, ResetExport,
         ResetStep, Moved, NoWork, WorkType
    <3> QED BY <1>2, <2>1, <3>1
  <2> QED BY <1>7, <2>2, <2>3 DEF WorkerStep
<1>8. CASE EnvironmentStep
  <2>1. ASSUME NEW p, NEW r PROVE ~Restart(p, r)
    BY DEF Restart, LockInv, Idle
  <2> QED BY <1>2, <1>8, <2>1 DEF EnvironmentStep, ChangeRomFile, history
<1> QED BY <1>5, <1>6, <1>7, <1>8 DEF Next

LEMMA PatchStep ==
  ASSUME TypeOK, LockInv, OwnInv, Cached(app), DialogInv, PatchInv, [Next]_vars
  PROVE  PatchInv'
<1> DEFINE Same == /\ job.pack = app.pack /\ job.exportMethod = app.exportMethod
                   /\ job.forceManifest = app.forceManifest
                   /\ job.outputName = app.outputName
<1> SUFFICES ASSUME ~overlapped', NEW w \in Workers, Active(w)'
             PROVE  /\ Same'
                    /\ worker'[w].at = "convert" => worker'[w].path[2][2] # NoNumber
                    /\ Forced' /\ Exporting(w)' => Targets(w)'
                    /\ StrictJob' => At(disk', Where(w)') = <<"patched", job'.pack>>
  BY DEF PatchInv
<1>1. LockInv' /\ proc' = "running"
  <2>1. LockInv'
    BY LockStep
  <2> QED BY <2>1 DEF LockInv, Idle, Active, Exporting
<1>2. CASE Exporting(w)' /\ ~(Exporting(w) /\ ~overlapped)
  <2>1. ClickExport(w) /\ app' = Begun(app) /\ worker'[w].at = "iterate"
    BY <1>2, ExportBegins
  <2> QED BY <2>1, PatchClick
<1>3. CASE Active(w) /\ ~overlapped
  <2>1. ~Crash
    BY <1>1 DEF Crash, Ends
  <2>2. Same /\ (worker[w].at = "convert" => worker[w].path[2][2] # NoNumber)
        /\ (Forced /\ Exporting(w) => Targets(w))
        /\ (StrictJob => At(disk, Where(w)) = <<"patched", job.pack>>)
    BY <1>3 DEF PatchInv
  <2>3. CASE UNCHANGED <<app, job, disk>> /\ worker'[w] = worker[w]
    <3>1. Where(w)' = Where(w) /\ (StrictJob' <=> StrictJob) /\ (Forced' <=> Forced)
      BY <2>3 DEF Where, Final, FinalName, Stays, Forced, JobDir, JobROM, StrictJob
    <3>2. (Targets(w)' <=> Targets(w)) /\ (Exporting(w)' <=> Exporting(w))
      BY <2>3 DEF Targets, SfcPath, MsuPath, JobDir, Exporting
    <3> QED BY <2>2, <2>3, <3>1, <3>2
  <2>4. CASE Iterate(w) \/ Convert(w) \/ Finish(w) \/ RenameROM(w) \/ RenameMsu1(w)
    <3>1. Exporting(w)
      BY <2>4 DEF Iterate, Convert, Finish, RenameROM, RenameMsu1, WorkerAt, Exporting
    <3>2. Settings' = Settings
      BY <1>1, <1>3, <3>1, FrozenStep
    <3>3. /\ app'.pack = app.pack /\ app'.exportMethod = app.exportMethod
          /\ app'.forceManifest = app.forceManifest /\ app'.outputName = app.outputName
          /\ app'.violateBPS = app.violateBPS
      BY <3>2 DEF Settings
    <3>4. /\ worker'[w].at = "convert" => worker'[w].path[2][2] # NoNumber
          /\ job' = job
          /\ Forced /\ Exporting(w)' => Targets(w)'
          /\ StrictJob => At(disk', Where(w)') = <<"patched", job.pack>>
      BY <1>3, <2>1, <2>4, PatchWork
    <3>5. (StrictJob' <=> StrictJob) /\ (Forced' <=> Forced)
      BY <3>3, <3>4 DEF StrictJob, Forced
    <3> QED BY <2>2, <3>3, <3>4, <3>5
  <2> QED BY <1>3, <2>3, <2>4, WorkerAlone
<1>4. CASE ~Exporting(w)' /\ ~(Active(w) /\ ~overlapped)
  <2>1. worker'[w].at = "reset1" /\ ~worker'[w].failed
    BY <1>4 DEF Active
  <2>2. FALSE
    BY <1>1, <1>4, <2>1, SuccessIsEarned
  <2> QED BY <2>2
<1> QED BY <1>2, <1>3, <1>4 DEF Active

LEMMA PatchInit == Init => Cached(app) /\ DialogInv /\ PatchInv
<1>1. Init => Cached(app)
  BY CachedStarted DEF Init, Start
<1>2. Init => DialogInv /\ PatchInv
  BY DEF Init, NoWork, DialogInv, PatchInv, Active, Exporting
<1> QED BY <1>1, <1>2

(* The cached patch is the opened pack's, and the export under way has the *)
(* game that was patched when Export was clicked.                          *)
THEOREM PatchInvariance ==
  Spec => [](TypeOK /\ LockInv /\ OwnInv /\ Cached(app) /\ DialogInv /\ PatchInv)
<1>1. TypeOK /\ LockInv /\ OwnInv /\ Cached(app) /\ DialogInv /\ PatchInv /\ [Next]_vars
        => Cached(app)' /\ DialogInv' /\ PatchInv'
  BY CachedStep, DialogStep, PatchStep
<1> QED BY <1>1, PatchInit, OwnInvariance, PTL DEF Spec

(* A commercial pack exported within the BPS rules is the game that its    *)
(* own patch makes from the ROM it was made for.                           *)
THEOREM PatchIsExact == Spec => []StrictPatchIsExact
<1>1. PatchInv => StrictPatchIsExact
  <2> SUFFICES ASSUME PatchInv, NEW w \in Workers, Delivered(w), StrictJob
               PROVE  FinalROM = <<"patched", job.pack>>
    BY DEF StrictPatchIsExact, StrictJob
  <2>1. Active(w) /\ ~overlapped /\ worker[w].at = "reset1"
    BY DEF Delivered, Active
  <2>2. At(disk, Where(w)) = <<"patched", job.pack>> /\ Where(w) = Final(JobROM)
    BY <2>1 DEF PatchInv, Where
  <2> QED BY <2>2 DEF FinalROM, JobROM
<1> QED BY <1>1, PatchInvariance, PTL

-------------------------------------------------------------------------------
(* Completeness and the manifest.                                          *)
USE DEF GamePak, SD2SNES

Entries == Files(job.pack)

(* The entries that are exported under a name, the .pcm that a track is    *)
(* converted to, and the name under which an entry stays.                  *)
Named(i) == i \in DOMAIN Entries /\ NameOf(Entries[i]) # NoName
Source(i) == NameOf(Entries[i])
Pcm(i)    == AsPcm(Source(i))
Slot(i)   == IF Converts(Entries[i]) THEN Pcm(i) ELSE Source(i)

(* Where a name lies by now: the two renames of a forced manifest.         *)
Renamed(w, name) ==
  /\ ~Stays(name)
  /\ \/ name = ProgramRom /\ worker[w].at \in {"rename2", "reset1"}
     \/ name = Msu1Rom /\ worker[w].at = "reset1"
Here(w, name) == <<JobDir, IF Renamed(w, name) THEN FinalName(name) ELSE name>>

(* The entries that are through, the conversion of tracks included.        *)
Done(w, i) ==
  /\ Named(i) /\ i <= app.zipIndex
  /\ ~(worker[w].at = "convert" /\ i = app.zipIndex)

Kept(w, i) ==
  IF Converts(Entries[i])
  THEN /\ \/ At(disk, <<JobDir, Pcm(i)>>) = <<"pcm", job.pack, i>>
          \/ <<JobDir, Pcm(i)>> \in job.present
       /\ ~Exists(disk, <<JobDir, Source(i)>>)
  ELSE At(disk, Here(w, Source(i))) = <<"entry", job.pack, i>>

(* A numbered file that was not there before the click is one of this      *)
(* export's entries: so a .pcm that is there when wav2msu fails is old.    *)
Accounted(w, path) ==
  \/ path \in job.present
  \/ path[2][2] = NoNumber
  \/ \E i \in DOMAIN Entries :
       Named(i) /\ i <= app.zipIndex /\ path = <<JobDir, Source(i)>>
  \/ \E i \in DOMAIN Entries :
       Done(w, i) /\ Converts(Entries[i]) /\ path = <<JobDir, Pcm(i)>>

Copied(w) ==
  /\ app.zipIndex <= Len(Entries)
  /\ worker[w].at \in {"rename1", "rename2", "reset1"} => app.zipIndex = Len(Entries)
  /\ worker[w].at = "convert" =>
       /\ Named(app.zipIndex) /\ Converts(Entries[app.zipIndex])
       /\ worker[w].path = <<JobDir, Source(app.zipIndex)>>
       /\ At(disk, worker[w].path) = <<"entry", job.pack, app.zipIndex>>
  /\ \A path \in DOMAIN disk : Accounted(w, path)
  /\ WellFormed(job.pack) => \A i \in DOMAIN Entries : Done(w, i) => Kept(w, i)

(* The inductive invariant of completeness.                                *)
CopyInv == ~overlapped => \A w \in Workers : Active(w) => Copied(w)

-------------------------------------------------------------------------------
(* Names.                                                                  *)
LEMMA NumberedTrack ==
  ASSUME NEW e \in Entry, IsTrack(e), NEW m \in Methods, NEW force \in BOOLEAN, NEW out
  PROVE  /\ ExportName(e, m, force, out)[2] = TrackID(e)
         /\ ExportName(e, m, force, out)[3] = e.ext
         /\ TrackID(e) # NoNumber
<1>1. TrackID(e) # NoNumber
  BY TrackIDType, TracksAreNumbered
<1>2. CASE m = GamePak
  BY <1>1, <1>2 DEF ExportName
<1>3. CASE m = SD2SNES
  <2>1. m # GamePak /\ ~(e.stem = "msu1" /\ e.ext = ".rom")
    BY <1>3 DEF IsTrack, TrackExts
  <2> QED BY <1>1, <1>3, <2>1 DEF ExportName
<1> QED BY <1>2, <1>3 DEF Methods

LEMMA NoNames ==
  /\ NoName[2] = NoNumber /\ NoName[3] \notin TrackExts
  /\ Msu1Rom[2] = NoNumber /\ Msu1Rom[3] \notin TrackExts
  /\ \A out : Msu(out)[2] = NoNumber /\ Msu(out)[3] \notin TrackExts
BY DEF NoName, Msu1Rom, Msu, TrackExts

LEMMA OtherName ==
  ASSUME NEW e \in Entry, ~IsTrack(e), NEW m \in Methods, NEW force \in BOOLEAN, NEW out
  PROVE  /\ ExportName(e, m, force, out)[2] = NoNumber
         /\ ExportName(e, m, force, out)[3] \notin TrackExts
<1>1. /\ ExportName(e, m, force, out) \in
           {NoName, <<e.stem, NoNumber, e.ext>>, Msu1Rom, Msu(out)}
  BY DEF ExportName
<1>2. e.ext \notin TrackExts
  BY DEF IsTrack
<1> QED BY <1>1, <1>2, NoNames

(* The suffix tells what is converted.                                     *)
LEMMA NameSuffixes ==
  ASSUME NEW e \in Entry, NEW m \in Methods, NEW force \in BOOLEAN, NEW out
  PROVE  /\ Converts(e) <=> ExportName(e, m, force, out)[3] \in TrackExts \ {".pcm"}
         /\ IsTrack(e) <=> ExportName(e, m, force, out)[2] # NoNumber
<1>1. CASE IsTrack(e)
  BY <1>1, NumberedTrack DEF Converts, IsTrack
<1>2. CASE ~IsTrack(e)
  BY <1>2, OtherName DEF Converts, IsTrack
<1> QED BY <1>1, <1>2 DEF Converts, IsTrack

(* With a forced manifest only msu1.rom and tracks have a name.            *)
LEMMA ForcedName ==
  ASSUME NEW e \in Entry, ~IsTrack(e), NEW out
  PROVE  ExportName(e, SD2SNES, TRUE, out) \in {NoName, Msu1Rom}
BY DEF ExportName

-------------------------------------------------------------------------------
(* The entries of the export under way.                                    *)
LEMMA EntryFacts ==
  ASSUME TypeOK, NEW i \in DOMAIN Entries
  PROVE  /\ Entries[i] \in Entry /\ i \in Nat /\ i \in 1..Len(Entries)
         /\ job.exportMethod \in Methods /\ job.forceManifest \in BOOLEAN
         /\ job.outputName \in OutputNames
         /\ Source(i) = ExportName(Entries[i], job.exportMethod, job.forceManifest,
                                  job.outputName)
<1>1. job \in JobType
  BY DEF TypeOK
<1>2. Entries \in Seq(Entry)
  BY <1>1, FilesType DEF JobType, Entries
<1> HIDE DEF Entries
<1> QED BY <1>1, <1>2 DEF JobType, Source, NameOf

LEMMA SlotSuffix ==
  ASSUME TypeOK, NEW i \in DOMAIN Entries
  PROVE  /\ Slot(i)[3] \notin TrackExts \ {".pcm"}
         /\ Converts(Entries[i]) <=> Source(i)[3] \in TrackExts \ {".pcm"}
         /\ IsTrack(Entries[i]) <=> Source(i)[2] # NoNumber
         /\ Slot(i)[2] = Source(i)[2]
<1>1. /\ Converts(Entries[i]) <=> Source(i)[3] \in TrackExts \ {".pcm"}
      /\ IsTrack(Entries[i]) <=> Source(i)[2] # NoNumber
  BY EntryFacts, NameSuffixes
<1>2. Pcm(i)[3] = ".pcm" /\ Pcm(i)[2] = Source(i)[2]
  BY DEF Pcm, AsPcm
<1> QED BY <1>1, <1>2 DEF Slot

(* In a well-formed pack no entry comes to lie where another one does.     *)
LEMMA SlotsDiffer ==
  ASSUME WellFormed(job.pack), NEW i, NEW j, Named(i), Named(j), i # j
  PROVE  Slot(i) # Slot(j)
<1>1. FinalOf(Entries[i]) # FinalOf(Entries[j])
  BY DEF WellFormed, Named, Entries
<1>2. FinalOf(Entries[i]) = Final(Slot(i)) /\ FinalOf(Entries[j]) = Final(Slot(j))
  BY DEF FinalOf, Slot, Pcm, Source
<1> QED BY <1>1, <1>2

LEMMA SourceIsNoSlot ==
  ASSUME TypeOK, NEW i, NEW j, Named(i), Named(j), Converts(Entries[i])
  PROVE  Source(i) # Slot(j)
BY SlotSuffix DEF Named

LEMMA SourcesDiffer ==
  ASSUME TypeOK, WellFormed(job.pack), NEW i, NEW j, Named(i), Named(j), i # j
  PROVE  Source(i) # Source(j)
<1> SUFFICES ASSUME Source(i) = Source(j) PROVE Slot(i) = Slot(j)
  BY SlotsDiffer
<1>1. Converts(Entries[i]) <=> Converts(Entries[j])
  BY SlotSuffix DEF Named
<1> QED BY <1>1 DEF Slot, Pcm

(* A name that is no image's and not msu1.rom is not renamed.              *)
LEMMA HereIsPlain ==
  ASSUME NEW w, NEW name, worker[w].at \notin {"rename2", "reset1"}
  PROVE  Here(w, name) = <<JobDir, name>>
BY DEF Here, Renamed

LEMMA JobStays ==
  ASSUME job' = job
  PROVE  /\ Entries' = Entries /\ JobDir' = JobDir /\ (Forced' <=> Forced)
         /\ WellFormed(job.pack)' <=> WellFormed(job.pack)
         /\ \A i : /\ Named(i)' <=> Named(i)
                  /\ Source(i)' = Source(i) /\ Pcm(i)' = Pcm(i)
         /\ \A name : FinalName(name)' = FinalName(name) /\ (Stays(name)' <=> Stays(name))
<1>1. JobDir' = JobDir /\ (Forced' <=> Forced)
  BY DEF JobDir, Forced
<1>2. \A name : FinalName(name)' = FinalName(name)
  BY <1>1 DEF FinalName
<1>3. \A name : Stays(name)' <=> Stays(name)
  BY <1>1, <1>2 DEF Stays
<1>4. \A name : Final(name)' = Final(name)
  BY <1>1, <1>2, <1>3 DEF Final
<1>5. \A e : NameOf(e)' = NameOf(e)
  BY DEF NameOf
<1>6. \A e : FinalOf(e)' = FinalOf(e)
  BY <1>4, <1>5 DEF FinalOf
<1>7. Entries' = Entries
  BY DEF Entries
<1> QED BY <1>1, <1>2, <1>3, <1>5, <1>6, <1>7 DEF WellFormed, Named, Source, Pcm

LEMMA Present ==
  ASSUME NEW d, NEW path, At(d, path) # NoEntry
  PROVE  Exists(d, path)
BY DEF At

LEMMA ContentIsSomething ==
  /\ \A p, i : <<"entry", p, i>> # NoEntry /\ <<"pcm", p, i>> # NoEntry
BY DEF NoEntry
-------------------------------------------------------------------------------
(* The settings of a running export are its job's.                         *)
LEMMA JobIsApp ==
  ASSUME TypeOK, OwnInv, PatchInv, ~overlapped, NEW w \in Workers, Exporting(w)
  PROVE  /\ app.pack = job.pack /\ app.exportMethod = job.exportMethod
         /\ app.forceManifest = job.forceManifest /\ app.outputName = job.outputName
         /\ app.destination = JobDir /\ app.zipIndex \in Nat
         /\ Files(app.pack) = Entries
<1>1. /\ app.pack = job.pack /\ app.exportMethod = job.exportMethod
      /\ app.forceManifest = job.forceManifest /\ app.outputName = job.outputName
  BY DEF PatchInv, Active
<1>2. app.zipIndex \in Nat
  BY AppFields DEF TypeOK
<1> QED BY <1>1, <1>2, PlaceOfGame DEF Entries

(* One entry, as the export's bookkeeping sees it.                         *)
LEMMA IterateEffect ==
  ASSUME TypeOK, OwnInv, PatchInv, ~overlapped, NEW w \in Workers, Iterate(w), ~Crash,
         NEW i, i = app.zipIndex + 1
  PROVE  /\ i \in DOMAIN Entries /\ app'.zipIndex = i /\ job' = job
         /\ worker[w].at = "iterate"
         /\ worker'[w].at = IF Converts(Entries[i]) THEN "convert" ELSE "iterate"
         /\ Converts(Entries[i]) =>
              Named(i) /\ worker'[w].path = <<JobDir, Source(i)>>
         /\ disk' = IF Named(i)
                    THEN WriteFile(disk, <<JobDir, Source(i)>>, <<"entry", job.pack, i>>)
                    ELSE disk
         /\ app'.trackIDs = app.trackIDs \cup
              (IF IsTrack(Entries[i]) THEN {TrackID(Entries[i])} ELSE {})
<1> DEFINE e == Files(app.pack)[i]
           name == ExportName(e, app.exportMethod, app.forceManifest, app.outputName)
           path == <<app.destination, name>>
           ids == app.trackIDs \cup (IF IsTrack(e) THEN {TrackID(e)} ELSE {})
<1>1. worker \in [Workers -> WorkType] /\ app \in AppType
  BY DEF TypeOK
<1>2. worker[w].at = "iterate" /\ Exporting(w) /\ job' = job
  BY DEF Iterate, WorkerAt, Exporting, history
<1>3. /\ app.pack = job.pack /\ app.destination = JobDir /\ app.zipIndex \in Nat
      /\ Files(app.pack) = Entries
      /\ name = NameOf(e)
  BY <1>2, JobIsApp DEF NameOf
<1>4. i \in DOMAIN Entries
  <2>1. Entries \in Seq(Entry)
    BY <1>1, <1>3, FilesType, AppFields
  <2>2. app.zipIndex < Len(Entries)
    BY <1>3 DEF Iterate
  <2> QED BY <1>3, <2>1, <2>2
<1>5. name # NoName <=> Named(i)
  BY <1>3, <1>4 DEF Named
<1>6. Source(i) = name /\ Entries[i] = e
  BY <1>3 DEF Source
<1>7. /\ app' = [app EXCEPT !.zipIndex = i, !.trackIDs = ids]
      /\ disk' = IF name = NoName THEN disk
                 ELSE WriteFile(disk, path, <<"entry", app.pack, i>>)
      /\ worker' = IF Converts(e)
                   THEN [worker EXCEPT ![w] = [NoWork EXCEPT !.at = "convert", !.path = path]]
                   ELSE worker
  BY DEF Iterate
<1>8. Converts(e) => name # NoName
  <2>1. e \in Entry
    BY <1>4, <1>6, EntryFacts
  <2> QED BY <1>1, <2>1, ConvertedName, AppFields
<1> HIDE DEF e, name, ids
<1>9. app'.zipIndex = i /\ app'.trackIDs = ids
  BY <1>1, <1>7 DEF AppType
<1>10. /\ worker'[w].at = IF Converts(e) THEN "convert" ELSE "iterate"
       /\ Converts(e) => worker'[w].path = path
  BY <1>1, <1>2, <1>7 DEF NoWork
<1>11. path = <<JobDir, Source(i)>>
  BY <1>3, <1>6
<1> QED BY <1>2, <1>3, <1>4, <1>5, <1>6, <1>7, <1>8, <1>9, <1>10, <1>11 DEF ids

LEMMA CopyIterate ==
  ASSUME TypeOK, OwnInv, PatchInv, ~overlapped, NEW w \in Workers, Copied(w),
         Iterate(w), ~Crash
  PROVE  Copied(w)'
<1> DEFINE n == app.zipIndex
<1>0. n \in Nat
  BY AppFields DEF TypeOK
<1> PICK i \in Nat : i = n + 1
  BY <1>0
<1> DEFINE path == <<JobDir, Source(i)>>
           c == <<"entry", job.pack, i>>
<1>1. /\ i \in DOMAIN Entries /\ app'.zipIndex = i /\ job' = job
      /\ worker[w].at = "iterate"
      /\ worker'[w].at = IF Converts(Entries[i]) THEN "convert" ELSE "iterate"
      /\ Converts(Entries[i]) => Named(i) /\ worker'[w].path = path
      /\ disk' = IF Named(i) THEN WriteFile(disk, path, c) ELSE disk
  BY IterateEffect
<1>2. n \in Nat /\ i \in 1..Len(Entries)
  BY <1>0, <1>1, EntryFacts
<1>3. /\ Entries' = Entries /\ JobDir' = JobDir /\ (Forced' <=> Forced)
      /\ WellFormed(job.pack)' <=> WellFormed(job.pack)
      /\ \A j : Named(j)' <=> Named(j)
      /\ \A j : Source(j)' = Source(j) /\ Pcm(j)' = Pcm(j)
  BY <1>1, JobStays
<1>4. \A j \in DOMAIN Entries : j \in Nat
  BY EntryFacts
<1>5. \A j \in DOMAIN Entries : Done(w, j) => Done(w, j)'
  BY <1>1, <1>2, <1>3, <1>4 DEF Done
<1>6. \A j \in DOMAIN Entries : Done(w, j)' => Done(w, j) \/ (j = i /\ ~Converts(Entries[i]))
  BY <1>1, <1>2, <1>3, <1>4 DEF Done
<1>7. ASSUME NEW q \in DOMAIN disk' PROVE Accounted(w, q)'
  <2>1. CASE q \in DOMAIN disk
    <3>1. Accounted(w, q)
      BY <2>1 DEF Copied
    <3>2. \A j \in DOMAIN Entries : j <= app.zipIndex => j <= app'.zipIndex
      BY <1>1, <1>2, <1>4     <3> QED BY <1>1, <1>3, <1>5, <3>1, <3>2 DEF Accounted
  <2>2. CASE q \notin DOMAIN disk
    <3>1. Named(i) /\ q = path
      BY <1>1, <1>7, <2>2 DEF WriteFile
    <3>2. i <= app'.zipIndex
      BY <1>1, <1>2
    <3> QED BY <1>1, <1>3, <3>1, <3>2 DEF Accounted
  <2> QED BY <2>1, <2>2
<1>8. ASSUME WellFormed(job.pack), NEW j \in DOMAIN Entries, Done(w, j)' PROVE Kept(w, j)'
  <2>1. CASE j = i /\ ~Converts(Entries[i])
    <3>1. Named(i) /\ Here(w, Source(i))' = path
      BY <1>1, <1>3, <1>8, <2>1, JobStays DEF Done, Here, Renamed
    <3>2. At(disk', path) = c
      BY <1>1, <3>1, WriteHits
    <3>3. Converts(Entries[j])' <=> Converts(Entries[j])
      BY <1>3
    <3>4. At(disk', Here(w, Source(j))') = <<"entry", job'.pack, j>>
      BY <1>1, <2>1, <3>1, <3>2
    <3> QED BY <1>3, <2>1, <3>4 DEF Kept
  <2>2. CASE Done(w, j)
    <3>1. Kept(w, j) /\ Named(j) /\ j # i
      BY <1>2, <1>4, <1>8, <2>2 DEF Copied, Done
    <3>2. CASE ~Named(i)
      <4>1. Here(w, Source(j))' = Here(w, Source(j))
        BY <1>1, <1>3, JobStays DEF Here, Renamed
      <4> QED BY <1>1, <1>3, <3>1, <3>2, <4>1 DEF Kept
    <3>3. CASE Named(i)
      <4>1. Source(i) # Source(j) /\ Source(i) # Slot(j)
        BY <1>8, <3>1, <3>3, SourcesDiffer, SourceIsNoSlot, SlotsDiffer DEF Slot
      <4>2. Here(w, Source(j)) = <<JobDir, Source(j)>>
            /\ Here(w, Source(j))' = <<JobDir, Source(j)>>
        BY <1>1, <1>3, JobStays DEF Here, Renamed
      <4>3. CASE Converts(Entries[j])
        <5>1. <<JobDir, Pcm(j)>> # path /\ <<JobDir, Source(j)>> # path
          BY <4>1, <4>3 DEF Slot
        <5> HIDE DEF path, c
        <5>2. /\ At(disk', <<JobDir, Pcm(j)>>) = At(disk, <<JobDir, Pcm(j)>>)
              /\ Exists(disk', <<JobDir, Source(j)>>) <=> Exists(disk, <<JobDir, Source(j)>>)
          BY <1>1, <5>1, WriteFrame, WriteExists
        <5> QED BY <1>1, <1>3, <3>1, <4>3, <5>2 DEF Kept
      <4>4. CASE ~Converts(Entries[j])
        <5>1. <<JobDir, Source(j)>> # path
          BY <4>1
        <5> HIDE DEF path, c
        <5>2. At(disk', <<JobDir, Source(j)>>) = At(disk, <<JobDir, Source(j)>>)
          BY <1>1, <5>1, WriteFrame
        <5>3. At(disk', Here(w, Source(j))') = <<"entry", job'.pack, j>>
          BY <1>1, <3>1, <4>2, <4>4, <5>2 DEF Kept
        <5> QED BY <1>3, <4>4, <5>3 DEF Kept
      <4> QED BY <4>3, <4>4
    <3> QED BY <3>2, <3>3
  <2> QED BY <1>6, <1>8, <2>1, <2>2
<1>9. /\ app'.zipIndex <= Len(Entries)
      /\ worker'[w].at = "convert" =>
           /\ Named(i) /\ Converts(Entries[i]) /\ worker'[w].path = path
           /\ At(disk', path) = c
  BY <1>1, <1>2, WriteHits
<1> QED BY <1>1, <1>3, <1>7, <1>8, <1>9 DEF Copied

(* A conversion that goes well.                                            *)
LEMMA ConvertEffect ==
  ASSUME TypeOK, ~overlapped, NEW w \in Workers, Copied(w), Convert(w), ~Crash, Active(w)',
         NEW i, i = app.zipIndex
  PROVE  /\ app' = app /\ job' = job
         /\ worker[w].at = "convert" /\ worker'[w].at = "iterate"
         /\ \E d : /\ \/ d = disk
                      \/ d = WriteFile(disk, <<JobDir, Pcm(i)>>, <<"pcm", job.pack, i>>)
                   /\ Exists(d, <<JobDir, Pcm(i)>>)
                   /\ disk' = RemoveFile(d, <<JobDir, Source(i)>>)
<1> DEFINE path == worker[w].path
           pcm == <<path[1], AsPcm(path[2])>>
<1>1. worker \in [Workers -> WorkType] /\ worker[w].at = "convert" /\ job' = job
  BY DEF TypeOK, Convert, WorkerAt, history
<1>2. path = <<JobDir, Source(i)>> /\ At(disk, path) = <<"entry", job.pack, i>>
  BY <1>1 DEF Copied
<1>3. pcm = <<JobDir, Pcm(i)>>
  BY <1>2 DEF Pcm
<1>4. disk[path] = <<"entry", job.pack, i>>
  BY <1>2, ContentIsSomething DEF At
<1> HIDE DEF path, pcm
<1>5. PICK d \in Wav2msu(path) :
        IF ~Exists(d, pcm)
        THEN worker' = [worker EXCEPT ![w] = [NoWork EXCEPT !.at = "reset1", !.failed = TRUE]]
        ELSE /\ disk' = RemoveFile(d, path)
             /\ \/ Crash
                \/ /\ worker' = [worker EXCEPT ![w] = [NoWork EXCEPT !.at = "iterate"]]
                   /\ app' = app
  BY Zenon DEF Convert, path, pcm
<1>6. Exists(d, pcm)
  BY <1>1, <1>5 DEF Active, Exporting, NoWork
<1>7. disk' = RemoveFile(d, path) /\ app' = app /\ worker'[w].at = "iterate"
  BY <1>1, <1>5, <1>6 DEF NoWork
<1>8. d = disk \/ d = WriteFile(disk, pcm, <<"pcm", disk[path][2], disk[path][3]>>)
  BY Zenon DEF Wav2msu, pcm
<1>9. d = disk \/ d = WriteFile(disk, pcm, <<"pcm", job.pack, i>>)
  BY <1>4, <1>8
<1> QED BY <1>1, <1>2, <1>3, <1>6, <1>7, <1>9

(* A .pcm that lies there without a conversion was there before the click. *)
LEMMA OldPcm ==
  ASSUME TypeOK, NEW w \in Workers, Copied(w), WellFormed(job.pack),
         NEW i, i = app.zipIndex, worker[w].at = "convert",
         Exists(disk, <<JobDir, Pcm(i)>>)
  PROVE  <<JobDir, Pcm(i)>> \in job.present
<1>1. Named(i) /\ Converts(Entries[i]) /\ Slot(i) = Pcm(i)
  BY DEF Copied, Slot
<1>2. Pcm(i)[2] # NoNumber
  BY <1>1, SlotSuffix DEF Named, Converts, IsTrack
<1>3. Accounted(w, <<JobDir, Pcm(i)>>)
  BY DEF Copied, Exists
<1>4. ASSUME NEW j \in DOMAIN Entries, Named(j), <<JobDir, Pcm(i)>> = <<JobDir, Source(j)>>
      PROVE  FALSE
  <2>1. Pcm(i) = Source(j)
    BY <1>4
  <2>2. ~Converts(Entries[j])
    BY <1>1, <1>4, <2>1, SlotSuffix DEF Named
  <2>3. Slot(j) = Slot(i) /\ j # i
    BY <1>1, <2>1, <2>2 DEF Slot
  <2> QED BY <1>1, <1>4, <2>3, SlotsDiffer
<1>5. ASSUME NEW j \in DOMAIN Entries, Done(w, j), Converts(Entries[j]),
             <<JobDir, Pcm(i)>> = <<JobDir, Pcm(j)>>
      PROVE  FALSE
  <2>1. Slot(j) = Slot(i) /\ Named(j) /\ j # i
    BY <1>1, <1>5 DEF Slot, Done
  <2> QED BY <1>1, <2>1, SlotsDiffer
<1> QED BY <1>2, <1>3, <1>4, <1>5 DEF Accounted

LEMMA CopyConvert ==
  ASSUME TypeOK, ~overlapped, NEW w \in Workers, Copied(w), Convert(w), ~Crash, Active(w)'
  PROVE  Copied(w)'
<1>0. app.zipIndex \in Nat
  BY AppFields DEF TypeOK
<1> PICK i \in Nat : i = app.zipIndex
  BY <1>0
<1> DEFINE path == <<JobDir, Source(i)>>
           pcm == <<JobDir, Pcm(i)>>
           c == <<"pcm", job.pack, i>>
<1>1. app' = app /\ job' = job /\ worker[w].at = "convert" /\ worker'[w].at = "iterate"
  BY ConvertEffect
<1>2. PICK d : /\ d = disk \/ d = WriteFile(disk, pcm, c)
               /\ Exists(d, pcm)
               /\ disk' = RemoveFile(d, path)
  BY ConvertEffect
<1>3. /\ Entries' = Entries /\ JobDir' = JobDir /\ (Forced' <=> Forced)
      /\ WellFormed(job.pack)' <=> WellFormed(job.pack)
      /\ \A j : Named(j)' <=> Named(j)
      /\ \A j : Source(j)' = Source(j) /\ Pcm(j)' = Pcm(j)
  BY <1>1, JobStays
<1>4. Named(i) /\ Converts(Entries[i]) /\ i <= app.zipIndex /\ Slot(i) = Pcm(i)
  BY <1>1 DEF Copied, Slot
<1>5. \A j \in DOMAIN Entries : Done(w, j)' <=> (Done(w, j) \/ j = i)
  BY <1>1, <1>3, <1>4 DEF Done
<1>6. Source(i) # Pcm(i)
  BY <1>4, SourceIsNoSlot
<1> HIDE DEF path, pcm, c
<1>7. path # pcm
  BY <1>6 DEF path, pcm
<1>8. ASSUME NEW q \in DOMAIN disk' PROVE Accounted(w, q)'
  <2>1. q \in DOMAIN disk \/ q = pcm
    BY <1>2, <1>8, WriteExists, RemoveExists DEF Exists
  <2>2. CASE q \in DOMAIN disk
    <3>1. Accounted(w, q)
      BY <2>2 DEF Copied
    <3> QED BY <1>1, <1>3, <1>5, <3>1 DEF Accounted
  <2>3. CASE q = pcm
    BY <1>1, <1>3, <1>4, <1>5, <2>3 DEF Accounted, pcm, Named
  <2> QED BY <2>1, <2>2, <2>3
<1>9. ASSUME WellFormed(job.pack), NEW j \in DOMAIN Entries, Done(w, j)' PROVE Kept(w, j)'
  <2>1. CASE j = i
    <3>1. ~Exists(disk', path)
      BY <1>2, RemoveExists
    <3>2. At(disk', pcm) = At(d, pcm)
      BY <1>2, <1>7, RemoveFrame
    <3>3. At(d, pcm) = c \/ pcm \in job.present
      BY <1>1, <1>2, <1>9, OldPcm, WriteHits DEF pcm
    <3> QED BY <1>1, <1>3, <1>4, <2>1, <3>1, <3>2, <3>3 DEF Kept, path, pcm, c
  <2>2. CASE j # i
    <3>1. Kept(w, j) /\ Named(j)
      BY <1>5, <1>9, <2>2 DEF Copied, Done
    <3>2. Slot(j) # Slot(i) /\ Source(i) # Slot(j)
      BY <1>4, <1>9, <2>2, <3>1, SlotsDiffer, SourceIsNoSlot
    <3>3. \A q : q # pcm /\ q # path =>
             At(disk', q) = At(disk, q) /\ (Exists(disk', q) <=> Exists(disk, q))
      BY <1>2, WriteFrame, RemoveFrame, WriteExists, RemoveExists
    <3>4. CASE Converts(Entries[j])
      <4>1. Source(j) # Pcm(i) /\ Source(j) # Source(i)
        BY <1>4, <1>9, <2>2, <3>1, <3>4, SourceIsNoSlot, SourcesDiffer
      <4>2. <<JobDir, Pcm(j)>> # pcm /\ <<JobDir, Pcm(j)>> # path
            /\ <<JobDir, Source(j)>> # pcm /\ <<JobDir, Source(j)>> # path
        BY <1>4, <3>2, <3>4, <4>1 DEF Slot, pcm, path
      <4> QED BY <1>1, <1>3, <3>1, <3>3, <3>4, <4>2 DEF Kept
    <3>5. CASE ~Converts(Entries[j])
      <4>1. <<JobDir, Source(j)>> # pcm /\ <<JobDir, Source(j)>> # path
        BY <1>4, <3>2, <3>5 DEF Slot, pcm, path
      <4>2. Here(w, Source(j)) = <<JobDir, Source(j)>>
            /\ Here(w, Source(j))' = <<JobDir, Source(j)>>
        BY <1>1, <1>3, JobStays DEF Here, Renamed
      <4>3. At(disk', Here(w, Source(j))') = <<"entry", job'.pack, j>>
        BY <1>1, <3>1, <3>3, <3>5, <4>1, <4>2 DEF Kept
      <4> QED BY <1>3, <3>5, <4>3 DEF Kept
    <3> QED BY <3>4, <3>5
  <2> QED BY <2>1, <2>2
<1> QED BY <1>1, <1>3, <1>8, <1>9 DEF Copied

-------------------------------------------------------------------------------
(* The end of an export: the tools, and the renames of a forced manifest.  *)
LEMMA FinishEffect ==
  ASSUME TypeOK, OwnInv, PatchInv, ~overlapped, NEW w \in Workers, Finish(w)
  PROVE  /\ app' = app /\ job' = job /\ disk' = disk
         /\ app.zipIndex >= Len(Entries) /\ worker[w].at = "iterate"
         /\ worker'[w].at = IF Forced THEN "rename1" ELSE "reset1"
<1>1. worker[w].at = "iterate" /\ Exporting(w) /\ worker \in [Workers -> WorkType]
  BY DEF TypeOK, Finish, WorkerAt, Exporting
<1>2. /\ app.exportMethod = job.exportMethod /\ app.forceManifest = job.forceManifest
      /\ Files(app.pack) = Entries
  BY <1>1, JobIsApp
<1>3. app' = app /\ job' = job /\ disk' = disk /\ app.zipIndex >= Len(Entries)
  BY <1>2 DEF Finish, history
<1>4. worker'[w].at = IF Forced THEN "rename1" ELSE "reset1"
  BY <1>1, <1>2 DEF Finish, Moved, Forced, WorkType
<1> QED BY <1>1, <1>3, <1>4

LEMMA CopyFinish ==
  ASSUME TypeOK, OwnInv, PatchInv, ~overlapped, NEW w \in Workers, Copied(w), Finish(w)
  PROVE  Copied(w)'
<1>1. /\ app' = app /\ job' = job /\ disk' = disk
      /\ app.zipIndex >= Len(Entries) /\ worker[w].at = "iterate"
      /\ worker'[w].at = IF Forced THEN "rename1" ELSE "reset1"
  BY FinishEffect
<1>2. /\ Entries' = Entries /\ JobDir' = JobDir /\ (Forced' <=> Forced)
      /\ WellFormed(job.pack)' <=> WellFormed(job.pack)
      /\ \A j : Named(j)' <=> Named(j)
      /\ \A j : Source(j)' = Source(j) /\ Pcm(j)' = Pcm(j)
  BY <1>1, JobStays
<1>3. app.zipIndex = Len(Entries)
  <2>1. app.zipIndex \in Nat /\ Len(Entries) \in Nat
    BY FilesType, AppFields DEF TypeOK, JobType, Entries
  <2>2. app.zipIndex <= Len(Entries)
    BY DEF Copied
  <2> QED BY <1>1, <2>1, <2>2
<1>4. \A j \in DOMAIN Entries : Done(w, j)' <=> Done(w, j)
  BY <1>1, <1>2 DEF Done
<1>5. \A name : Here(w, name)' = Here(w, name)
  <2>1. \A name : FinalName(name)' = FinalName(name) /\ (Stays(name)' <=> Stays(name))
    BY <1>1, JobStays
  <2>2. CASE Forced
    BY <1>1, <1>2, <2>1, <2>2 DEF Here, Renamed
  <2>3. CASE ~Forced
    <3>1. \A name : FinalName(name) = name
      BY <2>3 DEF FinalName
    <3> QED BY <1>1, <1>2, <2>1, <3>1 DEF Here
  <2> QED BY <2>2, <2>3
<1>6. ASSUME NEW j \in DOMAIN Entries, Kept(w, j) PROVE Kept(w, j)'
  BY <1>1, <1>2, <1>5, <1>6 DEF Kept
<1>7. \A q \in DOMAIN disk : Accounted(w, q) => Accounted(w, q)'
  BY <1>1, <1>2, <1>4 DEF Accounted
<1>8. app'.zipIndex = Len(Entries) /\ worker'[w].at # "convert"
  BY <1>1, <1>3
<1> QED BY <1>1, <1>2, <1>3, <1>4, <1>6, <1>7, <1>8 DEF Copied

(* With a forced manifest, what is exported besides msu1.rom is numbered.  *)
LEMMA ForcedSource ==
  ASSUME TypeOK, Forced, NEW j, Named(j)
  PROVE  /\ Source(j) = Msu1Rom \/ Source(j)[2] # NoNumber
         /\ Converts(Entries[j]) => Source(j)[2] # NoNumber /\ Pcm(j)[2] # NoNumber
<1>1. j \in DOMAIN Entries /\ Source(j) # NoName
  BY DEF Named, Source
<1>2. Entries[j] \in Entry
      /\ Source(j) = ExportName(Entries[j], SD2SNES, TRUE, job.outputName)
  BY <1>1, EntryFacts DEF Forced
<1>3. IsTrack(Entries[j]) <=> Source(j)[2] # NoNumber
  BY <1>1, SlotSuffix
<1>4. Pcm(j)[2] = Source(j)[2]
  BY DEF Pcm, AsPcm
<1>5. CASE IsTrack(Entries[j])
  BY <1>3, <1>4, <1>5
<1>6. CASE ~IsTrack(Entries[j])
  BY <1>1, <1>2, <1>6, ForcedName DEF Converts, IsTrack
<1> QED BY <1>5, <1>6

LEMMA RenameExists ==
  ASSUME NEW d, NEW from, NEW to, NEW q, q # to, Exists(RenameFile(d, from, to), q)
  PROVE  Exists(d, q)
BY WriteExists, RemoveExists DEF RenameFile

(* Whether it replaces or fails, a rename leaves a file of the new name,   *)
(* and the renamed one where the export has it from then on.               *)
LEMMA RenameArrives ==
  ASSUME NEW d, NEW from, NEW to, Exists(d, from), from # to
  PROVE  Exists(RenameFile(d, from, to), to)
<1>1. CASE Renames(d, from, to)
  BY <1>1, WriteExists, RemoveExists DEF RenameFile
<1>2. CASE ~Renames(d, from, to)
  BY <1>2 DEF RenameFile, Renames
<1> QED BY <1>1, <1>2

LEMMA ForcedRenames ==
  ASSUME TypeOK, OwnInv, PatchInv, ~overlapped, NEW w \in Workers,
         RenameROM(w) \/ RenameMsu1(w)
  PROVE  /\ Forced /\ app' = app /\ job' = job
         /\ RenameROM(w) =>
              /\ worker[w].at = "rename1" /\ worker'[w].at = "rename2"
              /\ disk' = RenameFile(disk, <<JobDir, ProgramRom>>,
                                          <<JobDir, Sfc(job.outputName)>>)
         /\ RenameMsu1(w) =>
              /\ worker[w].at = "rename2" /\ worker'[w].at = "reset1"
              /\ disk' = RenameFile(disk, <<JobDir, Msu1Rom>>,
                                          <<JobDir, Msu(job.outputName)>>)
<1>1. Exporting(w) /\ worker[w].at \in {"rename1", "rename2"}
      /\ worker \in [Workers -> WorkType]
  BY DEF TypeOK, RenameROM, RenameMsu1, WorkerAt, Exporting
<1>2. app.exportMethod = SD2SNES /\ app.forceManifest
  BY <1>1 DEF OwnInv
<1>3. /\ app.exportMethod = job.exportMethod /\ app.forceManifest = job.forceManifest
      /\ app.destination = JobDir /\ app.outputName = job.outputName
  BY <1>1, JobIsApp
<1> QED BY <1>1, <1>2, <1>3 DEF RenameROM, RenameMsu1, WorkerAt, Moved, Forced, WorkType,
           history

(* What lay under the first name lies where it stays.                      *)
LEMMA RenamedContent ==
  ASSUME TypeOK, OwnInv, PatchInv, ~overlapped, NEW w \in Workers, NEW name, NEW c,
         c # NoEntry, At(disk, <<JobDir, name>>) = c,
         (RenameROM(w) /\ name = ProgramRom) \/ (RenameMsu1(w) /\ name = Msu1Rom)
  PROVE  At(disk', Here(w, name)') = c
<1> DEFINE from == <<JobDir, name>>
           to == <<JobDir, FinalName(name)>>
<1>1. Forced /\ job' = job /\ JobDir' = JobDir
  BY ForcedRenames, JobStays
<1>2. FinalName(name)' = FinalName(name) /\ (Stays(name)' <=> Stays(name))
  BY <1>1, JobStays
<1>3. /\ name = ProgramRom => FinalName(name) = Sfc(job.outputName)
      /\ name = Msu1Rom => FinalName(name) = Msu(job.outputName)
  BY <1>1, TargetNames DEF FinalName, ProgramRom, Msu1Rom
<1>4. disk' = RenameFile(disk, from, to) /\ from # to
  BY <1>3, ForcedRenames, TargetNames
<1>5. Exists(disk, to) <=> to \in job.present
  <2>1. Exporting(w) /\ worker[w].at \in {"rename1", "rename2"}
        /\ (name = ProgramRom => worker[w].at = "rename1")
    BY ForcedRenames, TargetNames DEF Exporting, ProgramRom, Msu1Rom
  <2>2. Targets(w)
    BY <1>1, <2>1 DEF PatchInv, Active
  <2> QED BY <1>3, <2>1, <2>2 DEF Targets, SfcPath, MsuPath
<1>6. Stays(name) <=> ~RenameReplaces /\ Exists(disk, to)
  BY <1>5 DEF Stays
<1>7. Here(w, name)' = IF Stays(name) THEN from ELSE to
  <2>1. Renamed(w, name)' <=> ~Stays(name)
    BY <1>2, ForcedRenames DEF Renamed
  <2> QED BY <1>1, <1>2, <2>1 DEF Here
<1> HIDE DEF from, to
<1>8. At(disk, from) = c
  BY DEF from
<1>9. CASE Stays(name)
  BY <1>4, <1>6, <1>7, <1>8, <1>9, RenameFails
<1>10. CASE ~Stays(name)
  <2>1. At(disk', to) = c
    BY <1>4, <1>6, <1>8, <1>10, RenameMoves
  <2> QED BY <1>7, <1>10, <2>1
<1> QED BY <1>9, <1>10

(* A rename of names that no entry has, or has only from now on.           *)
LEMMA CopyRename ==
  ASSUME TypeOK, ~overlapped, NEW w \in Workers, Copied(w), Forced,
         app' = app, job' = job, NEW from, NEW to,
         from[2] = NoNumber, to[2] = NoNumber,
         worker[w].at \in {"rename1", "rename2"}, worker'[w].at \in {"rename2", "reset1"},
         disk' = RenameFile(disk, <<JobDir, from>>, <<JobDir, to>>),
         \A name : name # ProgramRom /\ name[2] = NoNumber => Here(w, name) = <<JobDir, name>>,
         ASSUME NEW j \in DOMAIN Entries, Source(j) = Msu1Rom, Kept(w, j)
         PROVE  At(disk', Here(w, Msu1Rom)') = <<"entry", job.pack, j>>
  PROVE  Copied(w)'
<1>1. /\ Entries' = Entries /\ JobDir' = JobDir /\ (Forced' <=> Forced)
      /\ WellFormed(job.pack)' <=> WellFormed(job.pack)
      /\ \A j : Named(j)' <=> Named(j)
      /\ \A j : Source(j)' = Source(j) /\ Pcm(j)' = Pcm(j)
  BY JobStays
<1>2. \A j \in DOMAIN Entries : Done(w, j)' <=> Done(w, j)
  BY <1>1 DEF Done
<1>3. ASSUME NEW q \in DOMAIN disk' PROVE Accounted(w, q)'
  <2>1. CASE q = <<JobDir, to>>
    BY <2>1 DEF Accounted
  <2>2. CASE q # <<JobDir, to>>
    <3>1. q \in DOMAIN disk
      BY <1>3, <2>2, RenameExists DEF Exists
    <3>2. Accounted(w, q)
      BY <3>1 DEF Copied
    <3> QED BY <1>1, <1>2, <3>2 DEF Accounted
  <2> QED BY <2>1, <2>2
<1>4. ASSUME NEW j \in DOMAIN Entries, Done(w, j), Kept(w, j) PROVE Kept(w, j)'
  <2>1. Named(j)
    BY <1>4 DEF Done
  <2>2. CASE Converts(Entries[j])
    <3>1. Source(j)[2] # NoNumber /\ Pcm(j)[2] # NoNumber
      BY <2>1, <2>2, ForcedSource
    <3>2. At(disk', <<JobDir, Pcm(j)>>) = At(disk, <<JobDir, Pcm(j)>>)
      BY <3>1, RenameFrame
    <3>3. Exists(disk', <<JobDir, Source(j)>>) => Exists(disk, <<JobDir, Source(j)>>)
      BY <3>1, RenameExists
    <3> QED BY <1>1, <1>4, <2>2, <3>2, <3>3 DEF Kept
  <2>3. CASE ~Converts(Entries[j]) /\ Source(j) = Msu1Rom
    <3>1. At(disk', Here(w, Source(j))') = <<"entry", job'.pack, j>>
      <4>1. Here(w, Source(j))' = Here(w, Msu1Rom)'
        BY <1>1, <2>3 DEF Here, Renamed
      <4> QED BY <1>4, <2>3, <4>1
    <3> QED BY <1>1, <2>3, <3>1 DEF Kept
  <2>4. CASE ~Converts(Entries[j]) /\ Source(j) # Msu1Rom
    <3>1. Source(j)[2] # NoNumber
      BY <2>1, <2>4, ForcedSource
    <3>2. Source(j) # ProgramRom
      BY <3>1 DEF ProgramRom
    <3>3. Here(w, Source(j)) = <<JobDir, Source(j)>>
          /\ Here(w, Source(j))' = <<JobDir, Source(j)>>
      BY <1>1, <2>4, <3>2 DEF Here, Renamed
    <3>4. At(disk', <<JobDir, Source(j)>>) = At(disk, <<JobDir, Source(j)>>)
      BY <3>1, RenameFrame
    <3>5. At(disk', Here(w, Source(j))') = <<"entry", job'.pack, j>>
      BY <1>4, <2>4, <3>3, <3>4 DEF Kept
    <3> QED BY <1>1, <2>4, <3>5 DEF Kept
  <2> QED BY <2>2, <2>3, <2>4
<1>5. worker'[w].at # "convert" /\ app'.zipIndex = Len(Entries)
      /\ app'.zipIndex <= Len(Entries)
  BY DEF Copied
<1>6. WellFormed(job.pack) => \A j \in DOMAIN Entries : Done(w, j) => Kept(w, j)
  BY DEF Copied
<1> QED BY <1>1, <1>2, <1>3, <1>4, <1>5, <1>6 DEF Copied

LEMMA CopyRenames ==
  ASSUME TypeOK, OwnInv, PatchInv, ~overlapped, NEW w \in Workers, Copied(w),
         RenameROM(w) \/ RenameMsu1(w)
  PROVE  Copied(w)'
<1>1. Forced /\ app' = app /\ job' = job /\ JobDir' = JobDir /\ (Forced' <=> Forced)
  BY ForcedRenames, JobStays
<1>2. /\ ProgramRom[2] = NoNumber /\ Msu1Rom[2] = NoNumber
      /\ Sfc(job.outputName)[2] = NoNumber /\ Msu(job.outputName)[2] = NoNumber
  BY DEF ProgramRom, Msu1Rom, Sfc, Msu
<1>3. /\ Msu1Rom # ProgramRom /\ Msu1Rom # Sfc(job.outputName)
      /\ Msu1Rom # Msu(job.outputName) /\ Msu1Rom[3] = ".rom"
  BY DEF ProgramRom, Msu1Rom, Sfc, Msu
<1>4. ASSUME NEW j \in DOMAIN Entries, Source(j) = Msu1Rom, Kept(w, j),
             worker[w].at \in {"rename1", "rename2"}
      PROVE  At(disk, <<JobDir, Msu1Rom>>) = <<"entry", job.pack, j>>
  <2>1. ~Converts(Entries[j])
    BY <1>3, <1>4, SlotSuffix DEF TrackExts
  <2>2. Here(w, Msu1Rom) = <<JobDir, Msu1Rom>>
    BY <1>3, <1>4 DEF Here, Renamed
  <2> QED BY <1>4, <2>1, <2>2 DEF Kept
<1>5. CASE RenameROM(w)
  <2>1. /\ worker[w].at = "rename1" /\ worker'[w].at = "rename2"
        /\ disk' = RenameFile(disk, <<JobDir, ProgramRom>>, <<JobDir, Sfc(job.outputName)>>)
    BY <1>5, ForcedRenames
  <2>2. ASSUME NEW j \in DOMAIN Entries, Source(j) = Msu1Rom, Kept(w, j)
        PROVE  At(disk', Here(w, Msu1Rom)') = <<"entry", job.pack, j>>
    <3>1. Here(w, Msu1Rom)' = <<JobDir, Msu1Rom>>
      BY <1>1, <1>3, <2>1 DEF Here, Renamed
    <3>2. At(disk', <<JobDir, Msu1Rom>>) = At(disk, <<JobDir, Msu1Rom>>)
      BY <1>3, <2>1, RenameFrame
    <3> QED BY <1>4, <2>1, <2>2, <3>1, <3>2
  <2>3. \A name : name # ProgramRom /\ name[2] = NoNumber => Here(w, name) = <<JobDir, name>>
    BY <2>1 DEF Here, Renamed
  <2> QED BY <1>1, <1>2, <2>1, <2>2, <2>3, CopyRename
<1>6. CASE RenameMsu1(w)
  <2>1. /\ worker[w].at = "rename2" /\ worker'[w].at = "reset1"
        /\ disk' = RenameFile(disk, <<JobDir, Msu1Rom>>, <<JobDir, Msu(job.outputName)>>)
    BY <1>6, ForcedRenames
  <2>2. ASSUME NEW j \in DOMAIN Entries, Source(j) = Msu1Rom, Kept(w, j)
        PROVE  At(disk', Here(w, Msu1Rom)') = <<"entry", job.pack, j>>
    <3>1. At(disk, <<JobDir, Msu1Rom>>) = <<"entry", job.pack, j>>
      BY <1>4, <2>1, <2>2
    <3> QED BY <1>6, <3>1, ContentIsSomething, RenamedContent
  <2>3. \A name : name # ProgramRom /\ name[2] = NoNumber => Here(w, name) = <<JobDir, name>>
    BY <2>1 DEF Here, Renamed
  <2> QED BY <1>1, <1>2, <2>1, <2>2, <2>3, CopyRename
<1> QED BY <1>5, <1>6

-------------------------------------------------------------------------------
(* The click: nothing is copied yet, and the only new file is the game.    *)
LEMMA BegunIndex ==
  ASSUME NEW s \in AppType
  PROVE  Begun(s).zipIndex = 0 /\ Begun(s).trackIDs = s.trackIDs
<1> DEFINE dir == Destination(s.exportMethod, s.forceManifest, s.outputName)
           d == Disabled(s)
<1>1. d \in AppType
  BY EnablingType
<1>2. d.trackIDs = s.trackIDs
  BY DEF Disabled, AppType
<1> HIDE DEF d, dir
<1>3. LET b == [d EXCEPT !.destination = dir, !.zipIndex = 0]
      IN  b.zipIndex = 0 /\ b.trackIDs = s.trackIDs
  BY <1>1, <1>2 DEF AppType
<1> QED BY <1>3 DEF Begun, d, dir

LEMMA ClickWrites ==
  ASSUME TypeOK, NEW w \in Workers, ClickExport(w), worker'[w].at = "iterate",
         NEW q \in DOMAIN disk'
  PROVE  q \in DOMAIN disk \/ q = ROMTarget(Begun(app))
<1> DEFINE s == Begun(app)
<1>1. ~Crash
  BY DEF Crash, Ends, NoWork
<1>2. worker' # worker
  BY DEF ClickExport
<1> HIDE DEF s
<1>3. disk' = MergedFiles(s)
      \/ \E o \in PatchOutcomes(s) : disk' = WriteFile(MergedFiles(s), ROMTarget(s), o.content)
  BY <1>1, <1>2, Zenon DEF ClickExport, s
<1>4. Exists(MergedFiles(s), q) => Exists(disk, q) \/ q = ROMTarget(s)
  BY WriteExists DEF MergedFiles
<1>5. Exists(disk', q)
  BY DEF Exists
<1>6. Exists(disk, q) \/ q = ROMTarget(s)
  BY <1>3, <1>4, <1>5, WriteExists
<1> QED BY <1>6 DEF Exists, s

LEMMA CopyClick ==
  ASSUME TypeOK, NEW w \in Workers, ClickExport(w), app' = Begun(app),
         worker'[w].at = "iterate"
  PROVE  Copied(w)'
<1>1. app \in AppType /\ app.pack \in Packs \cup {NoPack} /\ app.exportMethod \in Methods
      /\ app.forceManifest \in BOOLEAN
  BY AppFields DEF TypeOK
<1>2. app'.zipIndex = 0
  BY <1>1, BegunIndex
<1>3. job'.present = DOMAIN disk /\ job'.pack = app.pack
  BY DEF ClickExport, JobOf
<1>4. Entries' \in Seq(Entry)
  BY <1>1, <1>3, FilesType DEF Entries
<1>5. ASSUME NEW q \in DOMAIN disk' PROVE Accounted(w, q)'
  <2>1. CASE q \in DOMAIN disk
    BY <1>3, <2>1 DEF Accounted
  <2>2. CASE q = ROMTarget(Begun(app))
    <3>1. q[2] = ROMName(app.exportMethod, app.forceManifest, app.outputName)
      BY <1>1, <2>2, BegunFields DEF ROMTarget
    <3>2. q[2][2] = NoNumber
      BY <1>1, <3>1, ROMNames DEF ProgramRom, Sfc
    <3> QED BY <3>2 DEF Accounted
  <2> QED BY <1>5, <2>1, <2>2, ClickWrites
<1>6. \A j \in DOMAIN Entries' : j \in Nat \ {0}
  BY <1>4
<1>7. \A j \in DOMAIN Entries' : ~Done(w, j)'
  BY <1>2, <1>6 DEF Done
<1>8. 0 <= Len(Entries')
  BY <1>4
<1> QED BY <1>2, <1>5, <1>7, <1>8 DEF Copied

(* Only the worker of an export that runs alone moves what Copied is about.*)
LEMMA CopyStep ==
  ASSUME TypeOK, LockInv, OwnInv, Cached(app), DialogInv, PatchInv, CopyInv, [Next]_vars
  PROVE  CopyInv'
<1> SUFFICES ASSUME ~overlapped', NEW w \in Workers, Active(w)' PROVE Copied(w)'
  BY DEF CopyInv
<1>1. proc' = "running"
  <2>1. LockInv'
    BY LockStep
  <2> QED BY <2>1 DEF LockInv, Idle, Active, Exporting
<1>2. CASE Exporting(w)' /\ ~(Exporting(w) /\ ~overlapped)
  <2>1. ClickExport(w) /\ app' = Begun(app) /\ worker'[w].at = "iterate"
    BY <1>2, ExportBegins
  <2> QED BY <2>1, CopyClick
<1>3. CASE Active(w) /\ ~overlapped
  <2>1. ~Crash
    BY <1>1 DEF Crash, Ends
  <2>2. Copied(w)
    BY <1>3 DEF CopyInv
  <2>3. CASE UNCHANGED <<app, job, disk>> /\ worker'[w] = worker[w]
    <3>1. /\ Entries' = Entries /\ JobDir' = JobDir /\ (Forced' <=> Forced)
          /\ WellFormed(job.pack)' <=> WellFormed(job.pack)
          /\ \A j : Named(j)' <=> Named(j)
          /\ \A j : Source(j)' = Source(j) /\ Pcm(j)' = Pcm(j)
      BY <2>3, JobStays
    <3>2. \A j \in DOMAIN Entries : /\ Done(w, j)' <=> Done(w, j)
                                    /\ Here(w, Source(j))' = Here(w, Source(j))
      BY <2>3, <3>1, JobStays DEF Done, Here, Renamed
    <3>3. \A j \in DOMAIN Entries : Kept(w, j) => Kept(w, j)'
      BY <2>3, <3>1, <3>2 DEF Kept
    <3>4. \A q \in DOMAIN disk : Accounted(w, q) => Accounted(w, q)'
      BY <2>3, <3>1, <3>2 DEF Accounted
    <3> QED BY <2>2, <2>3, <3>1, <3>2, <3>3, <3>4 DEF Copied
  <2> QED BY <1>3, <2>1, <2>2, <2>3, WorkerAlone, CopyIterate, CopyConvert, CopyFinish,
             CopyRenames
<1>4. CASE ~Exporting(w)' /\ ~(Active(w) /\ ~overlapped)
  <2>1. worker'[w].at = "reset1" /\ ~worker'[w].failed
    BY <1>4 DEF Active
  <2> QED BY <1>4, <2>1, SuccessIsEarned
<1> QED BY <1>2, <1>3, <1>4 DEF Active

THEOREM CopyInvariance ==
  Spec => [](TypeOK /\ LockInv /\ OwnInv /\ Cached(app) /\ DialogInv /\ PatchInv /\ CopyInv)
<1>1. Init => CopyInv
  BY DEF Init, NoWork, CopyInv, Active, Exporting
<1>2. TypeOK /\ LockInv /\ OwnInv /\ Cached(app) /\ DialogInv /\ PatchInv /\ CopyInv
        /\ [Next]_vars => CopyInv'
  BY CopyStep
<1> QED BY <1>1, <1>2, PatchInvariance, PTL DEF Spec

(* What an export reports as exported is all there, from this pack, tracks *)
(* converted, over whatever an earlier export has left in the folder.      *)
THEOREM ExportCompleteness == Spec => []ExportIsComplete
<1>1. TypeOK /\ CopyInv => ExportIsComplete
  <2> SUFFICES ASSUME TypeOK, CopyInv, NEW w \in Workers, Delivered(w), WellFormed(job.pack),
                      NEW i \in DOMAIN Files(job.pack), NameOf(Files(job.pack)[i]) # NoName
               PROVE  LET e == Files(job.pack)[i] IN
                      IF Converts(e)
                      THEN /\ \/ At(disk, FinalOf(e)) = <<"pcm", job.pack, i>>
                              \/ FinalOf(e) \in job.present
                           /\ ~Exists(disk, <<JobDir, NameOf(e)>>)
                      ELSE At(disk, FinalOf(e)) = <<"entry", job.pack, i>>
    BY Zenon DEF ExportIsComplete
  <2>1. Named(i) /\ i \in DOMAIN Entries /\ worker[w].at = "reset1" /\ Active(w) /\ ~overlapped
    BY DEF Named, Entries, Delivered, Active
  <2>2. Copied(w) /\ app.zipIndex = Len(Entries)
    BY <2>1 DEF CopyInv, Copied
  <2>3. Kept(w, i)
    BY <2>1, <2>2, EntryFacts DEF Copied, Done
  <2>4. CASE Converts(Entries[i])
    <3>1. Pcm(i)[3] = ".pcm" /\ ProgramRom[3] = ".rom" /\ Msu1Rom[3] = ".rom"
      BY DEF Pcm, AsPcm, ProgramRom, Msu1Rom
    <3>2. FinalOf(Entries[i]) = <<JobDir, Pcm(i)>>
      BY <2>4, <3>1 DEF FinalOf, Final, FinalName, Pcm, Source
    <3> QED BY <2>3, <2>4, <3>2 DEF Kept, Entries, Source
  <2>5. CASE ~Converts(Entries[i])
    <3>1. FinalOf(Entries[i]) = Here(w, Source(i))
      BY <2>1, <2>5 DEF FinalOf, Final, FinalName, Here, Renamed, Source
    <3> QED BY <2>3, <2>5, <3>1 DEF Kept, Entries
  <2> QED BY <2>4, <2>5
<1> QED BY <1>1, CopyInvariance, PTL
-------------------------------------------------------------------------------
(***************************************************************************)
(* The manifest.                                                           *)
(***************************************************************************)
TracksUpTo(n) ==
  {TrackID(Entries[i]) : i \in {j \in DOMAIN Entries : j <= n /\ IsTrack(Entries[j])}}

(* A program.rom has been merged, patched or copied among n entries.       *)
GameBy(n) ==
  \/ Forced
  \/ HasMsu1(job.pack) /\ HasPatch(job.pack)
  \/ \E i \in DOMAIN Entries : i <= n /\ Source(i) = ProgramRom

DataBy(n) == \E i \in DOMAIN Entries : i <= n /\ Source(i) = Msu1Rom

(* What the tools are told, and from the renames on what they have said,   *)
(* and that the names they gave, once substituted, come true.              *)
Gathered ==
  /\ app.trackIDs = TracksUpTo(app.zipIndex)
  /\ JobROM = ProgramRom /\ GameBy(app.zipIndex) => Exists(disk, <<JobDir, ProgramRom>>)
  /\ DataBy(app.zipIndex) => Exists(disk, <<JobDir, Msu1Rom>>)
Says(w) ==
  /\ \A rom \in manifest[JobDir].image :
       rom[1][3] = ".rom" /\ rom[2] # NoEntry /\ At(disk, Here(w, rom[1])) = rom[2]
  /\ GameBy(Len(Entries)) => \E rom \in manifest[JobDir].image : rom[1] = ProgramRom
  /\ Forced => manifest[JobDir].tracks = TracksUpTo(Len(Entries))
Names(w) ==
  /\ manifest[JobDir].names # {} =>
       /\ FinalName(ProgramRom) \in manifest[JobDir].names
       /\ DataBy(Len(Entries)) => FinalName(Msu1Rom) \in manifest[JobDir].names
  /\ GameBy(Len(Entries)) =>
       Exists(disk, <<JobDir, IF worker[w].at = "rename1" THEN ProgramRom
                              ELSE FinalName(ProgramRom)>>)
  /\ DataBy(Len(Entries)) =>
       Exists(disk, <<JobDir, IF worker[w].at \in {"rename1", "rename2"} THEN Msu1Rom
                              ELSE FinalName(Msu1Rom)>>)

Told(w) ==
  /\ job.createManifest = app.createManifest
  /\ worker[w].at \in {"iterate", "convert"} => Gathered
  /\ Written /\ worker[w].at \in {"rename1", "rename2", "reset1"} => Says(w) /\ Names(w)

(* The inductive invariant of the manifest: trackIDs, which only reset()   *)
(* clears, is empty whenever an export can begin.                          *)
Loose(w) == Exporting(w) \/ worker[w].at \in {"reset1", "reset2"}
TracksInv == ~overlapped => (\E w \in Workers : Loose(w)) \/ app.trackIDs = {}
ToldInv   == ~overlapped => \A w \in Workers : Active(w) => Told(w)

-------------------------------------------------------------------------------
(* What the helpers leave of trackIDs.                                     *)
LEMMA TracksHelpers ==
  ASSUME NEW s \in AppType
  PROVE  /\ ValidatePack(s).trackIDs = s.trackIDs
         /\ EnableBasic(s).trackIDs = s.trackIDs
         /\ EnableAdvanced(s).trackIDs = s.trackIDs
         /\ EnableExport(s).trackIDs = s.trackIDs
         /\ ClosePack(s).trackIDs = s.trackIDs
         /\ ClearTexts(s).trackIDs = {}
         /\ \A ok : Revalidated(s, ok).trackIDs = s.trackIDs
<1>1. /\ EnableBasic(s).trackIDs = s.trackIDs /\ EnableAdvanced(s).trackIDs = s.trackIDs
      /\ ClosePack(s).trackIDs = s.trackIDs /\ ClearTexts(s).trackIDs = {}
  BY DEF AppType, EnableBasic, EnableAdvanced, ClosePack, ClearTexts
<1>2. \A ok : Revalidated(s, ok).trackIDs = s.trackIDs
  BY DEF AppType, Revalidated
<1>3. ValidatePack(s).trackIDs = s.trackIDs
  <2> DEFINE o == Opened(s)
             q == IF HasMsu1(o.pack) /\ HasPatch(o.pack)
                  THEN [o EXCEPT !.patchContents = o.pack] ELSE o
             r == IF HasROM(q.pack) THEN NoPath ELSE q.romPath
             b == HasPatch(q.pack)
             nb == ~HasPatch(q.pack)
             v == [q EXCEPT !.noROMNeeded = nb, !.romEnabled = b, !.romPath = r]
  <2>1. o \in AppType
    BY OpenedType
  <2>2. o.trackIDs = s.trackIDs
    BY DEF AppType, Opened
  <2>3. q \in AppType /\ q.trackIDs = o.trackIDs
    <3> HIDE DEF o
    <3> QED BY <2>1 DEF AppType
  <2>4. v.trackIDs = q.trackIDs
    <3> HIDE DEF q, r, b, nb
    <3> QED BY <2>3 DEF AppType
  <2>5. ValidatePack(s) = s \/ ValidatePack(s) = q \/ ValidatePack(s) = v
    BY Zenon DEF ValidatePack, Extracted
  <2> HIDE DEF o, q, v
  <2> QED BY <2>2, <2>3, <2>4, <2>5
<1>4. EnableExport(s).trackIDs = s.trackIDs
  <2> DEFINE v == ValidatePack(s)
             ok == PackIsValid(s)
             t == [v EXCEPT !.exportEnabled = ok]
  <2>1. v \in AppType
    BY ValidatePackType
  <2> HIDE DEF v, ok
  <2>2. t.trackIDs = v.trackIDs
    BY <2>1 DEF AppType
  <2> QED BY <1>3, <2>2 DEF EnableExport, v, ok
<1> QED BY <1>1, <1>2, <1>3, <1>4

LEMMA TracksReset ==
  ASSUME NEW s \in AppType
  PROVE  Reset(s).trackIDs = {}
<1>1. ClosePack(s) \in AppType
  BY EnablingType
<1>2. ClearTexts(ClosePack(s)) \in AppType /\ ClearTexts(ClosePack(s)).trackIDs = {}
  BY <1>1, EnablingType, TracksHelpers
<1>3. /\ EnableBasic(ClearTexts(ClosePack(s))) \in AppType
      /\ EnableBasic(ClearTexts(ClosePack(s))).trackIDs = {}
  BY <1>2, EnablingType, TracksHelpers
<1>4. /\ EnableAdvanced(EnableBasic(ClearTexts(ClosePack(s)))) \in AppType
      /\ EnableAdvanced(EnableBasic(ClearTexts(ClosePack(s)))).trackIDs = {}
  BY <1>3, EnablingType, TracksHelpers
<1> QED BY <1>4, TracksHelpers DEF Reset

LEMMA TracksStarted ==
  ASSUME NEW p \in PackPaths, NEW r \in RomPaths \cup {NoPath}
  PROVE  Started(p, r).trackIDs = {} /\ Fresh.trackIDs = {}
<1> DEFINE f == [Fresh EXCEPT !.packPath = p]
           v == ValidatePack(f)
           ok == PackIsValid(f)
           u == WithPack(p)
           s == WithROM(u, r)
           ok2 == IF r # NoPath /\ HasPatch(s.pack) THEN ROMPatchIsValid(s) ELSE s.valid
           t == [s EXCEPT !.valid = ok2, !.exportEnabled = ok2]
<1>1. Fresh.trackIDs = {}
  BY DEF Fresh
<1>2. f \in AppType /\ f.trackIDs = {}
  BY <1>1, FreshType DEF AppType
<1>3. v \in AppType /\ v.trackIDs = {}
  BY <1>2, ValidatePackType, TracksHelpers
<1>4. u \in AppType /\ u.trackIDs = {}
  <2> HIDE DEF v, ok
  <2>1. u = [v EXCEPT !.valid = ok]
    BY Zenon DEF WithPack, v, ok
  <2>2. ok \in BOOLEAN
    BY PackIsValidType DEF ok
  <2> HIDE DEF u
  <2> QED BY <1>3, <2>1, <2>2 DEF AppType
<1>5. s \in AppType /\ s.trackIDs = {}
  <2> HIDE DEF u
  <2> QED BY <1>4 DEF AppType, WithROM
<1>6. t.trackIDs = {}
  <2> HIDE DEF s, ok2
  <2> QED BY <1>5 DEF AppType
<1>7. Started(p, r) = Fresh \/ Started(p, r) = t
  BY Zenon DEF Started
<1> QED BY <1>1, <1>6, <1>7, Zenon

LEMMA TracksCallback ==
  ASSUME TracksInv, NEW faults, NEW s, Callback(faults, s), s.trackIDs = app.trackIDs
  PROVE  TracksInv'
<1>1. Fresh.trackIDs = {}
  BY DEF Fresh
<1> QED BY <1>1 DEF Callback, Crash, Ends, TracksInv, Loose, Exporting, history

LEMMA TracksUser ==
  ASSUME TypeOK, LockInv, TracksInv, UserStep
  PROVE  TracksInv'
<1>1. app \in AppType /\ worker \in [Workers -> WorkType]
  BY DEF TypeOK
<1>2. ASSUME NEW s \in AppType, s.trackIDs = app.trackIDs
      PROVE  \A ok : Revalidated(s, ok).trackIDs = app.trackIDs
  BY <1>2, TracksHelpers
<1>3. ASSUME NEW p \in PackPaths, ChangePackPath(p) PROVE TracksInv'
  <2> DEFINE out == Prefix[p]
             s == [app EXCEPT !.packPath = p, !.outputName = out]
  <2>1. out \in OutputNames
    BY ConstantsType
  <2>2. s \in AppType /\ s.trackIDs = app.trackIDs
    <3> HIDE DEF out
    <3> QED BY <1>1, <2>1 DEF AppType
  <2>3. Callback(PackFaults(s), Revalidated(ValidatePack(s), PackIsValid(s)))
    BY <1>3, Zenon DEF ChangePackPath
  <2> HIDE DEF s
  <2>4. ValidatePack(s) \in AppType /\ ValidatePack(s).trackIDs = app.trackIDs
    BY <2>2, ValidatePackType, TracksHelpers
  <2> QED BY <1>2, <2>3, <2>4, TracksCallback
<1>4. ASSUME NEW r \in RomPaths \cup {NoPath}, ChangeRomPath(r) PROVE TracksInv'
  <2> DEFINE s == [app EXCEPT !.romPath = r]
  <2>1. s \in AppType /\ s.trackIDs = app.trackIDs
    BY <1>1, ZenonT(40) DEF AppType
  <2>2. Callback(ROMPatchFaults(s), Revalidated(s, ROMPatchIsValid(s)))
    BY <1>4, Zenon DEF ChangeRomPath
  <2> HIDE DEF s
  <2> QED BY <1>2, <2>1, <2>2, TracksCallback
<1>5. ASSUME NEW out \in OutputNames, ChangeOutputName(out) PROVE TracksInv'
  <2> DEFINE s == [app EXCEPT !.outputName = out]
  <2>1. s \in AppType /\ s.trackIDs = app.trackIDs
    BY <1>1, ZenonT(40) DEF AppType
  <2>2. Callback(FALSE, Revalidated(s, app.valid))
    BY <1>5, Zenon DEF ChangeOutputName
  <2> HIDE DEF s
  <2> QED BY <1>2, <2>1, <2>2, TracksCallback
<1>6. ASSUME NEW m \in Methods, ChooseMethod(m) PROVE TracksInv'
  <2> DEFINE s == [app EXCEPT !.exportMethod = m]
  <2>1. s.trackIDs = app.trackIDs
    BY <1>1, ZenonT(40) DEF AppType
  <2>2. Callback(FALSE, s)
    BY <1>6 DEF ChooseMethod
  <2> HIDE DEF s
  <2> QED BY <2>1, <2>2, TracksCallback
<1>7. CASE ToggleCreateManifest
  <2> DEFINE s == [app EXCEPT !.createManifest = ~@]
  <2>1. s.trackIDs = app.trackIDs
    BY <1>1, ZenonT(40) DEF AppType
  <2>2. Callback(FALSE, s)
    BY <1>7 DEF ToggleCreateManifest
  <2> HIDE DEF s
  <2> QED BY <2>1, <2>2, TracksCallback
<1>8. CASE ToggleForceManifest
  <2> DEFINE s == [app EXCEPT !.forceManifest = ~@]
  <2>1. s.trackIDs = app.trackIDs
    BY <1>1, ZenonT(40) DEF AppType
  <2>2. Callback(FALSE, s)
    BY <1>8 DEF ToggleForceManifest
  <2> HIDE DEF s
  <2> QED BY <2>1, <2>2, TracksCallback
<1>9. CASE ToggleViolateBPS
  <2> DEFINE s == [app EXCEPT !.violateBPS = ~@]
  <2>1. s \in AppType /\ s.trackIDs = app.trackIDs
    BY <1>1, ZenonT(40) DEF AppType
  <2>2. Callback(ROMPatchFaults(s), Revalidated(s, ROMPatchIsValid(s)))
    BY <1>9, Zenon DEF ToggleViolateBPS
  <2> HIDE DEF s
  <2> QED BY <1>2, <2>1, <2>2, TracksCallback
<1>10. ASSUME NEW w \in Workers, ClickExport(w) PROVE TracksInv'
  <2> DEFINE s == Begun(app)
  <2>1. s \in AppType
    BY <1>1, BegunType
  <2> HIDE DEF s
  <2>2. CASE app' = s /\ worker' = [worker EXCEPT ![w] = [NoWork EXCEPT !.at = "iterate"]]
    <3>1. worker'[w].at = "iterate"
      BY <1>1, <2>2 DEF NoWork
    <3> QED BY <3>1 DEF TracksInv, Loose, Exporting
  <2>3. CASE app' = Reset(s)
    BY <2>1, <2>3, TracksReset DEF TracksInv
  <2>4. CASE Crash
    <3>1. Fresh.trackIDs = {}
      BY DEF Fresh
    <3> QED BY <2>4, <3>1 DEF TracksInv, Crash, Ends
  <2> QED BY <1>10, <2>2, <2>3, <2>4 DEF ClickExport, s
<1>11. CASE Quit
  <2>1. Fresh.trackIDs = {}
    BY DEF Fresh
  <2> QED BY <1>11, <2>1 DEF TracksInv, Quit, Ends
<1> QED BY <1>3, <1>4, <1>5, <1>6, <1>7, <1>8, <1>9, <1>10, <1>11 DEF UserStep

LEMMA TracksStep ==
  ASSUME TypeOK, LockInv, TracksInv, [Next]_vars
  PROVE  TracksInv'
<1>1. app \in AppType /\ worker \in [Workers -> WorkType] /\ Fresh.trackIDs = {}
  BY DEF TypeOK, Fresh
<1>2. ASSUME NEW how, Ends(how) PROVE TracksInv'
  BY <1>1, <1>2 DEF Ends, TracksInv
<1>3. CASE UNCHANGED <<app, worker, overlapped>>
  BY <1>3 DEF TracksInv, Loose, Exporting
<1>4. ASSUME NEW w \in Workers, ~overlapped', Loose(w)' PROVE TracksInv'
  BY <1>4 DEF TracksInv
<1>5. ASSUME NEW w \in Workers, WorkerStep(w) PROVE TracksInv'
  <2>1. overlapped' = overlapped
    BY <1>5 DEF WorkerStep, Iterate, Convert, Finish, RenameROM, RenameMsu1,
       ResetPack, ResetTexts, ResetBasic, ResetAdvanced, ResetStep, ResetExport, history
  <2>2. CASE Iterate(w) \/ Convert(w) \/ Finish(w) \/ RenameROM(w) \/ RenameMsu1(w)
             \/ ResetPack(w)
    <3>1. Crash \/ Loose(w)'
      BY <1>1, <2>2, ZenonT(40) DEF Iterate, Convert, Finish, RenameROM, RenameMsu1, ResetPack,
         ResetStep, Moved, NoWork, WorkType, WorkerAt, Loose, Exporting
    <3> QED BY <1>2, <1>4, <3>1 DEF Crash, TracksInv
  <2>3. CASE ResetTexts(w)
    <3>1. app'.trackIDs = {}
      BY <1>1, <2>3, TracksHelpers DEF ResetTexts, ResetStep
    <3> QED BY <3>1 DEF TracksInv
  <2>4. CASE ResetBasic(w) \/ ResetAdvanced(w) \/ ResetExport(w)
    <3>1. Crash \/ (app'.trackIDs = app.trackIDs /\ \A v \in Workers \ {w} : worker'[v] = worker[v])
      BY <1>1, <2>4, TracksHelpers DEF ResetBasic, ResetAdvanced, ResetExport, ResetStep,
         Moved
    <3>2. ~Loose(w)
      BY <2>4 DEF ResetBasic, ResetAdvanced, ResetExport, ResetStep, WorkerAt, Loose,
         Exporting
    <3> QED BY <1>2, <2>1, <3>1, <3>2 DEF Crash, TracksInv, Loose, Exporting
  <2> QED BY <1>5, <2>2, <2>3, <2>4 DEF WorkerStep
<1>6. CASE DismissDialog \/ RaceCrash \/ UNCHANGED vars
  <2>1. ASSUME NEW w \in Workers, DismissWorkerDialog(w) PROVE TracksInv'
    BY <1>1, <2>1 DEF DismissWorkerDialog, WorkerAt, TracksInv, Loose, Exporting, history
  <2> QED BY <1>2, <1>3, <1>6, <2>1 DEF DismissDialog, DismissGuiDialog, RaceCrash, Crash,
          vars
<1>7. CASE EnvironmentStep
  <2>1. ASSUME NEW p \in PackPaths, NEW r \in RomPaths \cup {NoPath}, Restart(p, r)
        PROVE  TracksInv'
    BY <2>1, TracksStarted DEF Restart, TracksInv
  <2> QED BY <1>3, <1>7, <2>1 DEF EnvironmentStep, ChangeRomFile, history
<1> QED BY <1>5, <1>6, <1>7, TracksUser DEF Next

-------------------------------------------------------------------------------
(* What the tools are told, step by step.                                  *)
LEMMA NothingIsNoContent == NoEntry \notin Content
<1>1. NoEntry \notin EntryContent
  BY DEF NoEntry, EntryContent
<1>2. NoEntry \notin {"pcm"} \X Packs \X Nat
  BY DEF NoEntry
<1>3. NoEntry \notin {"merged"} \X Packs \X Seq(Nat)
  BY DEF NoEntry
<1>4. NoEntry \notin {"patched"} \X Packs
  BY DEF NoEntry
<1>5. NoEntry \notin {"forced"} \X Packs \X Images
  BY DEF NoEntry
<1>6. NoEntry # Junk
  BY DEF NoEntry, Junk
<1> QED BY <1>1, <1>2, <1>3, <1>4, <1>5, <1>6 DEF Content

LEMMA ToldStays ==
  ASSUME job' = job
  PROVE  /\ JobROM' = JobROM /\ (Written' <=> Written)
         /\ \A n : /\ TracksUpTo(n)' = TracksUpTo(n) /\ (GameBy(n)' <=> GameBy(n))
                  /\ (DataBy(n)' <=> DataBy(n))
BY DEF JobROM, Written, Forced, TracksUpTo, GameBy, DataBy, Entries, Source, NameOf

LEMMA GatheredIterate ==
  ASSUME TypeOK, OwnInv, PatchInv, ~overlapped, NEW w \in Workers, Gathered,
         Iterate(w), ~Crash
  PROVE  Gathered'
<1>0. app.zipIndex \in Nat
  BY AppFields DEF TypeOK
<1> PICK i \in Nat : i = app.zipIndex + 1
  BY <1>0
<1> DEFINE rom == <<JobDir, ProgramRom>>
<1>1. /\ i \in DOMAIN Entries /\ app'.zipIndex = i /\ job' = job
      /\ disk' = IF Named(i)
                 THEN WriteFile(disk, <<JobDir, Source(i)>>, <<"entry", job.pack, i>>)
                 ELSE disk
      /\ app'.trackIDs = app.trackIDs \cup
           (IF IsTrack(Entries[i]) THEN {TrackID(Entries[i])} ELSE {})
  BY IterateEffect
<1>2. /\ JobROM' = JobROM /\ JobDir' = JobDir
      /\ \A n : /\ TracksUpTo(n)' = TracksUpTo(n) /\ (GameBy(n)' <=> GameBy(n))
               /\ (DataBy(n)' <=> DataBy(n))
  BY <1>1, ToldStays, JobStays
<1>3. \A j \in DOMAIN Entries : j \in Nat
  BY EntryFacts
<1>4. \A j \in DOMAIN Entries : j <= i <=> (j <= app.zipIndex \/ j = i)
  BY <1>0, <1>3
<1>5. TracksUpTo(i) = TracksUpTo(app.zipIndex) \cup
        (IF IsTrack(Entries[i]) THEN {TrackID(Entries[i])} ELSE {})
  BY <1>1, <1>4 DEF TracksUpTo
<1>6. app'.trackIDs = TracksUpTo(i)
  BY <1>1, <1>5 DEF Gathered
<1>7. ASSUME JobROM = ProgramRom, GameBy(i) PROVE Exists(disk', rom)
  <2>1. CASE GameBy(app.zipIndex)
    <3>1. Exists(disk, rom)
      BY <1>7, <2>1 DEF Gathered
    <3> HIDE DEF rom
    <3> QED BY <1>1, <3>1, WriteExists
  <2>2. CASE ~GameBy(app.zipIndex)
    <3>1. Source(i) = ProgramRom
      BY <1>4, <1>7, <2>2 DEF GameBy
    <3>2. Named(i)
      BY <1>1, <3>1 DEF Named, Source, ProgramRom, NoName
    <3> HIDE DEF rom
    <3> QED BY <1>1, <3>1, <3>2, WriteExists DEF rom
  <2> QED BY <2>1, <2>2
<1>8. ASSUME DataBy(i) PROVE Exists(disk', <<JobDir, Msu1Rom>>)
  <2> DEFINE msu1 == <<JobDir, Msu1Rom>>
  <2>1. CASE DataBy(app.zipIndex)
    <3>1. Exists(disk, msu1)
      BY <2>1 DEF Gathered
    <3> HIDE DEF msu1
    <3>2. Exists(disk', msu1)
      BY <1>1, <3>1, WriteExists
    <3> QED BY <3>2 DEF msu1
  <2>2. CASE ~DataBy(app.zipIndex)
    <3>1. Source(i) = Msu1Rom
      BY <1>4, <1>8, <2>2 DEF DataBy
    <3>2. Named(i)
      BY <1>1, <3>1 DEF Named, Source, Msu1Rom, NoName
    <3> QED BY <1>1, <3>1, <3>2, WriteExists
  <2> QED BY <2>1, <2>2
<1> QED BY <1>1, <1>2, <1>6, <1>7, <1>8 DEF Gathered

LEMMA GatheredConvert ==
  ASSUME TypeOK, ~overlapped, NEW w \in Workers, Copied(w), Gathered, Convert(w), ~Crash,
         Active(w)'
  PROVE  Gathered'
<1>0. app.zipIndex \in Nat
  BY AppFields DEF TypeOK
<1> PICK i \in Nat : i = app.zipIndex
  BY <1>0
<1> DEFINE rom == <<JobDir, ProgramRom>>
           msu1 == <<JobDir, Msu1Rom>>
           path == <<JobDir, Source(i)>>
           pcm == <<JobDir, Pcm(i)>>
           c == <<"pcm", job.pack, i>>
<1>1. app' = app /\ job' = job /\ worker[w].at = "convert"
  BY ConvertEffect
<1>2. PICK d : /\ d = disk \/ d = WriteFile(disk, pcm, c)
               /\ disk' = RemoveFile(d, path)
  BY ConvertEffect
<1>3. Named(i) /\ Converts(Entries[i])
  BY <1>1 DEF Copied
<1>4. path # rom /\ path # msu1
  <2>1. Source(i)[3] # ".rom"
    BY <1>3, SlotSuffix DEF Named, TrackExts
  <2> QED BY <2>1 DEF ProgramRom, Msu1Rom
<1>5. JobROM' = JobROM /\ JobDir' = JobDir
      /\ \A n : /\ TracksUpTo(n)' = TracksUpTo(n) /\ (GameBy(n)' <=> GameBy(n))
               /\ (DataBy(n)' <=> DataBy(n))
  BY <1>1, ToldStays, JobStays
<1> HIDE DEF path, pcm, c, rom, msu1
<1>6. /\ Exists(disk, rom) => Exists(disk', rom)
      /\ Exists(disk, msu1) => Exists(disk', msu1)
  BY <1>2, <1>4, WriteExists, RemoveExists
<1> QED BY <1>1, <1>5, <1>6 DEF Gathered, rom, msu1

(* The tools describe the images that are there.                           *)
LEMMA SaysFinish ==
  ASSUME TypeOK, OwnInv, PatchInv, ~overlapped, NEW w \in Workers, Copied(w), Gathered,
         Finish(w), Written, job.createManifest = app.createManifest
  PROVE  Says(w)' /\ Names(w)'
<1>1. /\ app' = app /\ job' = job /\ disk' = disk
      /\ app.zipIndex >= Len(Entries) /\ worker[w].at = "iterate"
      /\ worker'[w].at = IF Forced THEN "rename1" ELSE "reset1"
  BY FinishEffect
<1>2. app.zipIndex = Len(Entries)
  <2>1. app.zipIndex \in Nat /\ Len(Entries) \in Nat
    BY FilesType, AppFields DEF TypeOK, JobType, Entries
  <2> QED BY <1>1, <2>1 DEF Copied
<1>3. /\ app.exportMethod = job.exportMethod /\ app.forceManifest = job.forceManifest
      /\ app.destination = JobDir
  BY <1>1, JobIsApp DEF Exporting
<1>4. JobDir \in Dirs /\ DiskType(disk) /\ manifest \in [Dirs -> Manifest]
  <2>1. app.destination \in Dirs
    BY AppFields DEF TypeOK
  <2> QED BY <1>3, <2>1 DEF TypeOK, DiskType
<1>5. PICK board \in BoardsOf(disk, JobDir) :
        manifest' = [manifest EXCEPT ![JobDir] = ManifestOf(app, board)]
  BY <1>3 DEF Finish, Written, Forced
<1> DEFINE parts == BoardFiles(disk, JobDir, board)
           names == IF Forced THEN {Substituted(name, app.outputName) : name \in parts}
                    ELSE parts
           m == Described(disk, JobDir, names, IF Forced THEN app.trackIDs ELSE {})
<1>f. app.outputName = job.outputName
  BY <1>1, JobIsApp DEF Exporting
<1>6. manifest'[JobDir'] = m
  <2>1. ManifestOf(app, board) = m
    BY <1>3 DEF ManifestOf, Written, Forced
  <2> HIDE DEF m
  <2> QED BY <1>1, <1>4, <1>5, <2>1, JobStays
<1>n. names # {} => /\ FinalName(ProgramRom) \in names
                    /\ Exists(disk, <<JobDir, Msu1Rom>>) => FinalName(Msu1Rom) \in names
  <2> SUFFICES ASSUME names # {} PROVE /\ FinalName(ProgramRom) \in names
                                       /\ Exists(disk, <<JobDir, Msu1Rom>>) =>
                                            FinalName(Msu1Rom) \in names
    OBVIOUS
  <2>1. ProgramRom \in parts /\ (Exists(disk, <<JobDir, Msu1Rom>>) => Msu1Rom \in parts)
    BY DEF BoardFiles
  <2>2. CASE Forced
    <3>1. /\ Substituted(ProgramRom, app.outputName) = FinalName(ProgramRom)
          /\ Substituted(Msu1Rom, app.outputName) = FinalName(Msu1Rom)
      BY <1>f, <2>2 DEF Substituted, FinalName, ProgramRom, Msu1Rom
    <3> HIDE DEF parts
    <3> QED BY <2>1, <2>2, <3>1
  <2>3. CASE ~Forced
    BY <2>1, <2>3 DEF FinalName
  <2> QED BY <2>2, <2>3
<1> HIDE DEF names
<1>7. ASSUME NEW rom \in m.image
      PROVE  rom[1][3] = ".rom" /\ rom[2] # NoEntry /\ At(disk', Here(w, rom[1])') = rom[2]
  <2>1. PICK path \in ROMImages(disk, JobDir) : rom = <<path[2], disk[path]>>
    BY <1>7, Zenon DEF Described
  <2>2. /\ path \in DOMAIN disk /\ path[1] = JobDir /\ path[2][3] = ".rom" /\ path \in Path
    BY <1>4, <2>1 DEF ROMImages, DiskType
  <2>3. path = <<JobDir, rom[1]>>
    BY <2>1, <2>2 DEF Path
  <2>4. At(disk, path) = rom[2] /\ rom[2] # NoEntry
    BY <1>4, <2>1, <2>2, NothingIsNoContent DEF At, Exists, DiskType
  <2>5. Here(w, rom[1])' = <<JobDir, rom[1]>>
    BY <1>1, JobStays DEF Here, Renamed, FinalName
  <2> QED BY <1>1, <2>1, <2>2, <2>3, <2>4, <2>5
<1>8. ASSUME GameBy(Len(Entries)) PROVE \E rom \in m.image : rom[1] = ProgramRom
  <2> DEFINE path == <<JobDir, ProgramRom>>
  <2>1. JobROM = ProgramRom
    BY DEF JobROM, ROMName, Written, Forced
  <2>2. path \in DOMAIN disk
    BY <1>2, <1>8, <2>1 DEF Gathered, Exists
  <2>3. path[2][1] \in RomGlobs[1] /\ 1 \in DOMAIN RomGlobs /\ path[2][3] = ".rom"
    BY DEF RomGlobs, ProgramRom
  <2>4. path \in ROMImages(disk, JobDir)
    BY <2>2, <2>3, Zenon DEF ROMImages
  <2>5. <<path[2], disk[path]>> \in m.image
    BY <2>4 DEF Described
  <2> QED BY <2>5
<1>9. Forced => m.tracks = TracksUpTo(Len(Entries))
  BY <1>2 DEF Gathered, Described
<1>10. /\ Entries' = Entries /\ (Forced' <=> Forced)
       /\ \A n : /\ TracksUpTo(n)' = TracksUpTo(n) /\ (GameBy(n)' <=> GameBy(n))
                /\ (DataBy(n)' <=> DataBy(n))
  BY <1>1, JobStays, ToldStays
<1>11. Says(w)'
  <2> HIDE DEF m
  <2> QED BY <1>6, <1>7, <1>8, <1>9, <1>10 DEF Says
<1>12. Names(w)'
  <2>1. /\ GameBy(Len(Entries)) => Exists(disk, <<JobDir, ProgramRom>>)
        /\ DataBy(Len(Entries)) => Exists(disk, <<JobDir, Msu1Rom>>)
    <3>1. JobROM = ProgramRom
      BY DEF JobROM, ROMName, Written, Forced
    <3> QED BY <1>2, <3>1 DEF Gathered
  <2>2. ~Forced => FinalName(ProgramRom) = ProgramRom /\ FinalName(Msu1Rom) = Msu1Rom
    BY DEF FinalName
  <2>3. m.names = names
    BY DEF Described
  <2>4. \A n : (DataBy(n)' <=> DataBy(n))
    BY <1>1, ToldStays
  <2>5. \A name : FinalName(name)' = FinalName(name)
    BY <1>1, JobStays
  <2>6. JobDir' = JobDir
    BY <1>1, JobStays
  <2> HIDE DEF m
  <2> QED BY <1>1, <1>6, <1>n, <1>10, <2>1, <2>2, <2>3, <2>4, <2>5, <2>6 DEF Names
<1> QED BY <1>11, <1>12

(* The two renames carry the described images to where they belong.        *)
LEMMA SaysRename ==
  ASSUME TypeOK, OwnInv, PatchInv, ~overlapped, NEW w \in Workers, Says(w),
         Forced, job' = job, manifest' = manifest,
         NEW from, NEW to, to[3] # ".rom", from[3] = ".rom",
         (RenameROM(w) /\ from = ProgramRom) \/ (RenameMsu1(w) /\ from = Msu1Rom),
         disk' = RenameFile(disk, <<JobDir, from>>, <<JobDir, to>>),
         Here(w, from) = <<JobDir, from>>,
         \A name : name # from /\ name[3] = ".rom" =>
           /\ Here(w, name)' = Here(w, name)
           /\ Here(w, name) # <<JobDir, from>> /\ Here(w, name) # <<JobDir, to>>
  PROVE  Says(w)'
<1>1. /\ Entries' = Entries /\ (Forced' <=> Forced) /\ JobDir' = JobDir
      /\ \A n : TracksUpTo(n)' = TracksUpTo(n) /\ (GameBy(n)' <=> GameBy(n))
  BY JobStays, ToldStays
<1>2. manifest'[JobDir'] = manifest[JobDir]
  BY <1>1
<1>3. ASSUME NEW rom \in manifest[JobDir].image
      PROVE  rom[1][3] = ".rom" /\ rom[2] # NoEntry /\ At(disk', Here(w, rom[1])') = rom[2]
  <2>1. rom[1][3] = ".rom" /\ rom[2] # NoEntry /\ At(disk, Here(w, rom[1])) = rom[2]
    BY <1>3 DEF Says
  <2>2. CASE rom[1] = from
    <3>1. At(disk, <<JobDir, from>>) = rom[2]
      BY <2>1, <2>2
    <3>2. At(disk', Here(w, from)') = rom[2]
      BY <2>1, <3>1, RenamedContent
    <3>3. Here(w, rom[1])' = Here(w, from)'
      BY <2>2 DEF Here, Renamed
    <3> QED BY <2>1, <3>2, <3>3
  <2>3. CASE rom[1] # from
    <3>1. /\ Here(w, rom[1])' = Here(w, rom[1])
          /\ Here(w, rom[1]) # <<JobDir, from>> /\ Here(w, rom[1]) # <<JobDir, to>>
      BY <2>1, <2>3
    <3>2. At(disk', Here(w, rom[1])) = At(disk, Here(w, rom[1]))
      BY <3>1, RenameFrame
    <3> QED BY <2>1, <3>1, <3>2
  <2> QED BY <2>2, <2>3
<1> QED BY <1>1, <1>2, <1>3 DEF Says

LEMMA SaysRenames ==
  ASSUME TypeOK, OwnInv, PatchInv, ~overlapped, NEW w \in Workers, Says(w),
         RenameROM(w) \/ RenameMsu1(w)
  PROVE  Says(w)'
<1>1. /\ Forced /\ job' = job /\ JobDir' = JobDir /\ (Forced' <=> Forced)
      /\ \A name : FinalName(name)' = FinalName(name) /\ (Stays(name)' <=> Stays(name))
  BY ForcedRenames, JobStays
<1>2. manifest' = manifest
  BY DEF RenameROM, RenameMsu1
<1>3. /\ ProgramRom[3] = ".rom" /\ Msu1Rom[3] = ".rom" /\ ProgramRom # Msu1Rom
      /\ Sfc(job.outputName)[3] = ".sfc" /\ Msu(job.outputName)[3] = ".msu"
  BY DEF ProgramRom, Msu1Rom, Sfc, Msu
<1>f. /\ FinalName(ProgramRom) = Sfc(job.outputName)
      /\ FinalName(Msu1Rom) = Msu(job.outputName)
      /\ \A name : name # ProgramRom /\ name # Msu1Rom => FinalName(name) = name
  BY <1>1, <1>3 DEF FinalName
<1>4. CASE RenameROM(w)
  <2>1. /\ worker[w].at = "rename1" /\ worker'[w].at = "rename2"
        /\ disk' = RenameFile(disk, <<JobDir, ProgramRom>>, <<JobDir, Sfc(job.outputName)>>)
    BY <1>4, ForcedRenames
  <2>2. /\ \A name : Here(w, name) = <<JobDir, name>>
        /\ \A name : name # ProgramRom => Here(w, name)' = <<JobDir, name>>
    BY <1>1, <2>1 DEF Here, Renamed
  <2>3. \A name : name # ProgramRom /\ name[3] = ".rom" =>
          /\ Here(w, name)' = Here(w, name)
          /\ Here(w, name) # <<JobDir, ProgramRom>>
          /\ Here(w, name) # <<JobDir, Sfc(job.outputName)>>
    BY <1>3, <2>2
  <2>4. Here(w, ProgramRom) = <<JobDir, ProgramRom>>
    BY <2>2
  <2> QED BY <1>1, <1>2, <1>3, <1>4, <2>1, <2>3, <2>4, SaysRename
<1>5. CASE RenameMsu1(w)
  <2>1. /\ worker[w].at = "rename2" /\ worker'[w].at = "reset1"
        /\ disk' = RenameFile(disk, <<JobDir, Msu1Rom>>, <<JobDir, Msu(job.outputName)>>)
    BY <1>5, ForcedRenames
  <2>2. /\ \A name : name # ProgramRom => Here(w, name) = <<JobDir, name>>
        /\ Here(w, ProgramRom) \in {<<JobDir, ProgramRom>>, <<JobDir, Sfc(job.outputName)>>}
    BY <1>f, <2>1 DEF Here, Renamed
  <2>3. \A name : name # Msu1Rom => Here(w, name)' = Here(w, name)
    BY <1>1, <1>3, <2>1 DEF Here, Renamed
  <2>4. \A name : name # Msu1Rom /\ name[3] = ".rom" =>
          /\ Here(w, name)' = Here(w, name)
          /\ Here(w, name) # <<JobDir, Msu1Rom>>
          /\ Here(w, name) # <<JobDir, Msu(job.outputName)>>
    BY <1>3, <2>2, <2>3
  <2>5. Here(w, Msu1Rom) = <<JobDir, Msu1Rom>>
    BY <1>3, <2>2
  <2> QED BY <1>1, <1>2, <1>3, <1>5, <2>1, <2>4, <2>5, SaysRename
<1> QED BY <1>4, <1>5

(* And they leave files of the names that were substituted.                *)
LEMMA NamesRenames ==
  ASSUME TypeOK, OwnInv, PatchInv, ~overlapped, NEW w \in Workers, Names(w),
         RenameROM(w) \/ RenameMsu1(w)
  PROVE  Names(w)'
<1> DEFINE rom == <<JobDir, ProgramRom>>
           sfc == <<JobDir, Sfc(job.outputName)>>
           msu1 == <<JobDir, Msu1Rom>>
           msu == <<JobDir, Msu(job.outputName)>>
<1>1. /\ Forced /\ job' = job /\ JobDir' = JobDir
      /\ \A name : FinalName(name)' = FinalName(name)
      /\ Entries' = Entries
      /\ \A n : (GameBy(n)' <=> GameBy(n)) /\ (DataBy(n)' <=> DataBy(n))
  BY ForcedRenames, JobStays, ToldStays
<1>2. manifest' = manifest
  BY DEF RenameROM, RenameMsu1
<1>3. /\ FinalName(ProgramRom) = Sfc(job.outputName)
      /\ FinalName(Msu1Rom) = Msu(job.outputName)
  BY <1>1 DEF FinalName, ProgramRom, Msu1Rom
<1>4. /\ rom # sfc /\ rom # msu1 /\ rom # msu /\ sfc # msu1 /\ sfc # msu /\ msu1 # msu
  BY DEF ProgramRom, Msu1Rom, Sfc, Msu
<1>5. CASE RenameROM(w)
  <2>1. /\ worker[w].at = "rename1" /\ worker'[w].at = "rename2"
        /\ disk' = RenameFile(disk, rom, sfc)
    BY <1>5, ForcedRenames
  <2>2. /\ GameBy(Len(Entries)) => Exists(disk, rom)
        /\ DataBy(Len(Entries)) => Exists(disk, msu1)
    BY <2>1 DEF Names
  <2> HIDE DEF rom, sfc, msu1, msu
  <2>3. /\ GameBy(Len(Entries)) => Exists(disk', sfc)
        /\ DataBy(Len(Entries)) => Exists(disk', msu1)
    BY <1>4, <2>1, <2>2, RenameArrives, RenameKeeps
  <2> QED BY <1>1, <1>2, <1>3, <2>1, <2>3 DEF Names, sfc, msu1
<1>6. CASE RenameMsu1(w)
  <2>1. /\ worker[w].at = "rename2" /\ worker'[w].at = "reset1"
        /\ disk' = RenameFile(disk, msu1, msu)
    BY <1>6, ForcedRenames
  <2>2. /\ GameBy(Len(Entries)) => Exists(disk, sfc)
        /\ DataBy(Len(Entries)) => Exists(disk, msu1)
    BY <1>3, <2>1 DEF Names
  <2> HIDE DEF rom, sfc, msu1, msu
  <2>3. /\ GameBy(Len(Entries)) => Exists(disk', sfc)
        /\ DataBy(Len(Entries)) => Exists(disk', msu)
    BY <1>4, <2>1, <2>2, RenameArrives, RenameKeeps
  <2> QED BY <1>1, <1>2, <1>3, <2>1, <2>3 DEF Names, sfc, msu
<1> QED BY <1>5, <1>6

(* At the click nothing is gathered, and the game is merged or patched.    *)
LEMMA ToldClick ==
  ASSUME TypeOK, Cached(app), TracksInv, NEW w \in Workers, ClickExport(w), ~overlapped',
         app' = Begun(app), worker'[w].at = "iterate",
         app'.createManifest = app.createManifest
  PROVE  Told(w)'
<1> DEFINE s == Begun(app)
           rom == <<JobDir, ProgramRom>>
<1>1. app \in AppType /\ app.pack \in Packs \cup {NoPack} /\ app.exportMethod \in Methods
      /\ app.forceManifest \in BOOLEAN
  BY AppFields DEF TypeOK
<1>2. app'.zipIndex = 0 /\ app'.trackIDs = {}
  <2>1. app.trackIDs = {}
    BY DEF ClickExport, TracksInv, Loose, Exporting
  <2> QED BY <1>1, <2>1, BegunIndex
<1>3. /\ job'.pack = app.pack /\ job'.createManifest = app.createManifest
      /\ job'.exportMethod = app.exportMethod /\ job'.forceManifest = app.forceManifest
      /\ job'.outputName = app.outputName
  BY DEF ClickExport, JobOf
<1>4. Entries' \in Seq(Entry)
  BY <1>1, <1>3, FilesType DEF Entries
<1>5. \A j \in DOMAIN Entries' : j \in Nat \ {0}
  BY <1>4
<1>6. TracksUpTo(0)' = {}
  BY <1>5 DEF TracksUpTo
<1>7. ASSUME JobROM' = ProgramRom, GameBy(0)' PROVE Exists(disk', rom')
  <2>1. ROMTarget(s) = rom'
    BY <1>1, <1>3, <1>7, BegunFields DEF ROMTarget, JobDir, JobROM
  <2>2. \/ app.exportMethod = SD2SNES
        \/ HasMsu1(app.pack) /\ HasPatch(app.pack)
    BY <1>3, <1>5, <1>7 DEF GameBy, Forced
  <2>3. ~Crash /\ worker' # worker
    BY DEF Crash, Ends, NoWork, ClickExport
  <2>4. s.patchContents = app.patchContents /\ s.exportMethod = app.exportMethod
    BY <1>1, BegunPack, BegunFields
  <2> HIDE DEF s
  <2>5. s.patchContents = NoPack => app.exportMethod = SD2SNES
    BY <2>2, <2>4, NothingOpened DEF Cached
  <2>6. \/ s.patchContents = NoPack /\ disk' = MergedFiles(s)
        \/ \E o \in PatchOutcomes(s) : disk' = WriteFile(MergedFiles(s), ROMTarget(s), o.content)
    BY <2>3, Zenon DEF ClickExport, s
  <2>7. app.exportMethod = SD2SNES => Exists(MergedFiles(s), ROMTarget(s))
    BY <2>4, WriteExists DEF MergedFiles
  <2>8. Exists(disk', ROMTarget(s))
    BY <2>5, <2>6, <2>7, WriteExists
  <2> QED BY <2>1, <2>8
<1>8. Gathered'
  <2>1. ~DataBy(0)'
    BY <1>5 DEF DataBy
  <2> QED BY <1>2, <1>6, <1>7, <2>1 DEF Gathered
<1> QED BY <1>3, <1>8 DEF Told

LEMMA BegunManifest ==
  ASSUME NEW s \in AppType
  PROVE  Begun(s).createManifest = s.createManifest
<1> DEFINE dir == Destination(s.exportMethod, s.forceManifest, s.outputName)
           d == Disabled(s)
<1>1. d \in AppType
  BY EnablingType
<1>2. d.createManifest = s.createManifest
  BY DEF Disabled, AppType
<1> HIDE DEF d, dir
<1>3. LET b == [d EXCEPT !.destination = dir, !.zipIndex = 0]
      IN  b.createManifest = s.createManifest
  BY <1>1, <1>2 DEF AppType
<1> QED BY <1>3 DEF Begun, d, dir

LEMMA ToldStep ==
  ASSUME TypeOK, LockInv, OwnInv, Cached(app), DialogInv, PatchInv, CopyInv, TracksInv,
         ToldInv, [Next]_vars
  PROVE  ToldInv'
<1> SUFFICES ASSUME ~overlapped', NEW w \in Workers, Active(w)' PROVE Told(w)'
  BY DEF ToldInv
<1>1. proc' = "running"
  <2>1. LockInv'
    BY LockStep
  <2> QED BY <2>1 DEF LockInv, Idle, Active, Exporting
<1>2. CASE Exporting(w)' /\ ~(Exporting(w) /\ ~overlapped)
  <2>1. ClickExport(w) /\ app' = Begun(app) /\ worker'[w].at = "iterate"
    BY <1>2, ExportBegins
  <2>2. app'.createManifest = app.createManifest
    <3>1. app \in AppType
      BY DEF TypeOK
    <3>2. Begun(app).createManifest = app.createManifest
      BY <3>1, BegunManifest
    <3> QED BY <2>1, <3>2
  <2> QED BY <2>1, <2>2, ToldClick
<1>3. CASE Active(w) /\ ~overlapped
  <2>1. ~Crash
    BY <1>1 DEF Crash, Ends
  <2>2. Copied(w) /\ Told(w)
    BY <1>3 DEF CopyInv, ToldInv
  <2>3. CASE UNCHANGED <<app, job, disk, manifest>> /\ worker'[w] = worker[w]
    <3>1. /\ Entries' = Entries /\ (Forced' <=> Forced) /\ JobDir' = JobDir
          /\ JobROM' = JobROM /\ (Written' <=> Written)
          /\ \A n : /\ TracksUpTo(n)' = TracksUpTo(n) /\ (GameBy(n)' <=> GameBy(n))
                   /\ (DataBy(n)' <=> DataBy(n))
      BY <2>3, JobStays, ToldStays
    <3>2. Gathered => Gathered'
      BY <2>3, <3>1 DEF Gathered
    <3>3. \A name : Here(w, name)' = Here(w, name) /\ FinalName(name)' = FinalName(name)
      BY <2>3, <3>1, JobStays DEF Here, Renamed
    <3>4. (Says(w) => Says(w)') /\ (Names(w) => Names(w)')
      BY <2>3, <3>1, <3>3 DEF Says, Names
    <3> QED BY <2>2, <2>3, <3>1, <3>2, <3>4 DEF Told
  <2>4. ASSUME Iterate(w) \/ Convert(w) \/ Finish(w) \/ RenameROM(w) \/ RenameMsu1(w)
        PROVE  /\ job'.createManifest = app'.createManifest /\ (Written' <=> Written)
               /\ job.createManifest = app.createManifest
    <3>1. job' = job /\ Exporting(w)
      BY <2>4 DEF Iterate, Convert, Finish, RenameROM, RenameMsu1, WorkerAt, Exporting,
         history
    <3>2. Settings' = Settings
      BY <1>1, <1>3, <3>1, FrozenStep
    <3>3. app'.createManifest = app.createManifest
      BY <3>2 DEF Settings
    <3> QED BY <2>2, <3>1, <3>3, ToldStays DEF Told
  <2>5. CASE Iterate(w)
    <3>1. worker[w].at = "iterate" /\ worker'[w].at \in {"iterate", "convert"}
      BY <1>3, <2>1, <2>5, PatchIterate DEF Iterate, WorkerAt
    <3>2. Gathered'
      BY <1>3, <2>1, <2>2, <2>5, <3>1, GatheredIterate DEF Told
    <3> QED BY <2>4, <2>5, <3>1, <3>2 DEF Told
  <2>6. CASE Convert(w)
    <3>1. worker[w].at = "convert" /\ worker'[w].at = "iterate"
      BY <1>3, <2>1, <2>2, <2>6, AppFields, ConvertEffect DEF TypeOK
    <3>2. Gathered'
      BY <1>3, <2>1, <2>2, <2>6, <3>1, GatheredConvert DEF Told
    <3> QED BY <2>4, <2>6, <3>1, <3>2 DEF Told
  <2>7. CASE Finish(w)
    <3>1. worker[w].at = "iterate" /\ worker'[w].at \notin {"iterate", "convert"}
      BY <1>3, <2>7, FinishEffect
    <3>2. Written => Says(w)' /\ Names(w)'
      BY <1>3, <2>2, <2>4, <2>7, <3>1, SaysFinish DEF Told
    <3> QED BY <2>4, <2>7, <3>1, <3>2 DEF Told
  <2>8. CASE RenameROM(w) \/ RenameMsu1(w)
    <3>1. worker[w].at \in {"rename1", "rename2"} /\ worker'[w].at \notin {"iterate", "convert"}
      BY <1>3, <2>8, ForcedRenames
    <3>2. Written => Says(w)' /\ Names(w)'
      BY <1>3, <2>2, <2>8, <3>1, SaysRenames, NamesRenames DEF Told
    <3> QED BY <2>4, <2>8, <3>1, <3>2 DEF Told
  <2> QED BY <1>3, <2>3, <2>5, <2>6, <2>7, <2>8, WorkerAlone
<1>4. CASE ~Exporting(w)' /\ ~(Active(w) /\ ~overlapped)
  <2>1. worker'[w].at = "reset1" /\ ~worker'[w].failed
    BY <1>4 DEF Active
  <2> QED BY <1>4, <2>1, SuccessIsEarned
<1> QED BY <1>2, <1>3, <1>4 DEF Active

THEOREM ToldInvariance ==
  Spec => [](TypeOK /\ LockInv /\ OwnInv /\ Cached(app) /\ DialogInv /\ PatchInv /\ CopyInv
             /\ TracksInv /\ ToldInv)
<1>1. Init => TracksInv /\ ToldInv
  BY TracksStarted DEF Init, Start, NoWork, TracksInv, ToldInv, Active, Exporting
<1>2. TypeOK /\ LockInv /\ OwnInv /\ Cached(app) /\ DialogInv /\ PatchInv /\ CopyInv
        /\ TracksInv /\ ToldInv /\ [Next]_vars => TracksInv' /\ ToldInv'
  BY TracksStep, ToldStep
<1> QED BY <1>1, <1>2, CopyInvariance, PTL DEF Spec

(* An entry of that name brings the game to its place.                     *)
LEMMA ProgramEntry ==
  ASSUME TypeOK, HasROM(job.pack), job.exportMethod = GamePak
  PROVE  \E i \in DOMAIN Entries : i <= Len(Entries) /\ Source(i) = ProgramRom
<1>1. Entries \in Seq(Entry) /\ job.pack \in Packs \cup {NoPack}
  BY FilesType DEF TypeOK, JobType, Entries
<1>2. PICK i \in DOMAIN Entries : Entries[i].stem = "program" /\ Entries[i].ext = ".rom"
  BY Zenon DEF HasROM, Fetch, Entries
<1>3. i <= Len(Entries)
  BY <1>1
<1>4. ~IsTrack(Entries[i])
  BY <1>2 DEF IsTrack, TrackExts
<1>5. Source(i) = ProgramRom
  BY <1>2, <1>4 DEF Source, NameOf, ExportName, ProgramRom
<1> QED BY <1>3, <1>5

LEMMA DataEntry ==
  ASSUME TypeOK, HasMsu1(job.pack), Written
  PROVE  DataBy(Len(Entries))
<1>1. Entries \in Seq(Entry) /\ job.pack \in Packs \cup {NoPack}
  BY FilesType DEF TypeOK, JobType, Entries
<1>2. PICK i \in DOMAIN Entries : Entries[i].stem = "msu1" /\ Entries[i].ext = ".rom"
  BY Zenon DEF HasMsu1, Fetch, Entries
<1>3. i <= Len(Entries)
  BY <1>1
<1>4. ~IsTrack(Entries[i])
  BY <1>2 DEF IsTrack, TrackExts
<1>5. Source(i) = Msu1Rom
  BY <1>2, <1>4 DEF Source, NameOf, ExportName, Msu1Rom, Written, Forced
<1> QED BY <1>3, <1>5 DEF DataBy

(* A manifest written by an export is made from the images that lie there  *)
(* in the end, the game of an archive that validatePack accepts among      *)
(* them, names the game and the data track as the renames leave them, and  *)
(* lists all the tracks of the pack if it is forced.                       *)
THEOREM ManifestIsTrue == Spec => []ManifestMatchesFolder
<1>1. TypeOK /\ ToldInv => ManifestMatchesFolder
  <2> SUFFICES ASSUME TypeOK, ToldInv, NEW w \in Workers, Delivered(w), Written
               PROVE  LET m == manifest[JobDir] IN
                      /\ \A image \in m.image : At(disk, Final(image[1])) = image[2]
                      /\ BringsGame(job.pack) =>
                           /\ \E image \in m.image : image[1] = ProgramRom
                           /\ m.names # {} => Mentions(ProgramRom)
                      /\ HasMsu1(job.pack) /\ m.names # {} => Mentions(Msu1Rom)
                      /\ Forced => m.tracks =
                           {TrackID(e) : e \in {f \in ToSet(Files(job.pack)) : IsTrack(f)}}
    BY Zenon DEF ManifestMatchesFolder
  <2>1. worker[w].at = "reset1" /\ Active(w) /\ ~overlapped
    BY DEF Delivered, Active
  <2>2. Says(w) /\ Names(w)
    BY <2>1 DEF ToldInv, Told
  <2>3. \A name : Here(w, name) = Final(name)
    BY <2>1 DEF Here, Renamed, Final, FinalName
  <2>4. BringsGame(job.pack) => GameBy(Len(Entries))
    BY ProgramEntry DEF GameBy, Written, BringsGame
  <2>5. TracksUpTo(Len(Entries)) =
          {TrackID(e) : e \in {f \in ToSet(Files(job.pack)) : IsTrack(f)}}
    <3>1. Entries \in Seq(Entry)
      BY FilesType DEF TypeOK, JobType, Entries
    <3>2. \A j \in DOMAIN Entries : j <= Len(Entries)
      BY <3>1
    <3> QED BY <3>2 DEF TracksUpTo, Entries, ToSet
  <2>6. HasMsu1(job.pack) => DataBy(Len(Entries))
    BY DataEntry
  <2>7. manifest[JobDir].names # {} =>
          /\ GameBy(Len(Entries)) => Mentions(ProgramRom)
          /\ DataBy(Len(Entries)) => Mentions(Msu1Rom)
    BY <2>1, <2>2 DEF Names, Mentions
  <2> QED BY <2>2, <2>3, <2>4, <2>5, <2>6, <2>7 DEF Says
<1> QED BY <1>1, ToldInvariance, PTL

-------------------------------------------------------------------------------
(***************************************************************************)
(* The window, its threads and its resets implement ExportJob.             *)
(***************************************************************************)
Reset1To5 == {"reset1", "reset2", "reset3", "reset4", "reset5"}

(* What the mapping needs besides the invariants above: no box outlives    *)
(* its process, only a thread that is on its way out has failed, and what  *)
(* is exported is an archive.                                              *)
BoxInv    == proc # "running" => ~guiDialog
FailedInv == \A w \in Workers : worker[w].failed => worker[w].at \in Reset1To5 \cup {"dialog"}
PackInv   == ~overlapped => \A w \in Workers : Exporting(w) => app.pack \in Packs

JobInv == /\ TypeOK /\ LockInv /\ OwnInv /\ Cached(app) /\ DialogInv /\ PatchInv /\ CopyInv
          /\ BoxInv /\ FailedInv /\ PackInv

LEMMA BoxStep ==
  ASSUME BoxInv, LockInv, [Next]_vars
  PROVE  BoxInv'
<1>1. ASSUME NEW how, Ends(how) PROVE BoxInv'
  BY <1>1 DEF Ends, BoxInv
<1>2. CASE UNCHANGED <<guiDialog, proc>>
  BY <1>2 DEF BoxInv
<1>3. ASSUME NEW faults, NEW s, Callback(faults, s) PROVE BoxInv'
  BY <1>1, <1>2, <1>3 DEF Callback, Crash
<1>4. ASSUME NEW w \in Workers, ClickExport(w) PROVE BoxInv'
  <2>1. proc = "running" /\ (Crash \/ proc' = proc)
    BY <1>4 DEF ClickExport, Interactive
  <2> QED BY <1>1, <2>1 DEF Crash, BoxInv
<1>5. CASE UserStep
  BY <1>1, <1>3, <1>4, <1>5 DEF UserStep, ChangePackPath, ChangeRomPath,
     ChangeOutputName, ChooseMethod, ToggleCreateManifest, ToggleForceManifest,
     ToggleViolateBPS, Quit
<1>6. CASE DismissDialog \/ RaceCrash \/ UNCHANGED vars
  BY <1>1, <1>2, <1>6 DEF DismissDialog, DismissGuiDialog, DismissWorkerDialog,
     RaceCrash, Crash, vars, BoxInv
<1>7. ASSUME NEW w \in Workers, WorkerStep(w) PROVE BoxInv'
  <2>1. Crash \/ UNCHANGED <<guiDialog, proc>>
    BY <1>7 DEF WorkerStep, Iterate, Convert, Finish, RenameROM, RenameMsu1,
       ResetPack, ResetTexts, ResetBasic, ResetAdvanced, ResetStep, ResetExport
  <2> QED BY <1>1, <1>2, <2>1 DEF Crash
<1>8. CASE EnvironmentStep
  BY <1>2, <1>8 DEF EnvironmentStep, Restart, ChangeRomFile, BoxInv
<1> QED BY <1>5, <1>6, <1>7, <1>8 DEF Next

LEMMA FailedStep ==
  ASSUME TypeOK, FailedInv, [Next]_vars
  PROVE  FailedInv'
<1> worker \in [Workers -> WorkType]
  BY DEF TypeOK
<1>1. ASSUME NEW how, Ends(how) PROVE FailedInv'
  BY <1>1 DEF Ends, NoWork, FailedInv
<1>2. CASE UNCHANGED worker
  BY <1>2 DEF FailedInv
<1>3. ASSUME NEW faults, NEW s, Callback(faults, s) PROVE FailedInv'
  BY <1>1, <1>2, <1>3 DEF Callback, Crash
<1>4. ASSUME NEW w \in Workers, NEW at,
             worker' = [worker EXCEPT ![w] = [NoWork EXCEPT !.at = at]]
      PROVE  FailedInv'
  BY <1>4 DEF NoWork, FailedInv
<1>5. ASSUME NEW w \in Workers, ClickExport(w) PROVE FailedInv'
  BY <1>1, <1>2, <1>4, <1>5 DEF ClickExport, Crash
<1>6. CASE UserStep
  BY <1>1, <1>3, <1>5, <1>6 DEF UserStep, ChangePackPath, ChangeRomPath,
     ChangeOutputName, ChooseMethod, ToggleCreateManifest, ToggleForceManifest,
     ToggleViolateBPS, Quit
<1>7. CASE DismissDialog \/ RaceCrash \/ UNCHANGED vars \/ EnvironmentStep
  <2>1. ASSUME NEW w \in Workers, DismissWorkerDialog(w) PROVE FailedInv'
    BY <2>1 DEF DismissWorkerDialog, NoWork, FailedInv
  <2> QED BY <1>1, <1>2, <1>7, <2>1 DEF DismissDialog, DismissGuiDialog,
     RaceCrash, Crash, vars, EnvironmentStep, Restart, ChangeRomFile
<1>8. ASSUME NEW w \in Workers, WorkerStep(w) PROVE FailedInv'
  <2>1. CASE Iterate(w)
    <3>1. CASE Crash
      BY <1>1, <3>1 DEF Crash
    <3>2. CASE UNCHANGED worker
      BY <1>2, <3>2
    <3>3. ASSUME NEW path,
                 worker' = [worker EXCEPT ![w] = [NoWork EXCEPT !.at = "convert", !.path = path]]
          PROVE  FailedInv'
      BY <3>3 DEF NoWork, FailedInv
    <3> QED BY <2>1, <3>1, <3>2, <3>3 DEF Iterate
  <2>2. CASE Convert(w)
    <3>1. CASE Crash
      BY <1>1, <3>1 DEF Crash
    <3>2. CASE worker' = [worker EXCEPT ![w] = [NoWork EXCEPT !.at = "reset1", !.failed = TRUE]]
      BY <3>2 DEF NoWork, FailedInv, Reset1To5
    <3> QED BY <1>4, <2>2, <3>1, <3>2 DEF Convert
  <2>3. CASE Finish(w) \/ RenameROM(w) \/ RenameMsu1(w)
    <3>1. ~worker[w].failed
      BY <2>3 DEF Finish, RenameROM, RenameMsu1, WorkerAt, FailedInv, Reset1To5
    <3> QED BY <2>3, <3>1 DEF Finish, RenameROM, RenameMsu1, Moved, FailedInv, WorkType
  <2>4. CASE ResetPack(w) \/ ResetTexts(w) \/ ResetBasic(w) \/ ResetAdvanced(w)
    BY <2>4 DEF ResetPack, ResetTexts, ResetBasic, ResetAdvanced, ResetStep, Moved,
       FailedInv, Reset1To5, WorkType
  <2>5. CASE ResetExport(w)
    BY <1>1, <2>5 DEF ResetExport, Crash, NoWork, FailedInv, WorkType
  <2> QED BY <1>8, <2>1, <2>2, <2>3, <2>4, <2>5 DEF WorkerStep
<1> QED BY <1>6, <1>7, <1>8 DEF Next

LEMMA PackStep ==
  ASSUME TypeOK, LockInv, PackInv, [Next]_vars
  PROVE  PackInv'
<1> SUFFICES ASSUME ~overlapped', NEW w \in Workers, Exporting(w)'
             PROVE  app'.pack \in Packs
  BY DEF PackInv
<1>1. proc' = "running"
  <2>1. LockInv'
    BY LockStep
  <2> QED BY <2>1 DEF LockInv, Idle, Exporting
<1>2. CASE Exporting(w) /\ ~overlapped
  <2>1. Settings' = Settings
    BY <1>1, <1>2, FrozenStep
  <2> QED BY <1>2, <2>1 DEF Settings, PackInv
<1>3. CASE ~(Exporting(w) /\ ~overlapped)
  <2>1. ClickExport(w) /\ app' = Begun(app) /\ worker'[w].at = "iterate"
    BY <1>3, ExportBegins
  <2>2. app \in AppType /\ Begun(app).pack = app.pack
    BY BegunPack DEF TypeOK
  <2>3. app.pack \in Packs \cup {NoPack}
    BY <2>2, AppFields
  <2>4. ~BeginFaults(Begun(app))
    <3>1. worker[w].at = "off" /\ ~Crash
      BY <1>1, <2>1 DEF ClickExport, Crash, Ends
    <3> QED BY <2>1, <3>1 DEF ClickExport
  <2>5. app.pack # NoPack
    BY <2>2, <2>4 DEF BeginFaults, Files
  <2> QED BY <2>1, <2>2, <2>3, <2>5
<1> QED BY <1>2, <1>3

THEOREM JobInvariance == Spec => []JobInv
<1>1. Init => BoxInv /\ FailedInv /\ PackInv
  BY DEF Init, NoWork, BoxInv, FailedInv, PackInv, Exporting
<1>2. TypeOK /\ LockInv /\ BoxInv /\ FailedInv /\ PackInv /\ [Next]_vars
        => BoxInv' /\ FailedInv' /\ PackInv'
  BY BoxStep, FailedStep, PackStep
<1> QED BY <1>1, <1>2, CopyInvariance, PTL DEF Spec, JobInv

(* The phases.                                                             *)
SomeExport == \E w \in Workers : Exporting(w)
SomeFailed == \E w \in Workers : worker[w].failed
PhaseTable ==
  /\ proc # "running" => Phase = "down"
  /\ proc = "running" /\ overlapped => Phase = "overlapped"
  /\ proc = "running" /\ ~overlapped =>
       /\ guiDialog => Phase = "failed"
       /\ ~guiDialog /\ SomeExport => Phase = "running"
       /\ ~guiDialog /\ ~SomeExport /\ SomeFailed => Phase = "failed"
       /\ ~guiDialog /\ ~SomeExport /\ ~SomeFailed /\ ~Idle => Phase = "delivered"
       /\ ~guiDialog /\ ~SomeExport /\ ~SomeFailed /\ Idle => Phase = "idle"

LEMMA PhaseNow == PhaseTable
BY DEF PhaseTable, Phase, SomeExport, SomeFailed, Idle

LEMMA PhaseThen == PhaseTable'
BY DEF PhaseTable, Phase, SomeExport, SomeFailed, Idle

LEMMA PhaseType == TypeOK => Phase \in Job!Phases
<1> SUFFICES ASSUME TypeOK PROVE Phase \in Job!Phases
  OBVIOUS
<1>1. overlapped \in BOOLEAN /\ guiDialog \in BOOLEAN
  BY DEF TypeOK
<1> QED BY <1>1, PhaseNow DEF PhaseTable, Job!Phases

(* A step of the abstract job, or a stutter of it.                         *)
JobStep == [Job!Next]_(Job!vars)

LEMMA Stutters ==
  ASSUME Phase' = Phase, Phase # "running" \/ UNCHANGED <<Request, app.zipIndex>>
  PROVE  JobStep
BY DEF JobStep, Job!vars

LEMMA Stops ==
  ASSUME TypeOK, proc' # "running"
  PROVE  JobStep
<1>1. Phase' = "down" /\ Phase \in Job!Phases
  BY PhaseThen, PhaseType DEF PhaseTable
<1> QED BY <1>1 DEF JobStep, Job!Next, Job!Stop, Job!Goes, Job!Cleared

LEMMA RequestType == app \in AppType /\ app.pack \in Packs => Request \in Requests
BY DEF AppType, Request, Requests

LEMMA RequestTypeThen == (app \in AppType /\ app.pack \in Packs => Request \in Requests)'
BY DEF AppType, Request, Requests

(* The process starts again, or is down.                                   *)
LEMMA DownStep ==
  ASSUME JobInv, [Next]_vars, proc # "running"
  PROVE  JobStep
<1>1. Phase = "down" /\ Idle /\ ~guiDialog
  BY PhaseNow DEF PhaseTable, JobInv, LockInv, BoxInv
<1>2. ~UserStep /\ ~DismissDialog /\ ~RaceCrash /\ \A w \in Workers : ~WorkerStep(w)
  BY DEF UserStep, ChangePackPath, ChangeRomPath, ChangeOutputName, ChooseMethod,
     ToggleCreateManifest, ToggleForceManifest, ToggleViolateBPS, ClickExport, Quit,
     Interactive, DismissDialog, DismissGuiDialog, DismissWorkerDialog, RaceCrash,
     WorkerStep, Iterate, Convert, Finish, RenameROM, RenameMsu1,
     ResetPack, ResetTexts, ResetBasic, ResetAdvanced, ResetStep, ResetExport, WorkerAt
<1>3. CASE proc' # "running"
  BY <1>3, Stops DEF JobInv
<1>4. ASSUME NEW p, NEW r, Restart(p, r), proc' = "running" PROVE JobStep
  <2>1. ~guiDialog' /\ ~overlapped' /\ worker' = worker
    BY <1>1, <1>4 DEF Restart
  <2>2. Idle' /\ ~SomeExport' /\ ~SomeFailed'
    BY <1>1, <2>1 DEF JobInv, FailedInv, Idle, SomeExport, SomeFailed, Exporting, Reset1To5
  <2>3. Phase' = "idle"
    BY <1>4, <2>1, <2>2, PhaseThen DEF PhaseTable
  <2> QED BY <1>1, <2>3 DEF JobStep, Job!Next, Job!Start, Job!Goes, Job!Cleared
<1> QED BY <1>2, <1>3, <1>4 DEF Next, EnvironmentStep, ChangeRomFile, vars

(* Two exports: nothing is promised until the process ends.                *)
LEMMA OverlapsOn ==
  ASSUME [Next]_vars, proc = "running", overlapped
  PROVE  overlapped'
<1>1. ASSUME NEW faults, NEW s, Callback(faults, s) PROVE overlapped'
  BY <1>1 DEF Callback, history
<1>2. CASE UserStep
  BY <1>1, <1>2 DEF UserStep, ChangePackPath, ChangeRomPath, ChangeOutputName,
     ChooseMethod, ToggleCreateManifest, ToggleForceManifest, ToggleViolateBPS,
     ClickExport, Quit, history
<1>3. CASE DismissDialog \/ RaceCrash \/ UNCHANGED vars \/ EnvironmentStep
  BY <1>3 DEF DismissDialog, DismissGuiDialog, DismissWorkerDialog, RaceCrash,
     history, vars, EnvironmentStep, Restart, ChangeRomFile
<1>4. ASSUME NEW w \in Workers, WorkerStep(w) PROVE overlapped'
  BY <1>4 DEF WorkerStep, Iterate, Convert, Finish, RenameROM, RenameMsu1,
     ResetPack, ResetTexts, ResetBasic, ResetAdvanced, ResetStep, ResetExport, history
<1> QED BY <1>2, <1>3, <1>4 DEF Next

LEMMA OverlappedStep ==
  ASSUME JobInv, [Next]_vars, proc = "running", proc' = "running", overlapped'
  PROVE  JobStep
<1>1. Phase' = "overlapped"
  BY PhaseThen DEF PhaseTable
<1>2. CASE overlapped
  <2>1. Phase = "overlapped"
    BY <1>2, PhaseNow DEF PhaseTable
  <2> QED BY <1>1, <2>1, Stutters
<1>3. CASE ~overlapped
  <2>1. PICK w \in Workers : worker[w].at \in {"reset4", "reset5"}
    BY <1>3, OverlapStep DEF JobInv
  <2>2. \A v \in Workers \ {w} : worker[v].at = "off"
    BY <1>3, <2>1 DEF JobInv, LockInv, ControlsAreLocked
  <2>3. ~SomeExport /\ ~Idle
    BY <2>1, <2>2 DEF SomeExport, Exporting, Idle
  <2>4. Phase \in {"delivered", "failed"}
    BY <1>3, <2>3, PhaseNow DEF PhaseTable
  <2> QED BY <1>1, <2>4 DEF JobStep, Job!Next, Job!Overlap, Job!Goes, Job!Cleared
<1> QED BY <1>2, <1>3

(* While an export runs alone, only its worker moves.                      *)
LEMMA OnlyTheWorker ==
  ASSUME JobInv, [Next]_vars, proc' = "running", ~overlapped, ~overlapped',
         NEW w \in Workers, Exporting(w)
  PROVE  \/ Iterate(w) \/ Convert(w) \/ Finish(w) \/ RenameROM(w) \/ RenameMsu1(w)
         \/ UNCHANGED <<app, worker, guiDialog>>
<1> worker \in [Workers -> WorkType] /\ app \in AppType
  BY DEF JobInv, TypeOK
<1>1. worker[w].at # "off" /\ worker[w].at # "dialog" /\ proc = "running" /\ ~guiDialog
      /\ \A v \in Workers \ {w} : worker[v].at = "off"
  BY DEF Exporting, JobInv, LockInv, Idle, DialogInv, ControlsAreLocked
<1>2. ~Crash /\ ~Ends("exited")
  BY DEF Crash, Ends
<1>3. ~app.basicEnabled /\ ~app.romEnabled /\ ~app.exportEnabled /\ ~app.advancedEnabled
  BY NoControl DEF JobInv, LockInv
<1>4. ~UserStep
  BY <1>2, <1>3 DEF UserStep, ChangePackPath, ChangeRomPath, ChangeOutputName,
     ChooseMethod, ToggleCreateManifest, ToggleForceManifest, ToggleViolateBPS,
     ClickExport, Quit
<1>5. ~DismissDialog /\ ~RaceCrash
  BY <1>1, <1>2 DEF DismissDialog, DismissGuiDialog, DismissWorkerDialog, WorkerAt, RaceCrash
<1>6. ASSUME NEW v \in Workers, WorkerStep(v)
      PROVE  Iterate(w) \/ Convert(w) \/ Finish(w) \/ RenameROM(w) \/ RenameMsu1(w)
  <2>1. v = w
    BY <1>1, <1>6 DEF WorkerStep, Iterate, Convert, Finish, RenameROM, RenameMsu1,
       ResetPack, ResetTexts, ResetBasic, ResetAdvanced, ResetStep, ResetExport, WorkerAt
  <2>2. ~ResetPack(w) /\ ~ResetTexts(w) /\ ~ResetBasic(w) /\ ~ResetAdvanced(w)
        /\ ~ResetExport(w)
    BY DEF ResetPack, ResetTexts, ResetBasic, ResetAdvanced, ResetExport, ResetStep,
       WorkerAt, Exporting
  <2> QED BY <1>6, <2>1, <2>2 DEF WorkerStep
<1>7. CASE EnvironmentStep \/ UNCHANGED vars
  <2>1. ASSUME NEW p, NEW r PROVE ~Restart(p, r)
    BY <1>1 DEF Restart
  <2> QED BY <1>7, <2>1 DEF EnvironmentStep, ChangeRomFile, history, vars
<1> QED BY <1>4, <1>5, <1>6, <1>7 DEF Next

LEMMA RunningStep ==
  ASSUME JobInv, JobInv', [Next]_vars, proc' = "running", ~overlapped, ~overlapped',
         NEW w \in Workers, Exporting(w)
  PROVE  JobStep
<1> worker \in [Workers -> WorkType] /\ app \in AppType
  BY DEF JobInv, TypeOK
<1>1. ~guiDialog /\ proc = "running" /\ \A v \in Workers \ {w} : worker[v].at = "off"
  BY DEF Exporting, JobInv, LockInv, Idle, DialogInv, ControlsAreLocked
<1>2. Phase = "running"
  BY <1>1, PhaseNow DEF PhaseTable, SomeExport
<1>3. app.pack \in Packs /\ Request \in Requests
  BY RequestType DEF JobInv, PackInv
<1>4. Request' = Request
  <2>1. Settings' = Settings
    BY FrozenStep DEF JobInv
  <2> QED BY <2>1 DEF Settings, Request
<1>5. [r \in Requests |-> Len(Files(r.pack))][Request] = Len(Files(app.pack))
  BY <1>3 DEF Request
<1>6. ~Crash
  BY DEF Crash, Ends
<1>7. Files(app.pack) = Entries /\ app.zipIndex \in Nat /\ Copied(w) /\ Entries \in Seq(Entry)
  <2>1. Files(app.pack) = Entries /\ app.zipIndex \in Nat /\ Copied(w)
    BY JobIsApp DEF JobInv, CopyInv, Active
  <2>2. Files(app.pack) \in Seq(Entry)
    BY <1>3, FilesType
  <2> QED BY <2>1, <2>2
<1>8. ASSUME Exporting(w)', ~guiDialog' PROVE Phase' = "running"
  BY <1>8, PhaseThen DEF PhaseTable, SomeExport
<1>9. CASE UNCHANGED <<app, worker, guiDialog>>
  BY <1>1, <1>2, <1>4, <1>8, <1>9, Stutters DEF Exporting
<1>10. CASE Iterate(w)
  <2>1. /\ app'.zipIndex = app.zipIndex + 1 /\ guiDialog' = guiDialog
        /\ worker'[w].at \in {"iterate", "convert"}
        /\ app.zipIndex < Len(Entries)
    <3>1. app'.zipIndex = app.zipIndex + 1 /\ worker'[w].at \in {"iterate", "convert"}
      BY <1>6, <1>10, IterateEffect DEF JobInv
    <3> QED BY <1>6, <1>7, <1>10, <3>1 DEF Iterate
  <2>2. Phase' = "running"
    BY <1>1, <1>8, <2>1 DEF Exporting
  <2> QED BY <1>2, <1>4, <1>5, <1>7, <2>1, <2>2 DEF JobStep, Job!Next, Job!Copy
<1>11. ASSUME worker'[w].at = "reset1", ~worker'[w].failed, guiDialog' = guiDialog,
              \A v \in Workers \ {w} : worker'[v] = worker[v],
              app' = app, app.zipIndex = Len(Entries)
       PROVE  JobStep
  <2>1. ~SomeExport' /\ ~SomeFailed' /\ ~Idle'
    BY <1>1, <1>11 DEF SomeExport, SomeFailed, Idle, Exporting, JobInv, FailedInv, Reset1To5
  <2>2. Phase' = "delivered"
    BY <1>1, <1>11, <2>1, PhaseThen DEF PhaseTable
  <2> QED BY <1>2, <1>5, <1>7, <1>11, <2>2 DEF JobStep, Job!Next, Job!Deliver, Job!Cleared
<1>12. ~worker[w].failed
  BY DEF JobInv, FailedInv, Exporting, Reset1To5
<1>13. CASE Convert(w)
  <2>1. \A v \in Workers \ {w} : worker'[v] = worker[v]
    BY <1>6, <1>13 DEF Convert
  <2>2. CASE worker'[w].at = "iterate"
    BY <1>1, <1>2, <1>4, <1>6, <1>8, <1>13, <2>2, Stutters DEF Convert, Exporting
  <2>3. CASE worker'[w].at = "reset1" /\ worker'[w].failed
    <3>1. ~SomeExport' /\ SomeFailed'
      BY <1>1, <2>1, <2>3 DEF SomeExport, SomeFailed, Exporting
    <3>2. Phase' = "failed"
      BY <3>1, PhaseThen DEF PhaseTable
    <3> QED BY <1>2, <3>2 DEF JobStep, Job!Next, Job!Fail, Job!Goes, Job!Cleared
  <2> QED BY <1>6, <1>13, <2>2, <2>3 DEF Convert, NoWork
<1>14. CASE Finish(w)
  <2>1. /\ app' = app /\ app.zipIndex >= Len(Entries)
        /\ worker'[w].at = IF Forced THEN "rename1" ELSE "reset1"
    BY <1>14, FinishEffect DEF JobInv
  <2>2. /\ guiDialog' = guiDialog /\ worker'[w].failed = worker[w].failed
        /\ \A v \in Workers \ {w} : worker'[v] = worker[v]
    BY <1>14 DEF Finish, Moved, WorkType
  <2>3. app.zipIndex = Len(Entries)
    BY <1>7, <2>1 DEF Copied
  <2>4. CASE Forced
    BY <1>1, <1>2, <1>4, <1>8, <2>1, <2>2, <2>4, Stutters DEF Exporting
  <2> QED BY <1>11, <1>12, <2>1, <2>2, <2>3, <2>4
<1>15. CASE RenameROM(w)
  <2>1. worker'[w].at = "rename2" /\ guiDialog' = guiDialog /\ app' = app
    BY <1>15 DEF RenameROM, Moved, WorkType
  <2> QED BY <1>1, <1>2, <1>4, <1>8, <2>1, Stutters DEF Exporting
<1>16. CASE RenameMsu1(w)
  <2>1. /\ worker'[w].at = "reset1" /\ guiDialog' = guiDialog /\ app' = app
        /\ worker[w].at = "rename2" /\ worker'[w].failed = worker[w].failed
        /\ \A v \in Workers \ {w} : worker'[v] = worker[v]
    BY <1>16 DEF RenameMsu1, WorkerAt, Moved, WorkType
  <2> QED BY <1>7, <1>11, <1>12, <2>1 DEF Copied
<1> QED BY <1>9, <1>10, <1>13, <1>14, <1>15, <1>16, OnlyTheWorker

(* Export is clicked on a window that is its own: the job begins, or the   *)
(* patch is refused.                                                       *)
LEMMA BeginStep ==
  ASSUME JobInv, JobInv', proc' = "running", ~overlapped',
         NEW w \in Workers, ClickExport(w)
  PROVE  JobStep
<1> worker \in [Workers -> WorkType] /\ app \in AppType
  BY DEF JobInv, TypeOK
<1>1. proc = "running" /\ ~guiDialog /\ ~overlapped /\ Idle
  BY DEF ClickExport, Interactive, Idle, JobInv, TypeOK
<1>2. ~SomeExport /\ ~SomeFailed
  BY <1>1 DEF SomeExport, SomeFailed, Idle, Exporting, JobInv, FailedInv, Reset1To5
<1>3. Phase = "idle"
  BY <1>1, <1>2, PhaseNow DEF PhaseTable
<1>4. CASE guiDialog'
  <2>1. Phase' = "failed"
    BY <1>4, PhaseThen DEF PhaseTable
  <2> QED BY <1>3, <2>1 DEF JobStep, Job!Next, Job!Refuse, Job!Goes, Job!Cleared
<1>5. CASE worker'[w].at = "iterate" /\ app' = Begun(app) /\ ~guiDialog'
  <2>1. Phase' = "running"
    BY <1>5, PhaseThen DEF PhaseTable, SomeExport, Exporting
  <2>2. Request' \in Requests
    <3>1. app' \in AppType /\ app'.pack \in Packs
      BY <1>5 DEF JobInv, TypeOK, PackInv, Exporting
    <3> QED BY <3>1, RequestTypeThen
  <2>3. app'.zipIndex = 0
    BY <1>5, BegunIndex
  <2> QED BY <1>3, <2>1, <2>2, <2>3 DEF JobStep, Job!Next, Job!Begin, Job!Goes
<1>6. ~Crash
  BY DEF Crash, Ends
<1>7. guiDialog' \/ (worker'[w].at = "iterate" /\ app' = Begun(app) /\ ~guiDialog')
  BY <1>1, <1>6 DEF ClickExport, NoWork
<1> QED BY <1>4, <1>5, <1>7

(* Without an export: the window is used, or a reset goes on.              *)
LEMMA RestingStep ==
  ASSUME JobInv, JobInv', [Next]_vars, proc = "running", proc' = "running",
         ~overlapped, ~overlapped', ~SomeExport
  PROVE  JobStep
<1> worker \in [Workers -> WorkType]
  BY DEF JobInv, TypeOK
<1>1. Phase # "running"
  BY PhaseNow DEF PhaseTable, JobInv, TypeOK
<1>2. ~Crash /\ ~Ends("exited")
  BY DEF Crash, Ends
<1>3. CASE UNCHANGED <<worker, guiDialog>>
  <2>1. (SomeExport' <=> SomeExport) /\ (SomeFailed' <=> SomeFailed) /\ (Idle' <=> Idle)
    BY <1>3 DEF SomeExport, SomeFailed, Idle, Exporting
  <2>2. Phase' = Phase
    BY <1>3, <2>1, PhaseNow, PhaseThen DEF PhaseTable
  <2> QED BY <1>1, <2>2, Stutters
<1>4. ASSUME NEW faults, NEW s, Callback(faults, s) PROVE JobStep
  BY <1>2, <1>3, <1>4 DEF Callback
<1>5. CASE UserStep
  BY <1>2, <1>4, <1>5, BeginStep DEF UserStep, ChangePackPath, ChangeRomPath,
     ChangeOutputName, ChooseMethod, ToggleCreateManifest, ToggleForceManifest,
     ToggleViolateBPS, Quit
<1>6. ASSUME Phase \in {"delivered", "failed"}, Idle', ~guiDialog' PROVE JobStep
  <2>1. ~SomeExport' /\ ~SomeFailed'
    BY <1>6 DEF SomeExport, SomeFailed, Idle, Exporting, JobInv, FailedInv, Reset1To5
  <2>2. Phase' = "idle"
    BY <1>6, <2>1, PhaseThen DEF PhaseTable
  <2> QED BY <1>6, <2>2 DEF JobStep, Job!Next, Job!Return, Job!Goes, Job!Cleared
<1>7. CASE DismissGuiDialog
  <2>1. Phase = "failed" /\ Idle /\ ~guiDialog' /\ worker' = worker
    BY <1>7, PhaseNow DEF PhaseTable, DismissGuiDialog, JobInv, DialogInv
  <2> QED BY <1>6, <2>1 DEF Idle
<1>8. ASSUME NEW w \in Workers, worker[w].at # "off"
      PROVE  /\ ~guiDialog /\ Phase \in {"delivered", "failed"}
             /\ \A v \in Workers \ {w} : worker[v].at = "off"
  <2>1. ~guiDialog /\ ~Idle /\ \A v \in Workers \ {w} : worker[v].at = "off"
    BY <1>8 DEF JobInv, LockInv, Idle, DialogInv, ControlsAreLocked
  <2> QED BY <2>1, PhaseNow DEF PhaseTable
<1>9. ASSUME NEW w \in Workers, DismissWorkerDialog(w) PROVE JobStep
  <2>1. worker[w].at # "off" /\ guiDialog' = guiDialog /\ worker'[w].at = "off"
        /\ \A v \in Workers \ {w} : worker'[v] = worker[v]
    BY <1>9 DEF DismissWorkerDialog, WorkerAt, NoWork
  <2>2. Idle' /\ ~guiDialog'
    BY <1>8, <2>1 DEF Idle
  <2> QED BY <1>6, <1>8, <2>1, <2>2
<1>10. ASSUME NEW w \in Workers, WorkerStep(w) PROVE JobStep
  <2>1. ~Iterate(w) /\ ~Convert(w) /\ ~Finish(w) /\ ~RenameROM(w) /\ ~RenameMsu1(w)
    BY DEF SomeExport, Exporting, Iterate, Convert, Finish, RenameROM, RenameMsu1, WorkerAt
  <2>2. /\ worker[w].at # "off" /\ guiDialog' = guiDialog
        /\ \A v \in Workers \ {w} : worker'[v] = worker[v]
        /\ \/ worker'[w].at = "off"
           \/ worker'[w].at \in Reset1To5 \cup {"dialog"} /\ worker'[w].failed = worker[w].failed
    <3>1. CASE ResetPack(w) \/ ResetTexts(w) \/ ResetBasic(w) \/ ResetAdvanced(w)
      BY <3>1 DEF ResetPack, ResetTexts, ResetBasic, ResetAdvanced, ResetStep, Moved,
         WorkerAt, Reset1To5, WorkType
    <3>2. CASE ResetExport(w)
      BY <1>2, <3>2 DEF ResetExport, WorkerAt, NoWork, WorkType
    <3> QED BY <1>10, <2>1, <3>1, <3>2 DEF WorkerStep
  <2>3. CASE worker'[w].at = "off"
    <3>1. Idle' /\ ~guiDialog'
      BY <1>8, <2>2, <2>3 DEF Idle
    <3> QED BY <1>6, <1>8, <2>2, <3>1
  <2>4. CASE worker'[w].at \in Reset1To5 \cup {"dialog"} /\ worker'[w].failed = worker[w].failed
    <3>1. ~Idle /\ ~Idle' /\ (SomeFailed' <=> SomeFailed) /\ ~SomeExport'
      BY <1>8, <2>2, <2>4 DEF Idle, SomeFailed, SomeExport, Exporting, Reset1To5
    <3>2. Phase' = Phase
      BY <1>8, <2>2, <3>1, PhaseNow, PhaseThen DEF PhaseTable
    <3> QED BY <1>1, <3>2, Stutters
  <2> QED BY <2>2, <2>3, <2>4
<1>11. CASE EnvironmentStep \/ UNCHANGED vars
  BY <1>3, <1>11 DEF EnvironmentStep, Restart, ChangeRomFile, vars
<1> QED BY <1>2, <1>5, <1>7, <1>9, <1>10, <1>11 DEF Next, DismissDialog, RaceCrash

LEMMA JobSteps ==
  ASSUME JobInv, JobInv', [Next]_vars
  PROVE  JobStep
<1>1. overlapped \in BOOLEAN /\ overlapped' \in BOOLEAN /\ TypeOK
  BY DEF JobInv, TypeOK
<1>2. proc # "running" => JobStep
  BY DownStep
<1>3. proc' # "running" => JobStep
  BY <1>1, Stops
<1>4. proc = "running" /\ overlapped => overlapped'
  BY OverlapsOn
<1>5. proc = "running" /\ proc' = "running" /\ overlapped' => JobStep
  BY OverlappedStep
<1>6. proc = "running" /\ proc' = "running" /\ ~overlapped /\ ~overlapped' => JobStep
  <2>1. SomeExport /\ proc' = "running" /\ ~overlapped /\ ~overlapped' => JobStep
    BY RunningStep DEF SomeExport
  <2> QED BY <2>1, RestingStep
<1> QED BY <1>1, <1>2, <1>3, <1>4, <1>5, <1>6

LEMMA JobStarts == Init => Job!Init
<1> SUFFICES ASSUME Init PROVE Job!Init
  OBVIOUS
<1>1. Idle /\ ~guiDialog /\ ~overlapped /\ ~SomeExport /\ ~SomeFailed
  BY DEF Init, Idle, NoWork, SomeExport, SomeFailed, Exporting
<1>2. Phase \in {"idle", "down"}
  BY <1>1, PhaseNow DEF PhaseTable
<1> QED BY <1>2 DEF Job!Init

(* Whatever the user, the workers, the resets and the crashes do, an       *)
(* export is one job on the request that was clicked, which copies every   *)
(* entry once and in order and reports success only after the last.        *)
THEOREM ExportIsOneJob == Spec => ImplementsJob
<1>1. JobInv /\ JobInv' /\ [Next]_vars => [Job!Next]_(Job!vars)
  BY JobSteps DEF JobStep
<1> QED BY <1>1, JobStarts, JobInvariance, PTL DEF Spec, ImplementsJob, Job!Spec
===============================================================================
