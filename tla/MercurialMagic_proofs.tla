------------------------- MODULE MercurialMagic_proofs -------------------------
(***************************************************************************)
(* Proofs about MercurialMagic.tla, for every set of packs, ROM files,     *)
(* output names, workers and exports: the types, the locking discipline    *)
(* between the GUI thread and the export threads, and that an export that  *)
(* runs alone touches only its own files.                                  *)
(***************************************************************************)
EXTENDS MercurialMagicProperties, NaturalsInduction, WellFoundedInduction, TLAPS

USE DEF GamePak, SD2SNES

(* A nonempty set of naturals has a least element.                         *)
LEMMA LeastNatural ==
  ASSUME NEW S, S \subseteq Nat, S # {}
  PROVE  \E i \in S : \A j \in S : i <= j
<1> DEFINE R == OpToRel(<, Nat)
<1>1. PICK i \in S : \A j \in S : ~(<<j, i>> \in R)
  <2>1. IsWellFoundedOn(R, Nat)
    BY NatLessThanWellFounded
  <2> HIDE DEF R
  <2> QED BY <2>1, WFMin, Zenon
<1>2. \A j \in S : ~(j < i)
  BY <1>1 DEF OpToRel
<1> QED BY <1>2

LEMMA FilesType ==
  ASSUME NEW p \in Packs \cup {NoPack}
  PROVE  Files(p) \in Seq(Entry)
<1>1. CASE p = NoPack
  BY <1>1 DEF Files
<1>2. CASE p # NoPack
  BY <1>2, PackAssumption DEF Files, PackAssumption
<1> QED BY <1>1, <1>2

(* fetch() returns an index into the pack's directory, or 0.               *)
LEMMA FetchType ==
  ASSUME NEW p \in Packs \cup {NoPack}, NEW stems, NEW ext
  PROVE  Fetch(p, stems, ext) \in Nat
<1> DEFINE hits == {i \in DOMAIN Files(p) :
                     Files(p)[i].stem \in stems /\ Files(p)[i].ext = ext}
<1>1. hits \subseteq Nat
  BY FilesType
<1>2. CASE hits = {}
  BY <1>2 DEF Fetch
<1>3. CASE hits # {}
  <2>1. \E i \in hits : \A j \in hits : i <= j
    BY <1>1, <1>3, LeastNatural
  <2> QED BY <1>1, <1>3, <2>1 DEF Fetch
<1> QED BY <1>2, <1>3

LEMMA MergedType ==
  ASSUME NEW p \in Packs \cup {NoPack}
  PROVE  MergedROMs(p) \in Seq(Nat)
<1>1. \A g \in 1..6 : Fetch(p, RomGlobs[g], ".rom") \in Nat
  BY FetchType
<1> QED BY <1>1 DEF MergedROMs

-------------------------------------------------------------------------------
(* Names and contents.                                                     *)
LEMMA ExtsHas ==
  /\ ".sfc" \in Exts /\ ".msu" \in Exts /\ ".rom" \in Exts
  /\ "" \in Exts /\ ".pcm" \in Exts
BY DEF Exts, TrackExts

LEMMA NoNumberType == NoNumber \in Int
BY DEF NoNumber

LEMMA NameIntro ==
  ASSUME NEW b \in Stems \cup OutputNames \cup {"track-", "program", "msu1"},
         NEW n \in Int, NEW x \in Exts
  PROVE  <<b, n, x>> \in Name
BY DEF Name

LEMMA FixedNames ==
  /\ NoName \in Name /\ ProgramRom \in Name /\ Msu1Rom \in Name
  /\ \A out \in OutputNames : Sfc(out) \in Name /\ Msu(out) \in Name
<1>1. NoName \in Name
  BY PackAssumption, ExtsHas, NameIntro, NoNumberType, Zenon DEF NoName, PackAssumption
<1>2. ProgramRom \in Name
  BY ExtsHas, NameIntro, NoNumberType DEF ProgramRom
<1>3. Msu1Rom \in Name
  BY ExtsHas, NameIntro, NoNumberType DEF Msu1Rom
<1>4. \A out \in OutputNames : Sfc(out) \in Name /\ Msu(out) \in Name
  BY ExtsHas, NameIntro, NoNumberType DEF Sfc, Msu
<1> QED BY <1>1, <1>2, <1>3, <1>4

LEMMA TrackIDType ==
  ASSUME NEW e \in Entry
  PROVE  TrackID(e) \in Nat
BY DEF TrackID, Entry

(* Every entry is exported under a name, in a folder, of the right form.   *)
LEMMA ExportNameType ==
  ASSUME NEW e \in Entry, NEW m \in Methods, NEW f \in BOOLEAN,
         NEW out \in OutputNames
  PROVE  ExportName(e, m, f, out) \in Name
<1>1. TrackID(e) \in Int /\ e.ext \in Exts /\ e.stem \in Stems
  BY TrackIDType DEF Entry
<1> QED
  BY <1>1, FixedNames, NameIntro, ExtsHas, NoNumberType DEF ExportName

LEMMA AsPcmType ==
  ASSUME NEW n \in Name
  PROVE  AsPcm(n) \in Name
<1>1. n[1] \in Stems \cup OutputNames \cup {"track-", "program", "msu1"} /\ n[2] \in Int
  BY DEF Name
<1> QED BY <1>1, NameIntro, ExtsHas DEF AsPcm

LEMMA DestinationType ==
  ASSUME NEW m \in Methods, NEW f \in BOOLEAN, NEW out \in OutputNames
  PROVE  Destination(m, f, out) \in Dirs
BY DEF Destination, Dirs

LEMMA ContentIntro ==
  /\ Junk \in Content
  /\ \A p \in Packs, i \in Nat :
       <<"entry", p, i>> \in Content /\ <<"pcm", p, i>> \in Content
  /\ \A p \in Packs, s \in Seq(Nat) : <<"merged", p, s>> \in Content
  /\ \A p \in Packs : <<"patched", p>> \in Content
  /\ \A p \in Packs, image \in Images : <<"forced", p, image>> \in Content
<1>1. Junk \in Content
  BY DEF Content
<1>2. \A p \in Packs, i \in Nat : <<"entry", p, i>> \in Content
  BY DEF Content, EntryContent
<1>3. \A p \in Packs, i \in Nat : <<"pcm", p, i>> \in Content
  BY DEF Content
<1>4. \A p \in Packs, s \in Seq(Nat) : <<"merged", p, s>> \in Content
  BY DEF Content
<1>5. \A p \in Packs : <<"patched", p>> \in Content
  BY DEF Content
<1>6. \A p \in Packs, image \in Images : <<"forced", p, image>> \in Content
  BY DEF Content
<1> QED BY <1>1, <1>2, <1>3, <1>4, <1>5, <1>6

-------------------------------------------------------------------------------
(* Files.                                                                  *)
DiskType(d) == DOMAIN d \subseteq Path /\ \A path \in DOMAIN d : d[path] \in Content

LEMMA WriteType ==
  ASSUME NEW d, DiskType(d), NEW path \in Path, NEW c \in Content
  PROVE  DiskType(WriteFile(d, path, c))
BY DEF DiskType, WriteFile

LEMMA RemoveType ==
  ASSUME NEW d, DiskType(d), NEW path
  PROVE  DiskType(RemoveFile(d, path))
BY DEF DiskType, RemoveFile

LEMMA RenameType ==
  ASSUME NEW d, DiskType(d), NEW from \in Path, NEW to \in Path
  PROVE  DiskType(RenameFile(d, from, to))
<1>1. CASE Renames(d, from, to)
  <2>1. d[from] \in Content
    BY <1>1 DEF DiskType, Renames, Exists
  <2>2. DiskType(RemoveFile(WriteFile(d, to, d[from]), from))
    BY <2>1, WriteType, RemoveType
  <2> QED BY <1>1, <2>2 DEF RenameFile
<1>2. CASE ~Renames(d, from, to)
  BY <1>2 DEF RenameFile
<1> QED BY <1>1, <1>2

LEMMA DescribedType ==
  ASSUME NEW d, DiskType(d), NEW dir,
         NEW names \in SUBSET Name, NEW tracks \in SUBSET Nat
  PROVE  Described(d, dir, names, tracks) \in Manifest
<1> DEFINE R == {<<path[2], d[path]>> : path \in ROMImages(d, dir)}
<1>1. R \subseteq Name \X Content
  <2> SUFFICES ASSUME NEW path \in ROMImages(d, dir)
               PROVE  path[2] \in Name /\ d[path] \in Content
    OBVIOUS
  <2>1. path \in DOMAIN d
    BY DEF ROMImages
  <2> QED BY <2>1 DEF DiskType, Path
<1> HIDE DEF R
<1>2. [image |-> R, names |-> names, tracks |-> tracks] \in Manifest
  BY <1>1 DEF Manifest
<1> QED BY <1>2 DEF Described, R
-------------------------------------------------------------------------------
(* The Program object.                                                     *)
LEMMA ConstantsType ==
  /\ NoPath \in PackPaths /\ "" \in OutputNames
  /\ \A p \in PackPaths : Prefix[p] \in OutputNames
  /\ HasIcarus \in BOOLEAN /\ HasDaedalus \in BOOLEAN
  /\ MaxExports \in Nat
BY PackAssumption, ProgramAssumption
   DEF PackAssumption, ProgramAssumption, PackPaths

LEMMA OpenedType ==
  ASSUME NEW s \in AppType
  PROVE  Opened(s) \in AppType
BY DEF AppType, Opened, PackPaths

LEMMA ValidatePackType ==
  ASSUME NEW s \in AppType
  PROVE  ValidatePack(s) \in AppType
<1> DEFINE o == Opened(s)
           q == IF HasMsu1(o.pack) /\ HasPatch(o.pack)
                THEN [o EXCEPT !.patchContents = o.pack] ELSE o
           r == IF HasROM(q.pack) THEN NoPath ELSE q.romPath
           b == HasPatch(q.pack)
           nb == ~HasPatch(q.pack)
<1>1. o \in AppType
  BY OpenedType
<1>2. q \in AppType
  <2> HIDE DEF o
  <2> QED BY <1>1 DEF AppType
<1>3. r \in RomPaths \cup {NoPath} /\ b \in BOOLEAN /\ nb \in BOOLEAN
  <2>1. q.romPath \in RomPaths \cup {NoPath}
    <3> HIDE DEF q
    <3> QED BY <1>2 DEF AppType
  <2> HIDE DEF q
  <2> QED BY <2>1 DEF HasPatch
<1>4. [q EXCEPT !.noROMNeeded = nb, !.romEnabled = b, !.romPath = r] \in AppType
  <2> HIDE DEF q, r, b, nb
  <2> QED BY <1>2, <1>3 DEF AppType
<1>5. \/ ValidatePack(s) = s
      \/ ValidatePack(s) = q
      \/ ValidatePack(s) = [q EXCEPT !.noROMNeeded = nb, !.romEnabled = b, !.romPath = r]
  BY Zenon DEF ValidatePack, Extracted
<1> HIDE DEF q, r, b, nb
<1> QED BY <1>2, <1>4, <1>5

LEMMA PackIsValidType ==
  ASSUME NEW s
  PROVE  PackIsValid(s) \in BOOLEAN
BY DEF PackIsValid, Accepts

LEMMA ROMPatchIsValidType ==
  ASSUME NEW s
  PROVE  ROMPatchIsValid(s) \in BOOLEAN
BY DEF ROMPatchIsValid, ROMExists

LEMMA RevalidatedType ==
  ASSUME NEW s \in AppType, NEW ok \in BOOLEAN
  PROVE  Revalidated(s, ok) \in AppType
BY ZenonT(40) DEF AppType, Revalidated

LEMMA EnablingType ==
  ASSUME NEW s \in AppType
  PROVE  /\ Disabled(s) \in AppType
         /\ ClosePack(s) \in AppType
         /\ ClearTexts(s) \in AppType
         /\ EnableBasic(s) \in AppType
         /\ EnableAdvanced(s) \in AppType
         /\ EnableExport(s) \in AppType
<1>1. Disabled(s) \in AppType
  BY DEF AppType, Disabled
<1>2. ClosePack(s) \in AppType
  BY DEF AppType, ClosePack
<1>3. ClearTexts(s) \in AppType
  BY ConstantsType DEF AppType, ClearTexts
<1>4. EnableBasic(s) \in AppType
  BY DEF AppType, EnableBasic
<1>5. EnableAdvanced(s) \in AppType
  BY DEF AppType, EnableAdvanced
<1>6. EnableExport(s) \in AppType
  <2> DEFINE v == ValidatePack(s)
             ok == PackIsValid(s)
  <2>1. v \in AppType /\ ok \in BOOLEAN
    BY ValidatePackType, PackIsValidType
  <2> HIDE DEF v, ok
  <2>2. [v EXCEPT !.exportEnabled = ok] \in AppType
    BY <2>1 DEF AppType
  <2> QED BY <2>2 DEF EnableExport, v, ok
<1> QED BY <1>1, <1>2, <1>3, <1>4, <1>5, <1>6

LEMMA ResetType ==
  ASSUME NEW s \in AppType
  PROVE  Reset(s) \in AppType
<1>1. ClosePack(s) \in AppType
  BY EnablingType
<1>2. ClearTexts(ClosePack(s)) \in AppType
  BY <1>1, EnablingType
<1>3. EnableBasic(ClearTexts(ClosePack(s))) \in AppType
  BY <1>2, EnablingType
<1>4. EnableAdvanced(EnableBasic(ClearTexts(ClosePack(s)))) \in AppType
  BY <1>3, EnablingType
<1> QED BY <1>4, EnablingType DEF Reset

LEMMA FreshType == Fresh \in AppType
<1>1. Shared \in Dirs /\ (HasDaedalus /\ ~HasIcarus) \in BOOLEAN
  BY ConstantsType DEF Dirs
<1> HIDE DEF GamePak
<1>2. GamePak \in Methods
  BY DEF Methods
<1> QED BY <1>1, <1>2, ConstantsType DEF Fresh, AppType

LEMMA StartedType ==
  ASSUME NEW p \in PackPaths, NEW r \in RomPaths \cup {NoPath}
  PROVE  Started(p, r) \in AppType
<1> DEFINE f == [Fresh EXCEPT !.packPath = p]
<1>1. f \in AppType
  <2>1. Fresh \in AppType
    BY FreshType
  <2> QED BY <2>1 DEF AppType
<1>2. WithPack(p) \in AppType
  <2> DEFINE v == ValidatePack(f)
             ok == PackIsValid(f)
  <2>1. v \in AppType /\ ok \in BOOLEAN
    BY <1>1, ValidatePackType, PackIsValidType
  <2>2. [v EXCEPT !.valid = ok] \in AppType
    <3> HIDE DEF v, ok
    <3> QED BY <2>1 DEF AppType
  <2>3. WithPack(p) = [v EXCEPT !.valid = ok]
    BY Zenon DEF WithPack
  <2> QED BY <2>2, <2>3
<1> DEFINE s == WithROM(WithPack(p), r)
           ok == IF r # NoPath /\ HasPatch(s.pack) THEN ROMPatchIsValid(s) ELSE s.valid
<1>3. s \in AppType
  <2>1. [WithPack(p) EXCEPT !.romPath = r] \in AppType
    BY <1>2 DEF AppType
  <2> QED BY <1>2, <2>1 DEF WithROM
<1>4. ok \in BOOLEAN
  <2>1. s.valid \in BOOLEAN
    <3> HIDE DEF s
    <3> QED BY <1>3 DEF AppType
  <2> QED BY <2>1, ROMPatchIsValidType
<1>5. [s EXCEPT !.valid = ok, !.exportEnabled = ok] \in AppType
  <2> HIDE DEF s, ok
  <2> QED BY <1>3, <1>4 DEF AppType
<1>6. Started(p, r) = Fresh \/ Started(p, r) = [s EXCEPT !.valid = ok, !.exportEnabled = ok]
  BY Zenon DEF Started
<1> QED BY <1>5, <1>6, FreshType, Zenon
-------------------------------------------------------------------------------
(* Type correctness, action by action.                                     *)
LEMMA PathIntro ==
  ASSUME NEW dir \in Dirs, NEW n \in Name
  PROVE  <<dir, n>> \in Path
BY DEF Path

LEMMA NoWorkType ==
  /\ NoWork \in WorkType
  /\ \A path \in Path : [NoWork EXCEPT !.at = "convert", !.path = path] \in WorkType
  /\ [NoWork EXCEPT !.at = "iterate"] \in WorkType
  /\ [NoWork EXCEPT !.at = "reset1", !.failed = TRUE] \in WorkType
<1>1. <<Shared, NoName>> \in Path
  BY FixedNames, PathIntro DEF Dirs
<1>2. NoWork \in WorkType
  BY <1>1 DEF NoWork, WorkType, Steps
<1> QED BY <1>2 DEF WorkType, Steps

LEMMA NoJobType == NoJob \in JobType
BY ConstantsType DEF NoJob, JobType, Methods

LEMMA EndsType ==
  ASSUME NEW how \in {"exited", "crashed"}, Ends(how)
  PROVE  /\ app' \in AppType
         /\ worker' \in [Workers -> WorkType]
         /\ guiDialog' \in BOOLEAN
         /\ proc' \in {"running", "exited", "crashed"}
BY FreshType, NoWorkType DEF Ends

LEMMA TypeInit == Init => TypeOK
<1> SUFFICES ASSUME Init PROVE TypeOK
  OBVIOUS
<1>1. app \in AppType /\ proc \in {"running", "exited", "crashed"}
  <2> PICK p \in PackPaths, r \in RomPaths \cup {NoPath} : Start(p, r)
    BY DEF Init
  <2> QED BY StartedType DEF Start
<1>2. worker \in [Workers -> WorkType]
  BY NoWorkType DEF Init
<1>3. NoManifest \in Manifest
  BY DEF NoManifest, Manifest
<1>4. manifest \in [Dirs -> Manifest]
  BY <1>3 DEF Init
<1>5. DOMAIN disk = {}
  BY DEF Init
<1>6. DOMAIN disk \subseteq Path /\ \A path \in DOMAIN disk : disk[path] \in Content
  BY <1>5
<1>7. exports \in 0..MaxExports
  <2>1. MaxExports \in Nat
    BY ConstantsType
  <2>2. exports = 0
    BY DEF Init
  <2> QED BY <2>1, <2>2
<1>8. job \in JobType /\ romFile \in [RomPaths -> Images \cup {NoImage}]
  BY NoJobType DEF Init
<1> QED
  BY <1>1, <1>2, <1>4, <1>6, <1>7, <1>8 DEF TypeOK, Init

LEMMA CallbackType ==
  ASSUME TypeOK, NEW faults, NEW s \in AppType, Callback(faults, s)
  PROVE  TypeOK'
<1>1. CASE Crash
  BY <1>1, EndsType DEF Crash, Callback, TypeOK, files, history
<1>2. CASE app' = s /\ UNCHANGED <<worker, guiDialog, proc>>
  BY <1>2 DEF Callback, TypeOK, files, history
<1> QED BY <1>1, <1>2 DEF Callback

LEMMA TypeUser ==
  ASSUME TypeOK,
         \/ \E p \in PackPaths : ChangePackPath(p)
         \/ \E r \in RomPaths \cup {NoPath} : ChangeRomPath(r)
         \/ \E out \in OutputNames : ChangeOutputName(out)
         \/ \E m \in Methods : ChooseMethod(m)
         \/ ToggleCreateManifest
         \/ ToggleForceManifest
         \/ ToggleViolateBPS
  PROVE  TypeOK'
<1> app \in AppType
  BY DEF TypeOK
<1>1. ASSUME NEW p \in PackPaths, ChangePackPath(p) PROVE TypeOK'
  <2> DEFINE s == [app EXCEPT !.packPath = p, !.outputName = Prefix[p]]
  <2>1. s \in AppType
    BY ConstantsType DEF AppType
  <2>2. Revalidated(ValidatePack(s), PackIsValid(s)) \in AppType
    BY <2>1, ValidatePackType, PackIsValidType, RevalidatedType
  <2> QED BY <1>1, <2>2, CallbackType DEF ChangePackPath
<1>2. ASSUME NEW r \in RomPaths \cup {NoPath}, ChangeRomPath(r) PROVE TypeOK'
  <2> DEFINE s == [app EXCEPT !.romPath = r]
  <2>1. s \in AppType
    BY DEF AppType
  <2>2. Revalidated(s, ROMPatchIsValid(s)) \in AppType
    BY <2>1, ROMPatchIsValidType, RevalidatedType
  <2> QED BY <1>2, <2>2, CallbackType DEF ChangeRomPath
<1>3. ASSUME NEW out \in OutputNames, ChangeOutputName(out) PROVE TypeOK'
  <2>1. [app EXCEPT !.outputName = out] \in AppType /\ app.valid \in BOOLEAN
    BY DEF AppType
  <2>2. Revalidated([app EXCEPT !.outputName = out], app.valid) \in AppType
    BY <2>1, RevalidatedType
  <2> QED BY <1>3, <2>2, CallbackType DEF ChangeOutputName
<1>4. ASSUME NEW m \in Methods, ChooseMethod(m) PROVE TypeOK'
  <2>1. [app EXCEPT !.exportMethod = m] \in AppType
    BY DEF AppType
  <2> QED BY <1>4, <2>1, CallbackType DEF ChooseMethod
<1>5. ASSUME ToggleCreateManifest PROVE TypeOK'
  <2> DEFINE b == ~app.createManifest
  <2>1. [app EXCEPT !.createManifest = b] \in AppType
    <3>1. b \in BOOLEAN
      OBVIOUS
    <3> HIDE DEF b
    <3> QED BY <3>1 DEF AppType
  <2> QED BY <1>5, <2>1, CallbackType DEF ToggleCreateManifest
<1>6. ASSUME ToggleForceManifest PROVE TypeOK'
  <2> DEFINE b == ~app.forceManifest
  <2>1. [app EXCEPT !.forceManifest = b] \in AppType
    <3>1. b \in BOOLEAN
      OBVIOUS
    <3> HIDE DEF b
    <3> QED BY <3>1 DEF AppType
  <2> QED BY <1>6, <2>1, CallbackType DEF ToggleForceManifest
<1>7. ASSUME ToggleViolateBPS PROVE TypeOK'
  <2> DEFINE b == ~app.violateBPS
             s == [app EXCEPT !.violateBPS = b]
  <2>1. s \in AppType
    <3>1. b \in BOOLEAN
      OBVIOUS
    <3> HIDE DEF b
    <3> QED BY <3>1 DEF AppType
  <2>2. Revalidated(s, ROMPatchIsValid(s)) \in AppType
    BY <2>1, ROMPatchIsValidType, RevalidatedType
  <2> QED BY <1>7, <2>2, CallbackType DEF ToggleViolateBPS
<1> QED BY <1>1, <1>2, <1>3, <1>4, <1>5, <1>6, <1>7

LEMMA AppFields ==
  ASSUME NEW s \in AppType
  PROVE  /\ s.pack \in Packs \cup {NoPack} /\ s.patchContents \in Packs \cup {NoPack}
         /\ s.exportMethod \in Methods /\ s.forceManifest \in BOOLEAN
         /\ s.createManifest \in BOOLEAN /\ s.outputName \in OutputNames
         /\ s.destination \in Dirs /\ s.zipIndex \in Nat
         /\ s.trackIDs \in SUBSET Nat /\ s.romPath \in RomPaths \cup {NoPath}
BY DEF AppType

LEMMA BegunType ==
  ASSUME NEW s \in AppType
  PROVE  Begun(s) \in AppType
<1> DEFINE dir == Destination(s.exportMethod, s.forceManifest, s.outputName)
<1>1. Disabled(s) \in AppType /\ dir \in Dirs
  BY EnablingType, AppFields, DestinationType
<1>2. [Disabled(s) EXCEPT !.destination = dir, !.zipIndex = 0] \in AppType
  <2> HIDE DEF dir
  <2> QED BY <1>1 DEF AppType
<1> QED BY <1>2 DEF Begun

LEMMA ROMTargetType ==
  ASSUME NEW s \in AppType
  PROVE  ROMTarget(s) \in Path
<1>1. ROMName(s.exportMethod, s.forceManifest, s.outputName) \in Name
  BY AppFields, FixedNames DEF ROMName
<1> QED BY <1>1, AppFields, PathIntro DEF ROMTarget

(* Only an opened pack that is not empty is merged.                        *)
LEMMA MergedFilesType ==
  ASSUME NEW s \in AppType, DiskType(disk), s.pack # NoPack
  PROVE  DiskType(MergedFiles(s))
<1>1. s.pack \in Packs
  BY AppFields
<1>2. <<"merged", s.pack, MergedROMs(s.pack)>> \in Content
  BY <1>1, MergedType, ContentIntro
<1> QED BY <1>2, ROMTargetType, WriteType DEF MergedFiles

LEMMA PatchOutcomesType ==
  ASSUME TypeOK, NEW s \in AppType, s.patchContents # NoPack,
         NEW o \in PatchOutcomes(s)
  PROVE  o.content \in Content
<1>1. s.patchContents \in Packs
  BY AppFields
<1>2. CASE ~ROMExists(s)
  BY <1>2, ContentIntro DEF PatchOutcomes, Outcome
<1>3. CASE ROMExists(s)
  <2>1. romFile[s.romPath] \in Images
    BY <1>3, AppFields DEF ROMExists, TypeOK
  <2> QED BY <1>1, <1>3, <2>1, ContentIntro DEF PatchOutcomes, Outcome
<1> QED BY <1>2, <1>3

LEMMA JobOfType ==
  ASSUME TypeOK
  PROVE  JobOf(app) \in JobType
<1>1. app \in AppType /\ DOMAIN disk \in SUBSET Path
  BY DEF TypeOK
<1> HIDE DEF GamePak, SD2SNES
<1> QED BY <1>1, AppFields DEF JobOf, JobType

LEMMA TypeClickExport ==
  ASSUME TypeOK, NEW w \in Workers, ClickExport(w)
  PROVE  TypeOK'
<1> DEFINE s == Begun(app)
<1>1. app \in AppType /\ DiskType(disk) /\ s \in AppType
  BY BegunType DEF TypeOK, DiskType
<1>2. exports' \in 0..MaxExports
  <2>1. exports' = exports + 1 /\ exports < MaxExports
    BY DEF ClickExport
  <2>2. MaxExports \in Nat
    BY ConstantsType
  <2>3. exports \in 0..MaxExports
    BY DEF TypeOK
  <2> QED BY <2>1, <2>2, <2>3
<1>3. job' \in JobType /\ overlapped' \in BOOLEAN
      /\ manifest' \in [Dirs -> Manifest]
      /\ romFile' \in [RomPaths -> Images \cup {NoImage}]
  BY JobOfType DEF ClickExport, TypeOK
<1>4. [worker EXCEPT ![w] = [NoWork EXCEPT !.at = "iterate"]] \in [Workers -> WorkType]
  BY NoWorkType DEF TypeOK
<1>5. ASSUME ~BeginFaults(s) PROVE s.pack # NoPack
  BY <1>5 DEF BeginFaults, Files
<1> HIDE DEF s
<1> DEFINE Rest == /\ app' \in AppType
                   /\ worker' \in [Workers -> WorkType]
                   /\ guiDialog' \in BOOLEAN
                   /\ proc' \in {"running", "exited", "crashed"}
                   /\ DiskType(disk')
<1>6. ASSUME BeginFaults(s), Crash,
             disk' = IF Files(s.pack) = <<>> THEN disk
                     ELSE WriteFile(disk, ROMTarget(s), Junk)
      PROVE Rest
  <2>1. DiskType(disk')
    BY <1>1, <1>6, ROMTargetType, WriteType, ContentIntro
  <2> QED BY <1>6, <2>1, EndsType DEF Crash
<1>7. ASSUME ~BeginFaults(s), disk' = MergedFiles(s), app' = s,
             worker' = [worker EXCEPT ![w] = [NoWork EXCEPT !.at = "iterate"]],
             UNCHANGED <<guiDialog, proc>>
      PROVE Rest
  BY <1>1, <1>4, <1>5, <1>7, MergedFilesType DEF TypeOK
<1>8. ASSUME ~BeginFaults(s), s.patchContents # NoPack,
             NEW o \in PatchOutcomes(s),
             disk' = WriteFile(MergedFiles(s), ROMTarget(s), o.content),
             \/ /\ o.result = "success"
                /\ app' = s
                /\ worker' = [worker EXCEPT ![w] = [NoWork EXCEPT !.at = "iterate"]]
                /\ UNCHANGED <<guiDialog, proc>>
             \/ /\ o.result = "error"
                /\ app' = Reset(s)
                /\ guiDialog' = TRUE
                /\ UNCHANGED <<worker, proc>>
             \/ o.result = "crash" /\ Crash
      PROVE Rest
  <2>1. DiskType(disk')
    <3>1. o.content \in Content
      BY <1>1, <1>8, PatchOutcomesType
    <3> QED BY <1>1, <1>5, <1>8, <3>1, MergedFilesType, ROMTargetType, WriteType
  <2>2. CASE app' = s /\ worker' = [worker EXCEPT ![w] = [NoWork EXCEPT !.at = "iterate"]]
             /\ UNCHANGED <<guiDialog, proc>>
    BY <1>1, <1>4, <2>1, <2>2 DEF TypeOK
  <2>3. CASE app' = Reset(s) /\ guiDialog' = TRUE /\ UNCHANGED <<worker, proc>>
    BY <1>1, <2>1, <2>3, ResetType DEF TypeOK
  <2>4. CASE Crash
    BY <2>1, <2>4, EndsType DEF Crash
  <2> QED BY <1>8, <2>2, <2>3, <2>4
<1>9. Rest
  <2> HIDE DEF Rest
  <2> QED BY <1>6, <1>7, <1>8 DEF ClickExport, s
<1> QED BY <1>2, <1>3, <1>9 DEF TypeOK, DiskType

LEMMA MovedType ==
  ASSUME TypeOK, NEW w \in Workers, NEW at \in Steps
  PROVE  Moved(w, at) \in [Workers -> WorkType]
<1>1. worker \in [Workers -> WorkType] /\ worker[w] \in WorkType
  BY DEF TypeOK
<1>2. [worker[w] EXCEPT !.at = at] \in WorkType
  BY <1>1 DEF WorkType
<1> QED BY <1>1, <1>2 DEF Moved

LEMMA TypeIterate ==
  ASSUME TypeOK, NEW w \in Workers, Iterate(w)
  PROVE  TypeOK'
<1> DEFINE i == app.zipIndex + 1
           e == Files(app.pack)[i]
           name == ExportName(e, app.exportMethod, app.forceManifest, app.outputName)
           path == <<app.destination, name>>
           tracks == app.trackIDs \cup (IF IsTrack(e) THEN {TrackID(e)} ELSE {})
<1>1. app \in AppType /\ DiskType(disk) /\ worker \in [Workers -> WorkType]
  BY DEF TypeOK, DiskType
<1>2. app.zipIndex \in Nat /\ app.zipIndex < Len(Files(app.pack))
      /\ Files(app.pack) \in Seq(Entry)
  BY <1>1, AppFields, FilesType DEF Iterate
<1>3. i \in Nat /\ i \in 1..Len(Files(app.pack)) /\ e \in Entry
  BY <1>2
<1>4. app.pack \in Packs
  <2>1. CASE app.pack = NoPack
    BY <1>2, <2>1 DEF Files
  <2> QED BY <1>1, <2>1, AppFields
<1>5. name \in Name /\ path \in Path
  BY <1>1, <1>3, AppFields, ExportNameType, PathIntro
<1>6. tracks \in SUBSET Nat
  BY <1>1, <1>3, AppFields, TrackIDType
<1>7. <<"entry", app.pack, i>> \in Content
  BY <1>3, <1>4, ContentIntro
<1>8. UNCHANGED <<manifest, romFile, history>>
  BY DEF Iterate
<1>9. \/ Crash /\ UNCHANGED disk
      \/ /\ app' = [app EXCEPT !.zipIndex = i, !.trackIDs = tracks]
         /\ disk' = IF name = NoName THEN disk
                    ELSE WriteFile(disk, path, <<"entry", app.pack, i>>)
         /\ worker' = IF Converts(e)
                      THEN [worker EXCEPT ![w] = [NoWork EXCEPT !.at = "convert", !.path = path]]
                      ELSE worker
         /\ UNCHANGED <<guiDialog, proc>>
  BY Zenon DEF Iterate
<1> HIDE DEF i, e, name, path, tracks
<1>10. CASE Crash /\ UNCHANGED disk
  BY <1>8, <1>10, EndsType DEF Crash, TypeOK, history
<1>11. CASE /\ app' = [app EXCEPT !.zipIndex = i, !.trackIDs = tracks]
            /\ disk' = IF name = NoName THEN disk
                       ELSE WriteFile(disk, path, <<"entry", app.pack, i>>)
            /\ worker' = IF Converts(e)
                         THEN [worker EXCEPT ![w] = [NoWork EXCEPT !.at = "convert", !.path = path]]
                         ELSE worker
            /\ UNCHANGED <<guiDialog, proc>>
  <2>1. app' \in AppType
    BY <1>1, <1>3, <1>6, <1>11 DEF AppType
  <2>2. DiskType(disk')
    BY <1>1, <1>5, <1>7, <1>11, WriteType
  <2>3. worker' \in [Workers -> WorkType]
    BY <1>1, <1>5, <1>11, NoWorkType
  <2> QED BY <1>8, <1>11, <2>1, <2>2, <2>3 DEF TypeOK, DiskType, history
<1> QED BY <1>9, <1>10, <1>11

LEMMA Wav2msuType ==
  ASSUME NEW path \in Path, DiskType(disk), NEW d \in Wav2msu(path)
  PROVE  DiskType(d)
<1>1. CASE d = disk
  BY <1>1
<1>2. CASE /\ At(disk, path) \in EntryContent
           /\ d = WriteFile(disk, <<path[1], AsPcm(path[2])>>,
                            <<"pcm", disk[path][2], disk[path][3]>>)
  <2>1. CASE Exists(disk, path)
    <3>1. disk[path][2] \in Packs /\ disk[path][3] \in Nat
      BY <1>2, <2>1 DEF At, EntryContent
    <3>2. <<path[1], AsPcm(path[2])>> \in Path
      BY AsPcmType DEF Path
    <3>3. <<"pcm", disk[path][2], disk[path][3]>> \in Content
      BY <3>1, ContentIntro
    <3> QED BY <1>2, <3>2, <3>3, WriteType
  <2>2. CASE ~Exists(disk, path)
    <3>1. NoEntry \in EntryContent
      BY <1>2, <2>2 DEF At
    <3>2. NoEntry \notin EntryContent
      BY DEF NoEntry, EntryContent
    <3> QED BY <3>1, <3>2
  <2> QED BY <2>1, <2>2
<1> QED BY <1>1, <1>2, Zenon DEF Wav2msu

LEMMA TypeConvert ==
  ASSUME TypeOK, NEW w \in Workers, Convert(w)
  PROVE  TypeOK'
<1> DEFINE path == worker[w].path
<1>1. path \in Path /\ DiskType(disk) /\ worker \in [Workers -> WorkType]
  BY DEF TypeOK, DiskType, WorkType
<1>2. PICK d \in Wav2msu(path) :
        \/ /\ disk' = d
           /\ worker' = [worker EXCEPT ![w] = [NoWork EXCEPT !.at = "reset1", !.failed = TRUE]]
           /\ UNCHANGED <<app, guiDialog, proc>>
        \/ /\ disk' = RemoveFile(d, path)
           /\ \/ Crash
              \/ /\ worker' = [worker EXCEPT ![w] = [NoWork EXCEPT !.at = "iterate"]]
                 /\ UNCHANGED <<app, guiDialog, proc>>
  BY Zenon DEF Convert
<1>3. UNCHANGED <<manifest, romFile, history>>
  BY DEF Convert
<1> HIDE DEF path
<1>4. DiskType(d) /\ DiskType(disk')
  BY <1>1, <1>2, Wav2msuType, RemoveType
<1>5. CASE Crash
  BY <1>3, <1>4, <1>5, EndsType DEF Crash, TypeOK, DiskType, history
<1>6. CASE ~Crash
  <2>1. worker' \in [Workers -> WorkType] /\ UNCHANGED <<app, guiDialog, proc>>
    BY <1>1, <1>2, <1>6, NoWorkType
  <2> QED BY <1>3, <1>4, <2>1 DEF TypeOK, DiskType, history
<1> QED BY <1>5, <1>6

LEMMA BoardFilesType ==
  ASSUME NEW d, NEW dir, NEW board \in BoardsOf(d, dir)
  PROVE  BoardFiles(d, dir, board) \in SUBSET Name
<1>1. CASE board = NoBoard
  BY <1>1 DEF BoardFiles
<1>2. CASE board # NoBoard
  <2>1. board \subseteq Stems
    BY <1>2, ProgramAssumption DEF BoardsOf, ProgramAssumption
  <2>2. \A chip \in board : <<chip, NoNumber, ".rom">> \in Name
    BY <2>1, NameIntro, ExtsHas, NoNumberType
  <2> QED BY <1>2, <2>2, FixedNames DEF BoardFiles
<1> QED BY <1>1, <1>2

LEMMA SubstitutedType ==
  ASSUME NEW name \in Name, NEW out \in OutputNames
  PROVE  Substituted(name, out) \in Name
BY FixedNames DEF Substituted

LEMMA ManifestOfType ==
  ASSUME app \in AppType, DiskType(disk), NEW board \in BoardsOf(disk, app.destination)
  PROVE  ManifestOf(app, board) \in Manifest
<1> DEFINE names == BoardFiles(disk, app.destination, board)
<1>1. names \in SUBSET Name
  BY BoardFilesType
<1>2. app.outputName \in OutputNames /\ app.trackIDs \in SUBSET Nat
  BY AppFields
<1> HIDE DEF names
<1>3. {Substituted(name, app.outputName) : name \in names} \in SUBSET Name
  BY <1>1, <1>2, SubstitutedType
<1>4. CASE app.exportMethod = SD2SNES
  BY <1>2, <1>3, <1>4, DescribedType DEF ManifestOf, names
<1>5. CASE app.exportMethod # SD2SNES
  BY <1>1, <1>5, DescribedType DEF ManifestOf, names
<1> QED BY <1>4, <1>5

LEMMA TypeFinish ==
  ASSUME TypeOK, NEW w \in Workers, Finish(w)
  PROVE  TypeOK'
<1>1. app \in AppType /\ DiskType(disk) /\ manifest \in [Dirs -> Manifest]
  BY DEF TypeOK, DiskType
<1>2. \A board \in BoardsOf(disk, app.destination) : ManifestOf(app, board) \in Manifest
  BY <1>1, ManifestOfType
<1>3. manifest' \in [Dirs -> Manifest]
  BY <1>1, <1>2, AppFields DEF Finish
<1>4. worker' \in [Workers -> WorkType]
  BY MovedType DEF Finish, Steps
<1>5. UNCHANGED <<app, guiDialog, proc, disk, romFile, history>>
  BY DEF Finish
<1> QED BY <1>3, <1>4, <1>5 DEF TypeOK, history

LEMMA TypeRename ==
  ASSUME TypeOK, NEW w \in Workers, RenameROM(w) \/ RenameMsu1(w)
  PROVE  TypeOK'
<1>1. app \in AppType /\ DiskType(disk)
  BY DEF TypeOK, DiskType
<1>2. \A n \in Name : <<app.destination, n>> \in Path
  BY <1>1, AppFields, PathIntro
<1>3. DiskType(disk')
  BY <1>1, <1>2, AppFields, FixedNames, RenameType DEF RenameROM, RenameMsu1
<1>4. worker' \in [Workers -> WorkType]
  BY MovedType DEF RenameROM, RenameMsu1, Steps
<1> QED BY <1>3, <1>4 DEF RenameROM, RenameMsu1, TypeOK, DiskType, history

LEMMA TypeReset ==
  ASSUME TypeOK, NEW w \in Workers,
         ResetPack(w) \/ ResetTexts(w) \/ ResetBasic(w) \/ ResetAdvanced(w)
  PROVE  TypeOK'
<1>1. PICK from \in Steps, to \in Steps, s \in AppType : ResetStep(w, from, to, s)
  BY EnablingType
     DEF ResetPack, ResetTexts, ResetBasic, ResetAdvanced, Steps, TypeOK
<1>2. worker' \in [Workers -> WorkType]
  BY <1>1, MovedType DEF ResetStep
<1> QED BY <1>1, <1>2, NoJobType DEF ResetStep, TypeOK, files

LEMMA TypeResetExport ==
  ASSUME TypeOK, NEW w \in Workers, ResetExport(w)
  PROVE  TypeOK'
<1>1. UNCHANGED <<files, history>>
  BY DEF ResetExport
<1>2. CASE Crash
  BY <1>1, <1>2, EndsType DEF Crash, TypeOK, files, history
<1>3. CASE ~Crash
  <2>1. app' = EnableExport(app) /\ UNCHANGED <<guiDialog, proc>>
        /\ worker' = [worker EXCEPT ![w] =
                        IF @.failed THEN [@ EXCEPT !.at = "dialog"] ELSE NoWork]
    BY <1>3 DEF ResetExport
  <2>2. app' \in AppType
    BY <2>1, EnablingType DEF TypeOK
  <2>3. worker[w] \in WorkType /\ worker \in [Workers -> WorkType]
    BY DEF TypeOK
  <2>4. [worker[w] EXCEPT !.at = "dialog"] \in WorkType
    BY <2>3 DEF WorkType, Steps
  <2>5. worker' \in [Workers -> WorkType]
    BY <2>1, <2>3, <2>4, NoWorkType
  <2> QED BY <1>1, <2>1, <2>2, <2>5 DEF TypeOK, files, history
<1> QED BY <1>2, <1>3

LEMMA TypeOthers ==
  ASSUME TypeOK,
         \/ Quit \/ DismissDialog \/ RaceCrash
         \/ \E p \in PackPaths, r \in RomPaths \cup {NoPath} : Restart(p, r)
         \/ \E r \in RomPaths, image \in Images \cup {NoImage} : ChangeRomFile(r, image)
  PROVE  TypeOK'
<1>1. CASE Quit \/ RaceCrash
  <2>1. (Ends("exited") \/ Ends("crashed")) /\ UNCHANGED <<files, history>>
    BY <1>1 DEF Quit, RaceCrash, Crash
  <2> QED BY <2>1, EndsType DEF TypeOK, files, history
<1>2. CASE DismissGuiDialog
  BY <1>2, NoJobType DEF DismissGuiDialog, TypeOK, files
<1>3. ASSUME NEW w \in Workers, DismissWorkerDialog(w) PROVE TypeOK'
  BY <1>3, NoWorkType DEF DismissWorkerDialog, TypeOK, files, history
<1>4. ASSUME NEW p \in PackPaths, NEW r \in RomPaths \cup {NoPath}, Restart(p, r)
      PROVE TypeOK'
  BY <1>4, StartedType, NoJobType DEF Restart, TypeOK, files
<1>5. ASSUME NEW r \in RomPaths, NEW image \in Images \cup {NoImage},
             ChangeRomFile(r, image)
      PROVE TypeOK'
  BY <1>5 DEF ChangeRomFile, TypeOK, history
<1> QED BY <1>1, <1>2, <1>3, <1>4, <1>5 DEF DismissDialog

LEMMA TypeStep ==
  ASSUME TypeOK, [Next]_vars
  PROVE  TypeOK'
<1>1. CASE UNCHANGED vars
  BY <1>1 DEF vars, TypeOK
<1>2. ASSUME NEW w \in Workers, WorkerStep(w) PROVE TypeOK'
  BY <1>2, TypeIterate, TypeConvert, TypeFinish, TypeRename, TypeReset,
     TypeResetExport DEF WorkerStep
<1> QED
  BY <1>1, <1>2, TypeUser, TypeClickExport, TypeOthers
     DEF Next, UserStep, EnvironmentStep

(* Every reachable state has the types above: among them that files appear *)
(* only in the folders of setDestination, under the names iterateExport,   *)
(* convert and finishExport form, with contents one of those can write.    *)
THEOREM TypeCorrectness == Spec => []TypeOK
BY TypeInit, TypeStep, PTL DEF Spec

-------------------------------------------------------------------------------
Idle == \A w \in Workers : worker[w].at = "off"

(* The inductive invariant.  ControlsAreLocked alone is not inductive:     *)
(* Restart enables the controls, and nothing else says that no worker      *)
(* outlives its process.                                                   *)
LockInv ==
  /\ proc # "running" => Idle
  /\ ControlsAreLocked

-------------------------------------------------------------------------------
(* What the helpers leave of the enabled flags.                            *)
LEMMA OpenedFlags ==
  ASSUME NEW s \in AppType
  PROVE  /\ Opened(s).basicEnabled = s.basicEnabled
         /\ Opened(s).advancedEnabled = s.advancedEnabled
BY DEF AppType, Opened

LEMMA ValidatePackFlags ==
  ASSUME NEW s \in AppType
  PROVE  /\ ValidatePack(s).basicEnabled = s.basicEnabled
         /\ ValidatePack(s).advancedEnabled = s.advancedEnabled
<1> DEFINE o == Opened(s)
           q == IF HasMsu1(o.pack) /\ HasPatch(o.pack)
                THEN [o EXCEPT !.patchContents = o.pack] ELSE o
           r == IF HasROM(q.pack) THEN NoPath ELSE q.romPath
           b == HasPatch(q.pack)
           nb == ~HasPatch(q.pack)
           v == [q EXCEPT !.noROMNeeded = nb, !.romEnabled = b, !.romPath = r]
<1>1. o \in AppType /\ o.basicEnabled = s.basicEnabled
                    /\ o.advancedEnabled = s.advancedEnabled
  BY OpenedType, OpenedFlags
<1>2. q.basicEnabled = s.basicEnabled /\ q.advancedEnabled = s.advancedEnabled
      /\ q \in AppType
  <2> HIDE DEF o
  <2> QED BY <1>1 DEF AppType
<1>3. v.basicEnabled = s.basicEnabled /\ v.advancedEnabled = s.advancedEnabled
  <2> HIDE DEF q, r, b, nb
  <2> QED BY <1>2 DEF AppType
<1>4. ValidatePack(s) = s \/ ValidatePack(s) = q \/ ValidatePack(s) = v
  BY Zenon DEF ValidatePack, Extracted
<1> HIDE DEF q, v
<1> QED BY <1>2, <1>3, <1>4

LEMMA RevalidatedFlags ==
  ASSUME NEW s \in AppType, NEW ok
  PROVE  /\ Revalidated(s, ok).basicEnabled = s.basicEnabled
         /\ Revalidated(s, ok).advancedEnabled = s.advancedEnabled
BY DEF AppType, Revalidated

(* A running export leaves no control enabled that the user could reach.   *)
LEMMA NoControl ==
  ASSUME ControlsAreLocked, ~overlapped, NEW w \in Workers,
         Exporting(w) \/ worker[w].at \in {"reset1", "reset2", "reset3"}
  PROVE  ~app.basicEnabled /\ ~app.romEnabled /\ ~app.exportEnabled
         /\ ~app.advancedEnabled
         /\ \A v \in Workers \ {w} : worker[v].at = "off"
BY DEF ControlsAreLocked, Exporting

-------------------------------------------------------------------------------
LEMMA LockEnds ==
  ASSUME NEW how, Ends(how)
  PROVE  LockInv'
<1>1. \A w \in Workers : worker'[w].at = "off"
  BY DEF Ends, NoWork
<1> QED BY <1>1 DEF LockInv, Idle, ControlsAreLocked

(* A callback runs only when some control is enabled, and then no export   *)
(* is before the tail of its reset.                                        *)
LEMMA LockCallback ==
  ASSUME LockInv, NEW faults, NEW s, Callback(faults, s),
         app.basicEnabled \/ app.romEnabled \/ app.advancedEnabled,
         s.basicEnabled = app.basicEnabled, s.advancedEnabled = app.advancedEnabled
  PROVE  LockInv'
<1>1. CASE Crash
  BY <1>1, LockEnds DEF Crash
<1>2. CASE app' = s /\ UNCHANGED <<worker, guiDialog, proc>>
  <2>1. UNCHANGED overlapped
    BY DEF Callback, history
  <2>2. ControlsAreLocked'
    <3> SUFFICES ASSUME ~overlapped, NEW w \in Workers, worker[w].at # "off"
                 PROVE  /\ \A v \in Workers \ {w} : worker[v].at = "off"
                        /\ ~(Exporting(w) \/ worker[w].at \in {"reset1", "reset2", "reset3"})
                        /\ worker[w].at \notin {"reset5", "dialog"} => ~app.advancedEnabled
      BY <1>2, <2>1 DEF ControlsAreLocked, Exporting
    <3>1. ControlsAreLocked
      BY DEF LockInv
    <3>2. ~(Exporting(w) \/ worker[w].at \in {"reset1", "reset2", "reset3"})
      BY <3>1, NoControl
    <3> QED BY <3>1, <3>2 DEF ControlsAreLocked
  <2> QED BY <1>2, <2>2 DEF LockInv, Idle
<1> QED BY <1>1, <1>2 DEF Callback

LEMMA LockUser ==
  ASSUME TypeOK, LockInv,
         \/ \E p \in PackPaths : ChangePackPath(p)
         \/ \E r \in RomPaths \cup {NoPath} : ChangeRomPath(r)
         \/ \E out \in OutputNames : ChangeOutputName(out)
         \/ \E m \in Methods : ChooseMethod(m)
         \/ ToggleCreateManifest
         \/ ToggleForceManifest
         \/ ToggleViolateBPS
  PROVE  LockInv'
<1> app \in AppType
  BY DEF TypeOK
<1>1. ASSUME NEW p \in PackPaths, ChangePackPath(p) PROVE LockInv'
  <2> DEFINE s == [app EXCEPT !.packPath = p, !.outputName = Prefix[p]]
  <2>1. s \in AppType
    BY ConstantsType DEF AppType
  <2>2. s.basicEnabled = app.basicEnabled /\ s.advancedEnabled = app.advancedEnabled
    BY DEF AppType
  <2> HIDE DEF s
  <2>3. ValidatePack(s) \in AppType
    BY <2>1, ValidatePackType
  <2> DEFINE t == Revalidated(ValidatePack(s), PackIsValid(s))
  <2>4. t.basicEnabled = app.basicEnabled /\ t.advancedEnabled = app.advancedEnabled
    BY <2>1, <2>2, <2>3, ValidatePackFlags, RevalidatedFlags
  <2> HIDE DEF t
  <2> QED BY <1>1, <2>4, LockCallback DEF ChangePackPath, s, t
<1>2. ASSUME NEW r \in RomPaths \cup {NoPath}, ChangeRomPath(r) PROVE LockInv'
  <2> DEFINE s == [app EXCEPT !.romPath = r]
             t == Revalidated(s, ROMPatchIsValid(s))
  <2>1. s \in AppType
    BY DEF AppType
  <2>2. s.basicEnabled = app.basicEnabled /\ s.advancedEnabled = app.advancedEnabled
    BY DEF AppType
  <2> HIDE DEF s
  <2>3. t.basicEnabled = app.basicEnabled /\ t.advancedEnabled = app.advancedEnabled
    BY <2>1, <2>2, RevalidatedFlags
  <2> HIDE DEF t
  <2> QED BY <1>2, <2>3, LockCallback DEF ChangeRomPath, s, t
<1>3. ASSUME NEW out \in OutputNames, ChangeOutputName(out) PROVE LockInv'
  <2> DEFINE s == [app EXCEPT !.outputName = out]
             t == Revalidated(s, app.valid)
  <2>1. s \in AppType
    BY DEF AppType
  <2>2. s.basicEnabled = app.basicEnabled /\ s.advancedEnabled = app.advancedEnabled
    BY DEF AppType
  <2> HIDE DEF s
  <2>3. t.basicEnabled = app.basicEnabled /\ t.advancedEnabled = app.advancedEnabled
    BY <2>1, <2>2, RevalidatedFlags
  <2> HIDE DEF t
  <2> QED BY <1>3, <2>3, LockCallback DEF ChangeOutputName, s, t
<1>4. ASSUME NEW m \in Methods, ChooseMethod(m) PROVE LockInv'
  <2> DEFINE s == [app EXCEPT !.exportMethod = m]
  <2>1. s.basicEnabled = app.basicEnabled /\ s.advancedEnabled = app.advancedEnabled
    BY DEF AppType
  <2> HIDE DEF s
  <2> QED BY <1>4, <2>1, LockCallback DEF ChooseMethod, s
<1>5. ASSUME ToggleCreateManifest PROVE LockInv'
  <2> DEFINE s == [app EXCEPT !.createManifest = ~@]
  <2>1. s.basicEnabled = app.basicEnabled /\ s.advancedEnabled = app.advancedEnabled
    BY DEF AppType
  <2> HIDE DEF s
  <2> QED BY <1>5, <2>1, LockCallback DEF ToggleCreateManifest, s
<1>6. ASSUME ToggleForceManifest PROVE LockInv'
  <2> DEFINE s == [app EXCEPT !.forceManifest = ~@]
  <2>1. s.basicEnabled = app.basicEnabled /\ s.advancedEnabled = app.advancedEnabled
    BY DEF AppType
  <2> HIDE DEF s
  <2> QED BY <1>6, <2>1, LockCallback DEF ToggleForceManifest, s
<1>7. ASSUME ToggleViolateBPS PROVE LockInv'
  <2> DEFINE b == ~app.violateBPS
             s == [app EXCEPT !.violateBPS = b]
             t == Revalidated(s, ROMPatchIsValid(s))
  <2>1. s \in AppType
    <3>1. b \in BOOLEAN
      OBVIOUS
    <3> HIDE DEF b
    <3> QED BY <3>1 DEF AppType
  <2>2. s.basicEnabled = app.basicEnabled /\ s.advancedEnabled = app.advancedEnabled
    BY DEF AppType
  <2> HIDE DEF s
  <2>3. t.basicEnabled = app.basicEnabled /\ t.advancedEnabled = app.advancedEnabled
    BY <2>1, <2>2, RevalidatedFlags
  <2> HIDE DEF t
  <2> QED BY <1>7, <2>3, LockCallback DEF ToggleViolateBPS, s, b, t
<1> QED BY <1>1, <1>2, <1>3, <1>4, <1>5, <1>6, <1>7

-------------------------------------------------------------------------------
LEMMA DisabledFlags ==
  ASSUME NEW s \in AppType
  PROVE  /\ Begun(s).basicEnabled = FALSE /\ Begun(s).romEnabled = FALSE
         /\ Begun(s).advancedEnabled = FALSE /\ Begun(s).exportEnabled = FALSE
<1> DEFINE dir == Destination(s.exportMethod, s.forceManifest, s.outputName)
           d == Disabled(s)
<1>1. d \in AppType
  BY EnablingType
<1>2. /\ d.basicEnabled = FALSE /\ d.romEnabled = FALSE
      /\ d.advancedEnabled = FALSE /\ d.exportEnabled = FALSE
  BY DEF AppType, Disabled
<1> HIDE DEF d, dir
<1>3. LET b == [d EXCEPT !.destination = dir, !.zipIndex = 0]
      IN  /\ b.basicEnabled = FALSE /\ b.romEnabled = FALSE
          /\ b.advancedEnabled = FALSE /\ b.exportEnabled = FALSE
  BY <1>1, <1>2 DEF AppType
<1> QED BY <1>3 DEF Begun, d, dir

(* The export that begins finds every control disabled by its own click;   *)
(* if another worker is alive, the click has set overlapped.               *)
LEMMA LockClickExport ==
  ASSUME TypeOK, LockInv, NEW w \in Workers, ClickExport(w)
  PROVE  LockInv'
<1> DEFINE s == Begun(app)
           begin == [worker EXCEPT ![w] = [NoWork EXCEPT !.at = "iterate"]]
<1>1. /\ s.basicEnabled = FALSE /\ s.romEnabled = FALSE
      /\ s.advancedEnabled = FALSE /\ s.exportEnabled = FALSE
  BY DisabledFlags DEF TypeOK
<1>2. proc = "running" /\ (~overlapped' => Idle)
  BY DEF ClickExport, Interactive, Idle
<1>3. \/ Crash
      \/ app' = s /\ worker' = begin /\ UNCHANGED proc
      \/ UNCHANGED <<worker, proc>>
  BY DEF ClickExport
<1>4. CASE Crash
  BY <1>4, LockEnds DEF Crash
<1>5. CASE app' = s /\ worker' = begin /\ UNCHANGED proc
  <2>1. begin[w].at = "iterate" /\ \A v \in Workers \ {w} : begin[v] = worker[v]
    BY DEF TypeOK, NoWork
  <2> HIDE DEF s, begin
  <2>2. ControlsAreLocked'
    BY <1>1, <1>2, <1>5, <2>1 DEF ControlsAreLocked, Exporting, Idle
  <2> QED BY <1>2, <1>5, <2>2 DEF LockInv
<1>6. CASE UNCHANGED <<worker, proc>>
  BY <1>2, <1>6 DEF LockInv, ControlsAreLocked, Idle
<1> QED BY <1>3, <1>4, <1>5, <1>6

-------------------------------------------------------------------------------
(* A step of the only worker: it leaves the others alone and has the       *)
(* controls as its next place demands.                                     *)
LEMMA LockMove ==
  ASSUME TypeOK, LockInv, NEW w \in Workers, worker[w].at # "off", proc = "running",
         UNCHANGED <<proc, overlapped>>,
         \A v \in Workers \ {w} : worker'[v] = worker[v],
         \/ worker'[w].at \in {"off", "dialog", "reset5"}
         \/ worker'[w].at = "reset4" /\ ~app'.advancedEnabled
         \/ /\ Exporting(w) \/ worker[w].at \in {"reset1", "reset2", "reset3"}
            /\ app'.basicEnabled = app.basicEnabled
            /\ app'.romEnabled = app.romEnabled
            /\ app'.exportEnabled = app.exportEnabled
            /\ app'.advancedEnabled = app.advancedEnabled
  PROVE  LockInv'
<1>1. ControlsAreLocked'
  <2> SUFFICES ASSUME ~overlapped, NEW v \in Workers, worker'[v].at # "off"
               PROVE  /\ \A u \in Workers \ {v} : worker'[u].at = "off"
                      /\ (worker'[v].at \in {"iterate", "convert", "rename1", "rename2"}
                          \/ worker'[v].at \in {"reset1", "reset2", "reset3"}) =>
                           ~app'.basicEnabled /\ ~app'.romEnabled /\ ~app'.exportEnabled
                      /\ worker'[v].at \notin {"reset5", "dialog"} => ~app'.advancedEnabled
    BY DEF ControlsAreLocked, Exporting
  <2>1. \A u \in Workers \ {w} : worker[u].at = "off"
    BY DEF LockInv, ControlsAreLocked
  <2>2. v = w
    BY <2>1
  <2>3. CASE worker'[w].at \in {"off", "dialog", "reset5"}
    BY <2>1, <2>2, <2>3
  <2>4. CASE worker'[w].at = "reset4" /\ ~app'.advancedEnabled
    BY <2>1, <2>2, <2>4
  <2>5. CASE /\ Exporting(w) \/ worker[w].at \in {"reset1", "reset2", "reset3"}
             /\ app'.basicEnabled = app.basicEnabled
             /\ app'.romEnabled = app.romEnabled
             /\ app'.exportEnabled = app.exportEnabled
             /\ app'.advancedEnabled = app.advancedEnabled
    <3>1. ~app.basicEnabled /\ ~app.romEnabled /\ ~app.exportEnabled
          /\ ~app.advancedEnabled
      BY <2>5, NoControl DEF LockInv
    <3> QED BY <2>1, <2>2, <2>5, <3>1
  <2> QED BY <2>3, <2>4, <2>5
<1> QED BY <1>1 DEF LockInv

(* The flags as a tuple: what the steps before the tail of reset leave.    *)
Flags(s) == <<s.basicEnabled, s.romEnabled, s.exportEnabled, s.advancedEnabled>>

LEMMA LockWork ==
  ASSUME TypeOK, LockInv, NEW w \in Workers,
         Iterate(w) \/ Convert(w) \/ Finish(w) \/ RenameROM(w) \/ RenameMsu1(w)
  PROVE  LockInv'
<1> worker \in [Workers -> WorkType] /\ app \in AppType
  BY DEF TypeOK
<1>1. proc = "running" /\ Exporting(w) /\ worker[w].at # "off"
  BY DEF Iterate, Convert, Finish, RenameROM, RenameMsu1, WorkerAt, Exporting
<1>2. UNCHANGED overlapped
  BY DEF Iterate, Convert, Finish, RenameROM, RenameMsu1, history
<1>3. CASE Crash
  BY <1>3, LockEnds DEF Crash
<1>4. CASE ~Crash
  <2>1. UNCHANGED proc
    BY <1>4 DEF Iterate, Convert, Finish, RenameROM, RenameMsu1
  <2>2. \A v \in Workers \ {w} : worker'[v] = worker[v]
    BY <1>4 DEF Iterate, Convert, Finish, RenameROM, RenameMsu1, Moved
  <2>3. Flags(app') = Flags(app)
    <3>1. ASSUME Iterate(w) PROVE Flags(app') = Flags(app)
      <4>1. PICK i, t : app' = [app EXCEPT !.zipIndex = i, !.trackIDs = t]
        BY <1>4, <3>1 DEF Iterate
      <4> QED BY <4>1 DEF Flags, AppType
    <3>2. ASSUME ~Iterate(w) PROVE UNCHANGED app
      BY <1>4, <3>2 DEF Convert, Finish, RenameROM, RenameMsu1
    <3> QED BY <3>1, <3>2
  <2>4. /\ app'.basicEnabled = app.basicEnabled
        /\ app'.romEnabled = app.romEnabled
        /\ app'.exportEnabled = app.exportEnabled
        /\ app'.advancedEnabled = app.advancedEnabled
    BY <2>3 DEF Flags
  <2> QED BY <1>1, <1>2, <2>1, <2>2, <2>4, LockMove
<1> QED BY <1>3, <1>4

LEMMA LockReset ==
  ASSUME TypeOK, LockInv, NEW w \in Workers,
         \/ ResetPack(w) \/ ResetTexts(w) \/ ResetBasic(w) \/ ResetAdvanced(w)
         \/ ResetExport(w)
  PROVE  LockInv'
<1> worker \in [Workers -> WorkType] /\ app \in AppType
  BY DEF TypeOK
<1>1. proc = "running" /\ worker[w].at # "off"
  BY DEF ResetPack, ResetTexts, ResetBasic, ResetAdvanced, ResetStep,
         ResetExport, WorkerAt
<1>2. UNCHANGED overlapped
  BY DEF ResetPack, ResetTexts, ResetBasic, ResetAdvanced, ResetStep,
         ResetExport, history
<1>3. CASE ResetPack(w) \/ ResetTexts(w)
  <2>1. worker[w].at \in {"reset1", "reset2"} /\ UNCHANGED proc
        /\ \A v \in Workers \ {w} : worker'[v] = worker[v]
    BY <1>3 DEF ResetPack, ResetTexts, ResetStep, WorkerAt, Moved
  <2>2. app' = ClosePack(app) \/ app' = ClearTexts(app)
    BY <1>3 DEF ResetPack, ResetTexts, ResetStep
  <2>3. /\ app'.basicEnabled = app.basicEnabled
        /\ app'.romEnabled = app.romEnabled
        /\ app'.exportEnabled = app.exportEnabled
        /\ app'.advancedEnabled = app.advancedEnabled
    BY <2>2 DEF ClosePack, ClearTexts, AppType
  <2> QED BY <1>1, <1>2, <2>1, <2>3, LockMove
<1>4. CASE ResetBasic(w)
  <2>1. worker[w].at = "reset3" /\ UNCHANGED proc /\ app' = EnableBasic(app)
        /\ worker'[w].at = "reset4" /\ \A v \in Workers \ {w} : worker'[v] = worker[v]
    BY <1>4 DEF ResetBasic, ResetStep, WorkerAt, Moved, WorkType
  <2>2. app'.advancedEnabled = app.advancedEnabled
    BY <2>1 DEF EnableBasic, AppType
  <2>3. overlapped \/ ~app.advancedEnabled
    BY <2>1, NoControl DEF LockInv
  <2>4. CASE overlapped
    BY <1>1, <1>2, <2>1, <2>4 DEF LockInv, ControlsAreLocked
  <2>5. CASE ~overlapped
    BY <1>1, <1>2, <2>1, <2>2, <2>3, <2>5, LockMove
  <2> QED BY <2>4, <2>5
<1>5. CASE ResetAdvanced(w)
  <2>1. UNCHANGED proc
        /\ worker'[w].at = "reset5" /\ \A v \in Workers \ {w} : worker'[v] = worker[v]
    BY <1>5 DEF ResetAdvanced, ResetStep, Moved, WorkType
  <2> QED BY <1>1, <1>2, <2>1, LockMove
<1>6. CASE ResetExport(w)
  <2>1. CASE Crash
    BY <2>1, LockEnds DEF Crash
  <2>2. CASE ~Crash
    <3>1. UNCHANGED proc
          /\ worker' = [worker EXCEPT ![w] =
                          IF @.failed THEN [@ EXCEPT !.at = "dialog"] ELSE NoWork]
      BY <1>6, <2>2 DEF ResetExport
    <3>2. worker'[w].at \in {"off", "dialog"}
          /\ \A v \in Workers \ {w} : worker'[v] = worker[v]
      BY <3>1 DEF NoWork, WorkType
    <3> QED BY <1>1, <1>2, <3>1, <3>2, LockMove
  <2> QED BY <2>1, <2>2
<1> QED BY <1>3, <1>4, <1>5, <1>6

LEMMA LockOthers ==
  ASSUME TypeOK, LockInv,
         \/ Quit \/ DismissDialog \/ RaceCrash
         \/ \E p \in PackPaths, r \in RomPaths \cup {NoPath} : Restart(p, r)
         \/ \E r \in RomPaths, image \in Images \cup {NoImage} : ChangeRomFile(r, image)
         \/ UNCHANGED vars
  PROVE  LockInv'
<1> worker \in [Workers -> WorkType]
  BY DEF TypeOK
<1>1. CASE Quit \/ RaceCrash
  BY <1>1, LockEnds DEF Quit, RaceCrash, Crash
<1>2. ASSUME UNCHANGED <<app, worker, proc, overlapped>> PROVE LockInv'
  BY <1>2 DEF LockInv, Idle, ControlsAreLocked, Exporting
<1>3. ASSUME NEW w \in Workers, DismissWorkerDialog(w) PROVE LockInv'
  <2>1. worker'[w].at = "off" /\ worker[w].at # "off" /\ proc = "running"
        /\ \A v \in Workers \ {w} : worker'[v] = worker[v]
    BY <1>3 DEF DismissWorkerDialog, WorkerAt, NoWork
  <2> QED BY <1>3, <2>1, LockMove DEF DismissWorkerDialog, history
<1>4. ASSUME NEW p, NEW r, Restart(p, r) PROVE LockInv'
  BY <1>4 DEF Restart, LockInv, Idle, ControlsAreLocked
<1>5. CASE DismissGuiDialog
  BY <1>2, <1>5 DEF DismissGuiDialog
<1>6. ASSUME NEW r, NEW image, ChangeRomFile(r, image) PROVE LockInv'
  BY <1>2, <1>6 DEF ChangeRomFile, history
<1>7. CASE UNCHANGED vars
  BY <1>2, <1>7 DEF vars
<1> QED BY <1>1, <1>3, <1>4, <1>5, <1>6, <1>7 DEF DismissDialog

LEMMA LockInit == Init => LockInv
BY DEF Init, Start, NoWork, LockInv, Idle, ControlsAreLocked

LEMMA LockStep ==
  ASSUME TypeOK, LockInv, [Next]_vars
  PROVE  LockInv'
<1>1. ASSUME NEW w \in Workers, WorkerStep(w) PROVE LockInv'
  BY <1>1, LockWork, LockReset DEF WorkerStep
<1> QED
  BY <1>1, LockUser, LockClickExport, LockOthers
     DEF Next, UserStep, EnvironmentStep

(* The inductive invariant holds in every reachable state: the controls    *)
(* are locked as above, and no worker thread outlives its process.         *)
THEOREM Invariance == Spec => [](TypeOK /\ LockInv)
<1>1. Init => TypeOK /\ LockInv
  BY TypeInit, LockInit
<1>2. TypeOK /\ LockInv /\ [Next]_vars => (TypeOK /\ LockInv)'
  BY TypeStep, LockStep
<1> QED BY <1>1, <1>2, PTL DEF Spec

-------------------------------------------------------------------------------
(* A running export is alone and has every control of the window disabled, *)
(* until its reset() enables them; unless Export was clicked in that tail. *)
THEOREM Locking == Spec => []ControlsAreLocked
BY Invariance, PTL DEF LockInv

(* Export can be clicked under a live worker only between the end of       *)
(* setEnabled(true) of the basic tab and the end of the thread.            *)
LEMMA OverlapStep ==
  ASSUME TypeOK, LockInv, [Next]_vars, ~overlapped, overlapped'
  PROVE  \E w \in Workers : worker[w].at \in {"reset4", "reset5"}
<1>1. PICK w \in Workers : ClickExport(w)
  <2>1. CASE UNCHANGED vars
    BY <2>1 DEF vars
  <2>2. ASSUME NEW w \in Workers, WorkerStep(w) PROVE UNCHANGED overlapped
    BY <2>2 DEF WorkerStep, Iterate, Convert, Finish, RenameROM, RenameMsu1,
       ResetPack, ResetTexts, ResetBasic, ResetAdvanced, ResetStep, ResetExport, history
  <2>3. ASSUME NEW faults, NEW s, Callback(faults, s) PROVE UNCHANGED overlapped
    BY <2>3 DEF Callback, history
  <2>4. CASE UserStep
    BY <2>3, <2>4 DEF UserStep, ChangePackPath, ChangeRomPath, ChangeOutputName,
       ChooseMethod, ToggleCreateManifest, ToggleForceManifest, ToggleViolateBPS,
       Quit, history
  <2>5. CASE DismissDialog \/ RaceCrash \/ EnvironmentStep
    BY <2>5 DEF DismissDialog, DismissGuiDialog, DismissWorkerDialog, RaceCrash,
       EnvironmentStep, Restart, ChangeRomFile, history
  <2> QED BY <2>1, <2>2, <2>4, <2>5 DEF Next
<1>2. PICK v \in Workers : worker[v].at # "off"
  BY <1>1 DEF ClickExport
<1>3. worker[v].at # "dialog" /\ app.exportEnabled
  BY <1>1 DEF ClickExport, Interactive
<1>4. ~(Exporting(v) \/ worker[v].at \in {"reset1", "reset2", "reset3"})
  BY <1>3, NoControl DEF LockInv
<1>5. worker[v].at \in Steps
  BY DEF TypeOK, WorkType
<1> QED BY <1>2, <1>3, <1>4, <1>5 DEF Steps, Exporting

THEOREM OverlapWindow == Spec => OverlapNeedsResetTail
<1>1. (TypeOK /\ LockInv) /\ [Next]_vars
        => [~overlapped /\ overlapped' =>
              \E w \in Workers : worker[w].at \in {"reset4", "reset5"}]_vars
  BY OverlapStep
<1> QED BY <1>1, Invariance, PTL DEF Spec, OverlapNeedsResetTail

(* The settings an export reads again for every entry, and the opened      *)
(* pack, are changed by no step of any thread while it runs alone.         *)
LEMMA FrozenStep ==
  ASSUME TypeOK, LockInv, [Next]_vars, ~overlapped, proc' = "running",
         NEW w \in Workers, Exporting(w)
  PROVE  Settings' = Settings
<1> app \in AppType
  BY DEF TypeOK
<1>1. /\ ~app.basicEnabled /\ ~app.romEnabled /\ ~app.exportEnabled
      /\ ~app.advancedEnabled
      /\ \A v \in Workers \ {w} : worker[v].at = "off"
  BY NoControl DEF LockInv
<1>2. proc = "running" /\ worker[w].at # "off"
  BY DEF LockInv, Idle, Exporting
<1>3. ~Crash
  BY DEF Crash, Ends
<1>4. ASSUME UNCHANGED app PROVE Settings' = Settings
  BY <1>4 DEF Settings
<1>5. CASE UNCHANGED vars
  BY <1>4, <1>5 DEF vars
<1>6. CASE UserStep
  BY <1>1, <1>6 DEF UserStep, ChangePackPath, ChangeRomPath, ChangeOutputName,
     ChooseMethod, ToggleCreateManifest, ToggleForceManifest, ToggleViolateBPS,
     ClickExport, Quit, Ends
<1>7. CASE DismissDialog \/ RaceCrash
  BY <1>3, <1>4, <1>7 DEF DismissDialog, DismissGuiDialog, DismissWorkerDialog, RaceCrash
<1>8. CASE EnvironmentStep
  BY <1>2, <1>4, <1>8 DEF EnvironmentStep, Restart, ChangeRomFile
<1>9. ASSUME NEW v \in Workers, WorkerStep(v) PROVE Settings' = Settings
  <2>1. v = w
    BY <1>1, <1>9 DEF WorkerStep, Iterate, Convert, Finish, RenameROM, RenameMsu1,
       ResetPack, ResetTexts, ResetBasic, ResetAdvanced, ResetStep, ResetExport, WorkerAt
  <2>2. CASE Iterate(w)
    <3>1. PICK i, t : app' = [app EXCEPT !.zipIndex = i, !.trackIDs = t]
      BY <1>3, <2>2 DEF Iterate
    <3> QED BY <3>1 DEF Settings, AppType
  <2>3. CASE Convert(w) \/ Finish(w) \/ RenameROM(w) \/ RenameMsu1(w)
    BY <1>3, <1>4, <2>3 DEF Convert, Finish, RenameROM, RenameMsu1
  <2> QED BY <1>9, <2>1, <2>2, <2>3 DEF WorkerStep, ResetPack, ResetTexts,
     ResetBasic, ResetAdvanced, ResetStep, ResetExport, WorkerAt, Exporting
<1> QED BY <1>5, <1>6, <1>7, <1>8, <1>9 DEF Next

THEOREM FrozenSettings == Spec => SettingsAreFrozen
<1>1. (TypeOK /\ LockInv) /\ [Next]_vars
        => [~overlapped /\ (\E w \in Workers : Exporting(w)) /\ proc' = "running"
              => Settings' = Settings]_vars
  BY FrozenStep
<1> QED BY <1>1, Invariance, PTL DEF Spec, SettingsAreFrozen
-------------------------------------------------------------------------------
(***************************************************************************)
(* Until the first export, Export is enabled without a ROM path only for   *)
(* an opened pack that brings its own ROM.                                 *)
(***************************************************************************)
(* `valid' was earned by the ROM path or by the pack that is still opened. *)
Earned(s) ==
  /\ s.exportEnabled => s.valid
  /\ s.valid /\ s.romPath = NoPath => HasMsu1(s.pack) /\ HasROM(s.pack)

(* The inductive invariant.                                                *)
EnablingInv == exports = 0 => Earned(app) /\ \A w \in Workers : worker[w].at = "off"

-------------------------------------------------------------------------------
(* What the validations say of the ROM path and of the pack.               *)
LEMMA ValidROM ==
  ASSUME NEW s, ROMPatchIsValid(s)
  PROVE  s.romPath # NoPath
BY DEF ROMPatchIsValid, ROMExists

(* validatePack says yes to a pack with its own ROM, or to the ROM path.   *)
LEMMA ValidPack ==
  ASSUME NEW s \in AppType, PackIsValid(s), ValidatePack(s).romPath = NoPath
  PROVE  HasMsu1(ValidatePack(s).pack) /\ HasROM(ValidatePack(s).pack)
<1> DEFINE o == Opened(s)
           q == IF HasMsu1(o.pack) /\ HasPatch(o.pack)
                THEN [o EXCEPT !.patchContents = o.pack] ELSE o
           r == IF HasROM(q.pack) THEN NoPath ELSE q.romPath
           b == HasPatch(q.pack)
           nb == ~HasPatch(q.pack)
           v == [q EXCEPT !.noROMNeeded = nb, !.romEnabled = b, !.romPath = r]
<1>1. o \in AppType
  BY OpenedType
<1>2. q.pack = o.pack /\ q \in AppType
  <2> HIDE DEF o
  <2> QED BY <1>1 DEF AppType
<1>3. v.pack = q.pack
  <2> HIDE DEF q, r, b, nb
  <2> QED BY <1>2 DEF AppType
<1>4. Accepts(s) /\ PackExists(s) /\ HasMsu1(o.pack)
      /\ (HasROM(o.pack) \/ ROMPatchIsValid(ValidatePack(s)))
  BY DEF PackIsValid, Accepts
<1>5. ValidatePack(s) = v
  BY <1>4, Zenon DEF ValidatePack, Extracted
<1> HIDE DEF v, q, o
<1> QED BY <1>2, <1>3, <1>4, <1>5, ValidROM

LEMMA EarnedRevalidated ==
  ASSUME NEW s \in AppType, NEW ok \in BOOLEAN,
         ok /\ s.romPath = NoPath => HasMsu1(s.pack) /\ HasROM(s.pack)
  PROVE  Earned(Revalidated(s, ok))
<1> DEFINE t == Revalidated(s, ok)
<1>1. /\ t.valid = ok /\ t.romPath = s.romPath /\ t.pack = s.pack
      /\ t.exportEnabled => ok
  BY DEF AppType, Revalidated
<1> HIDE DEF t
<1>2. Earned(t)
  BY <1>1 DEF Earned
<1> QED BY <1>2 DEF t

LEMMA EarnedFresh == Earned(Fresh)
BY DEF Fresh, Earned

LEMMA EarnedStarted ==
  ASSUME NEW p \in PackPaths, NEW r \in RomPaths \cup {NoPath}
  PROVE  Earned(Started(p, r))
<1> DEFINE f == [Fresh EXCEPT !.packPath = p]
           v == ValidatePack(f)
           ok == PackIsValid(f)
           u == WithPack(p)
           s == WithROM(u, r)
           ok2 == IF r # NoPath /\ HasPatch(s.pack) THEN ROMPatchIsValid(s) ELSE s.valid
           t == [s EXCEPT !.valid = ok2, !.exportEnabled = ok2]
<1>1. f \in AppType
  BY FreshType DEF AppType
<1>2. v \in AppType /\ ok \in BOOLEAN
  BY <1>1, ValidatePackType, PackIsValidType
<1>3. ok /\ v.romPath = NoPath => HasMsu1(v.pack) /\ HasROM(v.pack)
  BY <1>1, ValidPack
<1>4. /\ u \in AppType
      /\ u.valid /\ u.romPath = NoPath => HasMsu1(u.pack) /\ HasROM(u.pack)
  <2> HIDE DEF v, ok
  <2>1. u = [v EXCEPT !.valid = ok]
    BY Zenon DEF WithPack, v, ok
  <2>2. u \in AppType /\ u.pack = v.pack /\ u.romPath = v.romPath /\ u.valid = ok
    BY <1>2, <2>1 DEF AppType
  <2> HIDE DEF u
  <2> QED BY <1>3, <2>2
<1>5. /\ s \in AppType
      /\ s.valid /\ s.romPath = NoPath => HasMsu1(s.pack) /\ HasROM(s.pack)
  <2> HIDE DEF u
  <2>1. CASE r # NoPath /\ HasPatch(u.pack)
    <3>1. s = [u EXCEPT !.romPath = r]
      BY <2>1 DEF WithROM
    <3>2. s \in AppType /\ s.romPath = r
      BY <1>4, <3>1 DEF AppType
    <3> QED BY <2>1, <3>2
  <2>2. CASE ~(r # NoPath /\ HasPatch(u.pack))
    BY <1>4, <2>2 DEF WithROM
  <2> QED BY <2>1, <2>2
<1>6. /\ ok2 \in BOOLEAN
      /\ ok2 /\ s.romPath = NoPath => HasMsu1(s.pack) /\ HasROM(s.pack)
  <2> HIDE DEF s
  <2>1. s.valid \in BOOLEAN
    BY <1>5 DEF AppType
  <2> QED BY <1>5, <2>1, ValidROM, ROMPatchIsValidType
<1>7. Earned(t)
  <2> HIDE DEF s, ok2
  <2>1. t.valid = ok2 /\ t.exportEnabled = ok2 /\ t.romPath = s.romPath /\ t.pack = s.pack
    BY <1>5 DEF AppType
  <2> HIDE DEF t
  <2> QED BY <1>6, <2>1 DEF Earned
<1>8. Started(p, r) = Fresh \/ Started(p, r) = t
  BY Zenon DEF Started
<1> QED BY <1>7, <1>8, EarnedFresh, Zenon

-------------------------------------------------------------------------------
(* The invariant, action by action.                                        *)
LEMMA EnablingEnds ==
  ASSUME NEW how, Ends(how)
  PROVE  EnablingInv'
BY EarnedFresh DEF Ends, NoWork, EnablingInv

LEMMA EnablingCallback ==
  ASSUME EnablingInv, NEW faults, NEW s, Callback(faults, s),
         exports = 0 => Earned(s)
  PROVE  EnablingInv'
<1>1. CASE Crash
  BY <1>1, EnablingEnds DEF Crash
<1>2. CASE ~Crash
  BY <1>2 DEF Callback, EnablingInv, history
<1> QED BY <1>1, <1>2

LEMMA EnablingUser ==
  ASSUME TypeOK, EnablingInv, UserStep
  PROVE  EnablingInv'
<1>1. app \in AppType
  BY DEF TypeOK
<1>2. ASSUME NEW p \in PackPaths, ChangePackPath(p) PROVE EnablingInv'
  <2> DEFINE out == Prefix[p]
             s == [app EXCEPT !.packPath = p, !.outputName = out]
             v == ValidatePack(s)
             ok == PackIsValid(s)
  <2>1. out \in OutputNames
    BY ConstantsType
  <2>2. s \in AppType
    <3> HIDE DEF out
    <3> QED BY <1>1, <2>1 DEF AppType
  <2>3. Callback(PackFaults(s), Revalidated(v, ok))
    BY <1>2, Zenon DEF ChangePackPath
  <2> HIDE DEF s
  <2>4. v \in AppType /\ ok \in BOOLEAN
    BY <2>2, ValidatePackType, PackIsValidType
  <2>5. ok /\ v.romPath = NoPath => HasMsu1(v.pack) /\ HasROM(v.pack)
    BY <2>2, ValidPack
  <2> HIDE DEF v, ok
  <2>6. Earned(Revalidated(v, ok))
    BY <2>4, <2>5, EarnedRevalidated
  <2> QED BY <2>3, <2>6, EnablingCallback
<1>3. ASSUME NEW s \in AppType PROVE Earned(Revalidated(s, ROMPatchIsValid(s)))
  BY <1>3, ValidROM, ROMPatchIsValidType, EarnedRevalidated
<1>4. ASSUME NEW r \in RomPaths \cup {NoPath}, ChangeRomPath(r) PROVE EnablingInv'
  <2> DEFINE s == [app EXCEPT !.romPath = r]
  <2>1. s \in AppType
    BY <1>1 DEF AppType
  <2>2. Callback(ROMPatchFaults(s), Revalidated(s, ROMPatchIsValid(s)))
    BY <1>4, Zenon DEF ChangeRomPath
  <2> HIDE DEF s
  <2> QED BY <1>3, <2>1, <2>2, EnablingCallback
<1>5. CASE ToggleViolateBPS
  <2> DEFINE b == ~app.violateBPS
             s == [app EXCEPT !.violateBPS = b]
  <2>1. s \in AppType
    <3>1. b \in BOOLEAN
      OBVIOUS
    <3> HIDE DEF b
    <3> QED BY <1>1, <3>1 DEF AppType
  <2>2. Callback(ROMPatchFaults(s), Revalidated(s, ROMPatchIsValid(s)))
    BY <1>5, Zenon DEF ToggleViolateBPS
  <2> HIDE DEF s
  <2> QED BY <1>3, <2>1, <2>2, EnablingCallback
<1>6. ASSUME NEW out \in OutputNames, ChangeOutputName(out) PROVE EnablingInv'
  <2> DEFINE s == [app EXCEPT !.outputName = out]
  <2>1. s \in AppType /\ s.romPath = app.romPath /\ s.pack = app.pack
        /\ app.valid \in BOOLEAN
    BY <1>1 DEF AppType
  <2>2. Callback(FALSE, Revalidated(s, app.valid))
    BY <1>6, Zenon DEF ChangeOutputName
  <2> HIDE DEF s
  <2>3. exports = 0 => Earned(Revalidated(s, app.valid))
    <3>1. exports = 0 /\ app.valid /\ s.romPath = NoPath => HasMsu1(s.pack) /\ HasROM(s.pack)
      BY <2>1 DEF EnablingInv, Earned
    <3> QED BY <2>1, <3>1, EarnedRevalidated
  <2> QED BY <2>2, <2>3, EnablingCallback
<1>7. ASSUME NEW s, s.exportEnabled = app.exportEnabled, s.valid = app.valid,
             s.romPath = app.romPath, s.pack = app.pack, Callback(FALSE, s)
      PROVE  EnablingInv'
  <2>1. exports = 0 => Earned(s)
    BY <1>7 DEF EnablingInv, Earned
  <2> QED BY <1>7, <2>1, EnablingCallback
<1>8. ASSUME NEW m \in Methods, ChooseMethod(m) PROVE EnablingInv'
  <2> DEFINE s == [app EXCEPT !.exportMethod = m]
  <2>1. /\ s.exportEnabled = app.exportEnabled /\ s.valid = app.valid
        /\ s.romPath = app.romPath /\ s.pack = app.pack
    BY <1>1 DEF AppType
  <2>2. Callback(FALSE, s)
    BY <1>8 DEF ChooseMethod
  <2> HIDE DEF s
  <2> QED BY <1>7, <2>1, <2>2
<1>9. CASE ToggleCreateManifest
  <2> DEFINE s == [app EXCEPT !.createManifest = ~@]
  <2>1. /\ s.exportEnabled = app.exportEnabled /\ s.valid = app.valid
        /\ s.romPath = app.romPath /\ s.pack = app.pack
    BY <1>1 DEF AppType
  <2>2. Callback(FALSE, s)
    BY <1>9 DEF ToggleCreateManifest
  <2> HIDE DEF s
  <2> QED BY <1>7, <2>1, <2>2
<1>10. CASE ToggleForceManifest
  <2> DEFINE s == [app EXCEPT !.forceManifest = ~@]
  <2>1. /\ s.exportEnabled = app.exportEnabled /\ s.valid = app.valid
        /\ s.romPath = app.romPath /\ s.pack = app.pack
    BY <1>1 DEF AppType
  <2>2. Callback(FALSE, s)
    BY <1>10 DEF ToggleForceManifest
  <2> HIDE DEF s
  <2> QED BY <1>7, <2>1, <2>2
<1>11. ASSUME NEW w \in Workers, ClickExport(w) PROVE EnablingInv'
  <2>1. exports' # 0
    BY <1>11 DEF ClickExport, TypeOK
  <2> QED BY <2>1 DEF EnablingInv
<1>12. CASE Quit
  BY <1>12, EnablingEnds DEF Quit
<1> QED BY <1>2, <1>4, <1>5, <1>6, <1>8, <1>9, <1>10, <1>11, <1>12 DEF UserStep

LEMMA EnablingStep ==
  ASSUME TypeOK, EnablingInv, [Next]_vars
  PROVE  EnablingInv'
<1>1. CASE UNCHANGED <<app, worker, exports>>
  BY <1>1 DEF EnablingInv, Earned
<1>2. ASSUME NEW w \in Workers, WorkerStep(w) PROVE EnablingInv'
  <2>1. worker[w].at # "off" /\ exports' = exports
    BY <1>2 DEF WorkerStep, Iterate, Convert, Finish, RenameROM, RenameMsu1,
       ResetPack, ResetTexts, ResetBasic, ResetAdvanced, ResetStep, ResetExport,
       WorkerAt, history
  <2> QED BY <2>1 DEF EnablingInv
<1>3. CASE DismissDialog \/ RaceCrash
  <2>1. ASSUME NEW w \in Workers, DismissWorkerDialog(w) PROVE EnablingInv'
    BY <2>1 DEF DismissWorkerDialog, WorkerAt, EnablingInv, history
  <2> QED BY <1>1, <1>3, <2>1, EnablingEnds
          DEF DismissDialog, DismissGuiDialog, RaceCrash, Crash
<1>4. CASE EnvironmentStep
  <2>1. ASSUME NEW p \in PackPaths, NEW r \in RomPaths \cup {NoPath}, Restart(p, r)
        PROVE  EnablingInv'
    BY <2>1, EarnedStarted DEF Restart, EnablingInv
  <2> QED BY <1>1, <1>4, <2>1 DEF EnvironmentStep, ChangeRomFile, history
<1>5. CASE UNCHANGED vars
  BY <1>1, <1>5 DEF vars
<1> QED BY <1>2, <1>3, <1>4, <1>5, EnablingUser DEF Next

(* Until the first export, Export is enabled without a ROM path only for   *)
(* an opened pack with a data track and a ROM of its own.                  *)
THEOREM ExportIsEarned == Spec => []ExportNeedsPackOrROM
<1>1. Init => EnablingInv
  BY EarnedStarted DEF Init, Start, NoWork, EnablingInv
<1>2. TypeOK /\ EnablingInv /\ [Next]_vars => EnablingInv'
  BY EnablingStep
<1>3. EnablingInv => ExportNeedsPackOrROM
  BY DEF EnablingInv, Earned, ExportNeedsPackOrROM
<1> QED BY <1>1, <1>2, <1>3, TypeCorrectness, PTL DEF Spec
-------------------------------------------------------------------------------
(* An export that runs alone touches only its own files.                   *)

(* A place that belongs to the output name in the window.                  *)
Own(path) ==
  \/ path[1] = <<app.outputName, ".sfc/">>
  \/ path[1] = Shared /\ path[2][1] = app.outputName

(* The inductive invariant: the destination is still the one that the      *)
(* settings name, the file under conversion is the export's own, and only  *)
(* a forced manifest, which has a folder of its own, leads to the renames. *)
OwnInv ==
  ~overlapped => \A w \in Workers : Exporting(w) =>
    /\ app.destination =
         Destination(app.exportMethod, app.forceManifest, app.outputName)
    /\ worker[w].at = "convert" => Own(worker[w].path)
    /\ worker[w].at \in {"rename1", "rename2"} =>
         app.exportMethod = SD2SNES /\ app.forceManifest

-------------------------------------------------------------------------------
(* What the file operations leave alone.                                   *)
LEMMA WriteFrame ==
  ASSUME NEW d, NEW path, NEW c, NEW q, q # path
  PROVE  At(WriteFile(d, path, c), q) = At(d, q)
BY DEF At, Exists, WriteFile

LEMMA RemoveFrame ==
  ASSUME NEW d, NEW path, NEW q, q # path
  PROVE  At(RemoveFile(d, path), q) = At(d, q)
BY DEF At, Exists, RemoveFile

LEMMA RenameFrame ==
  ASSUME NEW d, NEW from, NEW to, NEW q, q # from, q # to
  PROVE  At(RenameFile(d, from, to), q) = At(d, q)
<1>1. At(WriteFile(d, to, d[from]), q) = At(d, q)
  BY WriteFrame
<1>2. At(RemoveFile(WriteFile(d, to, d[from]), from), q) = At(WriteFile(d, to, d[from]), q)
  BY RemoveFrame
<1> QED BY <1>1, <1>2 DEF RenameFile

-------------------------------------------------------------------------------
(* Places named by the settings are the export's own.                      *)
LEMMA OwnFolder ==
  ASSUME NEW m \in Methods, NEW force \in BOOLEAN, NEW out
  PROVE  \/ Destination(m, force, out) = <<out, ".sfc/">>
         \/ Destination(m, force, out) = Shared /\ m = SD2SNES /\ ~force
BY DEF Destination

LEMMA OwnROM ==
  ASSUME NEW s \in AppType, s.outputName = app.outputName,
         s.destination = Destination(s.exportMethod, s.forceManifest, s.outputName)
  PROVE  Own(ROMTarget(s))
<1>1. s.exportMethod \in Methods /\ s.forceManifest \in BOOLEAN
  BY AppFields
<1>2. ROMTarget(s)[1] = s.destination
      /\ ROMTarget(s)[2] = ROMName(s.exportMethod, s.forceManifest, s.outputName)
  BY DEF ROMTarget
<1>3. SD2SNES # GamePak
  BY DEF SD2SNES, GamePak
<1>4. CASE s.destination = <<s.outputName, ".sfc/">>
  BY <1>2, <1>4 DEF Own
<1>5. CASE s.destination = Shared /\ s.exportMethod = SD2SNES /\ ~s.forceManifest
  BY <1>2, <1>3, <1>5 DEF Own, ROMName, Sfc
<1> QED BY <1>1, <1>4, <1>5, OwnFolder

LEMMA OwnEntry ==
  ASSUME TypeOK, NEW e,
         app.destination = Destination(app.exportMethod, app.forceManifest, app.outputName),
         ExportName(e, app.exportMethod, app.forceManifest, app.outputName) # NoName
  PROVE  Own(<<app.destination,
               ExportName(e, app.exportMethod, app.forceManifest, app.outputName)>>)
<1> DEFINE name == ExportName(e, app.exportMethod, app.forceManifest, app.outputName)
<1>1. app.exportMethod \in Methods /\ app.forceManifest \in BOOLEAN
  BY AppFields DEF TypeOK
<1>2. CASE app.destination = <<app.outputName, ".sfc/">>
  BY <1>2 DEF Own
<1>3. CASE app.destination = Shared /\ app.exportMethod = SD2SNES /\ ~app.forceManifest
  <2>1. SD2SNES # GamePak /\ name # NoName
    BY DEF SD2SNES, GamePak
  <2>2. name[1] = app.outputName
    BY <1>3, <2>1 DEF ExportName, Msu
  <2> QED BY <1>3, <2>2 DEF Own
<1> QED BY <1>1, <1>2, <1>3, OwnFolder

LEMMA NotNoName ==
  ASSUME NEW b, NEW n \in Nat, NEW x, x # ""
  PROVE  <<b, n, x>> # NoName
BY DEF NoName

LEMMA ConvertedName ==
  ASSUME NEW e \in Entry, Converts(e), NEW m \in Methods, NEW force \in BOOLEAN,
         NEW out \in OutputNames
  PROVE  ExportName(e, m, force, out) # NoName
<1>1. IsTrack(e) /\ e.ext # "" /\ e.ext # ".rom" /\ TrackID(e) \in Nat
  BY TrackIDType DEF Converts, IsTrack, TrackExts
<1>2. (m = GamePak \/ m = SD2SNES) /\ GamePak # SD2SNES
  BY DEF Methods, GamePak, SD2SNES
<1>3. CASE m = GamePak
  <2>1. ExportName(e, m, force, out) = <<"track-", TrackID(e), e.ext>>
    BY <1>1, <1>2, <1>3 DEF ExportName
  <2> QED BY <1>1, <2>1, NotNoName
<1>4. CASE m = SD2SNES
  <2>1. m # GamePak
    BY <1>2, <1>4
  <2>2. ExportName(e, m, force, out) = <<out, TrackID(e), e.ext>>
    BY <1>1, <1>4, <2>1 DEF ExportName
  <2> QED BY <1>1, <2>2, NotNoName
<1> QED BY <1>2, <1>3, <1>4

LEMMA BegunFields ==
  ASSUME NEW s \in AppType
  PROVE  /\ Begun(s).exportMethod = s.exportMethod
         /\ Begun(s).forceManifest = s.forceManifest
         /\ Begun(s).outputName = s.outputName
         /\ Begun(s).destination = Destination(s.exportMethod, s.forceManifest, s.outputName)
<1> DEFINE dir == Destination(s.exportMethod, s.forceManifest, s.outputName)
           d == Disabled(s)
<1>1. d \in AppType
  BY EnablingType
<1>2. /\ d.exportMethod = s.exportMethod /\ d.forceManifest = s.forceManifest
      /\ d.outputName = s.outputName
  BY DEF AppType, Disabled
<1> HIDE DEF d, dir
<1>3. LET b == [d EXCEPT !.destination = dir, !.zipIndex = 0]
      IN  /\ b.exportMethod = s.exportMethod /\ b.forceManifest = s.forceManifest
          /\ b.outputName = s.outputName /\ b.destination = dir
  BY <1>1, <1>2 DEF AppType
<1> QED BY <1>3 DEF Begun, d, dir

-------------------------------------------------------------------------------
(* An export that is new in a state has just been clicked.                 *)
LEMMA ExportBegins ==
  ASSUME TypeOK, LockInv, [Next]_vars, ~overlapped', NEW w \in Workers,
         Exporting(w)', ~(Exporting(w) /\ ~overlapped)
  PROVE  ClickExport(w) /\ app' = Begun(app) /\ worker'[w].at = "iterate"
<1> worker \in [Workers -> WorkType]
  BY DEF TypeOK
<1>1. CASE UNCHANGED vars
  BY <1>1 DEF vars, Exporting
<1>2. ASSUME NEW how, Ends(how) PROVE FALSE
  BY <1>2 DEF Ends, NoWork, Exporting
<1>3. ASSUME UNCHANGED <<worker, overlapped>> PROVE FALSE
  BY <1>3 DEF Exporting
<1>4. ASSUME NEW v \in Workers, ClickExport(v)
      PROVE  ClickExport(w) /\ app' = Begun(app) /\ worker'[w].at = "iterate"
  <2>1. overlapped = FALSE /\ ~Exporting(w)
    BY <1>4 DEF ClickExport, TypeOK
  <2>2. CASE Crash
    BY <1>2, <2>2 DEF Crash
  <2>3. CASE UNCHANGED worker
    BY <2>1, <2>3 DEF Exporting
  <2>4. CASE app' = Begun(app) /\ worker' = [worker EXCEPT ![v] = [NoWork EXCEPT !.at = "iterate"]]
    <3>1. CASE v = w
      BY <1>4, <2>4, <3>1 DEF NoWork
    <3>2. CASE v # w
      BY <2>1, <2>4, <3>2 DEF Exporting
    <3> QED BY <3>1, <3>2
  <2> QED BY <1>4, <2>2, <2>3, <2>4 DEF ClickExport
<1>5. ASSUME NEW v \in Workers, WorkerStep(v) PROVE FALSE
  <2>1. UNCHANGED overlapped
    BY <1>5 DEF WorkerStep, Iterate, Convert, Finish, RenameROM, RenameMsu1,
       ResetPack, ResetTexts, ResetBasic, ResetAdvanced, ResetStep, ResetExport, history
  <2>2. ~Exporting(w)
    BY <2>1
  <2>3. CASE Iterate(v) \/ Convert(v) \/ Finish(v) \/ RenameROM(v) \/ RenameMsu1(v)
    <3>1. v # w
      BY <2>2, <2>3 DEF Iterate, Convert, Finish, RenameROM, RenameMsu1, WorkerAt, Exporting
    <3>2. Crash \/ worker'[w] = worker[w]
      BY <2>3, <3>1 DEF Iterate, Convert, Finish, RenameROM, RenameMsu1, Moved
    <3> QED BY <1>2, <2>2, <3>2 DEF Exporting, Crash
  <2>4. CASE ~(Iterate(v) \/ Convert(v) \/ Finish(v) \/ RenameROM(v) \/ RenameMsu1(v))
    <3>1. Crash \/ worker'[w] = worker[w]
          \/ worker'[w].at \in {"reset2", "reset3", "reset4", "reset5", "dialog", "off"}
      BY <1>5, <2>4 DEF WorkerStep, ResetPack, ResetTexts, ResetBasic,
         ResetAdvanced, ResetStep, ResetExport, Moved, NoWork, WorkType
    <3> QED BY <1>2, <2>2, <3>1 DEF Exporting, Crash
  <2> QED BY <2>3, <2>4
<1>6. ASSUME NEW faults, NEW s, Callback(faults, s) PROVE FALSE
  BY <1>2, <1>3, <1>6 DEF Callback, Crash, history
<1>7. CASE UserStep
  BY <1>2, <1>4, <1>6, <1>7 DEF UserStep, ChangePackPath, ChangeRomPath,
     ChangeOutputName, ChooseMethod, ToggleCreateManifest, ToggleForceManifest,
     ToggleViolateBPS, Quit
<1>8. CASE DismissDialog \/ RaceCrash
  <2>1. CASE DismissGuiDialog
    BY <1>3, <2>1 DEF DismissGuiDialog
  <2>2. ASSUME NEW v \in Workers, DismissWorkerDialog(v) PROVE FALSE
    BY <2>2 DEF DismissWorkerDialog, NoWork, Exporting, history
  <2> QED BY <1>2, <1>8, <2>1, <2>2 DEF DismissDialog, RaceCrash, Crash
<1>9. CASE EnvironmentStep
  <2>1. ASSUME NEW p, NEW r, Restart(p, r) PROVE FALSE
    BY <2>1 DEF Restart, LockInv, Idle, Exporting
  <2>2. ASSUME NEW r, NEW image, ChangeRomFile(r, image) PROVE FALSE
    BY <1>3, <2>2 DEF ChangeRomFile, history
  <2> QED BY <1>9, <2>1, <2>2 DEF EnvironmentStep
<1> QED BY <1>1, <1>4, <1>5, <1>7, <1>8, <1>9 DEF Next

LEMMA OwnInit == Init => OwnInv
BY DEF Init, NoWork, OwnInv, Exporting

(* A step under a running export moves it on within its own files.         *)
LEMMA OwnGoesOn ==
  ASSUME TypeOK, LockInv, OwnInv, [Next]_vars, ~overlapped, proc' = "running",
         NEW w \in Workers, Exporting(w), Exporting(w)'
  PROVE  /\ worker'[w].at = "convert" => Own(worker'[w].path)
         /\ worker'[w].at \in {"rename1", "rename2"} =>
              app.exportMethod = SD2SNES /\ app.forceManifest
<1> worker \in [Workers -> WorkType] /\ app \in AppType
  BY DEF TypeOK
<1> DEFINE Goal == /\ worker'[w].at = "convert" => Own(worker'[w].path)
                   /\ worker'[w].at \in {"rename1", "rename2"} =>
                        app.exportMethod = SD2SNES /\ app.forceManifest
<1>1. /\ app.destination =
           Destination(app.exportMethod, app.forceManifest, app.outputName)
      /\ worker[w].at = "convert" => Own(worker[w].path)
      /\ worker[w].at \in {"rename1", "rename2"} =>
           app.exportMethod = SD2SNES /\ app.forceManifest
  BY DEF OwnInv
<1>2. ASSUME worker'[w] = worker[w] PROVE Goal
  BY <1>1, <1>2
<1>3. ~app.basicEnabled /\ ~app.romEnabled /\ ~app.exportEnabled /\ ~app.advancedEnabled
  BY NoControl DEF LockInv
<1>4. ~Crash
  BY DEF Crash, Ends
<1>5. CASE Iterate(w)
  <2> DEFINE i == app.zipIndex + 1
             e == Files(app.pack)[i]
             name == ExportName(e, app.exportMethod, app.forceManifest, app.outputName)
  <2>1. /\ worker[w].at = "iterate"
        /\ worker' = IF Converts(e)
                     THEN [worker EXCEPT ![w] = [NoWork EXCEPT !.at = "convert",
                                                   !.path = <<app.destination, name>>]]
                     ELSE worker
    BY <1>4, <1>5 DEF Iterate, WorkerAt
  <2>2. e \in Entry
    <3>1. app.zipIndex \in Nat /\ app.zipIndex < Len(Files(app.pack))
          /\ Files(app.pack) \in Seq(Entry)
      BY <1>5, AppFields, FilesType DEF Iterate
    <3> QED BY <3>1
  <2> HIDE DEF e
  <2>3. CASE Converts(e)
    <3>1. name # NoName
      BY <2>2, <2>3, ConvertedName, AppFields
    <3>2. Own(<<app.destination, name>>)
      BY <1>1, <3>1, OwnEntry
    <3> HIDE DEF name
    <3>3. worker'[w].path = <<app.destination, name>> /\ worker'[w].at = "convert"
      BY <2>1, <2>3 DEF NoWork
    <3> QED BY <3>2, <3>3
  <2>4. CASE ~Converts(e)
    BY <2>1, <2>4
  <2> QED BY <2>3, <2>4
<1>6. CASE Convert(w)
  BY <1>4, <1>6 DEF Convert, NoWork
<1>7. CASE Finish(w)
  BY <1>7 DEF Finish, Moved, WorkType
<1>8. CASE RenameROM(w) \/ RenameMsu1(w)
  BY <1>1, <1>8 DEF RenameROM, RenameMsu1, WorkerAt, Moved, WorkType
<1>9. ASSUME NEW v \in Workers, WorkerStep(v),
             ~(Iterate(w) \/ Convert(w) \/ Finish(w) \/ RenameROM(w) \/ RenameMsu1(w))
      PROVE Goal
  <2>1. v # w
    BY <1>9 DEF WorkerStep, ResetPack, ResetTexts, ResetBasic, ResetAdvanced,
       ResetStep, ResetExport, WorkerAt, Exporting
  <2>2. worker'[w] = worker[w]
    BY <1>4, <1>9, <2>1 DEF WorkerStep, Iterate, Convert, Finish, RenameROM,
       RenameMsu1, ResetPack, ResetTexts, ResetBasic, ResetAdvanced, ResetStep,
       ResetExport, Moved
  <2> QED BY <1>2, <2>2
<1>10. CASE UserStep
  BY <1>3, <1>10 DEF UserStep, ChangePackPath, ChangeRomPath, ChangeOutputName,
     ChooseMethod, ToggleCreateManifest, ToggleForceManifest, ToggleViolateBPS,
     ClickExport, Quit, Ends
<1>11. CASE UNCHANGED vars \/ DismissDialog \/ RaceCrash \/ EnvironmentStep
  <2>1. ASSUME NEW v \in Workers, DismissWorkerDialog(v) PROVE worker'[w] = worker[w]
    BY <2>1 DEF DismissWorkerDialog, WorkerAt, Exporting
  <2>2. worker'[w] = worker[w]
    BY <1>4, <1>11, <2>1 DEF vars, DismissDialog, DismissGuiDialog, RaceCrash,
       EnvironmentStep, Restart, ChangeRomFile
  <2> QED BY <1>2, <2>2
<1> QED BY <1>5, <1>6, <1>7, <1>8, <1>9, <1>10, <1>11 DEF Next

LEMMA OwnStep ==
  ASSUME TypeOK, LockInv, OwnInv, [Next]_vars
  PROVE  OwnInv'
<1> SUFFICES ASSUME ~overlapped', NEW w \in Workers, Exporting(w)'
             PROVE  /\ app'.destination = Destination(app'.exportMethod,
                                             app'.forceManifest, app'.outputName)
                    /\ worker'[w].at = "convert" => Own(worker[w].path)'
                    /\ worker'[w].at \in {"rename1", "rename2"} =>
                         app'.exportMethod = SD2SNES /\ app'.forceManifest
  BY DEF OwnInv
<1>1. CASE Exporting(w) /\ ~overlapped
  <2>1. proc' = "running"
    <3>1. LockInv'
      BY LockStep
    <3> QED BY <3>1 DEF LockInv, Idle, Exporting
  <2>2. Settings' = Settings
    BY <1>1, <2>1, FrozenStep
  <2>3. /\ app'.destination = app.destination /\ app'.exportMethod = app.exportMethod
        /\ app'.forceManifest = app.forceManifest /\ app'.outputName = app.outputName
    BY <2>2 DEF Settings
  <2>4. app.destination =
          Destination(app.exportMethod, app.forceManifest, app.outputName)
    BY <1>1 DEF OwnInv
  <2>5. /\ worker'[w].at = "convert" => Own(worker'[w].path)
        /\ worker'[w].at \in {"rename1", "rename2"} =>
             app.exportMethod = SD2SNES /\ app.forceManifest
    BY <1>1, <2>1, OwnGoesOn
  <2>6. Own(worker'[w].path) => Own(worker[w].path)'
    BY <2>3 DEF Own
  <2> QED BY <2>3, <2>4, <2>5, <2>6
<1>2. CASE ~(Exporting(w) /\ ~overlapped)
  <2>1. app' = Begun(app) /\ worker'[w].at = "iterate"
    BY <1>2, ExportBegins
  <2>2. app'.destination = Destination(app'.exportMethod, app'.forceManifest, app'.outputName)
    BY <2>1, BegunFields DEF TypeOK
  <2> QED BY <2>1, <2>2
<1> QED BY <1>1, <1>2

(* The settings name the destination, and a running export is within it.   *)
THEOREM OwnInvariance == Spec => [](TypeOK /\ LockInv /\ OwnInv)
<1>1. Init => OwnInv
  BY OwnInit
<1>2. TypeOK /\ LockInv /\ OwnInv /\ [Next]_vars => OwnInv'
  BY OwnStep
<1> QED BY <1>1, <1>2, Invariance, PTL DEF Spec

-------------------------------------------------------------------------------
(* The files that the operations of an export touch.                       *)
LEMMA MergedFrame ==
  ASSUME NEW s, NEW q, q # ROMTarget(s)
  PROVE  At(MergedFiles(s), q) = At(disk, q)
BY WriteFrame DEF MergedFiles

LEMMA ClickExportFrame ==
  ASSUME TypeOK, NEW w \in Workers, ClickExport(w), NEW q, At(disk, q) # At(disk', q)
  PROVE  Own(q)
<1> DEFINE s == Begun(app)
<1>1. app \in AppType /\ s \in AppType
  BY BegunType DEF TypeOK
<1>2. /\ s.exportMethod = app.exportMethod /\ s.forceManifest = app.forceManifest
      /\ s.outputName = app.outputName
      /\ s.destination = Destination(s.exportMethod, s.forceManifest, s.outputName)
  BY <1>1, BegunFields
<1> HIDE DEF s
<1>3. Own(ROMTarget(s))
  BY <1>1, <1>2, OwnROM
<1>4. ASSUME q # ROMTarget(s) PROVE FALSE
  <2>1. At(MergedFiles(s), q) = At(disk, q)
    BY <1>4, MergedFrame
  <2>2. \A d, c : At(WriteFile(d, ROMTarget(s), c), q) = At(d, q)
    BY <1>4, WriteFrame
  <2>3. \/ disk' = disk
        \/ \E c : disk' = WriteFile(disk, ROMTarget(s), c)
        \/ disk' = MergedFiles(s)
        \/ \E c : disk' = WriteFile(MergedFiles(s), ROMTarget(s), c)
    BY DEF ClickExport, s
  <2> QED BY <2>1, <2>2, <2>3
<1> QED BY <1>3, <1>4

LEMMA IterateFrame ==
  ASSUME TypeOK, OwnInv, ~overlapped, NEW w \in Workers, Iterate(w),
         NEW q, At(disk, q) # At(disk', q)
  PROVE  Own(q)
<1> DEFINE e == Files(app.pack)[app.zipIndex + 1]
           name == ExportName(e, app.exportMethod, app.forceManifest, app.outputName)
           path == <<app.destination, name>>
<1>1. \/ disk' = disk
      \/ name # NoName /\ \E c : disk' = WriteFile(disk, path, c)
  BY Zenon DEF Iterate
<1>2. app.destination =
        Destination(app.exportMethod, app.forceManifest, app.outputName)
  BY DEF Iterate, WorkerAt, Exporting, OwnInv
<1>3. name # NoName => Own(path)
  BY <1>2, OwnEntry
<1> HIDE DEF path, name
<1>4. q = path /\ name # NoName
  BY <1>1, WriteFrame
<1> QED BY <1>3, <1>4

LEMMA ConvertFrame ==
  ASSUME TypeOK, OwnInv, ~overlapped, NEW w \in Workers, Convert(w),
         NEW q, At(disk, q) # At(disk', q)
  PROVE  Own(q)
<1> DEFINE path == worker[w].path
           pcm == <<path[1], AsPcm(path[2])>>
<1>1. Own(path)
  BY DEF Convert, WorkerAt, Exporting, OwnInv
<1>2. Own(pcm)
  BY <1>1 DEF Own, AsPcm
<1>3. PICK d \in Wav2msu(path) : disk' = d \/ disk' = RemoveFile(d, path)
  BY Zenon DEF Convert
<1>4. d = disk \/ \E c : d = WriteFile(disk, pcm, c)
  BY Zenon DEF Wav2msu
<1> HIDE DEF path, pcm
<1>5. ASSUME q # path, q # pcm PROVE FALSE
  <2>1. At(d, q) = At(disk, q)
    BY <1>4, <1>5, WriteFrame
  <2> QED BY <1>3, <1>5, <2>1, RemoveFrame
<1> QED BY <1>1, <1>2, <1>5

LEMMA RenamesFrame ==
  ASSUME TypeOK, OwnInv, ~overlapped, NEW w \in Workers, RenameROM(w) \/ RenameMsu1(w),
         NEW q, At(disk, q) # At(disk', q)
  PROVE  Own(q)
<1>1. app.destination =
        Destination(app.exportMethod, app.forceManifest, app.outputName)
      /\ app.exportMethod = SD2SNES /\ app.forceManifest
  BY DEF RenameROM, RenameMsu1, WorkerAt, Exporting, OwnInv
<1>2. app.destination = <<app.outputName, ".sfc/">>
  BY <1>1 DEF Destination
<1>3. PICK from, to : disk' = RenameFile(disk, <<app.destination, from>>,
                                               <<app.destination, to>>)
  BY DEF RenameROM, RenameMsu1
<1>4. q = <<app.destination, from>> \/ q = <<app.destination, to>>
  BY <1>3, RenameFrame
<1> QED BY <1>2, <1>4 DEF Own

LEMMA FilesStep ==
  ASSUME TypeOK, OwnInv, [Next]_vars, ~overlapped, NEW q, At(disk, q) # At(disk', q)
  PROVE  Own(q)
<1>1. disk' # disk
  OBVIOUS
<1>2. PICK w \in Workers :
        \/ ClickExport(w) \/ Iterate(w) \/ Convert(w) \/ RenameROM(w) \/ RenameMsu1(w)
  <2>1. CASE UNCHANGED vars
    BY <1>1, <2>1 DEF vars
  <2>2. ASSUME NEW faults, NEW s, Callback(faults, s) PROVE FALSE
    BY <1>1, <2>2 DEF Callback, files
  <2>3. CASE UserStep
    BY <1>1, <2>2, <2>3 DEF UserStep, ChangePackPath, ChangeRomPath, ChangeOutputName,
       ChooseMethod, ToggleCreateManifest, ToggleForceManifest, ToggleViolateBPS,
       Quit, files
  <2>4. CASE DismissDialog \/ RaceCrash \/ EnvironmentStep
    BY <1>1, <2>4 DEF DismissDialog, DismissGuiDialog, DismissWorkerDialog, RaceCrash,
       EnvironmentStep, Restart, ChangeRomFile, files
  <2>5. ASSUME NEW w \in Workers, WorkerStep(w)
        PROVE  Iterate(w) \/ Convert(w) \/ RenameROM(w) \/ RenameMsu1(w)
    BY <1>1, <2>5 DEF WorkerStep, Finish, ResetPack, ResetTexts, ResetBasic,
       ResetAdvanced, ResetStep, ResetExport, files
  <2> QED BY <2>1, <2>3, <2>4, <2>5 DEF Next
<1> QED BY <1>2, ClickExportFrame, IterateFrame, ConvertFrame, RenamesFrame

(* An export that runs alone changes no file but its own: those in the     *)
(* Game Pak folder of its output name, or of that name in the folder that  *)
(* all SD2SNES exports share.                                              *)
THEOREM ForeignFilesAreSafe == Spec => OnlyOwnFiles
<1>1. (TypeOK /\ LockInv /\ OwnInv) /\ [Next]_vars
        => [~overlapped =>
              \A path \in DOMAIN disk \cup DOMAIN disk' :
                At(disk, path) # At(disk', path) =>
                  \/ path[1] = <<app.outputName, ".sfc/">>
                  \/ path[1] = Shared /\ path[2][1] = app.outputName]_vars
  BY FilesStep DEF Own
<1> QED BY <1>1, OwnInvariance, PTL DEF Spec, OnlyOwnFiles
===============================================================================
