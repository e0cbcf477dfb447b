# Mercurial Magic: a TLA+ verification project

Mercurial Magic (README.txt) is a GUI program that opens an MSU1 pack (a ZIP with the
suffix `.msu1`), optionally applies the BPS patch in it to a ROM image the user owns, and
writes the game out as a higan "Game Pak" folder or in the SD2SNES/Snes9x layout.  The
repository also holds two sibling programs that it runs as child processes (`icarus` and
`daedalus`, cartridge-folder importers and manifest generators), the author's header
library `ramus`, and the two framework libraries `nall` and `hiro` it is built on.

Contents: 1 inventory, 2 plan, 3 modules and how they correspond to the code, 4 runs, bounds
and fairness, 5 theorems and their proofs, 6 disagreements of code and documents, 7 what is
not modelled.

## 1. Inventory

| component | where | state it keeps | operations |
|---|---|---|---|
| Mercurial Magic: main window and export | `MercurialMagic/*.cpp` | widget texts and enabled flags, the option booleans, `valid`, the opened `pack`, the cached `patchContents`, `zipIndex`, `trackIDs`, `destination`; the files of the destination folder | the widgets' callbacks, `validatePack`, `validateROMPatch`, `setEnabled`, `reset`, `error`, `beginExport`, the worker thread's `iterateExport`/`convert`/`finishExport`, `quit` |
| BPS patching | `nall/beat/patch.hpp`, `ramus/patch/bps-ignore-size.hpp`, creators `nall/beat/linear.hpp`, `delta.hpp` | a patch reader's four cursors, the target buffer | `modify`, `source`, `target`, `apply`, `create` |
| IPS patching | `ramus/patch/ips.hpp` | the same shape | `modify`, `source`, `target`, `apply` |
| icarus: import and manifest | `icarus/core`, `icarus/icarus.cpp` | error text, missing files, the library on disk | `import` and `manifest` of every system |
| icarus: windows | `icarus/ui` | the scan list, the import loop, the error log, the settings dialog | every callback, `ImportDialog::run` |
| settings | `icarus/settings.cpp`, `daedalus/settings.cpp` | the tree in memory and `settings.bml` | load at start, save at the end |
| daedalus | `daedalus/` | as icarus, without databases | the same |
| cartridge heuristics | `icarus/heuristics`, `daedalus/heuristics` | pure functions of an image | `findHeader`, `scoreHeader`, `readHeader`, the manifest text |
| ZIP and Deflate | `nall/decode/zip.hpp`, `nall/decode/inflate.hpp`, `ramus/encode/zip.hpp`, `ramus/encode/deflate.hpp` | an archive directory, bit buffers | `append`, `~ZIP`, `open`, `extract`, `compress`, `puff` |
| Wave decoder | `ramus/decode/wave.hpp` | a read cursor | constructor, `sample` |
| hiro: objects | `hiro/core` | parents, offsets, items, delegates, ownership | `append`, `remove`, `reset`, `setParent`, `destruct`, the properties' setters |
| hiro: toolkits | `hiro/gtk`, `hiro/windows`, `hiro/cocoa`, `hiro/qt` | the native control of each widget | `construct`, `destruct`, setters, native events |
| hiro: browser dialog | `hiro/extension/browser-dialog.cpp` | a list, a path, the answer, the modal flag | `openFile` ... `selectFolder`, the dialog's events |
| nall: containers and strings | `nall/vector/`, `hashset.hpp`, `set.hpp`, `shared-pointer.hpp`, `string/allocator/adaptive.hpp` | allocations, slots, nodes, counts, shared blocks | the public operations |
| nall: files and processes | `nall/file.hpp`, `nall/run.hpp` | a page of buffer, offsets and sizes; two pipes | `read`, `write`, `seek`, `flush`, `close`; `execute` |

### How the components interact

* The GUI thread runs the widgets' callbacks of Mercurial Magic, one to its end after the
  other.  `beginExport` runs on it too, and ends by creating a **worker thread**
  (`thread::create`, `export.cpp:111`) that nobody joins.  Both threads use the one `Program`
  object and its widgets without a lock.
* The worker calls `wav2msu`, and at the end `icarus --manifest` and `daedalus --manifest`, as
  child processes through `nall::execute`.  They communicate through the files of the
  destination folder and, for the manifests, their standard output.
* `reset()` is called by the worker at the end of every export (and by `error()`, also on the
  worker when a track cannot be converted), so the window is unlocked by a thread that is not
  the GUI's, widget by widget.
* `icarus` and `daedalus` are also programs of their own: a scan dialog lists a directory, an
  import dialog imports image after image into a library and lets events in between, and a
  settings file is read at start and rewritten as a whole.
* The programs talk to hiro's objects; an object passes what it is told to its delegate in one
  of four toolkits, if it is attached to a window; the toolkit calls a handler back, in the
  middle of the setter or when the user does something.
* ZIP, BPS, containers and files are called as libraries, synchronously.

### What is hard, and what makes each part correct

* **Window and export.**  Who may change what, and when: the worker reads every setting again
  for each entry, so the controls must stay locked while it runs; `reset()` unlocks them before
  the worker is done.  Cancelling is leaving the process, so an export starts over whatever an
  earlier one left, and on Windows a rename fails for what is already there.  The ROM is
  validated at one time and read at another.  Correct means: a
  running export is alone and its settings are frozen; it touches its own files only; what is
  reported as exported is complete and belongs to the pack; a patched game is exactly the game
  its patch describes; the manifest describes the folder; every export gives the window back.
* **BPS.**  Cursor arithmetic of a small instruction set; correct means that applying what a
  creator made returns the target, that a wrong source is refused, and that the relaxed reader
  agrees with the strict one on right sources.
* **icarus / daedalus.**  Import in several writes with failures and kills between them, and
  nobody looks at whether a write succeeded; correct means that no image is reported imported
  that misses a file for another reason, that a save file is never overwritten, and that a folder
  put together again is the image it was imported from.  Windows that hide each other; a loop
  that lets events in between looking at Stop and importing.  Two processes that each rewrite one
  settings file from memory.
* **hiro.**  State that lives twice, in an object and in a native control, and that each side
  changes through the other's handlers; a tree whose parents are plain pointers.
* **nall.**  Memory that is moved, shared, counted or forgotten in the middle of a call; a page of
  a file that the C library has not been given yet; two pipes that fill up.

PROJECT.json lists every component with its status, and under `hazards` each place of this code
that a test would hardly reach, with the properties that are about it.

## 2. Plan

The plan was: first the window and its export threads with their safety and liveness
(`MercurialMagic`), an abstract job that they implement (`ExportJob`), then the pieces the
exports stand on (`BpsPatch`), then the sibling programs (`CartridgeImport`, `ImportSession`,
`SettingsFile`, `SuperFamicomCartridge`), then the libraries (`BufferedFile`, `Execute`, the
containers), then hiro, and theorems about each as soon as its runs passed.  All of that is
done.  Left over, in this order: IPS patching, the ZIP and Deflate writer with the inflater as
round trips, and the Wave decoder; no program of the repository calls any of these but the
inflater.

Each library has a *composition*: a module (`Icarus`, `Nall`, `Hiro`, and `Containers`) whose
variable `scenario` is chosen at the start and that lets one part move while the others rest.  The
parts share no variable and no behaviour, so that the composition is a sum and not a product;
it keeps one configuration per library, and what is proved of the composition is proved of
every part.  Two MC modules add scenarios to their composition: `MCNall` the patches and
`MCContainers` the pointers, both proved about on their own, and the tree, whose module is recursive.

## 3. The modules

### `Msu1Pack`

An archive is a sequence of entries `[stem, ext, digits]`: a name is split at its suffix because
the code asks only for the suffix, for equality with fixed names, for a few globs, and for the
first run of digits.  The globs `slot-*.rom`, `*.boot.rom`, `*.program.rom`, `*.data.rom` are the
constants `SlotStems` ... `DataStems`: the stems that match.  `Fetch` is `Program::fetch` (first
match in directory order); `MergedROMs` the loop of `beginExport` over its six patterns;
`Destination`, `ROMName`, `ExportName`, `AsPcm` are `setDestination`, `beginExport`'s target and
`iterateExport`'s and `convert`'s names, as triples `<<base, number, suffix>>`; `TrackID` keeps the
width of `uint16_t`.

### `MercurialMagic`

| variable | code |
|---|---|
| `app` | the `Program` object: texts and enabled flags of the widgets, options, `valid`, the opened `pack`, whether its file is still `mapped`, `patchContents`, `zipIndex`, `trackIDs`, `destination`.  `romEnabled` stands for the ROM edit and its button, `basicEnabled` for the other controls of the basic tab, which `BasicTab::setEnabled` treats alike |
| `worker` | each export thread: the step it is at, whether it is on its way to an error box, the file under conversion |
| `guiDialog` | the GUI thread is inside `MessageDialog().error()` |
| `proc` | the process runs, was left, or crashed |
| `disk`, `manifest`, `romFile` | destination files by place and what they hold, the `manifest.bml` of each folder, the ROM files |
| `exports`, `job`, `overlapped` | history only: the bound on clicks, the settings when Export was clicked, and whether it was clicked under a live worker |

| action | code |
|---|---|
| `ChangePackPath`, `ChangeRomPath`, `ChangeOutputName`, `ChooseMethod`, `ToggleCreateManifest`, `ToggleForceManifest`, `ToggleViolateBPS` | the callbacks of `basic-settings.cpp` and `advanced-settings.cpp`, with the `validatePack`/`validateROMPatch` they call |
| `ClickExport` | `exportButton.onActivate`: `setEnabled(false)`, `beginExport` with merge and patch, to the thread's creation or to `error()` |
| `Iterate`, `Convert` | `iterateExport` up to and from the conversion |
| `Finish`, `RenameROM`, `RenameMsu1` | `finishExport`, interruptible between the manifest and each rename; `Substituted` is its `substitute` |
| `ResetPack`, `ResetTexts`, `ResetBasic`, `ResetAdvanced`, `ResetExport` | `reset()` on the worker, call by call |
| `DismissGuiDialog`, `DismissWorkerDialog` | the user closes the error box; the thread goes on, or ends in `thread::exit()` |
| `RaceCrash` | two live workers: one can free the directory or mapping the other reads |
| `Quit`, `Restart` | the exit button or window; a new process with its command line |
| `ChangeRomFile` | somebody replaces or deletes a ROM file |

Undefined behaviour is nondeterministic where the build can have several outcomes: applying a
patch whose `source()` found no file runs on uninitialised pointers and sizes (`PatchOutcomes`), and
overlapping exports may crash at any step (`RaceCrash`).  Where the outcome is certain it is a crash:
a division by the size of an empty directory, a read before an empty vector, a read through a
closed mapping.

Abstractions, and why they are sound for the properties:

* A callback is one action, including the warning that `validateROMPatch` shows inside it: the box
  is modal, and the worker does not read what the callback changes unless exports overlap.
* An image is a model value, and equality of CRC32 is equality of images.
* All packs lie in one directory, so that `Location::dir(packPath)` is constant.
* `wav2msu` is not in the repository: it writes the `.pcm` or does not.
* The manifest is what `icarus --manifest` and `daedalus --manifest` make of the folder.  They put
  together the images that their globs find (`ROMImages`), and read a header from the whole; here
  the header is any of `Boards`, or no game's (`NoBoard`).  The board decides what the markup names
  (`BoardFiles`): always `program.rom`, the files of its chips whether they are there or not, and
  `msu1.rom` if it is.  `finishExport` then substitutes the names in the text, in `dsp1.program.rom`
  as well, where a name of no file results (`Substituted`).  How a header is read is the subject of
  `SuperFamicomCartridge`.
* `rename()` replaces its target, or fails if there is one (`RenameReplaces`: POSIX, or Windows by
  nall/platform.hpp:78); nobody looks at its result.
* Other writes to the destination do not fail, and the patch inside a pack is not corrupt.
* Texts that only inform (status, progress, labels) are left out, except the label "No ROM needed".

`MercurialMagicProperties` states what is promised.  `overlapped` occurs in most of it: once
Export was clicked in the tail of another export's `reset()`, nothing is promised any more, and
`OverlapNeedsResetTail` says that this is the only way to get there.  `ManifestMatchesFolder` says that
the manifest is made from the images that are in the folder in the end, and, where the header is a
game's, names the game and the data track by the names these have in the end; the game is among
them if the pack has a program or has `msu1.rom` and a patch: without either no ROM is written.
The names of a board's chips may be of files that are not there.  `ExportIsComplete` and
`StrictPatchIsExact` say where an image is when its rename fails (`Stays`).

`ExportJob` is the export as its user sees it: idle, running (for a request, with a number of
entries done), delivered, failed.  `ImplementsJob` maps the threads, widgets and resets to it: a job
runs from the click to the end of the renames, is *delivered* or *failed* until `reset()` has enabled
Export again, and *overlapped* once the promise is off.  `ImplementsFairJob` adds its fairness.

### `BpsPatch`

Creators and appliers as functions of byte sequences: `bpslinear` and `bpsdelta` one turn of their
loop at a time, `bpspatch` and `bpspatch_ignore_size` one instruction at a time.  Numbers are
encoded as the code does, in a `Base` that is a constant (128 in the code).  A checksum is what it is
taken of.  `Patches` are the pairs of a source and a target that patches are made of, `Uses` what
each patch is applied to and by whom.  Lengths and offsets have no width here: the code's cursors
are `uint`, and the numbers it encodes twice or four times as large as a length, so that what the
model says holds of images well below 2^30 bytes.

### icarus and daedalus (`Icarus` composes them)

* `SuperFamicomCartridge`: header detection by score at three places, mapper, chips, firmware
  sizes and the ROM files of the board, from what the code reads of an image.
* `CartridgeImport`: the library of folders.  An import writes one file after the other; it may
  fail or be killed between any two; a later import goes over the remains.  A write may fail as
  well, and since `write()` answers with a `bool` that no importer looks at (icarus/core/core.hpp:14) the
  import goes on and reports success: `lost` has the names, and the properties say that nothing
  else is missing.  What a file holds is the slice of the image it was cut from, so that
  `ImportRoundTrip` can put the slices together in the order of `manifest`'s globs, and within a glob
  in that of the directory.  daedalus' import is a parameter.
* `ImportSession`: the four dialogs.  A turn of `run()` looks at `abort`, calls
  `Application::processEvents()`, and then imports without looking again (import-dialog.cpp:25-35):
  `BeginNext` and `ImportNext`, between which every callback of every open window may come.  So
  `StopStops` allows one more file after Stop, the one whose turn had come (`late`).
* `SettingsFile`: processes of several programs that read the file at the start, with defaults
  for their own missing keys, and write it whole at the end.

### nall (`Nall`, `MCNall`, `Containers` and `MCContainers` compose it)

* `BufferedFile` implements `PlainFile`: a page of buffer and `file_size` ahead of the C library's
  stream against a sequence of bytes with an offset.  `stream` is what `fwrite()` was given;
  `WrittenInOrder` says that this is all that was written up to some moment.  What of the stream is
  on the disk when a process is killed is the C library's affair and not in the model.
* `Execute`: parent and child over two pipes, on POSIX (read one to its end, then the other, then
  wait) and on Windows (wait, then read).
* `VectorPool` implements `ElementList`: an allocation of constructed and raw cells, with room to
  both sides.  `called` is the call that was made last with its arguments, which the abstract list
  is given too: it does what that call says (`Does`).  `work` counts what a call constructs and
  destroys, allocates and frees; `ConstructedExactly` states of the vector's own cells that exactly
  its elements are constructed, and (`LosesOnly`) what each call leaves to nobody: `operator=` the
  old allocation and its elements (assign.hpp:5-26), growth the elements moved from, others nothing.
  `StringAllocator` implements `Strings`: short texts in the string, longer ones in
  counted blocks that are copied on write.  `HashSet`: open addressing with a free slot as the end
  of a search; `SearchFindsMembers` speaks of sets that nothing was removed from, and copying one
  hash set to another is not modelled.  `RedBlackTree` implements `ElementSet`.  `SharedPointer`: managers, strong and weak
  counts; each object has a weak pointer to itself and a strong one to a child, as hiro's have, and
  its deleter acquires it once more.  A deleter that resets the child runs the child's: `resetWithin`
  is `reset()` with at most so many of them inside one another, and a program that needed more than
  there are objects would be in error (`misused`).  The callers obey two rules that the code relies
  on: they make no cycle of objects, and assign no pointer that its target's reset destroys.
  `shared_pointer_weak` has no copy constructor or assignment of its own, so that a copy is not
  counted and its destructor counts down (`CopyWeak`; hiro/core/group.cpp:11 keeps a vector of them).
  `copied` has the managers that this happened to: a count of theirs is wrong from then on, and a
  manager may be deleted under a weak pointer, or stay for ever.  `NothingUsedAfterDelete` and
  `LivesIffKnown` promise nothing of such a manager but that it lives while a strong pointer holds
  it; of the objects, they promise what they do without copies.

### hiro (`Hiro` composes it)

* `ObjectTree`: parents (not counted), offsets, items and slots, delegates, and destruction by the
  last shared pointer; kinds of containers by how they keep their items.
* `Widgets`: one widget of one toolkit.  Its record says which properties `construct()` passes on,
  which setters change others, which the toolkit reports and what the handlers do; `CoreWidgets`
  gives each kind its properties and events, `ToolkitWidgets` the records of GTK+, Windows, Cocoa
  and Qt.  A control may have no room for a value (`Beyond`: a position above 100, a cursor past the
  end of the text), and then shows its start, its end or what it showed before (`bounds`), while the
  program reads what it set.  A cell that is not checkable reads as unchecked, and its `setChecked()`
  makes it checkable (`under`, `needs`); Qt's loses the state when it is attached (`forgets`).
  `NativeShowsState` speaks of the values that fit (`Fits`) and of what can be seen (`Seen`);
  `ChangesAreTold` says of a call of the program that it changes nothing the user entered in another
  property (`Entered`), but for what a new text moves.  `KeepsRules` is what any record must obey,
  whatever the order of calls.
* `RangeWidgets`: sliders and scroll bars (length, position, knob).  `Choices`: combos and tab
  frames of the four toolkits.  `TableSelection`: the flags of a table's items against GTK+'s
  selection and the cached positions.  `RadioGroup`: signals inside signals.  `BrowserDialog`: the
  file dialog over folders that other programs change.

## 4. Runs

| run | instance | shows |
|---|---|---|
| `commercial` | two commercial packs for different ROMs, one ROM path with two images or none, 1 export | `TypeOK`; `StrictPatchIsExact` whatever becomes of the ROM file and of the patch cached before |
| `exports` | program, data and a `.wav` track, both tools, a board with and one without a chip, 2 exports, renames that do not replace | `ExportIsComplete`, `ManifestMatchesFolder`, over the remains of a cancelled export and with cancels between the renames |
| `race` | 2 workers, 2 names, 2 exports | `ControlsAreLocked`, `OverlapNeedsResetTail`, `SettingsAreFrozen`, `OnlyOwnFiles`, `ImplementsJob` |
| `odd_packs` | archives without data track, without entries, truncated, and a whole one | `ExportNeedsPackOrROM`; here the crashes of the model happen |
| `live` | a homebrew of four entries, 1 export, `FairSpec` | `ControlsComeBack`, `ImplementsFairJob` |
| `icarus` | every mapper and chip with right and wrong sizes; 3 imports into one library, a failing write in each; every system; two sessions over two directories; both programs over one settings file, 3 starts | `ImportRoundTrip`, `ReportIsTrue`, `SaveIsKept`, `EveryFileIsAccountedFor`, `UserHasAWindow`, `StopStops`, `ScanComesBack`, `ChoicesAreKept` |
| `nall` | images of up to 8 bytes of two values; files of up to 5 bytes behind pages of 2; programs of up to 5 writes into pipes of 2 | `PatchRoundTrip`, `AppliesRightly`, `IsPlainFile`, `OutputIsComplete`, `Returns` |
| `containers` | a vector of up to 5 elements, 3 managers, a copied weak pointer, 2 strings of up to 4 characters, trees of 6 values, 6 elements of a hash set that collide at the pool's end | `ConstructedExactly`, `ImplementsList`, `NothingUsedAfterDelete`, `LivesIffKnown`, `ImplementsStrings`, `Balanced`, `ImplementsSet`, `SearchFindsMembers` |
| `hiro` | trees of 5 to 7 objects, tables and choices of 3 items, 4 radios, ranges up to 3, a folder in a folder, every widget with any 2 of its properties set, beyond what it has room for too | `TreeIsWellFormed`, `NativeShowsState`, `SelectionAgrees`, `ChangesAreTold`, `OneIsChecked`, `OverwriteIsConfirmed`, `AnswerEnds` |
| `both_rom_and_patch`, `daedalus_import`, `execute_errors` | | the disagreements of section 6; TLC finds each violated |

`CHECK_DEADLOCK` is off in all of them because the systems may really stop: a process that was
left with no clicks remaining, a library that was imported, a child that ended.

**Bounds.**  `MaxExports` caps the clicks on Export: 2 where a second export meets the remains of a
first (a third meets the same kinds of remains), or overlaps it; 1 where only the settings before
the export matter.  Archives have at most four entries, one of each kind the code distinguishes.
One ROM path suffices since its file may hold any image, or none, at any time.  `exports` has the
constraint `MCWithinRules`: its pack brings its own ROM, for which the BPS option changes nothing, so
that states that differ in the option alone are left out.  Its renames do not replace, which is the harder case: a
rename onto nothing behaves alike, and the runs `race` and `commercial` have renames that do.
`MaxImports` 3: an import, one over its remains, one over both.  `MaxLost` 1: one file of an import
is lost while others are not.  `MaxCopied` 1 and `MaxWeak` 1: one manager whose weak pointers are
copied, when at most one of them is counted; its count is then too low or too high.  `MaxUsed` 2: the rules of a widget speak of at most two properties at a
time.  Three items or positions give a first, a last and one between; four radios the one that goes
off, the one that comes on, the one the program checks in a callback, and another.  `MaxLength` 5
with `Page` 2 gives three pages, the last of them not full; `Seeks` go before the beginning and
past the end.  Vectors reach three allocations (`MaxMemory` stops the growth of what is written no
more).  Of the strings there are as many blocks as variables: no more can be in use, and the
memory of the code does not run out (`AllocatorAssumption`).  The `VIEW` of `containers` leaves out
the call that a vector came from (`called`, `work`), by which nothing goes on; the properties that
speak of it are of steps, and are checked of each.  What the theorems of section 5 state holds without any of these bounds.

**Fairness.**
`FairSpec` of `MercurialMagic`: weak fairness of each worker's steps, because a thread that can run is
scheduled by the operating system and the tools it waits for end; and of dismissing a message box:
the user closes it some day, and without it the window rightly stays blocked.
`Icarus`: weak fairness of `run()`'s turns (the loop goes on by itself) and of the user's answers to
message boxes.  `Nall`: of parent and child, each a process of the operating system.  `Hiro`: of the
browser dialog's own loop (`Runs`), which polls the modal flag; not of any click.  Nothing is
assumed of any other action of a user.

## 5. Theorems

Proved by TLAPS, for every value of the constants that satisfies the modules' assumptions
(`PackAssumption`, `ProgramAssumption`, `PatchAssumption`, `IcarusAssumption`, `NallAssumption`,
`ContainersAssumption`, `SharedPointerAssumption`, `HiroAssumption`: they say what the constants are,
not how the program behaves).  PROJECT.json lists the theorems with the property each states.

### Window and export

* `TypeCorrectness` (`MercurialMagic_proofs`): `Spec => []TypeOK`, action by action, resting on lemmas
  that give the type of each operator (`FetchType`, `ExportNameType`, `WriteType`, ...).  `TypeOK` bounds
  the places and contents of all files, so the lemmas say that the naming rules are closed.
* `Locking`, `OverlapWindow`, `FrozenSettings` (`MercurialMagic_proofs`) from `LockInv`, that is
  `ControlsAreLocked` together with "no worker outlives its process".  The second is needed because
  `Restart` enables the controls.  The core is `LockCallback`: a callback needs an enabled control, an
  enabled control means that no worker is before the tail of its reset, and there the invariant asks
  only for what the callback cannot change.
* `ExportIsEarned`: from `EnablingInv`: Export is enabled only if `valid`, and `valid` without a ROM
  path was earned by a pack that has a ROM and is still the opened one.
* `ForeignFilesAreSafe` (`MercurialMagic_proofs`): `OwnInv` adds that the destination is the one
  the settings name, that the file under conversion is the export's own, and that renames happen
  only for a forced manifest.
* `PatchIsExact` (`MercurialMagicExport_proofs`).  Three facts are invariant together.  `Cached(app)`: an
  opened pack with a data track and a patch has its own patch in the cache.  `DialogInv`: the GUI
  thread's error box and an export that runs alone exclude each other.  `PatchInv`: the export is
  still the one that was clicked, and its game lies where the renames have brought it so far.
* `ExportCompleteness`, `ManifestIsTrue` (`MercurialMagicExport_proofs`): `CopyInv` says of a running
  export that everything before `zipIndex` is in the folder, from its own pack, tracks converted and
  their sources gone, whatever was there before; `TracksInv` that `trackIDs` are those of the tracks
  passed (and are empty when nobody exports, which needs that every way out of an export clears
  them); `ToldInv` follows the manifest through the renames: the images it was made from, which a
  rename moves or, where its target is taken and it does not replace, leaves, and the names it has
  for them.  For both kinds of `rename()` and for every board.
* `ExportIsOneJob`: `Spec => ImplementsJob`.  `JobInv` collects the invariants above, with `FailedInv`
  (who is on its way to an error box is in a reset or in the box); then initial states map to
  initial states and each action to a step of `ExportJob` or to a stutter, one lemma per action.

### BPS patches (`BpsPatch_proofs`)

`PatchesAreUndone` (`PatchRoundTrip`) and `PatchesApplyRightly` (`AppliesRightly`) are stated of
`PatchSpec`, for images of any length over any bytes and for every base; the run `nall` checks the
same two properties in its scenario "patch".  Creator and applier never meet: what joins them is the
patch.  The argument has three parts, of which `PatchInv` joins the last two.

* *Numbers.*  `ReadsBack`: wherever a spelled number lies in a patch, `decode` finds its value and the
  byte behind it.  Both directions are recursive functions; `SpellsExist`, `ReadsExist` and, for the
  copies, `GrowsExist` show that they are what their definitions say, by building them value by value.
* *What a patch says.*  A trace is a set of offsets (of output, source, target, patch) that leads from
  `Start` to the end of the patch, in which each but the last is followed by what one command makes
  of it (`Takes`).  `Made`, the creators' invariant: the patch so far has a trace that tells the target
  but for the bytes that wait.  Each branch of a turn appends at most the bytes that wait and one
  more command (`FlushedIs`, `OneMore`), and what it appends is true of the target because of how it
  was looked for (`AgreementIs`, `RunIs`, `LongestIs`): `LinearKeeps`, `DeltaKeeps`.
* *What an applier makes of it.*  `Applies`: its offsets are in the trace, the output is as long as
  they say and, if the image begins with the source, it is the target's beginning.  A copy may read
  what it has just written: `CopiedIs` follows it byte by byte.  At the end of the patch the offsets
  are those at which the trace ends, with the whole target told (`EndIs`).

### icarus and daedalus (`Icarus_proofs`)

* `AlwaysAWindow`, `FilesAccountedFor` from `SessionInv`: which windows are open follows from where the
  session is, and the files that are done, reported and left are together those that were checked,
  in the directory they were listed in, though the scan dialog's path may change.
* `StopIsObeyed` from `StopInv`: what is imported after Stop had its turn already, and the next turn
  looks at `abort`.
* `UserChoicesAreKept` from `SharedInv`: what a process has in memory for a key is what was last
  chosen, unless another process saved beside it.
* `ProgressIsKept`, `ReportsAreTrue` from `ImportInv`: the files of a folder that an import in progress
  has passed are its own, or are those whose write failed, or those it had no data for, and the
  latter are named in its report.  The lemma `OneChip` gives the firmware of a board at most one set
  of files.
* `ImagesComeTogether` (`ImportRoundTrip`).  `AmongIs` and `Listing`: a list of ROM files that comes in the
  order of the globs is what `manifest` finds of them.  `BoardIs` and the lemmas before it go through
  the chips: the ROM files of a board come in that order, and their sizes fill the image from its
  header on.  `RoundInv` follows the import: the files it has passed are its slices, one after the
  other, in a folder without strangers; at the end their ends are the image's (`RoundTrips`).

### nall (`Nall_proofs`)

* `OutputComesWhole`: `RunInv`: what the child has written of a stream is what the parent has read of
  it followed by what is in the pipe (`NothingIsLost`), with the order of reading and waiting of
  each platform.
* `FileIsPlain`: `Spec => IsPlainFile`, a refinement.  `WellFormed` relates the page's place, its dirty
  flag and `file_size`; `Shows` says that the bytes a reader would see (the stream overlaid with the
  page) are the abstract file's; `FileInv` is both, for each mode.

### nall's containers (`Containers_proofs`)

* `CellsAreConstructed`, `VectorIsAList` from `VectorInv`: an allocation is a number of raw cells, the
  elements, and raw cells again, `left` and `right` of them or more (`Laid`).  Each operation is a
  lemma about what it makes of a sequence laid out so; the two invariants and the refinement
  follow.  That `bit::round()` finds a power of two at all is `RoundUp`: powers of two are counted as
  the subsets of `1..n`, of which there are more than n.  What each call leaves to nobody is a lemma
  per call (`PrependLoses`, `ShrinkingLoses`, `AssignStep`, ...), and the refinement ties each step of the
  list to the call with its arguments.
* `StringsAreApart`: `Spec => ImplementsStrings`, the refinement and the two invariants it comes with,
  from `TextsInv`.  `Sound`: each string fits its place, and each block's count is the number of
  strings that lie in it; `Ended`: every text ends in a zero.  A call is a chain of helpers, and each
  helper a lemma about any sound memory: what it makes of its own string, and that every other
  string reads the same (`Spares`).  Writing is where a shared block would show: `Unique` ends in a
  block with the count 1, and `Sound` then says that no other string lies there.  That a free block
  is there whenever one is asked for is a pigeonhole argument (`FreshIs`): there are at least as many
  blocks as strings, and the string that asks lies in none or in a shared one.
* `MembersAreFound` (`SearchFindsMembers`) from `HashInv`: the slots hold each member once (`Holds`), at
  most half of them are taken, and, while nothing was removed, no free slot lies between a member
  and the slot of its hash (`Near`).  `Turns` says that a search visits every slot once on its way
  around the pool; `Counts` that as many slots are taken as there are members, which is why there is
  a free one to stop at; `MovedIs` follows `reserve()` slot by slot.

### Shared pointers (`SharedPointer_proofs`)

`NothingDeletedIsUsed` and `ObjectsLiveIffHeld` are stated of `SharedPointer` itself, under its
assumption; the run `containers` checks the same two properties of its scenario "pointers".  Both follow
from `Tidy(heap)`: the counts are the numbers of pointers, objects and managers are there as long as
these say, an object that is gone holds nothing, and objects hold each other without a cycle
(`Rooted`: of any set of objects, one holds none of the set).  `Tidy` is not kept *within* a `reset()`,
whose object is gone before its count is 0, and inside which others run.  So the induction is over
how deep deleters nest (`ResetIs`): if what `p` leads to is within a closed set `A` of fewer objects
than the depth allows, `reset()` of `p` makes the heap tidy again and changes no pointer but `p` and
those in `A` (`IsReset`).  A deleter goes on with a smaller set, since what an object holds does not
lead back to it (`Below`); hence depth never runs out, and `p` itself survives what its object's
deleter does.  That the deleter acquires its own object once more leaves no trace (`Known`), and
`LastGoes` is the end of a `reset()`: the manager goes then or with the last weak pointer, and never
twice.  Of a manager with copied weak pointers `Tidy` keeps what the strong ones decide (`Sound`); that
suffices because whoever drops a strong pointer looks at its count before the weak one, and what
is used or deleted wrongly by the rest is of that manager only.  `Runs` shows that the recursive
function is what its definition says.

### hiro (`Hiro_proofs`)

* `AnswersAreRight`: `DialogInv`: a question is only asked for saving and of a name that is no
  folder's, so Yes answers with a file or nothing, and any other answer was looked at when it was
  given; other programs change the disk in every step.
* `ControlsShowState`: what the controls show is what the program reads.
  `WidgetInv`: a property that is shown has one value in the control and in the state while it is
  attached, unless the control has no room for what the state has (`Misfit`).  It is proved of *any*
  set of controls that obeys `KeepsRules`, and those speak of one property or two at a time: what is
  passed on together (`PassesRules`), what events store (`EventRules`), what is cut (`LimitRules`), and
  what reads as unset without another one (`UnderRules`).  That the records of the four toolkits obey
  them is `WidgetAssumption`, a finite statement about four tables that TLC evaluates in the run.  `RangeInv`: the knob is at the least of position and end, or the control is one that
  finds back.  `ChoiceInv`: while nothing happened that the toolkit does not survive (section 6), rows
  are items, exactly the shown one is flagged; its proof goes through what each toolkit does on
  append, removal and reset, with lemmas about positions in sequences without repetition
  (`Appended`, `Removed`, `IndexIs`, `LastOf`).
* `SelectedRowsAreShown` (`SelectionAgrees`): `RowsInv` says that rows are items, that the
  items that are flagged are those at the positions that were seen last, and, while no band is
  drawn, that these are the selected ones.  The interesting step is `RemoveKeepsRows`: the cache of
  positions is compared to find out whether anything changed, though rows move up under it; if a
  selected row is removed the positions must differ, for else every row behind it would be
  selected too, without end (an induction).
  Attaching, detaching and a click below the rows are folds over all items; `ConstructFold`,
  `DestructFold` and `UnsetFold` unroll them to a sequence of single steps.
* `UserIsTold`: `Spec => ChangesAreTold`, from the same invariants: a table's `onChange()` is called in
  the steps of the user that change `selected()`, in all of them, and in no other of his; widgets
  tell what the user did and not what the program did, and a call of the program changes nothing the
  user entered in another property (`SetLeavesEntered`: while it fits, what the control shows is what
  counts as entered, and otherwise what the program set), except what their record lists as loose.

### Folds and induction

The induction theorems of the library take an operator as a parameter and cannot be used here.
Two lemmas replace them: `NatSet`, an induction for *sets* of numbers (a set of naturals with 0 and
all successors is all of them; by pigeonhole: otherwise adding 1 would be an injection of a finite
set that is not onto), and `Iterates`, by which a fold has a value at each prefix.  `StrongNatSet` is
the first with all smaller numbers as hypothesis, for numbers that are divided as they are spelled.

### What is only model-checked, and why

* Liveness: `ControlsComeBack`, `ImplementsFairJob`, `Returns`, `AnswerEnds`, `ScanComesBack` (fairness and
  ENABLED are out of the prover's reach).
* `Balanced`, `ImplementsSet`, `OneIsChecked`: their modules are recursive in the way the code is
  (rotations up a path, signals inside signals), and the provers do not reach RECURSIVE operators.
* `TreeIsWellFormed`: trees whose recursive walks (`Family`, `Abstract`) are only meaningful where the
  parents have no cycle; it is checked for the kinds of containers of three trees.

## 6. Where code and documents disagree

With a run:

* `both_rom_and_patch`: a pack with `program.rom` and `patch.bps` delivers the unpatched `program.rom`
  in a Game Pak (README.txt:59-60 says the patched ROM becomes `program.rom`).
* `daedalus_import`: daedalus reports success for Super Famicom images and writes no ROM file, because
  it looks below `board` in a manifest whose root is `cartridge`.
* `execute_errors`: a program that writes more to its standard error than a pipe holds never returns
  from `execute()` on POSIX ("waits for completion", run.hpp:5).

Met while modelling, without a run of their own (the models do what the code does):

* Mercurial Magic: the patch of a pack opened earlier is applied to a pack labelled "No ROM needed"
  (program.cpp:83) and the export fails; toggling the BPS option disables Export for such a pack
  (advanced-settings.cpp:12); of two ROMs that match one pattern only the first is merged
  (README.txt:71-73).
* Mercurial Magic, Windows: `rename()` is `_wrename` (platform.hpp:78) and fails over a target that
  exists; `finishExport` does not look, so over the remains of an earlier export the old image keeps
  its name and the new one is left beside it, while success is reported.  On every system the
  substitution makes `dsp1.program.rom` into a name of no file (export.cpp:266-273).
* icarus and daedalus: no importer looks at what `write()` returns (core.hpp:14), so a full disk or a
  folder that cannot be written ends in success without the file; and a Stop that comes in the
  events of a file's turn does not spare that file (import-dialog.cpp:33).
* nall: `vector::insert()` and `remove()` move in ways their free counts do not follow
  (vector.hpp:97-98); `vector::operator=` leaks what the target had, and growing destroys none of the
  elements moved from (assign.hpp:5-26, memory.hpp:26-52); copies of a `shared_pointer_weak` are not
  counted (shared-pointer.hpp:210-231); `hashset::remove` leaves gaps at which a search for a collided
  element stops (hashset.hpp:117); `execute()` on Windows waits for a child whose output fills a pipe,
  and the child for it, and on POSIX goes on after a failed `fork()`.
* hiro core: `mTabFrame::remove` takes out the last tab; `mFrame` forgets nothing when its layout
  leaves by itself; `openFile()` "returns an existing file" (browser-dialog.hpp:9) only as of the time
  the folder was listed.
* hiro, GTK+: `setFocused` of a table with multiple selection clears it (table-view.cpp:123-125); a
  disabled state is not restored on re-attachment; a column's `editable` and `icon`, a combo edit's
  text and a console's prompt are not passed on; ranges are of at least two; a scroll bar lowers its
  position without telling; `droppable` is never cleared; a source edit's cursor is not restored;
  radio labels and menu radios that are attached again stay alone; combos lose rows when attached
  with items, and removing the first selected item leaves none flagged while row 0 is shown; a
  moved tab flags the wrong item; a timer may run twice; a table that is attached with several
  selected items keeps not all of them; a progress bar shows a position above 100 as 0
  (progress-bar.cpp:22), and a text edit a cursor past its text at the end of it (text-edit.cpp:64-66),
  while the program reads what it set.
* hiro, Windows: a `TextEdit` is rebuilt at size 0 when its wrapping changes; a combo attached with
  items selects the last without showing it; an append of a flagged item leaves two; tabs attached
  again are blank; radios reset their selection in `construct()`; the modal loop ignores a quit.
* hiro, Cocoa: typed text of a `LineEdit` is never copied; a viewport's `droppable` is not passed on; a
  canvas is blank until it gets a geometry; ranges are one too long, and a length of 0 divides; a
  column's `setText` misspells its selector; a cell toggles though it is not checkable; a window's
  background cannot be unset; radios have no group; tabs tell the program's own changes.
* hiro, Qt: a cell that is appended with a box checked is unchecked, since its handler stores the
  check state at every change of the item and the colours come first (table-view.cpp:212-223,
  table-view-cell.cpp:54); rows have no native item after they are attached again; a table's colours and alignment
  are not passed on; a canvas' `droppable` and a `TextEdit`'s text are not; colours cannot be unset;
  sliders and tabs tell the program's own changes; tabs never store the user's choice; a combo's
  selection is reset when it is attached or detached.
* The table header's visibility is not passed on by Cocoa and Qt; a position beyond the range that
  is lengthened later is never shown, but by Qt and Cocoa's scroll bars.

In the models these are fields of a control's record (`ignored`, `loose`, `silent`, ...), or are what
`survives` of `Choices` names; the properties speak of the rest.

## 7. Not modelled, and why

* IPS patching, the ZIP and Deflate writers, the inflater and the Wave decoder: pure functions that no
  program here calls but the inflater; planned as round trips.
* Of nall: threads, encodings, hashes, sockets, documents and the formatting of strings: pure functions,
  or calls of the platform.  What the export uses of a thread is part of the worker's actions.
* Of the heuristics: RAM and memory maps, which do not take part in an import, and the other systems'
  boards, of which only what they accept as an image is modelled.
* Of hiro: geometry, layouts, column widths, drawing, fonts, images, timers, monitors, the hex editor
  and icon views' selection; GTK+'s moving of tabs, and tabs removed before the last; that a
  disabled widget delivers no event and a message box is modal are external guards of
  `MercurialMagic`.
* Of the object tree: tab frames, frames, icon views and tree views, which keep their items in the
  ways of the containers that are modelled; of the browser dialog, the `processEvents()` inside
  `setPath()`; of the settings, what two processes that save side by side lose (the one that saves
  last wins); of containers, copies of a hash set.
* Phoenix code that no build compiles (Cocoa's console and hex edit, Qt's icon view and console).

`map` in PROJECT.json names the lines that each definition stands for.  It covers about a quarter of
the repository's lines: most of the rest are tables (databases, resources, the other systems'
heuristics), per-toolkit drawing and geometry, and the parts listed above.
