# Leeyes Unicode Hack: TLA+ models

Leeyes is a closed 32-bit image viewer written in Delphi on ANSI Windows APIs. This repository
builds `LeeyesW.exe` (`src/inject_hook/injector`), which starts it suspended with `inject_dll.dll`
(`src/inject_hook/inject_dll`); the DLL hooks Windows APIs, plugin entry points and some of
Leeyes' own methods so that files with Unicode or long names can be listed, shown and opened.

These modules model the parts of it that keep state across calls, run on several threads, or must
survive the failure of a step. Paths below are relative to `src/`; `leeyes_internal/` is
`inject_hook/inject_dll/leeyes_internal/`, `dllmain.cpp` is `inject_hook/inject_dll/dllmain.cpp`.

Run a model with `tlc -config X.cfg M` and check proofs with `tlapm M.tla`, in this directory.

## 1. The system

| Component | Code | State | Operations |
|---|---|---|---|
| Launcher | `inject_hook/injector/main.cpp`, `NInjectLib/Process.cpp` | the suspended process, the bootstrap in it, two polling loops, the HDROP | start, write the bootstrap, redirect and resume, wait for a stable form, drop the file |
| Internal hook installation | `leeyes_internal/hook_runtime.cpp`, `target_resolver.cpp`, `delphi_bridge_x86.cpp` | an initialisation word, the resolved anchors, the original pointers, whether batching and the trace worker run | resolve anchors; install, or take back, the two batch hooks and the trace hooks |
| File change batching | `leeyes_internal/file_move_batch.cpp`, `delphi_bridge_x86.cpp` | thread-local: depth, decision, table of 8 dirty lists | Begin a drain, defer or pass a change, End and resynchronise |
| List selection | `file_move_batch.cpp` 145-223 | a snapshot taken around each resynchronisation | capture, restore, by window messages |
| Trace buffer | `leeyes_internal/trace_buffer.cpp`, `filelist_trace.cpp` | 4096 slots, two counters, an event, a worker | Append from any hooked thread, Start, RequestStop, flush |
| Code patching | `inject_hook/NCodeHook/NCodeHook.cpp` | the bytes of hooked functions, a page of trampolines, a map keyed by hook | createHook, removeHook, destructor |
| Search handle table | `dllmain.cpp` 1378-1471, 1677-1925 | 128 atomic slots, a two-word cache of the last search | remember, find, forget, under FindFirstFileA, FindNextFileA, FindClose |
| Path resolution | `dllmain.cpp` 348-507, 690-753, 1939-2016, 2198-2303 | a cache of resolved paths that is only added to | resolve an ANSI path, component by component, or by wildcard |
| Shell folder names | `dllmain.cpp` 3560-3668 | a map from QueryInterface address to original method, shared hook | SHBindToParent, GetDisplayNameOf |
| Directory listings | `dllmain.cpp` 1473-1673 | none of its own | choose a name Leeyes can hold for each entry |
| Aliases | `dllmain.cpp` 219-245, 513-643, 766-955 | maps of synthetic names, three caches, hard links and junctions in TEMP | create, look up |
| Lossy display names | `dllmain.cpp` 64-212, 1345-1376, 2960-3402 | a bounded table of names that lost characters | remember on conversion, look up when text is drawn |
| File operations, wide API hooks, dropped files | `dllmain.cpp` 2044-2190, 2317-2436, 3672-3857 | none of their own | resolve and forward |
| Susie plugin hooks, ZIP index | `dllmain.cpp` 3898-4760 | three caches of archive paths, an index per archive | ask the plugin, retry with an alias, or read the entry |
| Settings, process and network provider hooks | `dllmain.cpp` 2758-2835, 4893-5227 | the ini file | read once, install in a fixed order |
| WIC_Loader plugin | `WIC_loader/` | an agent per picture, its memory, the threads of the runtime | decode with a limit of 15 s, suspend, ask the user |
| Vendored remote calls | `NInjectLib/` but `Process` | none that the launcher uses | |

How they interact. The launcher writes a bootstrap into the suspended process that loads the DLL
(whose `DllMain` installs the API hooks) and then calls `InitializeLeeyesInternalHooks`, before
Leeyes' entry point. Every installation goes through the one `NCodeHook` object. The internal hooks
put file change batching under two Delphi methods and the trace buffer under up to five.
Directory hooks, path resolution and aliases are called by Leeyes and by plugins on any thread, and
share maps under mutexes and the lock-free search table. What Leeyes itself does is not in the
repository and is an environment in every module.

### What is hard, and what makes each part correct

* **Trace buffer.** Lock-free publication of records whose copy is not atomic, a wake-up that may be
  missed, a stop request that races with both, a full buffer. Correct: the log is a prefix of what
  was accepted, nothing published is rewritten, every ticket is accounted for, everything published
  at a stop is printed, and records do get printed.
* **File change batching.** Leeyes re-enters it from a drain, a dispatch or the very
  resynchronisation; the table is bounded; Delphi exceptions unwind it. Correct: whatever is
  deferred is covered by a later resynchronisation, resynchronisation is not itself deferred, and no
  list is updated out of order.
* **Search table.** Each access is its own atomic step, the cache of the last search is two words
  that do not change together, and Windows reuses handle values. Correct: no search is continued
  with the context of another.
* **Internal hooks.** Any of up to eight steps can fail, and so can the undoing. Correct: each feature is
  whole or absent.
* **Code patching and shell names.** Trampolines are handed out, shared, freed and handed out again to another
  client; one hook serves many methods; the first instructions of a method are unknown. Correct: from a hook
  the original is always reached, and the right one.
* **Path resolution.** Several names collapse into one spelling; directories change between two
  components; answers are cached. Correct: a file that can be singled out is the one opened.
* **Aliases, listings, operations.** Processes share TEMP and race for its entries, a process may end half
  way, a volume may lack links or junctions, caches outlive what they stand for, and a path is recognised by
  its last name. Correct: an alias stands for the item it was made for, nothing half made stays, an
  operation hits no other file.
* **Archives.** Five caches are filled at different times by different threads, and some keep
  failures, while archives with one spelling come and go. Correct: the entry that is returned is the one asked for, an
  archive that can be read stays readable, the list and the pages are of one archive.
* **Pictures.** A decoding may fail anywhere, crash, or hang; the wait ends at any moment, also as the
  answer comes. Correct: the caller gets a whole picture or none, memory has one owner, every call is answered.
* **Launcher.** Two processes side by side, every call of one may fail and the other may exit or
  recreate its window. Correct: Leeyes never stays suspended, never enters half a bootstrap, and the
  drop reaches a window that has stayed.

## 2. The modules

Names of variables, operators and actions are the code's where TLA+ allows it. Definitions that
begin with `M` followed by the name of an action or operator are plausible mistakes in that one; they are
not part of a specification.

### TraceStream and TraceBuffer

`TraceStream` is what the trace promises: records are accepted in one order until the capacity is
reached, later ones are lost and counted, and what is published is a prefix. `TraceBuffer` is
`trace_buffer.cpp` and implements it: `Stream == INSTANCE TraceStream WITH published <- log,
lost <- dropped + Cardinality(Overflowing)`. `StreamSpec` is checked as a property and proved.

`Append` is `Reserve` (the `fetch_add`), then `CountDropped`, or `BeginCopy`, `EndCopy`, `Commit`,
then `Signal`. Between `BeginCopy` and `EndCopy` the slot holds `Torn`. `FlushThread` is `OpenLog`,
`Wait`, `FlushOne`, `EndFlush`, `CheckStop`; `Start` is its three calls with each failing return;
`RequestStop` and `Exit` may come at any moment. `next_` and `dropped_` wrap at `CounterModulus`;
the assumption that they do not wrap in a session is named (`MaxTickets < CounterModulus`, 2^32 in the
code: a wrapped `next_` would reuse slots). Orderings weaker than sequential consistency are not
modelled: the code uses acquire and release on `committed_`, which orders exactly the accesses the
model orders.

### FileMoveBatch

`gDrainState` is the thread-local structure. `stack` is the call stack as far as it matters: one
frame per `LeeyesInternalEndChangeQueueDrain` in progress, with the lists it has left to resynchronise
and the number of drains running inside the present resynchronisation; the bottom frame is the
message loop. `Begin` and `End` have a nested and an outermost case. `Defer` and `PassThrough` are
the two answers of `LeeyesInternalShouldDeferFileChange`, and cover a null list, an action that is not a file
change, and a full table. `Raise` is a Delphi exception that unwinds any number of calls: the hook
(`delphi_bridge_x86.cpp:136-150`) has no handler, so nothing in `gDrainState` changes. `owedLists`, `direct` and `raised` are
history variables. The specification is called `BatchSpec`, its parts likewise, because its proofs share a module with
those of `TraceBuffer`.

### SearchContext

The three hooked search functions and the table beneath them. A step is one access to one atomic:
`FindHandle`, `FindLast`, `FindSlot`, the two stores that promote a hit to the cache; the
compare-exchange loop and the cache's two words in `Forget...`; the scan for a slot that
is empty or its own, and the cache's two words in `Remember...`.
`FindFirstFile` has four outcomes (`Kinds`), according to the path and to the names that were found.
A handle is used as Windows requires: `FindClose` when nobody else uses it. Windows may
then give its value out again at once, which is what makes stale entries a hazard.

### CodeHook, InternalHooks, ShellFolders and Hooks

`CodeHook` abstracts code to where it jumps: `code[f]` is the hook that a function begins with, `copy[tr]`
what a trampoline holds. `CreateHook` finds a function already hooked or patches it (`Patch`), `RefuseHook` is
each way to return null, and `RemoveHook` puts the instructions back, except where VirtualProtect fails. The map is
keyed by hook and its `insert` does not replace. It has actions but no behaviour of its own: its clients do.

`InternalHooks` is one call of `InitializeLeeyesInternalHooks`, for each setting of the ini file and each set of
anchors found in the image: `Initialize`, `ResolveTargets`, the two batch hooks, the trace hooks one by one, and
`StartTrace`. `RemoveHooks` removes only the hooks whose original pointer is set, as the code does, and clears all
pointers whatever `removeHook` returned; `unremoved` remembers the methods that then stay hooked.

`ShellFolders` is `SHBindToParentHook` and `GetDisplayNameOfHook`. Its clients of `CodeHook` are the keys of the
map from QueryInterface address to original method, and `Call`, `Lookup`, `CallOrig` and `Return` let two threads be
inside the hook while classes are bound.

`Hooks` EXTENDS both and composes them over the one page of trampolines and the one map that `nCodeHook` has
(`dllmain.cpp:45`): internal steps until `Done`, since the bootstrap runs them before the entry point of Leeyes,
then those of the shell folders, which are hooked with what the first have left, freed trampolines included.

### WidePath

A path is a sequence of names, an ANSI path a sequence of spellings; `encode`, `decode` and
`matches` stand for code page 932 and the wildcards of the file system. `CreateFileA` chooses the way: a
path with `?` goes to `GetWidePath` at once, another only when it does not open. `LookupCache`,
`ResolveAnsiPathCollision` (one component a step), `Legacy` (the wildcard loop), `StoreCache`,
`Open`. `Change` lets any other program create or delete an entry between any two steps.

### Launch

`injector/main.cpp` and the bootstrap it writes, with Leeyes' primary thread as a second process.
Each Windows call whose failure the launcher tests may fail, and then goes to the `catch`.
`Bootstrap` is the generated code, whose two tests skip to the entry point. After it Leeyes may
create, show, hide, name and destroy its main form, and exit at any moment. `FindForm` is the first
loop (120 s), `StabilityCheck` the second (25 checks in a row of at most 501). A handle value is
not given out twice.

### AsciiAlias

The names that `dllmain.cpp` gives to items that code page 932 cannot spell. An item is a directory of a drive or a file
in one; an ANSI path is where its last name stands and that name, own or `~u` and a hash. The hash is modelled by the path
it is of, so that no two collide.

* For listings: `ListDrive` and `ListDirectory` remember what they give out. A directory reached by a synthetic
  name is listed by the Unicode API (`CopyFindDataWToA`), any other is repaired (`FixupFindData`), with the 8.3 name
  or with the first entry that the question marks match.
* For plugins and dropped items: `GetFullyAsciiAlias` asks the cache, then `GetPrivateDirectoryAlias`
  (a junction to the directory), `GetShortPath` (8.3), `MakeTempAlias` (hard link, junction, or synthetic name).
  A junction is made in the three steps of `CreateDirectoryJunction`, which other processes may
  get in between of: `CreateDirectory`, `SetReparsePoint`, `RemoveDirectory`.
* Uses: `OpenAlias`, the `Retry` of `GetPictureDispatchImpl`, `OpenListed`, `DeleteFileA`, `MoveFileA`.

`temp` is the folder all processes share, `volume` what it is able to do. `Replace`, `Clean` and `Restart` are other
programs, the cleaning of TEMP, and the end of a process in any step. `disturbed` is a history
variable: the items whose entry in TEMP may be out of date for one of these reasons, or because the file was moved or
deleted while its hard link stayed.

### ZipArchive

The wrappers around archive plugins, for calls by one ANSI path, lossy or only not ASCII. `Call` starts one of
three kinds: the list (`info`: plugin first, then `GetArchiveRetryPath`), an entry into memory (`memory`: `FindArchive`,
`LookupIndex`, `BuildZipIndex`, `EmplaceIndex`, `ExtractZipEntry`, again with the entry before, then the
plugin), and an entry into a file (`file`: retry path first). Each look at a cache or at the disk is a step; `Change`
creates, replaces and deletes archives between any two, and `Hampered` is a read or an allocation that fails. What a
plugin does when it can open the archive is right by assumption. `touched` and `answered` are history.

### WicPicture

`GetPicture` of `WIC_Loader.spi`: the agent of each call, the threads of the Concurrency Runtime, the call that waits. The
agent's steps are those of `run()`, each with every failing return the code has (and the crash that a missing
frame causes, since its result is not looked at before it is used). `Wait` takes what is there or is
over; `Suspend` suspends the thread that the agent named, whatever it runs by then; `Message` is the
user's answer. Of the picture only the orientation is modelled, by where the four corners end up. `WriteToBuffer` has
the error paths of `WicLoader.cpp:428-538`, where nothing looks at `hr` before the lines are copied: the tag is not read and
counts as 0; a flip rotator cannot be made or initialized and is passed over, so that the picture is copied unturned, or half turned, and
success is returned (`made`, the rotators that there are); the `QueryInterface` that is to put the rotator in the place of the picture
fails, and since `ToCreator` (`comptr.h`) has given the picture up by then, `CopyPixels` is called on a null pointer.
`Orientations` are the values of tag 274 where the code looks for it, under `exif/subifd`; a picture that has it elsewhere has 0.

## 3. What is checked

| Run | What it shows | Size |
|---|---|---|
| `TraceBuffer` | `TicketsAccounted`, `DrainedOnStop`, `StreamSpec` (refinement), and with fairness `AcceptedPrinted`, `StopEnds` | 30 thousand states |
| `FileMoveBatch` | `NothingLost`, `ResyncUnsuppressed` until an exception leaves a hooked call; `OneTreatment` always | 21 thousand |
| `FileMoveBatchRaise` | **violated**: `NothingDiscarded` once a Delphi exception leaves a drain | |
| `SearchContext` | `ContextCurrent`, `WideGoesOn`, `ClosedNotKept` | 1.6 million |
| `Hooks` | `HookReachesOriginal`, `FeaturesWhole`, `OwnMethod` | 860 thousand |
| `WidePath` | `ReachesFile` while the disk is as it was, `PlainSpelled` while it changes | 3.2 million |
| `WidePathGuess` | **violated**: `NoGuess` | |
| `Launch` | `NeverLeftSuspended`, `BootstrapWhole`, `OutcomeTruthful`, `StableDrop`, and with fairness `InjectorEnds` | 21 thousand |
| `AsciiAlias` | `AliasReads`, `NothingHalfMade`, `OperationsHitItem` | 1.2 million |
| `AsciiAliasFolder` | **violated**: `ListedOpens` | |
| `ZipArchive` | `RightEntry`, `StaysReadable`, `OneArchive` | 5.1 million |
| `WicPicture` | `PictureOwned`, `MemoryAccounted`, `ShownUpright`, and with fairness `Answered` | 731 thousand |

Each passing run also checks the type invariant of its module (`TypeOK`, in `FileMoveBatch` `BatchTypeOK`).

### What the violated properties say

* `NothingDiscarded` (`leeyes_internal/delphi_bridge_x86.cpp:144`). The drain hook calls the original drain and then
  `End`, with no handler around it. A Delphi exception that leaves the drain skips `End`: the changes already
  deferred are never resynchronised, and because `depth` stays above 0 every later drain counts as nested and none is
  ever ended again. `ReadMe.md:108-109` says notifications are not discarded.
* `NoGuess` (`dllmain.cpp:420`). If the names of a damaged spelling are not one, `GetWidePath` goes on
  with the question marks as wildcards and takes the first match, where `ReadMe.md:139-140`
  says completion stops.
* `ListedOpens` (`dllmain.cpp:240`). A path is recognised as synthetic by the whole of it or by its last name. A file
  whose own name can be spelled, in a folder that was given a synthetic name, is neither: the listing of the
  folder works, since `MakeWideSearchPattern` resolves the folder by itself, but `CreateFileAHook` opens
  `D:\~u<hash>\name` as it is spelled and fails, where `ReadMe.md:10-11` and 23 say that files in Unicode folders are reached.

### What else was met

These the models contain, and the properties name them as exceptions or leave them out. No run is devoted to them.

* `target_resolver.cpp:248`: with `Trace=1`, one missing trace anchor, or a change method that does not call refresh, makes
  `ResolveTargets` fail as a whole, and batching is not installed either. The comment at 245-247 says that a mismatch that
  is only diagnostic must not disable batching.
* `NCodeHook.cpp:29`: the destructor indexes a map keyed by addresses with 0, 1, 2...: it removes no hook, then frees the
  page that hooked code still jumps through. The comment at line 28 says that all hooks are restored. It matters at process exit only.
* `NCodeHook.cpp:150`: when VirtualProtect fails in `removeHook` the hook stays, and its original pointer is cleared all the same;
  the next call of the method jumps to address 0.
* Shell classes that share a method but not a QueryInterface: the second finds a jump it cannot move, and null is stored for it.
* The cache of resolved paths is never invalidated; `ReachesFile` holds up to the first change of the disk.
* `dllmain.cpp:904`: an alias that exists in TEMP is taken as it is: a hard link left by an earlier process to a file that has
  since been replaced by saving, or a directory whose process ended before it became a junction. Deleting a dropped item by
  its hard link removes the link only, and one that is moved away is still opened by it. Aliases cached before TEMP is emptied are not made again.
* `dllmain.cpp:2362`: moving a file under its synthetic name resolves the destination, by its last name, to the source; the file is
  moved onto itself and success is reported.
* `dllmain.cpp:1655-1664`: of several names that the question marks match, a listing gets the first for each.
* `dllmain.cpp:4472`: an entry that cannot be extracted natively (method, encryption, size, a failing read) is answered by
  the entry before it, as a success. `RightEntry` says that it is that one and no other.
* `dllmain.cpp:3961`: that there is no retry path is remembered for ever; a lossy path first asked for while its archive is
  missing stays bound to the folder; an index is never read again, so a replaced archive may be read at stale offsets, and no
  checksum is compared; after an archive has been deleted, its list and its pages may come from two archives.
* `wic_loader.cpp`: SPI_ALL_RIGHT without a picture when the notification cannot be registered or the lines cannot be
  copied; memory is not freed in the latter case, nor when the last callback stops it, nor when the agent ends after the wait of
  its call (lines 355-367: it hands its memory over, and nobody takes it). A call whose wait is over may suspend a thread that runs the agent
  of another call. `Decode` looks at the frame before its result, so that a file without one is a null pointer.
* `WicLoader.cpp:438-526`: a tag that cannot be read and a flip rotator that fails are passed over, and the picture is given as it
  is, with success; where the last call of the three that make one fails, the process crashes.
* `WicLoader.cpp:432`: the rectangle to copy is not turned with the picture, so that orientations 5 to 8 work for square
  pictures only; the mirrored orientations are exchanged, 2 with 4 and 5 with 7.

### Bounds, and why they are enough

* `TraceBuffer`: two threads, two slots, four tickets. The protocol is per slot: two slots give order,
  a torn predecessor of a published slot, and a full buffer, and four tickets let both threads overflow it at
  once. `CounterModulus` is 5, the least that the assumption allows. The proofs lift all of these.
* `FileMoveBatch`: three lists over a table of two, so that one does not fit; drains nest three deep and
  resynchronisations two deep above the message loop, so that a drain inside a resynchronisation inside a drain occurs.
  `Counts` has -1, 0, values around the threshold; the action words include one with a bit above the byte that is tested. Proved without bounds.
* `SearchContext`: two threads, three handles, two places, four searches in all. Handles then outnumber the
  places, a value is given out again while another thread is still in the middle of an access, and the table is full.
* `Hooks`: every setting, an image with all anchors and four that lack something of each kind; nine trampolines, less than the
  methods and folders there are, so that freed ones are used again; three classes of folder with methods of their own,
  two with one QueryInterface; two threads in the hook. Any function may be refused.
* `WidePath`: three names, two of them with one spelling, one with a damaged spelling that matches all;
  paths of two components; a disk of two entries; one thread (threads share only the cache, whose accesses are under a mutex, and
  a change of disk at any step stands for what another thread may do to it). `WidePathGuess` needs two names with one damaged spelling, so it has four.
* `AsciiAlias`: a directory with a plain name, one with an 8.3 name and one with neither; files whose names can and
  cannot be spelled, one that is there only sometimes; two processes, of which both make aliases and one also lists, moves and
  deletes; three calls and one fault, in any order: an alias made, used and used again by the other process, with
  the fault anywhere between. Three calls are too few for one history: a dropped file that gets a hard link, because a killed process left
  the entry of its directory half made, is moved away and then opened by the link. That takes six and a restart; the proof covers it.
  `AsciiAliasFolder` needs one process and no fault.
* `ZipArchive`: two archives with one spelling, two threads, two entries (the first, and one with an entry before
  it, which is one that cannot be read natively), two changes, so that an archive can be created and deleted, or replaced, or both changed, and one failing
  read. Calls go on without end. All are of one path: paths share no state.
* `WicPicture`: two calls at once over two threads, so that a thread can be reused or suspended in the place of another;
  the orientations 0, 3, 6 and 8, one for each turn and none (1 takes the way of 0, and the theorem covers 0 to 8). Calls go on without end.
* `Launch`: the limits 3, 3 and 6, so that each is reached by itself, and three forms, so that the stability loop restarts twice.

### Fairness

* `TraceBuffer`: weak fairness of a call of `Append` that has begun, of `Start`, and of the worker,
  all until the process exits: none of them waits for anything but the scheduler, except for the
  worker's wait on the event, which has a limit of 250 ms and so ends whether the event is set or not. Nothing makes a thread call `Append`, or the DLL be detached.
  `AcceptedPrinted` and `StopEnds` except the cases in which there is no worker (`Silent`).
* `WicPicture`: weak fairness of a call that has begun, while the process runs: its wait has a limit of 15 s and the user
  answers a message. Nothing is assumed of the agent: a codec may never return.
* `Launch`: weak fairness of the launcher alone; each of its waits has a limit. Nothing is asked of Leeyes.

The other modules state safety only. `CHECK_DEADLOCK FALSE` stands where the system really stops:
after the process has exited or crashed, or when the bound on calls or searches is used up.

## 4. What is proved

`InternalProofs` has the proofs of two features of `leeyes_internal/`, each from its own specification. `TraceBuffer`, for every set of threads, capacity and number of tickets below the counter's modulus
(`TraceAssumption`):

* `TypeCorrect`, `LogFaithfulCorrect`, `SlotsImmutableCorrect`, `TicketsAccountedCorrect`, `DrainedOnStopCorrect`;
* `StreamRefinement`: the buffer implements `TraceStream` (`Spec => StreamSpec`).

The refinement covers `LogFaithful` and `SlotsImmutable`, which the runs therefore do not check apart.

`LogFaithful` is not inductive: it says nothing of the slots that the worker is about to read. `IInv`
adds what the code relies on: tickets below the capacity are the accepted records in order (`TicketInv`); a thread in
the middle of a copy owns its slot, unpublished, and carries the record accepted under that
ticket (`OwnerInv`), and no two own one (`ExclusiveInv`); a published slot holds the record of its number (`SlotInv`); and
what is printed was published (`PrintInv`). One lemma per action shows that it is preserved. The
refinement takes each step of `Next` to `Accept` (`Reserve` below the capacity), `Lose` (`Reserve` above it),
`Publish` (`FlushOne`) or a stutter.

`FileMoveBatch`, for any lists, table size, threshold and depth (`BatchAssumption`): `BatchTypeCorrect`,
`DebtCoveredCorrect`, `NothingLostCorrect`, `ResyncUnsuppressedCorrect`, `OneTreatmentCorrect`. The first rests on `BInv`, which holds after exceptions too:
the table is empty exactly when there is nothing to resynchronise, and a frame above the
message loop always has a list at hand. The next three need `CleanInv`, which adds, as long as no
exception has left a hooked call, that `depth` counts exactly the drains above the innermost `End`
and that an `End` has none running below it (`DepthInv`). That is what makes the clearing of the state
before the resynchronisation sound: without it a nested `End` could clear the table of a drain that is still running.

`OneTreatmentCorrect` needs only `BInv` and `TreatInv`, which exceptions do not change: the table holds no list twice, and
when a drain has passed a list through although it defers, the table is full, so that the list cannot enter it later.

`HooksProofs`, for any classes of folder, threads, images and page of trampolines (`HookAssumption`, `InternalAssumption`,
`ShellAssumption`, `ClientAssumption`): `TypeCorrect`, `HookReachesOriginalCorrect`, `FeaturesWholeCorrect`,
`OwnMethodCorrect`. That a pointer leads back says nothing of what the next `createHook` will hand out, so `IInv` adds
that every item of the map owns a trampoline that is in use and holds the function of the item, and that no two items share
either (`ItemInv`); that the pointer of a hooked method is the trampoline of such an item, which is how `removeHook`, that goes by hook, frees
the right one, and that of a method which `removeHook` has failed on is null (`MethodInv`); that a folder whose method jumps to the hook has a key, and that a call on its way holds a
trampoline that nothing frees (`FolderInv`); and which methods can be hooked at each step of the installation (`StepInv`).
`CreateFacts`, `RefuseFacts` and `RemoveTargets` say what the three operations of `CodeHook` do to it. The last
conjunct of `ClientAssumption` is needed: without it the bound class whose key stays null is the one listed
above under "What else was met".

`SearchContextProofs`, for any threads, handles, places and number of searches (`SearchAssumption`): `TypeCorrect`,
`ContextCurrentCorrect`, `WideGoesOnCorrect`, `ClosedNotKeptCorrect`. The code has no lock, so the invariant must say why none is
needed. `Shared`: only calls of `FindNextFile` share a handle, so whoever stores, forgets or closes is alone with it, and
writes of others leave its places as they were. `TableInv`: an entry of the table is always of the running search of its handle.
That is not so of the cache: a thread may put back an entry that it found before another replaced the pair of words, and the entry then
outlives its handle. `LastInv` and `Relies` say why this does no harm: while the last entry is of an
earlier search, the last handle is not its handle, and nobody on that handle is between reading or writing one
word and relying on the other. `Forgets`, `Remembers` and `Scans` are about the loops over the
places: what a `FindClose` has passed is free of its handle, and a scan for a remembered entry has it still ahead.
There is a lemma for each atomic access; `LocalKept`, `LastEntryWritten`, `LastHandleWritten` and `NotRemembered` are what
the other threads notice of one.

`WicPictureProofs`, for any number of calls and threads (`PictureAssumption`): `TypeCorrect`, `PictureOwnedCorrect`,
`MemoryAccountedCorrect`, `ShownUprightCorrect`. `Progress` says what an agent has allocated and turned at each step
of `run()`, and `Link` that a call returns what its agent handed over before it ended, or nothing if it was never
started; an agent of one call does not touch the record of another, which is all that concurrency has to say here.
`MemoryAccounted` is about every agent that has ended, whatever its call does by then, and names the three paths on which
memory is lost; `ShownUpright` is about the pictures whose tag was read and whose rotators were made (`turned`).

`LaunchProofs`, for any number of stability checks and of form lifetimes: `TypeCorrect`, `NeverLeftSuspendedCorrect`,
`BootstrapWholeCorrect`, `OutcomeTruthfulCorrect`, `StableDropCorrect`. `ProcessInv` says at which steps the thread may still be suspended (before
`ResumeThread`, and where the exception is caught); `MemoryInv` which blocks have been written at each step; `DropInv` that the
HDROP is the launcher's exactly from its filling to the post; `ResultInv` what each end has reported. `StableDrop` is about
the past of a window that other steps create and destroy: `FormInv` says that a handle which was counted n times is of a form that is
at least n checks old or has gone, which holds because handles are not reused within a run.

`ZipArchiveProofs`, for any archives, entries, threads and number of changes and faults (`ArchiveAssumption`): `TypeCorrect`,
`RightEntryCorrect`, `StaysReadableCorrect`, `OneArchiveCorrect`. Four caches and the calls on their way all hold archives, and the invariant
says one thing of each of them, `Fit`: an archive that has been there all the time is held only if it is the one the path is resolved to,
or if it is the only such archive of the spelling; `Preferred` never changes once it is an archive, because `gWidePathCache` is written
once. From this follows `OneArchive`. `CachesInv` adds that a cached index is of its archive until that changes and
that, for a `Sole` archive, the caches hold it, the path itself, or nothing; so no failure is cached for one, which is the heart of `StaysReadable`.
`Tries` says why the second attempt, at the entry before, does no harm: it is reached in an unchanged archive
only if the entry asked for cannot be read, and it is of that one entry (`Allowed`), which `RightEntry` then states as
one of its two outcomes. `Harmless` is what a step may do to the calls of other threads, and holds of every
step, those of the disk included.

`WidePathProofs`, for any names, spellings, wildcards, depth, disk and threads (`PathAssumption`): `TypeCorrect`, `ReachesFileCorrect`,
`PlainSpelledCorrect`. `Reaches` says that, while nothing changes, a call whose path singles out a file has put together exactly the beginning of that file's path,
that such a path never gets to the wildcards with a question mark, and never to the decoded path if it has none; `CacheInv`
says the same of what the cache holds; `Single` is the step from one component to the next. `Plain` is about paths without a question mark
and speaks of no disk at all, so that it survives every change. That a decoded path which exists cannot be another file than the one singled out
(`DecodedOpens`) is about all components at once; in place of an induction it takes the first component that differs (`Least`).

`AsciiAliasProofs`, for any directories, files, spellings, 8.3 names, processes, calls and faults (`AliasAssumption`: a file lies in a
directory and is none; what holds an item with an 8.3 path is plain or has one too; `NothingAssumption`: `Nothing` is not a path): `TypeCorrect`, `AliasReadsCorrect`, `NothingHalfMadeCorrect`, `OperationsHitItemCorrect`.
`AliasReads` speaks of the moment a file is opened, long after its alias was made, cached, remembered or listed, perhaps by another process;
so `Holds` says of each cache, list and call of a process that every alias in it `Fits`: it is the 8.3 path, or a
synthetic name that this process knows, or an entry of TEMP that is there, or else the item is disturbed. `Steady` is what keeps it so under the steps
of others: nothing that serves is taken away but from a disturbed item.
That a junction is never taken away is the difficult part: `RemoveDirectory` removes what its process believes to be an empty directory of its own,
and another process may have made it a junction meanwhile. `CreatorInv` says why this cannot be, as long as TEMP has not been
emptied (`Untouched`): a directory has one creator at most, and a creator gets to `undo` only if the volume holds no junctions, in which case nobody else has
made one (`TempInv`). Once TEMP has been emptied every item is disturbed, and nothing is claimed. `NothingHalfMade` uses the same invariant.
`Mild`, `Junctioning` and `Filing` are the three kinds of steps: those that add to TEMP at most a link, those that change the entry of one
directory, and those that change files; each is shown once to preserve what is said of the disk.
`ListedOpensBelowShort` marks the limit of the finding about `ListedOpens`: under the hypothesis that every directory has a name CP932 can
spell or an 8.3 one, which the run `AsciiAliasFolder` does not satisfy, a path of a list always opens its file. The exception that `AliasReads` makes for a list
is then empty (`NoNameBelowSynthetic`), and a call for a list always carries the path it was made with (`LeeyesNamed`).
The attempt corrected the model twice: a file that is moved away leaves a link to its data, so that `disturbed` must hold it as well as
the file that takes its place; and two guards of `OnDisk` overlapped.

Liveness (`AcceptedPrinted`, `StopEnds`, `InjectorEnds`, `Answered`) is beyond the prover and stays with TLC. Every other property of a
passing run is a theorem.

## 5. What is not modelled, and the plan

In this order:

1. `DisplayNames`: the bounded table of lossy names and its eviction, the hooks that draw text, `MakePath`,
   `WideCharToMultiByteHook`, and the lookup of a lossy name by the file operations.
2. `ListSelection`: capture and restoration around a resynchronisation, with Leeyes changing the list between messages.
3. The parts of the modelled components that are left out: copies, attributes and `RemoveDirectoryA`, search masks and
   over-long paths, how the entry points of plugins are found.

Left out for good: the decompressor, the decoder of x86 instructions, and the layout of the bytes in a
trampoline or in a bootstrap (pure data); the P9NP filter and the ini reader (stateless conversions);
logging; the parts of NInjectLib that nothing calls; and whatever only the processor could tell, such as
a thread that executes the very bytes being patched.
