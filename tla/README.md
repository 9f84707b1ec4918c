# MultiMC: a verification model

MultiMC is a launcher for Minecraft instances, written in C++ and Qt. This
directory holds TLA+ models of the parts of it whose correctness depends on the
order of events and on what is left behind when one of several steps fails:
downloads and their cache, updates of MultiMC itself, accounts and logins,
profiles, the update of a game before it starts, and the launch of the game. TLC
checks each model on small instances; TLAPS proves their main safety properties for
all sizes.

Contents:

1. Inventory of the system
2. The modules and the code
3. The runs
4. Bounds
5. Fairness, deadlock
6. What is proved
7. What only TLC checks
8. Disagreements found
9. Not modelled
10. What could come next


## 1. Inventory

The program has one main thread with Qt's event loop. Nearly everything is a
callback: a network reply, a timer, a process that ended, a click. Concurrency
is therefore (a) the order of these events, (b) event loops nested in a handler
(modal dialogs, blocking waits), (c) signals delivered synchronously while the
emitter is still running, and (d) the other processes and the file system. A few
tasks run in a worker thread (`ThreadTask`).

### Downloads: `logic/net`, `logic/tasks`, `logic/forge/ForgeMirrors`

| component | state | operations | called by |
|---|---|---|---|
| `Task` | `m_running`, `m_succeeded`, the fail reason | start, emitSucceeded, emitFailed | all tasks, dialogs |
| `NetJob` (a Task) | `downloads`, `parts_progress`, `m_todo`, `m_doing`, `m_done`, `m_failed` | addNetAction, executeTask, startMoreParts, partSucceeded, partFailed | everything that downloads |
| `CacheDownload` (a NetAction) | save file, `wroteAnyData`, `md5sum`, its `MetaEntry` | start, readyRead, error, finished | NetJob |
| `HttpMetaCache` | `m_entries`, the index file, the save timer | resolveEntry, evictEntry, updateEntry, Load, SaveNow | the code that wants a file |
| `MD5EtagDownload`, `ByteArrayDownload`, `ForgeXzDownload` | file or buffer, `m_status` | start, readyRead, error, finished | NetJob |
| `ForgeMirrors` (a NetAction) | the mirror list, the libraries to inject | finished, injectDownloads, addNetAction on its job | OneSixUpdate |

Hard: a part may report before `start()` returns, so the slots nest inside the
loop that starts parts; one failure can be reported twice; parts are added to a
running job; a list without a usable mirror adds its parts twice; replies are
partial, redirected or late; the index on disk is 30 seconds behind the files it
describes. Correct means: each part is tried a
bounded number of times and accounted for once; the job reports once, and the
truth; a cached file is always a whole version of the resource, and an entry
that counts as fresh describes the file beside it.

### Updates of MultiMC: `logic/updater`, `mmc_updater`

| component | state | operations | called by |
|---|---|---|---|
| `UpdateChecker` | the channel list, `m_updateChecking`, `m_checkUpdateWaiting`, the deferred channel, two jobs | checkForUpdate, updateChanList and the slots of the jobs | main window, settings page |
| `GoUpdate`, `DownloadTask` | file lists of two versions, the package directory | loadVersionInfo, processDownloadedVersionInfo, processFileLists, fileDownloadFinished | main window |
| `mmc_updater` | the script, `m_backups`, the files | Setup: wait, run Main, restart; Main: install, uninstall, removeBackups, revert | MultiMC, when it quits |

Hard: a job pointer is replaced while the old job still has events to come; a
dialog opened in a handler runs the event loop before the handler is done; the
updater may be killed, or fail, between any two file operations, the handling
of a failure included, and the next update starts from what that left. Correct
means: what the user is offered is what was asked for; no check is lost or made
unasked; what the user is told of an update is what happened, and no file is lost.

### Accounts: `logic/auth`

| component | state | operations | called by |
|---|---|---|---|
| `MojangAccountList` | `m_accounts`, `m_activeAccount`, accounts.json | addAccount, removeAccount, setActiveAccount, loadList, saveList | account page, MultiMC |
| `MojangAccount` | tokens, profiles, `m_currentProfile`, `m_currentTask` | login, authSucceeded, authFailed, saveToJson | doLaunch, LoginDialog |
| `YggdrasilTask`, `AuthenticateTask`, `RefreshTask` | the request, its timer, its state | executeTask, processReply, processResponse, abort, abortByTimeout | MojangAccount |

Hard: the timeout against a late answer, an abort, an answer that fails after
half of it has been stored, an account that is removed while it logs in, a list
that must be on disk after each change and may fail to get there. Correct means: one end for each request;
an online session was accepted by the server; an account that has a token has a
profile; nobody is logged out by a bad connection; what reached the file survives a restart.

### Profiles: `MinecraftProfile`, `OneSixProfileStrategy`, the installers

The list of patches in memory (`VersionPatches`), their files under `patches/`,
and `order.json`. Operations: load, reapply, move, remove, customize, revert,
install jar mods or a loader, change the version. Sequential; hard is that an
operation touches several files and the list and can stop in between. Correct
means: the list shown is the one on disk; the launcher never writes what it
cannot read; what was removed stays removed; the order stays the user's.

### Game update: `OneSixUpdate`

A chain of NetJobs: version file, jar and libraries (with mirrors), FML
libraries, asset index, asset objects. Hard: each step's failure must end the
chain once; files and cache entries that are broken must be recognised and
fetched again by the next update; `MD5EtagDownload` truncates before it asks.
Correct means: one result, and a game that starts has every file it needs.

### Launching: `BaseProcess`, `MinecraftProcess`, `ConsoleWindow`, `MainWindow`, the profilers

The game's process, the running flag of the instance, the pre- and post-launch
commands and the Java check (each waits in a nested event loop), the console with
its kill button, the profiler and its dialogs, the launcher part in Java that
waits for a word on its standard input. Hard: a kill, an end or a closed window
inside a nested loop. Correct means: while anything of a launch runs the instance
counts as running; a console that can be closed belongs to a launch that is over;
each launch ends, and a kill ends it.

### Instances, settings and the rest

`InstanceList` (instances, groups, the group file), `SettingsObject` with
`INISettingsObject` and `OverrideSetting`; version lists
(`MinecraftVersionList`, `ForgeVersionList`, `LiteLoaderVersionList`), mods,
icons, screenshots, news, status, translations, resources, Java detection, the
widgets and vendored libraries: sequential bookkeeping, parsing, display, or
single requests.


## 2. The modules and the code

| module | models |
|---|---|
| `NetJob`, `DownloadBatch` | the scheduler, and what it promises |
| `MetaCache` | the cache, and the downloads of one path |
| `GoUpdate`, `UpdateInstaller`, `SelfUpdate` | the lists and the script; the updater; an update of MultiMC from end to end |
| `UpdateChecker` | looking for updates |
| `Accounts` | account list, login, session |
| `Profile` | patch list, patch files, order file |
| `GameUpdate` | OneSixUpdate and its downloads |
| `Launch` | launching an instance |
| `Sublists` | the elements of a list that a loop leaves, for `UpdateChecker` (events of a deleted job), `Accounts` (records without a profile), `GoUpdate` (files to delete) and `Profile` (the patches with a file, the rest by number, the movable ones) |
| `NetJob_proofs`, `MetaCache_proofs`, `SelfUpdate_proofs`, `UpdateChecker_proofs`, `Accounts_proofs`, `Profile_proofs`, `GameUpdate_proofs`, `Launch_proofs` | theorems about the eight of them that have runs |
| `MC...` | the values of constants that a `.cfg` cannot write |

### NetJob, DownloadBatch

`NetJob` models `NetJob.cpp`/`.h`, the results of `Task`, and `ForgeMirrors` as
far as it acts on its job.

*State.* The variables carry the names of the code's. `taskRunning` and
`jobRunning` are two variables because `NetJob::m_running` hides
`Task::m_running`. `stack` is the chain of calls in progress: its head is the
innermost one, and when it is empty the thread is in its event loop. With it,
signals emitted inside `start()` interrupt the loop of an outer
`startMoreParts`, exactly where the C++ call would. `posted` is the queued call
of `startMoreParts`. `starts` and `outcomes` are history.

*Actions.* `ExecuteTask` (start), `DeliverPosted`; `startMoreParts` is
`Finish | NothingToStart | EnterLoop`, then `Dequeue` per turn of its loop and
`LeaveLoop`; `PartSucceeded` and `PartFailed` are the slots, and `Lost` a signal
that has been disconnected; `AddNetAction` on a running job; `StartPart` is
`start()` of any NetAction, which sends a request or reports at once; `Answer`
and `MirrorsFinished` are replies. `Answer` includes the double report of a
failed write (abort inside `downloadReadyRead`). `MirrorsFinished` adds the parts
of a mirror list and succeeds; if the list may come without a usable line
(`EmptyLists`), it may also do all that twice with the same parts, as
`parseMirrorList` does after `deferToFixedList`. A part that is added twice
(`AddAgain`) has two slots (`object`) and reports to the second (`Index`).

*Abstraction.* A part is the sequence of its reports. Progress numbers, status
texts and `abort` flags that nothing reads are left out. A job is started once,
as all callers do.

`DownloadBatch` is the promise to the callers: each part is tried at most
`Attempts` times until it is done or given up, then one report is made, and it
is "succeeded" exactly when all parts are done. `NetJob!ImplementsBatch` is the
refinement (`tries <- starts`, `verdict` from `m_done` and `m_failed`,
`reported <- outcomes`), for jobs whose parts do not add others.

### MetaCache

Models `HttpMetaCache` and `CacheDownload` for one cached path, together with
the server, the user, the timer and the end of the process.

*State.* `file` is the target on disk; `entries` are the `MetaEntry` objects
(shared pointers: a download may hold one that the cache has dropped), `listed`
the one in `m_entries`; `saved` the path's record in the index on disk; `timer`
is `saveBatchingTimer`; `dl` the downloads, with `got` for the chunks of the
reply read so far, `buffer` for the save file, `digest` for the md5 (the
sequence of chunks it was fed), and the reply.

*Actions.* `Request` is `resolveEntry` and what callers do next (set the stale
flag, make the download); `EvictEntry`, `SaveTimeout`, `Restart` (the destructor
saves), `Crash` (it does not). `StartDownload` is `start()`: nothing to do, no
save file, or a request. `ReadyRead` and `WriteFails` are `downloadReadyRead`;
`FollowRedirect`, `NetworkError`, `CommitFails` and `Finish` the four ways of
`downloadFinished`. `Publish` and `Meddle` are the server and the user.

*Abstraction.* A modification time only matters through the test whether it is
the file's: `unmodified`. A content is a sequence of chunks tagged with the
version they come from, so that a mixture of replies is visible. An etag is the
version; `Last-Modified` is not a separate validator. The body of a redirect or
error page is one chunk of junk, and it is always received (the code writes it to
the save file like any other). The request and the server's answer are one step:
the version served is the one published when the request is sent. The user
changes the file only while no download of it is going on.

The module allows any number of downloads of the path at once. The run has them
one after the other, because `IndexFits` is false of two at once (section 8); the
theorems are about any number, but for the two that section 6 marks.

### GoUpdate, UpdateInstaller, SelfUpdate

`GoUpdate` has the functions: `processFileLists` makes the script (what to copy,
what to delete, whether the updater itself is to be renewed) of the two lists and
the files that are there. `UpdateInstaller` has the updater, `SelfUpdate` extends
both with `DownloadTask` and with MultiMC's quitting and starting again.

*State.* `disk` and `bak` are the files at each path and at `<path>.bak`; a file
is where its content comes from, seen from the new version: `old`, `new` or
`partial`. `pc` is the place between two file operations; `k` is the position in
a list of the script, `todo` the rest of `m_backups` that a loop has to handle;
`short` the files of the package whose download was cut short without anybody
noticing. `before` and `failedIn` are history.

*Actions.* `StartUpdate`, `ListsArrive`, `ListsFail`, `FilesArrive`, `FilesFail`
are `DownloadTask`. Then one action per file operation of Main, in the order of
`installFile`, `backupFile`, `copyFile`, `uninstallFiles`, `removeBackups`,
`revert`; `Throws` is an exception of any operation of the try block,
`RevertThrows` one in `revert()`, `Killed` a kill of Main. `AppExits`,
`WaitForApp`, `RunMain`, `RestartMainApp` are MultiMC and Setup. A second update
to the same version starts from whatever the first has left.

*Abstraction.* `m_keepLocalUpdater` is never initialised, so each value is
tried. Left out: directories, dry runs, invalid scripts, file modes, the special
paths of OS X, the observers' windows.

### UpdateChecker

Models `UpdateChecker` with its callers in the main window and the settings
page, and the part of Qt it relies on.

*State.* The variables of the class by their names; `jobs` is every `NetJob`
ever made, by the moment it was made; `queue` the events posted to the main
thread, in order: the queued start of a job, the end of its reply, its deferred
deletion; `dialogs` the modal dialogs on the stack. `crash` is set by the
callback that calls `first()` on a null pointer.

*Actions.* `Startup`, `AskForUpdate` and `OpenSettings` are the callers,
`OpenOther` stands for every other modal dialog of the program;
`checkForUpdate` is `Defer` (no list yet) or `CheckNow`; `EventLoop` delivers
one event, to `JobStarts`, `JobDeleted` or one of the four slots;
`CloseDialog` returns to the handler that opened it, which then runs its rest.
`NetworkAnswers` is the network.

*Abstraction.* A channel stands for its URL. An index is "newer", "same" or
"broken". `QObjectPtr` deletes with `deleteLater`; Qt does not deliver such an
event in an event loop nested deeper than the one it was posted in, which the
`level` of the event records. That is why a replaced job lives on inside a modal
dialog.

### Accounts

*State.* `account` are the account objects, called by their client token: name,
access token, number of profiles, current profile. `accounts` and `active` are
the list, `disk` is accounts.json, `login` the request of `m_currentTask` with
the answer that is under way and its timer, `dialog` the dialog that adds an account, `launch`
where `doLaunch` is, with its session. `valid` and `issued` are the server;
`unsaved` is a ghost, the last save has failed.

*Actions.* The account page (`RemoveAccount`, `SetDefault`, `NoDefault`, the
login dialog), `DoLaunch` and each of its dialogs, the request: `ServerAnswers`,
then `AuthSucceeds`, `AuthFailsHard` or `Garbled`; `NetworkFails`, `Timeout` and
`PlayOffline` end it before or after the answer was sent. `TimePasses` lets the
timer of the request expire, and `Progress`, a progress signal of the reply, starts
it again (`refreshTimers`). Each save may fail (`Save`), which no caller
looks at: the file stays as it was. `Revoke` is the user
who logs out elsewhere. `Restart` loads the file, `TornSave` is a death within a
save.

*Abstraction.* Tokens are numbered as they are issued. An account has at most
one profile, so a failed `AuthenticateTask` shows as `current > profiles` or as a
token without profile. The answers that the two flows tell apart: good, refused,
without a selected profile, with one that is not on the list, not JSON
("garbled"), and "odd": all those that are hard failures although the server refuses
nothing, as an empty reply, one for another client or profile or without a client token,
or an error in another format.

### Profile

*State.* `files` (patch files: none, good or unreadable, with order number and
the Minecraft version they are for), `orderFile`, `version` (IntendedVersion),
`patches` (the list in memory), `resolved` (what the profile was last made of),
`flagged` (VersionBrokenFlag). `sound` and `damaged` are ghosts: nothing has
failed since the last load; a file was edited by hand or written in part, or the order was
reset when two files had the same number.

*Actions.* `Reload`, `ResetOrder`, `RemovePatch`, `Customize`, `Revert`, `Move`,
`InstallJarMods`, `InstallLoader`, `InstallLegacy` (a Forge for old versions, which is
removed from the list and from order.json before it is installed again), `ChangeVersion`,
each with the ways it stops
half-way, and `EditByHand`. A file may be written in part, which the code does not
notice (`Written`). `Load` is `OneSixProfileStrategy::load` as a function
of the disk, with its exceptions; `ApplyAndSave` is the end of most operations
(reapplySafe, saveCurrentOrder). As in the code, a patch that order.json names has no order
number in memory (`PatchOf`), so the list does not tell which numbers the files have
(`FreeOrder`).

*Abstraction.* The merging of version files is a list of ids, or nothing when a
loader is for another Minecraft version.

### GameUpdate

*State.* `task` (the job it waits for, `m_running`, its reports), the files:
`libs`, `jar`, `fml`, `index`, `object` (none, of another size, whole), and for
the assets' job `part`, an `MD5EtagDownload` each. `late` are injected libraries
that outlive their job.

*Actions.* Each slot of `OneSixUpdate` under its name, up to the start of the
next job; `JobFails`; `StartAsset`, `AssetArrives`, `AssetError` and
`AssetsJobEnds` for the job of the assets; what the user does between updates;
`Crash`.

*Abstraction.* The jobs for the version file, the libraries, the FML libraries
and the index are taken by what `DownloadBatch` and `MetaCache` promise. The
assets' job is modelled part by part, since an `MD5EtagDownload` promises less.

### Launch

*State.* `running` is the instance's flag; `proc` has for each launch its
console, the state of its command, Java check, game and profiler, and what was
written to the launcher part; `stack` is the chain of calls, as in `NetJob`, with
calls that wait in an event loop of their own. `crashed` is set when a handler
returns into a deleted console.

*Actions.* `LaunchInstance`, then the steps of `arm()` and of the rest of
`launchInstance`; the ends of commands, checks, profilers and games;
`Finish` with its nested command and reload; the console's kill button, its
dialog and its deferred deletion. An event is only delivered while the innermost
call waits, and a loop that was told to quit returns when those nested in it have.

*Abstraction.* Log lines and launch arguments are left out. `JProfiler` stands
for all profilers.

### How the modules meet

- `MetaCache`, `UpdateChecker` and `GameUpdate` use jobs. For `MetaCache` the
  calls of `NetJob` are `StartDownload` (again after each failure), which is what
  `RetriesBounded` and `DownloadBatch` say of the scheduler. For `NetJob` a
  `CacheDownload` is `StartPart` and `Answer`: one report per start, before the
  return of `start()` or later, or two after a failed write, which is what
  `MetaCache`'s `phase` shows. For `UpdateChecker`, a job has one part that
  reports once; that `NetJob` posts the first `startMoreParts` is the `start`
  event, and `NullOnlyByDialogs` depends on it.
- `GameUpdate` uses that a job reports once (`JobFinishes`, `VerdictJustified`)
  and that after its success the queued files are there and fresh (`WholeFile`,
  `SuccessIsCurrent`), and lets injected libraries come late, which
  `VerdictSettles` shows to be possible.
- `UpdateChecker` ends with an offer; `SelfUpdate` begins with one that is taken.
- `Accounts`' stage `game` is the whole of `GameUpdate` followed by `Launch`;
  `GameUpdate`'s `game` is a launch. `Profile`'s `resolved` is what the libraries
  of `GameUpdate` are taken from, and pages that run `Profile`'s operations are
  disabled while `Launch`'s `running` is set.


## 3. The runs

| run | what it checks | what it shows |
|---|---|---|
| `netjob` | three parts, two at a time, three retries | the bookkeeping (`SlotsPartitioned`, `RetriesBounded`), a justified result (`VerdictJustified`), an end (`JobFinishes`), and that it implements `DownloadBatch` (`ImplementsBatch`) |
| `netjob_mirrors` | a part that injects two others, also twice (a mirror list without a usable line) | all slots settle, unless parts were added twice (`EveryPartSettles`); once all have reported, `successful()` is right even if the job reported too early, and claims nothing false even of parts that were added twice (`VerdictSettles`) |
| `metacache` | the downloads of a path, one at a time | the file is always a whole version (`WholeFile`); fresh entries, in memory and on disk after any crash, fit the file, and nothing is left unsaved (`IndexFits`); evictions hold (`EvictionHolds`); success means the server's version is there (`SuccessIsCurrent`) |
| `installer` | two updates from four pairs of lists, two platforms, any installation, a failure or kill anywhere | no replaced file is lost while installing (`OriginalsKept`); what a user is told is what happened (`EndsAsReported`): success is the new version, an error is the old one, added and deleted files apart, if `revert` is not itself disturbed; the updater ends (`UpdaterEnds`) |
| `installer_lost` | expected violation | a failure in `removeBackups` makes `revert` delete files |
| `updatechecker` | two list loads and two checks, all orders of user, network and events | an offer is for the repository that was asked and no check is made unasked (`OnlyWhatWasAsked`); a callback finds a null job only if a modal dialog ran the event loop (`NullOnlyByDialogs`); a begun check gets its answer (`ChecksReport`) |
| `updatechecker_stuck` | expected violation | a failed check leaves `m_updateChecking` set |
| `accounts` | two accounts of one or two names, two tokens, a save that fails, a progress signal | an online session was accepted in this login (`OnlineIsAccepted`); a token comes with a profile (`VerifiedHasProfile`); only an answer to an account's own request logs it out, a refusal or one that is not what the flow expects, or a restart after a save that failed (`NoLogoutUnasked`); any other restart keeps accounts, tokens and the default (`RestartKeepsAccounts`); each request ends, however its progress restarts the timer (`LoginEnds`) |
| `profile` | Forge and two jar mods, two versions, a file that refuses or is torn, Forge's file broken and mended by hand | what the list shows is on the disk (`ListIsOnDisk`); what was removed does not come back (`NothingComesBack`); what was written loads with the saved order (`LoadsUnlessDamaged`); the order is the user's (`OrderIsTheUsers`) |
| `game_update` | two updates, failures and crashes anywhere | a game that starts has its files (`GameIsReady`); an end (`UpdateEnds`) |
| `game_update_empty` | expected violation | an object that two names share is emptied by its second download |
| `launch` | two launches, all settings, a profiler for the first | the flag covers everything that runs (`RunningWhileBusy`); an open console or main window means that it is over, and the one way into a deleted console (`ConsoleIsSafe`); a launch ends (`LaunchEnds`), a kill ends it (`KillEndsLaunch`) |

One passing run of each module checks its `TypeOK`. Some properties are conjunctions: `IndexFits` of
`FreshEntryFits`, `SavedIndexFits`, `NothingForgotten`; `EndsAsReported` of
`ScriptIsSane`, `RevertRestores`, `SuccessInstalls`, `ErrorReported`; `OnlyWhatWasAsked` of
`OfferIsAsked`, `NoUnaskedCheck`; `ConsoleIsSafe` of `OverMeansOver`,
`CrashNeedsAutoClose`.

Every property of a passing run has a mutant in its module (an operator named
after the one it changes, with a suffix): put in place of that operator, it must
make TLC find the property violated. The mutants are listed in `PROJECT.json`.


## 4. Bounds

- `NetJob`: `InitialParts = 3`, `MaxParallel = 2`: the least with which parts
  run in parallel while another waits; the code has 6. `MaxFailures = 3` is the
  code's. With mirrors `InitialParts = 2`, `Injected = 2`, `MaxFailures = 1`: one
  retry already sends a part through the queue again, and two injected parts can
  end in either order. The theorems hold for all values.
- `MetaCache`: `MaxVersion = 2`: the server changes once, which is enough for an
  entry, a file, a reply and a saved record to be of different versions.
  `MaxStarts = 3`: a failure, a redirect and a success in one download (the code
  starts a download four times and follows redirects without limit). `Objects` has
  one more element than there are downloads, which is all that can be pointed to.
- `SelfUpdate`: four paths, of which 3 is the updater, and four pairs of lists:
  two files in either order of the map of backups and one to delete; a list with
  the updater; an entry with two sources. Any of the files may be there, old or
  new. `MaxUpdates = 2`: the second finds what the first left. `MaxShort = 1`: one
  download of an update may be cut short.
- `UpdateChecker`: `MaxLoads = 2`, `MaxChecks = 2`: a list job and one that
  replaces it, a check and one that could. Besides the settings and the results,
  one other modal dialog may be open. The bounds stop the user, not the handlers.
- `Accounts`: two account objects, which may have one name or two, since
  `findAccount` and `setActiveAccount` go by the name; `MaxTokens = 2`: one
  account logs in and refreshes, or two log in. `MaxFaults = 1`: a save that fails, with
  saves that do not before and after it. `MaxSignals = 1`: the timer is started again
  once, before or after it has run out.
- `Profile`: a loader and two jar mods (two that may change places, and one
  whose order number is fixed), two versions of Minecraft, `MaxFaults = 1`: an operation in
  which a file refuses or is torn, or an edit that breaks one; mending it is not counted.
  `MaxOrder = 102` is the number of the second jar mod. The jar mods are symmetric.
- `GameUpdate`: three assets of which two share an object, one more than
  `MaxParallel = 2` lets run; one retry; one write that is cut short;
  `MaxUpdates = 2`; two FML libraries, so that copying can stop between them; one
  injected library.
- `Launch`: `MaxLaunches = 2`: a launch while the console, the profiler and the
  deferred deletion of the first are still there. All eight settings.


## 5. Fairness, deadlock

- `NetJob`: weak fairness of the start, of the delivery of the posted call, of
  the calls in progress (a C++ call returns, its actions are finite) and of the
  network as a whole: Qt ends every reply with `finished()`. No fairness between
  replies is needed.
- `SelfUpdate`: jobs report, MultiMC quits (`MultiMC::installUpdates` ends in
  `quit()`) and the updater runs. Nothing is assumed about failures and kills,
  or about the user.
- `UpdateChecker`: downloads end, the event loop runs, and the user closes modal
  dialogs. No fairness for requests.
- `Accounts`: that time passes (`TimePasses`: a timer that runs expires unless it is
  started again) and that the signal of a timer that has expired is delivered
  (`Timeout`). The server may never answer. That a reply's progress does not restart the
  timer for ever is the bound `MaxSignals`: a reply has an end.
- `GameUpdate`: some step of the task is taken: jobs report and replies end.
- `Launch`: code runs on; the user answers a dialog that is open; a game that
  plays or was killed ends, as does one that has read its word. Strong fairness
  for events (commands, checks, ends, deletions), since a dialog may open and
  close between two chances to deliver one. Nothing is assumed of the kill
  button, the console's close button, or of a profiler that does not speak.
- `MetaCache` and `Profile` have no liveness properties: redirects have no limit,
  and the operations of a profile are single steps.

Deadlock is not checked in `NetJob`, `SelfUpdate`, `UpdateChecker` and `Launch`
because each does stop: a job that is done, and models whose bounds are used up
or whose program has crashed. In the other runs it is checked.


## 6. What is proved

Nothing is assumed but the assumptions the modules make of their constants
(`NetJobAssumption`, `MetaCacheAssumption`, `GameUpdateAssumption`,
`LaunchAssumption`, `InstallerAssumption`, `SelfUpdateAssumption`, `CheckerAssumption`,
`AccountsAssumption`, `ProfileAssumption`): numbers, paths and client tokens are natural, sets that are
counted are finite, updates are pairs of lists of paths and entries, mirrors are
initial parts, Forge's libraries are libraries, a null pointer is no job and no
channel, the empty name is nobody's, a jar mod's id (`org.multimc.jarmod.` and a uuid)
is none of Minecraft, LWJGL and the loaders, and the bound on order numbers is no lower
than the installers' own, 5 and 10. Some theorems have a hypothesis more, which the
table gives: no parts that are added twice (`NoPartTwice`: every mirror list has a usable
line, or no part injects others), no injected parts, or no downloads of a path that
overlap.
The proofs use no fairness, and the library's facts on sequences, finite sets and
least numbers.

| module | theorem | establishes |
|---|---|---|
| `NetJob_proofs` | `TypeCorrect` | `[]TypeOK`: every index in a set, queue or call of the job is one of its parts, and no failure count passes `MaxFailures`, if `NoPartTwice`, as in the next five |
| | `PartitionCorrect` | `[]SlotsPartitioned`: a part is in exactly one place |
| | `RetriesCorrect` | `[]RetriesBounded`: at most `MaxFailures + 1` starts, and given up only after that many |
| | `ParallelCorrect` | `[]ParallelLimit` (which no run lists) |
| | `VerdictCorrect` | `VerdictJustified`: the job reports only when every queued part is settled, and says whether any has failed |
| | `SettlesCorrect` | `[]VerdictSettles`, with any number of injected actions, none of them added twice |
| | `BatchCorrect` | `ImplementsBatch`, if no part injects others (`Mirrors = {}`, as in the run `netjob`) |
| `MetaCache_proofs` | `TypeCorrect` | `[]TypeOK`, for any number of downloads at once |
| | `WholeCorrect` | `[]WholeFile`: the target is a whole version, the user's text, or empty |
| | `EvictionCorrect` | `[]EvictionHolds` |
| | `RememberedCorrect` | `[]NothingForgotten`, for any number of downloads |
| | `FitsCorrect` | `[]IndexFits`, if `Downloads` has one element, as in the run `metacache` |
| | `CurrentCorrect` | `SuccessIsCurrent`, if `Downloads` has one element |
| `SelfUpdate_proofs` | `OriginalsCorrect` | `[]OriginalsKept`, for any paths, lists, failures and number of updates |
| | `RevertCorrect` | `[]RevertRestores`: after an exception every path is as before, but for added files, which may be there, and deleted ones, which are gone |
| | `ErrorCorrect` | `[]ErrorReported` |
| | `TypeCorrect` | `[]TypeOK` |
| | `ReportCorrect` | `[]EndsAsReported`: also that the script is sane and that a success is the new version |
| `UpdateChecker_proofs` | `TypeCorrect` | `[]TypeOK`: an event in the queue is for a job that exists |
| | `AskedCorrect` | `[]OnlyWhatWasAsked`, for any channels, lists, faults and number of checks, at any depth of dialogs |
| | `NullCorrect` | `[]NullOnlyByDialogs` |
| `Accounts_proofs` | `TypeCorrect` | `[]TypeOK`, for any names, accounts, tokens, signals and failed saves |
| | `OnlineCorrect` | `[]OnlineIsAccepted` |
| | `ProfileCorrect` | `[]VerifiedHasProfile` |
| | `LogoutCorrect` | `NoLogoutUnasked` |
| | `RestartCorrect` | `RestartKeepsAccounts`, however many saves failed before the last |
| `Profile_proofs` | `TypeCorrect` | `[]TypeOK`: also that no patch is twice in the list |
| | `ListStaysOnDisk` | `[]ListIsOnDisk`, for any loaders, jar mods, versions, faults and edits |
| | `LoadsWhatItWrote` | `[]LoadsUnlessDamaged` |
| | `RemovedStaysRemoved` | `[]NothingComesBack` |
| | `OrderStaysTheUsers` | `OrderIsTheUsers` |
| `GameUpdate_proofs` | `TypeCorrect` | `[]TypeOK`, with the limit of attempts of an asset |
| | `VerdictCorrect` | `[]OneVerdict`: an update reports once (no run lists it) |
| | `ReadyCorrect` | `[]GameIsReady`, for any libraries, assets, sharing and limits |
| `Launch_proofs` | `TypeCorrect` | `[]TypeOK`, for any number of launches and any depth of nested calls |
| | `RunningCorrect` | `[]RunningWhileBusy` |
| | `ConsoleCorrect` | `[]ConsoleIsSafe` |

*`NetJob_proofs`.* All of it supposes that no part is added twice (`NoPartTwice`): a
part that is added again reports to its last slot, and its first one is in no set that
says so. `NoAgain` turns the hypothesis into what
the proofs use: no call on the stack is about to add a part again. `TypeOK` is inductive once it is split into the slots, the
status and the stack; the only step that adds an index is `AddNetAction`
(`SlotAdded`). `SlotsPartitioned` is not inductive: before the job is started
nothing is known of its sets, so `Pristine` says that they are empty. It is then
inductive because a report reaches a slot only while its part is connected, and
the slot disconnects it: that is how a doubled report does no harm.
`RetriesBounded` needs the strongest invariant, `IInv`: a start is counted when
`start()` runs but a part counts as running from the moment it is dequeued. The
gap is closed by `OnlyTopStarts` (a call of `start()` is always the innermost
one, so at most one part is pending) and `StartsCounted`, which ties `starts` to
`failures` by the place the part is in. `ParallelLimit` follows from the guard of
the loop and the finiteness of `m_doing`; `VerdictJustified` from the partition
at the only step that emits. `VerdictSettles` is about jobs that report too early:
`Reported` says that whenever nothing is queued or counted as running, and no call
of `startMoreParts` is due, the last such call has reported, and that the result
it left is the one of the parts; `Task::emitFailed`, which has no guard, is what
corrects a success told too early. The refinement is the opposite case: without injected actions `connected` lies in
`m_doing`, calls of `startMoreParts` do not nest, and after the report nothing is
left to do (`Counted`, with `Quiet` for the calls still on the stack); then
`StartPart` is a `Try` of the batch, the two slots are a `Settle` (or a stutter,
for a failure that is retried), `Finish` is the one `Report`, and all other
actions stutter.

*`MetaCache_proofs`.* The file is replaced only by a commit, so `WholeFile` needs
to know what a save file holds at that moment. `DownloadsSound` says it for each
download: while it waits for a full reply the buffer is the first `got` chunks of
that reply's body, the entry it holds is an object of the cache, and a download
that waits or may start again holds an object, so that the cache never hands it
out a second time (`MetaCacheAssumption` has more objects than downloads, so
`resolveEntry` always finds a free one). That each `start()` makes a new save
file is what makes it inductive; nothing is needed about the other downloads.
`EvictionHolds`
needs the types only: the one step that makes a listed entry fresh again without
a download would be `Load`, and `SaveNow` has left the stale entry out.

`NothingForgotten` is inductive with `SavedOne` (the index has one record of a path at
most), which `Load` needs. `IndexFits` and `SuccessIsCurrent` need the argument of
HTTP caching itself, `FInv`, and it holds only while downloads do not overlap. An entry
`Fits` the file if an md5 of a version comes with the etag of that version (`SumFits`,
so that changing the file never makes a wrong entry acceptable: `FitsOutdated`) and an
entry that `resolveEntry` would accept has the etag of the content. A download must keep
that when it succeeds, so `AttemptSound` follows it from its request: a 200 is for a
version newer than the tag it sent, and the digest, which is never reset, ends in the
body it has read (`DigestGrows`, `DigestIs`); a 304 is for the tag it sent and can only
come while the digest has seen no version, because a version that was read is newer than
the tag. `Held` says that the entry it was made with is blank or the unmodified one of
the file: so a 304 that commits nothing confirms what the file holds. The error
in the code (a 304 after an attempt that wrote) leaves an empty file, which is why
`SuccessIsCurrent` leaves it out and `Fits` does not speak of empty files.

*`SelfUpdate_proofs`.* `OriginalsKept` is not inductive: that a backup may be
overwritten at the place `bakMove` is right only if the file that is moved is still
the original. `TrySound` says for every file of the script what has been done with
it, by its position and the place of Main: those after `k` are untouched, those
before `k` are put in and their originals backed up and registered, and the one at
`k` is what the place says (`Handled`). That the script names no path twice
(`Sane`, which `ScriptIsSane` checks for the server's lists) is what keeps the step
on one file from disturbing another (`TryStep`). When the loop ends this becomes
`CommitSound`, when something throws `RevertSound`: what `revert()` still has to do
has its backup, and the rest is in its place. That needs the entry that is taken
from the map to be one of it (`FirstIn`). `EndSound` carries either to the report. Between runs
`RestSound` says that nothing of the last one is left in the updater's memory; the
`.bak` files may be there, and nothing is needed about them.

`RevertRestores` is also about what is not replaced. `OthersSound` says that outside the
install list every path is as it was before, or was deleted by `uninstallFiles` (`Kept`),
and that what `revert()` works on lies in the install list: so it can neither
bring back a deleted file nor touch any other.

`EndsAsReported` is about the files that the script does not name as well, so a second
invariant, `SInv`, is built on the first. `ScriptSound` says what the script has to do
with the lists: it copies files of the new version only, none of them an updater, and
deletes none of them, and sane lists make a sane script. `PlanSound` says that every
file of the new version is in its place, or in the script, or with the job
(`Planned`), and after the job in its place or in the script (`Ready`): a file that
was there when the lists were compared is still there at the end because no step
touches a path that the script does not name (`ReadyKept`). `InstalledSound` and
`RemovedSound` say how far the two lists have been worked off, and that a backup is
still to be removed or gone; at the end of `removeBackups` they give `Success`, which
nothing changes before the observer is told (`SuccessSound`). A failure gives up the
claim, and `failedIn` says so. This needs what `processFileLists` returns: `CopiesAre`
and `DeletionsAre`, from the lemmas on `Select` and on the library's `FlattenSeq`
(`Flattened`: its elements are those of the lists, and it repeats nothing if they
neither repeat nor share anything).

*`UpdateChecker_proofs`.* Two jobs of a kind may exist, since a replaced job lives
until its deletion is delivered, so the invariant is about the queue. `QueueSound`
says of every event that its job is in the state the event supposes, that no event
is there twice, and that only a job nobody holds is being deleted. `ChecksSound`
says that at most one index is awaited or its result shown, that
`m_updateChecking` is set as long, and that the awaited index is that of
`m_newRepoUrl`: this is `OfferIsAsked`. `RequestsSound` says why a check that was
deferred is not made a second time although `m_checkUpdateWaiting` is never reset:
afterwards no list is loaded, or no check waits, or the first was ended by a channel
that is not on the list and left `m_updateChecking` set. `NullOnlyByDialogs` needs
the order of the queue. A job that was replaced and will still report is an orphan
(`Orphans`); as long as no event has been delivered inside a dialog, `Orderly` says
that there is at most one, and that its report comes before the start of the job
that replaced it, so its callback finds that job and not null. Events leave the
queue at its front or with the job they are for; that the rest stays in order is
what the lemma `Selected` says of `Select`.

*`Accounts_proofs`.* An account object is reached from the list, the default, the
launch and the request, and an account that was removed may be active or log in
all the same. `LoginSound` says whose the request is: the dialog's, and then its
account is known to nobody else, or the launch's, and then it is the launch's
account and is only refreshed if it has a token. That is why a good answer to a
refresh, which brings no profile, leaves an account that has one
(`VerifiedHasProfile`), and why the token of an answer is still the session's when
the game starts: the answer has the last token the server gave this account, or
that was revoked (`OnlineIsAccepted`). `FileSound` relates accounts.json to the
list: it can be loaded (`Loadable`), and unless the last save failed (`unsaved`), what
it says of listed accounts is what they are (`Faithful`), the others in
it have no profile and will be skipped, and a whole file misses none and names the
active one (`Complete`). Every change of a listed account saves, or fails to, and
then `unsaved` says so; the next save that succeeds writes the whole list and so makes up
for it (`SnapshotSound`, `SaveSound`, `ChangedSound`). That a login of the dialog does not
save is harmless because its account is not listed. `LoadIs` says what is read from any
file that can be loaded; with `FileSound`, and because an account with a token has a
profile and is therefore not skipped, this gives both action properties. Time and the
signals of a reply change the timer only (`KeepsTimer`).

*`Select`.* Four modules take the elements of a list at given places, and `Sublists`
finds the places by counting: the h-th place is the one that has h of them up to it
(`Nth`). So no recursion is needed to say what is selected, and none to prove that it is
these elements in their order (`NthIs`, `Selected`): the count is an injection of the
places into 1..n, and so a bijection, by the library's facts on cardinality. The proof
stands at the head of each of the four modules of proofs that need it.

*`Profile_proofs`.* `ListIsOnDisk` compares the list with what `Load` would return, so the
first half of the module says what that is: `LoadedIs` for any files (a list of patches,
each as its file says, nothing twice; and if nothing failed, `Complete`: all the files,
the builtins first), and `SavedIs`, the heart of it: a complete list is what a load
returns once the list's own order is saved. Lists are compared by what is shown of them
(`Looks`, `Reflects`): a patch that order.json names has a number in its file and
none in memory. An operation that ends in `ApplyAndSave`
therefore keeps `ListIsOnDisk` if it keeps the list complete (`TakenOut`, `Exchanged`,
`JarsAdded`), and one that loads again because its list is the one that was loaded (`Reloads`,
`LoadsAndSaves`);
one that fails half-way gives up the claim. `LoadsUnlessDamaged` must hold in those
states too, so the inductive invariant `IInv` does not ask it of the loads but of the
files: none is broken, and no two that order.json does not name have the same number
(`Loadable`); every file is in the list, those that order.json does not name with their
numbers (`Lists`). Only those files matter, since order.json comes first; the others may share numbers, and a load
without order.json is not claimed to succeed. Most operations save the order of a list that has every
file, and then there is no file left that order.json does not name (`SavedLists`). An
installer saves nothing, so it needs that its number is not taken (`LoaderWritten`), by
`FilesNumbered`: loaders have their own numbers, and jar mods get numbers above 100.
A successful load has checked the files again (`LoadsLoadable`). `Loadable` and `Lists` are only
claimed until a file is `damaged`; the other parts always hold. `NothingComesBack` follows
from `Lists`. `LeftIs` says that a list from which patches are taken out still has every
file that is left, whichever of the removals failed.

`OrderIsTheUsers` is an action property proved from the same
invariant. `LoadOrder` says which of two patches a load puts first (`Comes`: by
order.json, then those it names, then by number). Since no operation changes the number
of a file that stays (`NumbersKept`), a swap needs a new order file (`SwapIsSaved`); a
saved order is that of a list (`SavedOrder`), and this list was either loaded with the
old order (`SwapIsNotLoaded`) or is made of the one on the screen, in its order
(`Within`). A legacy Forge is the exception that the property makes: the saved order is
that of the list without it (`InstallLegacyKeeps`: all the others keep theirs).

*`GameUpdate_proofs`.* `GameIsReady` speaks of the end of a chain, so the
invariant says at each link what the links before it have done (`ChainSound`:
from the FML step on the libraries and the jar are there, from the index step on
the FML libraries, in the assets' step the index). For the assets it says by the
state of a part what its object may be (`AssetsSound`): an object that no
unfinished part is responsible for is whole, was cut in this update, or is
shared. `PartsRest` says that outside the assets' job no part waits or runs. A
crash throws the chain away, which is why nothing about earlier updates is
needed: each update looks at the files again. `OneVerdict` is the guard of
`emitSucceeded`, with `m_running` tied to the number of reports (`TaskSound`).

*`Launch_proofs`.* `RunningWhileBusy` and `ConsoleIsSafe` are about processes,
but a process changes because a call on the stack goes on, so the invariant
(`IInv`) is mostly about the stack. `StackSound` says that at most one call is a
handler of a process (`arm` or `finish`), that it belongs to the last launch, and
what its place says of that process: except at the very end of `arm` the console
is locked and no game exists, and until the last lines of `finish` the instance
is marked as running. All other calls are dialogs, and a kill dialog belongs to a
console that is there or that went by itself after a clean exit (`KillSafe`).
`ProcsSound` says that all launches but the last are over, which is so because
`WindowSound` keeps the main window, the only place to launch from, hidden until
the last console is gone. The nesting of event loops matters most where `finish`
is called: it cannot meet another handler, because a game that has ended exists,
so `arm` could only be at its end, where it waits in no loop. There is one lemma
on chains that fit for each way in which an action changes the stack
(`FitsHandler`, `FitsReturn`, `FitsDialog`, `FitsRelabelled`).


## 7. What only TLC checks

- Liveness: `JobFinishes`, `EveryPartSettles`, `UpdaterEnds`, `ChecksReport`,
  `LoginEnds`, `UpdateEnds`, `LaunchEnds`, `KillEndsLaunch`. Reasoning about
  fairness and `ENABLED` is out of the prover's reach.
- Nothing is proved where a theorem's hypothesis (§6) fails: for a batch
  whose parts inject others, parts that are added twice, and `IndexFits` and
  `SuccessIsCurrent` for two downloads of one path. The runs meet the hypotheses, but for
  `netjob_mirrors`, which also adds parts twice: there TLC checks `VerdictSettles`. With two
  downloads a late 304 may give its etag to the data of the other (§8).

Every invariant and action property of a run that passes is stated by a theorem.


## 8. Disagreements found

Each of these is a run that ends in a counterexample; `PROJECT.json`
quotes the line of the repository that says otherwise.

- `installer_lost`: `removeBackups` runs in the try block and keeps its entries,
  so `revert` deletes files whose backups are gone.
- `updatechecker_stuck`: only a processed index resets `m_updateChecking`.
- `game_update_empty`: an asset that two names share is truncated by its second
  download, which is then told that nothing has changed.

Seen while modelling, and part of the models, without a run of their own (paths below `src/`):

- `logic/net/NetJob.h:48`: an action added to a running job does not enter
  `m_doing`, so the job may report success before it (hence `VerdictSettles`).
- `logic/forge/ForgeMirrors.cpp:89`: a mirror list without a usable line injects the
  parts of the fixed list, and then the same parts again. They report under their second
  index only; the first is never settled, and if it has entered `m_doing` the job
  never ends (`AddedTwice`: without that exception TLC finds `EveryPartSettles` violated).
- `logic/net/CacheDownload.cpp:135`: `wroteAnyData` survives a failed attempt; a
  304 then commits an empty file (`SuccessIsCurrent` leaves the case out).
- `logic/net/CacheDownload.cpp:163`: with two downloads of one path, a late 304
  gives its etag to the other's file.
- `logic/net/HttpMetaCache.cpp:143`: an eviction is lost in a crash within 30
  seconds (`EvictionHolds` is about restarts that save).
- `mmc_updater/src/ProcessUtils.cpp:99`: on Unix `waitpid` of a process that is
  not a child returns at once, so nothing waits for MultiMC (`WaitForApp`).
- `logic/updater/GoUpdate.cpp:184`: a copy for each source, where the comment
  says the first; the second copy removes the backup of the original (`Sane`).
- `logic/updater/DownloadTask.h:64`: `m_keepLocalUpdater` is never initialised.
- `mmc_updater/src/UpdateInstaller.cpp:263`: `revert` restores what was replaced; files
  that the update has added stay, half-written ones included, and those that
  `uninstallFiles` (:333) has deleted are not put back, although `mmc_updater/README.md:26`
  says "rolled back to its previous state" (`RevertRestores` names both).
- An update that follows a killed one takes the `.bak` of the first for an old
  backup and removes it.
- `logic/updater/UpdateChecker.cpp:204`: the callback of a replaced list job
  reads, and drops, the job that replaced it; a deferred check can be lost.
- `logic/BaseProcess.cpp:298`: a pre-launch command that cannot be started leaves
  the instance marked as running (`PreLaunchFailsToStart`).
- `logic/auth/YggdrasilTask.cpp:157`: an empty answer, and one without a client token
  (`RefreshTask.cpp:71`, `AuthenticateTask.cpp:82`), is a hard failure and drops the token,
  although the server has refused nothing (the answer "odd", which `NoLogoutUnasked`
  allows).
- `logic/auth/MojangAccountList.cpp:81`: removing the active account leaves
  `m_activeAccount`, so a launch may still use it.
- `logic/auth/MojangAccountList.cpp:397`: the account file is written in place; a
  death within the save loses every account (`TornSave`).
- `logic/auth/MojangAccountList.cpp:351`: a save that fails is reported to nobody: the
  callers ignore what `saveList` returns (`Save`).
- `logic/minecraft/OneSixProfileStrategy.cpp:388`: a write that is cut short is not
  noticed and leaves a file that does not load (`Written`).
- `logic/minecraft/MinecraftProfile.cpp:482`: a patch that order.json names has order 0 in
  memory, so the number of its file is given to a jar mod that is installed after a
  restart. When the order is reset, the two do not load: "has the same order"
  (`OneSixProfileStrategy.cpp:187`). `LoadsUnlessDamaged` is about the saved order and counts
  that reset as damage.
- `logic/forge/ForgeInstaller.cpp:312`: a legacy Forge that is installed again goes behind
  the user's patches (`InstallLegacy`).
- `logic/minecraft/MinecraftProfile.cpp:223`: `revertToVanilla` stops at a
  customized builtin and removes nothing.


## 9. Not modelled

Small parts with some control that are left out: `SequentialTask` and
`ThreadTask` (a list of tasks, a task in a thread), `JavaCheckerJob`,
`ByteArrayDownload` and `ForgeXzDownload` by themselves (NetJob sees their
reports; a write error in `ForgeXzDownload` makes none, which would make
`JobFinishes` false), `LegacyUpdate`, `reconstructAssets`, `FTBProfileStrategy`
and the upgrade of `custom.json`, settings with their override gates, and
instance groups. In these one call follows another in one thread, nothing is
interrupted, and the hazard is in the text of the files.

Left out for good: the merging and parsing of version files, version feeds and
INI text, directory listings, widgets, Java detection, the Java helper, and the
vendored libraries. They are data transformations or display; what they do is
decided by their input or by the platform, not by an order of events. They are
also most of the repository (the vendored libraries alone are more than half of
its lines), so the share of all lines that the modules map is small although
nearly all of the asynchronous code is mapped.


## 10. What could come next

- The two-downloads hazard as a composition of `NetJob` and two `MetaCache`s,
  once the code gives a reply's etag to the data it came with.
- `ForgeXzDownload` and `ByteArrayDownload` beside the `MD5EtagDownload` of
  `GameUpdate`, with the parts that do not report; settings (suspended saves,
  gates) as a small sequential module.
