# A TLA+ model of go-sysproxy

go-sysproxy changes the proxy settings of a machine: the environment of the
process, the user's start-up files, the settings of the desktop or of the
operating system, and those of a few tools. `WithProxy` changes them for the
time of a function and puts them back. This directory holds TLA+ modules
translated from that code, the TLC runs that check them, and proofs that TLAPS
checks.

Run everything from this directory:

    tlc -config WithProxy.cfg MCWithProxy.tla     (and the other runs)
    tlapm WithProxyProofs.tla                     (and the other *Proofs.tla)

`PROJECT.json` maps every definition to the lines of code it stands for, and
lists the runs, the hazards, the findings and the theorems. For every checked
property it also names one *mutated form* of a definition (an operator like
`UnsetGlobalEarly`, placed before `UnsetGlobal` and marked "Mutant"). It changes
the definition as a plausible bug would, and TLC finds the property violated
with it. No specification uses these operators.

## 1. Inventory: the parts of the system

| part | files | state | operations |
|---|---|---|---|
| Set calls and `WithProxy` | `sysproxy.go`, `env.go`, `backend_util.go`, `context_helpers.go` | process environment; a saved state per open call | `Set`, `SetMulti`, `SetPAC`, `Unset`, `WithProxy`, `WithProxyMulti`, each for one of three scopes |
| errors | `errors.go`, `backend_util.go` | none | wrapping as a warning, as a privilege problem; joining, flattening |
| Linux backend | `sysproxy_linux.go`, `kde_linux.go` | GNOME keys, KDE keys | set, unset, pac, multi, get, snapshot and restore |
| `/etc/environment` | `etcenv.go`, `sysproxy_linux.go` | one file; `fileMu` | set, clear, snapshot and restore |
| atomic writes | `fsutil*.go` | files, temporary files, modes, owners; `fileMu` | write through a temporary file, or in place |
| managed blocks | `managedblock.go` | lines of a file | find, replace, merge, remove, legacy lines |
| start-up files | `rcfile_unix.go`, `managedblock.go` | `~/.profile`, `~/.bashrc`, `~/.zshrc`, ...; `fileMu` | apply, remove, snapshot, restore, file after file |
| macOS backend | `sysproxy_darwin.go` | settings of each network service | the backend operations with `networksetup` |
| Windows backend | `sysproxy_windows.go`, `winapi_windows.go`, `windows_parse.go` | registry, Credential Manager, WinINET, PowerShell profiles | the backend operations |
| tool configurations | `appconfig.go` | settings of git, npm, curl, wget, pip | write and clear per tool |
| command line | `cmd/sysproxy/main.go` | none | one library call per command, exit codes |
| tool execution | `sysexec*.go` | none | lookup in trusted directories, run under a context |
| sudo, check, validation, logger | `sudo.go`, `check.go`, `validate.go`, `helpers.go`, `logger.go` | none | warnings, a dial, parsing, output |

How they interact: a Set call first writes the environment (scope shell), then,
for the user or global scope, hands over to the start-up files or to the OS
backend. `WithProxy` takes a snapshot of the same three parts, applies, runs
`fn`, and restores in a deferred function under a context of its own. The
backends run external tools, each of which can fail alone; what went wrong is
collected and joined, and its class (hard, warning, missing privilege) decides
what the caller, `WithProxy` and the command line included, does next. Start-up
files, `/etc/environment` and the files of the tools are edited under the
process-wide mutex `fileMu` and replaced by `writeFileAtomic`; other processes
are not kept out, and one restore does not take the mutex.

What is hard, and what makes each part correct:

- **WithProxy**: it may be nested, run in parallel, be cancelled, hang in a
  tool, panic, or fail in any part of its snapshot, change or restore. It is
  correct when every setting of its scope is back or its error says otherwise,
  and when any nesting of calls leaves no trace.
- **Errors**: warnings are "success with a remark", so a warning must not hide
  a failure, and a failure not be made of a warning.
- **Linux backend**: some twenty commands per operation, two desktops with
  different habits, writes that get lost without a session bus, an
  unprivileged `/etc/environment`. It is correct when success is the truth,
  when a restore is exact, and when what it could not change is not complained
  about.
- **`/etc/environment`**: an administrator's file that everybody can read. No
  login may reach it, and what the administrator wrote survives every set and
  clear, whoever else writes the file at that time.
- **Atomic writes**: whatever system call fails and whenever the power goes,
  a reader finds the old text or a new one, and no temporary file stays.
- **Managed blocks**: files are the user's; they may be damaged, contain
  several blocks, `\r\n`, or no final newline. Correct: one block out of any
  file, the user's lines untouched, the write-back undoes the write.
- **Start-up files**: which files exist decides which are written; one of them
  fails and the others go on; goroutines, the user's editor and a crash come in
  between. Correct: nothing of the user's is lost, `Unset` finds everything,
  the restore is exact, no new file shadows an old one.
- **macOS backend**: about ten commands for each network service, of which
  some switch on what they were only meant to fill; services come and go.
  Correct: success is the truth on every service, a restore puts back what was
  there and rewrites nothing else, and `get` tells what is in use.
- **Windows backend**: the values of the registry, what running applications
  have read of them, and logins that Credential Manager shares with other
  programs must agree; WinINET may write an old proxy back. Correct: success is
  the truth and reaches running applications, the restore is exact, logins of
  others are kept and temporary ones go.
- **Tool configurations**: two commands or edits per tool, and files with
  sections, comments and spellings of the user's. Correct: the tool reads what
  was written, and the user's other lines stay.

Every hazard is listed at its line in `PROJECT.json`, with the properties that
cover it or the reason why none does.

## 2. Modules

| module | what it is |
|---|---|
| `ProxyErrors` | error values as sets of classes; used by all backends |
| `ProxyContract` | abstract specification: what `WithProxy` promises |
| `WithProxy` | `withState`, the snapshot, the change and the restore, key by key; implements `ProxyContract` |
| `BackendContract` | abstract specification: what a backend promises to the Set calls and to `WithProxy` |
| `LinuxBackend` | the commands of the Linux backend and what they leave behind |
| `LinuxContract` | what each operation asks for; how `LinuxBackend` implements `BackendContract` |
| `DarwinBackend` | the commands of the macOS backend, service by service |
| `CommandLine` | what the command line prints and exits with; extends `DarwinBackend` |
| `WindowsBackend` | registry, Credential Manager and WinINET |
| `FileContract` | abstract specification: what a reader of a file may see |
| `AtomicFile` | the system calls of `writeFileAtomic`; implements `FileContract` |
| `EtcEnvironment` | `/etc/environment` and `fileMu`; extends `AtomicFile` |
| `Lines` | dropping lines, which `ManagedBlock` and `AppConfig` do in many places |
| `ManagedBlock` | the functions on the lines of a file |
| `BlockFiles` | every file of some length, and what these functions promise of it |
| `RcFiles` | the operations on start-up files; extends `ManagedBlock` |
| `AppConfig` | write and clear for git, npm, curl, wget and pip |
| `WithProxyProofs`, `LinuxBackendProofs`, `DarwinBackendProofs`, `WindowsBackendProofs`, `EtcEnvironmentProofs`, `RcFilesProofs`, `AppConfigProofs`, `LinesProofs` | the theorems of the modules they are named after; `DarwinBackendProofs` has those of `CommandLine` too, `EtcEnvironmentProofs` those of `AtomicFile`, `RcFilesProofs` those of `BlockFiles` |
| `MCWithProxy`, `MCLinuxBackend`, `MCCommandLine`, `MCWindowsBackend`, `MCEtcEnvironment`, `MCManagedBlock`, `MCRcFiles`, `MCAppConfig` | instances for TLC |

**WithProxy.** `store` is every setting a call can reach: environment
variables, blocks in the user's files, settings of the backend. The variable
`phase` is the place in `withState`; `todo` is what the loop under way still
has to read or write; `saved` is what the snapshot closures captured. The
backends differ in what a key is, not in the loop: each setting is read or
written by itself and may fail by itself (`ApplyFails`, `RestoreFails`), a tool
started under an ended context fails (`FailsForContext`), the restore of some
settings may fail with no more than a line in the log (`Unreported`: on Windows the
removal of a value that was not there, `regBatch.try`), and the macOS and
Windows backends can give up before their first setting (`ApplyAborts`). `fn`
is any code: it may write any key and call `WithProxy` again (`FnWrite`,
`Begin` while the outer call is in `fn`). `OneGoroutine` chooses between nested
calls (a stack) and calls in goroutines of their own. The environment is
written in many steps although `setEnvVars` cannot be interrupted; this only
adds behaviours.

**ProxyContract.** A call is idle, saving, open, closed. While it saves, nothing
changes; a refused call changes nothing; when it closes, every key of its scope
that is not in `lost` is as before; and if anything is lost, the verdict is a
failure or a panic. The doc comment makes no exception from this; the backends do,
so the contract has one: of the keys in `Unreported` a call may lose some and
return nil (see section 5). `WithProxy` maps `phase` to `status`, `failed` to `lost`,
and the final error to `verdict`; the property `KeepsContract` is the
specification of the contract under this mapping.

**ProxyErrors.** `errors.As` looks through a whole tree of joined errors, so a
tree is the set of classes found in it. `nil` is the empty set.
`StepsFinish` is `steps.finish`, with its two odd cases: a hard failure
flattens the `/etc/environment` error, and without a desktop every such error
is hard.

**LinuxBackend.** An operation is a program: the sequence of commands that
`setGlobal`, `unsetGlobal`, `setGlobalPAC`, `setGlobalMulti` or the restore
give, in the order of the code. `CommandWorks`, `CommandFails` take one
each; when the context of the operation ends, all that remain fail (`Cancel`).
Then `/etc/environment` is written (`Finish`, `FinishEtcFails`, for want of
permission or any other reason, also when it was only to be read). `sys` is the
machine: the desktops, root or not, sudo or not, whether the session bus may go
away, and whether the probe for GNOME may fail. `gnomeUsable` is asked again by
every operation, as in the code. `Get` and `GetConfig` are the operators
`GetGlobal` and `GetGlobalConfig` on the stored values, and `SuccessMeansDone`
asks for what they return.

**BackendContract, LinuxContract.** In the contract an operation is a goal: a value
for every setting, which for most is the one it has. While the operation is under
way settings may be given their goals, one at a time and in any order, and nothing
else ever happens to them; it ends with "ok" only if all are there, with a warning
if all but those in `Aside` are, with a failure anywhere. A restore has what the
snapshot saw for its goal. `LinuxContract` says of each operation what it asks of
each key (`Want`, `EtcWant`), by what it is for and without regard to commands and
their order; `Aside` is `/etc/environment`, and `lossy` are the GNOME keys but the
mode while there is no session bus. This is more than `SuccessMeansDone` and
`RestoreIsExact`, which look at the end of an operation: a `set` that cleared a host
before it wrote it, and failed in between, would pass both.

**DarwinBackend.** The same form, once more inside a loop over the services:
`served` are the services `Start` (or the snapshot) listed, `todo` those still
to come, `current` the one that is worked on, `prog` the commands left for it.
`IsNext` takes the services in the order of the list. `Effect` is what
`networksetup` makes of a command, with its habits: `-set...proxy` and
`-setautoproxyurl` switch on, and the authentication flag changes only when
told. `Run` and `Try` are the two methods of `nsBatch`. `NowUnreadable` is the
restore's "cannot read, so write"; `Toggle` is the user who enables or disables
a service between two operations.

**CommandLine.** `set`, `unset` and `pac` are operations of `DarwinBackend`, whose
`result` `ExitCode` translates. `get` changes nothing and is no action:
`GetPlain` and `GetJSON` give the answer for a service and a set of reads that
fail, and the properties quantify over all of them in every state.

**WindowsBackend.** `reg` is the four registry values, `live` what running
applications have read of them, `logins` whose entry Credential Manager holds
for a host. The calls of an operation are a sequence again, but of three
kinds: `reg` processes, which stop with the context, and the two APIs, which do
not. `Refresh` is the notification, after which WinINET may write the proxy it
has cached back. `Merge` is `mergeProxyServer`, with the kinds the package does
not manage.

**FileContract, AtomicFile.** In the contract a path holds a text or none, a
writer asks for a text, puts it there as a whole or gives up, and only where
the directory is not writable a text may be torn. `AtomicFile` has an action
for each system call of `writeFileAtomic` that may fail or be cut off, `safe`
for "synced", `Flush` for the kernel and `Crash` for the process or the power.
Only the wanted texts, the outcomes and the file are seen by the contract.

**EtcEnvironment.** `Lock`, `ReadFile`, `Replace`, the steps of `AtomicFile` and
`Returns` are `writeEtcEnvironment` and `clearEtcEnvironment` under `fileMu`.
`Snapshot`, `StartRestore` and `CompareAndRestore` are `readEtcState` and
`restoreEtcState`, which do not take it. A text is a record of our block,
unmarked proxy variables, the two bypass variables, and other lines: what
`stripEtcOwnedLines` tells apart. An administrator adds lines under the same
mutex, as if other programs were kept out; where they are not, any edit can be
lost, as the comment of `fileMu` says.

**ManagedBlock.** A line is a record of what the code distinguishes: markers,
blank lines, text, the three ways to define a variable, and whether it ends in
`\r`. Quoting is left out. `FindBlocks` is one pass over the lines, as in the
code, line by line with `Scan`. A loop that appends the lines it keeps is
`Without`, the lines but those at the positions it drops. A file without lines
is the empty one: text that is not empty has a line.

**BlockFiles.** A file grows by one line of `Alphabet` per step, so that its states
are all files of at most `MaxLines` lines. The promises are state predicates that
quantify over what may be written (`Bodies`). They refer to `Complete` and `Users`,
which say on positions what a block is and what is the user's, and not to the pass
over the lines.

**RcFiles.** Operations of goroutines, one critical section per file: `ReadFile`
(lock and read), `WriteFile` or `FileFails` (write, unlock). In between,
`UserAdds` is the user's editor and `Crash` the death of the process. The
targets are computed when an operation starts (`RcTargets`, `RemoveTargets`),
as in the code. `applyRCBlock` succeeds when one file was written;
`removeRCBlock` and the restore join all errors. `Restored` removes a file that was
not there before and holds nothing any more, but leaves one that is empty already.

**AppConfig.** `conf` is either a function of keys (git, npm) or the lines of a
file; `doing` is what a call has left to do: one step per command or edit.
`EditKeyValue`, `RemoveKeys`, `EditINI` and `RemoveINI` are the four functions on
lines; `RemoveINI` also takes the options whose names begin with the key
(`Longer`), since `removeINIKey` compares prefixes. `Reads` is the tool: the last line of a key counts, pip only looks into
`[global]` and refuses a key that is there twice. `Name` are the names of keys
and sections; `SettingsOf` says what a tool can have for settings: lines of any
number and kind.

How they fit together: `WithProxy` is about the loop that all backends share
and knows nothing of their keys; each backend module has its own snapshot and
restore, in which an operation of the backend takes the place of the loop.
`AtomicFile` justifies that a file changes in one step in `RcFiles` and
`AppConfig`; `EtcEnvironment` justifies the single value that
`LinuxBackend` has for `/etc/environment`. `BackendContract` is what the
Set calls and `WithProxy` rely on, and `LinuxBackend` implements it.

## 3. Runs

| run | config, module | what it asks |
|---|---|---|
| `with_proxy` | `WithProxy`, `MCWithProxy` | Two calls, one after the other or nested, with one failing read or write and contexts that are cancelled at any moment: is no trace left, whatever of the callers' cancelling, is the contract implemented, also where the restore of a setting may fail without an error, and does every call return although a tool may hang in its restore? |
| `restore_warning` | `WithProxyWarning`, `MCWithProxy` | *violated*: a failed restore and a warning from `fn` |
| `linux_systems` | `LinuxSystems`, `MCLinuxBackend` | On three machines: is success the truth, with the mode really stored, is the restore exact and silent about what it could not have changed, and is the contract implemented: every setting as it was or as asked at any moment, whatever fails? |
| `mac_commands` | `MacCommands`, `MCCommandLine` | Is success the truth on every service, is the restore exact and sparing, and can a script rely on exit codes and output? (Two claims of the README that the code does not keep are left out, see section 5.) |
| `windows` | `Windows`, `MCWindowsBackend` | Is success the truth and seen by running applications, is the restore exact, are logins of others kept and temporary ones removed? |
| `windows_login` | `WindowsLogin`, `MCWindowsBackend` | *violated*: the login of a Set that failed |
| `etc_file` | `EtcFile`, `MCEtcEnvironment` | Is the file's contract kept through failures and crashes, is no login and no temporary file left, do the administrator's lines survive set and clear, and who may write between a read and a write? |
| `block_functions` | `BlockFunctions`, `MCManagedBlock` | The functions on lines against reference definitions, on every file of up to five lines. |
| `rc_session` | `RcSession`, `MCRcFiles` | One goroutine with a `WithProxy` around two operations: are the user's lines kept, does Unset find everything, does Set reach every file, is the restore exact, is no file created that shadows another? |
| `rc_parallel` | `RcParallel`, `MCRcFiles` | Two goroutines: is no update lost, is a file still as it was read when it is written, and is `fileMu` released on every path? |
| `app_config` | `AppConfig`, `MCAppConfig` | Two goroutines: does the tool read what was written, is nothing left after a clear, are other lines kept, but for what a clear for pip takes by its prefix? |
| `app_ini` | `AppIni`, `MCAppConfig` | *violated*: `pip.conf` with a section after `[global]` |

The bounds, and why they are enough:

- **WithProxy**: two calls give both relations the checked specification has
  (one before the other, one inside the other); a third adds deeper nesting,
  which the proofs cover for any number. A call is made once: a program that
  makes a call again is one with one more call. The two settings are one that is
  written directly and one that a tool writes, whose restore may fail without an
  error (`Unreported`): so TLC sees each way to fail, reported or not. There are no
  environment variables and no start-up files, and both calls have the scope
  global; the environment is in the instance of `restore_warning`, and that a smaller
  scope covers less and that the environment goes first on the way in and last on
  the way out is left to the theorems, which hold for any keys and scopes. The
  calls differ in their names only, so one of them is the first to begin
  (`InOrder`). Two values tell "as before" from "changed"; no definition compares
  values of different keys, so they can be renamed key by key and `MCInit` starts
  with one of them everywhere. `MaxFaults = 1`: one failure anywhere; the theorems
  hold without this bound.
- **LinuxBackend**: one proxy of each scheme, one PAC URL, one bypass list, and
  four configurations of `SetMulti` (one kind, two kinds with a bypass list,
  only a bypass list, nothing). `MaxOps = 2`: the second operation meets
  everything the first can leave behind, and with the open snapshot that is
  three programs in a row. `MaxFaults = 1`: one command, one snapshot or one
  write of `/etc/environment` fails; the end of a context makes any number of
  the last commands fail. The desktops are taken one by one, since no command
  is about both: GNOME with root, sudo and a session bus that goes away, KDE
  for a user, and neither. The theorems hold for every machine. A machine with both
  desktops has some three million states; `LinuxTogether.cfg` checks the
  invariants and `TypeOK` there, outside of the runs.
- **DarwinBackend, CommandLine**: two services are a first and a later one, of
  which one may be disabled; each starts clean or with settings that make every
  field of the restore matter. `MaxOps = 2`, `MaxFaults = 1`, `MaxToggles = 1`:
  a service changes once, a command fails or the context ends once, anywhere.
- **WindowsBackend**: two hosts are the old and the temporary one, and logins
  of ours, of others or none exist for both. `MaxOps = 3`: two changes inside a
  `WithProxy` and one after it, or three in a row. `MaxFaults = 1`.
- **EtcEnvironment**: two goroutines, one of which also has a `WithProxy`, and
  the administrator; three calls and restores in any interleaving of system
  calls, of which one fails, and one crash. The file is missing, or has
  variables of all sorts; the directory is writable or not.
- **ManagedBlock**: five lines hold two complete blocks with a line in between,
  and every damaged form of three markers.
- **RcFiles**: two paths of `rcPaths` and the old `~/.zshrc`; the first may be
  missing, empty, of an old version, mixed, only ours, with two blocks, or
  damaged. `MaxTrouble = 1` bounds failing files, edits and crashes together.
  Two operations and the restore are three passes over the files.
- **AppConfig**: every file of up to three lines (header, key and a line of
  another section are three), an option `proxy-login` in `pip.conf` among them, two
  goroutines and three calls, so that two
  overlap and a third comes after. `MaxFaults = 1`.

`CHECK_DEADLOCK FALSE` stands in every config, because every model ends: calls
return, operations are used up, files are of full length.

**Fairness** is assumed in `with_proxy` only (`MCFairSpec`; safety does not
depend on it). It is weak fairness of `Progress(c)` for each call: the goroutine
is scheduled, `fn` returns, tools outside the restore finish (a tool that hangs
there is ended by the caller's context, or the call hangs with it, which the
library does not promise to prevent). Nothing is assumed of tools in the
restore: they may hang for ever, and it is the timer of `restoreTimeout` that
ends them. Every such timer fires in the end.

## 4. What is proved

All theorems hold for every value of the constants, and the bounds on failures,
crashes and operations are arbitrary. Sets of calls, goroutines, values and
paths need not be finite, except the list of macOS services.

`WithProxyProofs` assumes what `WithProxy` states of its
constants: the environment variables, user files and settings are disjoint,
`ByTool` and `Unreported` are subsets of the settings (`KeyAssumption`); `OneGoroutine` is a Boolean
and `MaxFaults` a number (`ModeAssumption`).

- `TypeCorrect`: `Spec => []TypeOK`.
- `Inductive`: `Spec => []IndInv`.
- `NoTrace`: `Spec => []LeavesNoTrace`. Any number of calls, in sequence or
  nested to any depth, leave a key that all of them cover as it was before the
  first one, unless the restore of that very key failed, with or without an error.
- `ExactRestore`: `OneGoroutine` implies `Spec => RestoresExactly`. Each single
  call puts back what it found, whatever apply, `fn` and nested calls wrote.
- `CancelIsHarmless`: `Spec => []CancelLeavesNoTrace`. Callers that cancel their
  contexts, before, during or after the change or in the middle of the restore,
  leave every key that all calls cover as it was, as long as no tool fails and no
  `restoreTimeout` passes. It follows from `NoTrace` and `ResultInv`, which says
  what a failed restore step may have come from.
- `ContractKept`: `OneGoroutine` implies `Spec => KeepsContract`, the refinement
  of `ProxyContract`. An accepted call puts back every key of its scope or ends with
  a panic or an error with a hard part, but for the keys in `Unreported`, of which
  it may have lost some when it returns nil. With `Unreported = {}` it is the
  promise of the doc comment.

The argument: `LeavesNoTrace` and `RestoresExactly` are not inductive, since they speak of the
moment of return only. `IndInv` says why they hold then. `StackInv`: the open
calls are those on the stack, each once, and all but the innermost are inside
their `fn`; so only one call is ever in its snapshot, change or restore.
`SavedInv`: while a call snapshots, nobody writes, so what it saves is what it
found; after that its `saved` never changes; what its restore has dealt with
stays back, since nobody else runs. `OriginInv`: the outermost open call began
with the original store, so its restore leads back there; between calls the
store is the original one. Every action is a step of the running call that
either goes on or leaves the stack (`EveryStep`), and only the second can disturb
`OriginInv`. Without `OneGoroutine` all of this is false (`WithProxyOverlap.cfg`).

For the contract, `ResultInv` adds what the results say: a call whose restore
failed on a key outside `Unreported` has an error from it, of whatever class, and
only a failing tool or the restore's own deadline is to blame. `withState` makes that error a
hard one (`unclassified`) before it is joined, unless `fn` panics.
Then each step maps to one of
the contract or to nothing: a read of the snapshot, a write and every step of
`fn` are writes of an open call or stutter (`SnapshotRefines`, `ChangeRefines`),
and the return closes it with exactly the keys that are lost (`ReturnRefines`,
which takes the values from `SavedInv` and the verdict from `ResultInv`).

`EtcEnvironmentProofs` begins with `AtomicFile`, of which it assumes that the three
special values are no texts and the bounds are numbers (`AtomicFileAssumption`).

- `FileTypes`, `NoTemps`: `Spec => []FileTypeOK`, `Spec => []NoTempLeft`.
- `Implements`: `Spec => KeepsContract`. `writeFileAtomic` implements `FileContract`
  for any number of writers.

The invariant ties the state of each temporary file to the place of its writer
(what is renamed has been synced) and says that an unsynced or torn text only
exists where the directory is not writable. So a crash tears no file that has
been replaced by a rename, which is what the contract asks of `Crash`.

For `EtcEnvironment` it assumes besides that `None` is no goroutine and no block,
that editors are not in a `WithProxy`, and that the file does not begin with a
block of ours that has a login (`EtcAssumption`).

- `EtcTypes`: `EtcSpec => []EtcTypeOK`.
- `EtcKeepsContract`: `EtcSpec => KeepsContract`, since every step is one of
  `AtomicFile` or leaves the file alone.
- `NoLogins`: `EtcSpec => []NoLoginInFile`. `EtcInv` says that every text that is
  in the file, read, saved, or on its way is in `Clean`, the texts without a
  login; each function on texts keeps them there.
- `OnlyRestores`: `EtcSpec => OnlyRestoreIntervenes`. `MutexInv`: whoever is in a
  set, clear or edit holds `fileMu`, so that of two such calls one is over before
  the other has read.
- `AdminsLinesKept`: with at most one restorer, `EtcSpec => SetAndClearKeep`. A
  restore may change the file between the read and the write of a set, so the
  set writes something made of an older text. `KeepInv` says why this loses
  nothing: what was read has at least as much of the administrator's as the file
  has, and at least as much as what the restore may still put back, since that
  was in the file before it. The hypothesis cannot be left out: with two
  restorers TLC finds that one restore takes a line away, a set reads, the other
  restore brings the line back, and the set writes it away again.

`LinesProofs` is about `Without`, for sequences of any length: the n-th line that
is left is the n-th of those not dropped (`WithoutIs`), lines dropped in two
steps or from two halves (`WithoutTwice`, `WithoutSplit`), a line added or a
stretch cut out (`WithoutGrows`, `WithoutMiddle`), and a way to recognise the
result from the places its lines come from (`WithoutBy`). Where an induction is
needed, it takes the least place at which the claim fails (`Least`, from the
well-foundedness of the numbers), since no prover here can use the induction
theorems.

`RcFilesProofs` assumes that the constants are what they are called
(`RcAssumption`): what a file can be at the beginning is a file, `rcPaths` is a
list with the default file and `.zshrc` in it, the line a user adds is plain
text.

- `MutexProtects`: `Spec => []LockProtects`. A file is overwritten only while it
  holds what was read of it, and `fileMu` is given up whatever fails. The
  invariant adds that a goroutine without a file left, or without an operation,
  has read nothing.
- `RcTypes`: `Spec => []TypeOK`.
- `UsersLines`: `TidyHomes` implies `Spec => UserLinesKept`, for any number of
  goroutines.
- `UnsetCleans`, `SetsReach`, `RestoresExact`: `TidyHomes` implies
  `Spec => []UnsetLeavesNothing`, `Spec => []SetReaches`,
  `Spec => []RestoreIsExact`.
- `NewFiles`: with one goroutine, `Spec => NoShadowing`.
- `MultisKeepAll`: `TidyHomes` and `Calm` imply `Spec => []MultisMerge`. `Calm`: the
  goroutines are finitely many, and there is no `WithProxy` among them, since a
  restore is meant to put old values back.

`TidyHomes` says of the files at the beginning that without their blocks they
have none, that is, no stray begin marker comes before a block and a stray end
marker after it. `BlockDamaged.cfg` shows that without it the user's lines are
lost. Damaged files with other stray markers are included, and `MCRcFiles` has
TLC evaluate `TidyHomes` for the files of the runs. `UnsetLeavesNothing`,
`SetReaches` and `RestoreIsExact` are about one goroutine as they are stated
(`Ended`): with two, the second may undo what the first has done before the first
has returned. Failures, edits and crashes are included in all of them but
`MultisMerge`, which says that nothing failed.

The proofs begin with what `FindBlocks` finds: exactly the begin markers with an
end marker after them and no marker in between (`ScanIs`, `FindBlocksIs`,
`BlocksFound`). From this follows what is in a file after `UpdateBlock`: the block,
once, with the given lines, and outside it what was outside before (`UpdateIs`,
`UpdateKeeps`), and that a file that is tidy stays so. Then what each operation
makes of one file (`AppliedIs`, `RemovedIs`, `RestoredIs`) and which files it goes
through (`TargetsAre`, `RemoveTargetsAre`). `AllInv` has the types, with what an
operation still has to do (`Busy`) and what a snapshot holds (`Remembers`);
`LinesInv` adds that all files are tidy. Each property has an invariant of its
own on top of these: a file is done or is one of those still to come (`UnsetInv`,
`SetInv`, `RestoreInv`), a file that may be made is one that may (`ShadowInv`), and
for `MultisMerge` what a file says of a variable comes from a call that has begun,
and is the old value only as long as no call that gives one has been through
the file (`MergeInv`).

Of any file at all, the same module proves what the functions on lines promise.
`BlockFiles` assumes that a marker says nothing but that it is one
(`AlphabetAssumption`) and that what is written has no markers and no `\r`
(`BodiesAssumption`), as the code makes it.

- `FindsAll`: `FilesSpec => []FindsCompleteBlocks`.
- `WritesOne`: `FilesSpec => []WritesOneBlock`.
- `WritesBack`: `FilesSpec => []WriteBackUndoes`.

The file may have any length, lines and damage, the last two theorems are about
undamaged files where the properties are. `UpdateSplits` says that a rewritten file
consists of the lines before the first block (or all, if there is none), the new
block, and the lines after it that belong to no block. The first part never holds
a block (`BlocksBefore`), so that the new one is the first one found, whatever stray
markers are around it, and is what `BlockBody` reads (`WhatIsWritten`). In an
undamaged file the lines outside the blocks have no marker, so it is the only one
(`OneIsWritten`), and a second write only replaces it (`FramedOnce`, `WrittenAgain`).
For the way back, an undamaged file with one block is cut into what is before the
block, the block, and what is after it (`AroundOne`); both writes replace the middle,
and the body read from it, framed again, has the same text (`BlockText`).

`DarwinBackendProofs` assumes that the list of services has no service twice and
that the constants are what they are called (`DarwinAssumption`).

- `TypesAreKept`: `Spec => []TypeOK`.
- `Success_IsDone`, `Restore_IsExact`: `Spec => []SuccessMeansDone`,
  `Spec => []RestoreIsExact`.
- `Others_AreLeft`: `Spec => WritesOnlyWhereDue`.
- `Get_IsTrue`, `Scripts_See`: `Spec => []GetTellsTheTruth`,
  `Spec => []ScriptsSeeTheirChange`, the two of `CommandLine`.

Two things are left open, since the code does not do what the documentation says
(section 5): what becomes of auto-proxy after a `SetMulti` with a bypass list alone,
and whether a plain `get` exits with 0 or 2 when only a PAC URL is in use.

What an operation promises is cut into a `Goal` for each service, setting and kind
of proxy. A goal is `OnTrack` for a list of commands when it is reached and none
of them can spoil it, or when one of them reaches it, counts when it fails, and
none after it spoils it. Each program puts every goal on track from any state of
the service (`SetReaches` to `RestoreReaches`), and a command that works leaves
the rest of the program on track. `GoalInv` says this of every service worked on
so far as long as no error was counted; with the types, what is known of the
operation (`OpInv`) and of the services not worked on (`LeftInv`) it is inductive.

`WindowsBackendProofs` assumes that the constants are what they are called, in
particular that the initial logins are one per host (`WindowsAssumption`).

- `TypesKept`: `Spec => []TypeOK`.
- `SuccessIsDone`: `Spec => []SuccessMeansDone`. Every value an operation has to
  write is written when there is no hard error. What a delete that failed and was
  ignored may leave is exempt (`skipped`): a PAC URL after `Set` and `SetMulti`; the
  server, the bypass list and the PAC URL after `Unset`. A `SetMulti` with a bypass list
  alone leaves the rest as it was where `ProxyEnable` is there; where it is missing,
  WinINET may write its own back.
- `RestoreExact`: `Spec => []RestoreIsExact`. Without a hard error every value that
  was there is back; those that were not are gone, unless a failure was ignored,
  and then the code returns nil all the same.
- `Applications_Follow`: `Spec => []ApplicationsFollow`, after `Set`, `SetPAC`,
  `SetMulti` and a restore without a hard error in which no failure was ignored,
  that of the notification included. `Unset` notifies nobody and is not among them.
- `Logins_Go`: `Spec => []TemporaryLoginsGo`.
- `OthersLogins`: `Spec => LoginsAreKept`.

`RunInv` is a proof outline: the present state is in a set of states from which
the calls that are left, if each of them works, lead to what the operation is
for (`Leads`, `Final`). It is proved once for each program. `SnapInv` says what a
snapshot saved, `DoneInv` what a finished operation has left, and `TraceInv`
where a login of `Set` can be. For `OthersLogins`, `LoginInv` says that the calls
an operation has left are *polite*: a login is stored by Set only and for its
own host, and a restore removes none of the host it puts back.

`LinuxBackendProofs` assumes that the constants are what they are called, and
that no SOCKS proxy is an HTTP proxy too (`LinuxAssumption`).

- `Types_Hold`: `Spec => []TypeOK`.
- `Success_Done`, `Restore_Exact`: `ProbesWork` implies
  `Spec => []SuccessMeansDone` and `Spec => []RestoreIsExact`, where
  `ProbesWork` excludes systems on which the probe for GNOME may fail. Without
  it both are false (`LinuxProbe.cfg`).
- `Linux_KeepsContract`: `ProbesWork` implies `Spec => KeepsContract`, the refinement
  of `BackendContract`.

`Want` is the value an operation wants of each key. Each command writes the
wanted value of a key or reads it back, so that the order of the commands does
not matter and they are taken as a set. `OnTrack`: as long as no failure was
recorded, a key without its wanted value has a write pending, and the mode,
which the desktop may drop without a session bus, a check. `LinuxInv` adds what
the snapshot and finished operations have left.

For the contract, `CarryInv` says that the commands left carry wanted values even
after a failure, so that a command which works is a `Put` of the contract or loses
its write, and that `/etc/environment` is untouched until the end. Then every action
is one step of the contract (`StepRefines`): commands that fail and the end of the
context are stuttering, and the end of an operation (`EndOfContract`) has the values
from `OnTrack` and the verdict from what `StepsFinish` makes of the failures.

`AppConfigProofs` assumes that the keys of the tools are names of keys, that the
initial settings are such as a tool can have, and that "no file" is no file
(`AppAssumption`). Files may have any length.

- `SettingsTyped`: `Spec => []TypeOK`.
- `OtherLines_Stay`: `Spec => OthersKept`, which exempts what the prefix test of a
  clear for pip takes: options of `[global]` whose names begin with `proxy`.
- `Calls_TakeEffect`: `Spec => []CallsTakeEffect`.

Here the meaning of the functions on files is proved, for every file: in what
section a line then is (`SectionsStay`, `SectionsKept`), what the edits do
(`EditKeyValueIs`, `EditINIIs`), what a tool reads of the result
(`KeyValueIsRead`, `RemovedKeysAreNotRead`, `PipIsRead`, `PipReadsNothing`) and
which lines are still there (`KeyValueKeeps` to `RemoveINIKeeps`), all on top of
`LinesProofs`. `AppInv` has the types; that nothing goes on beside a call
that is `alone`; and for such a call, while it runs, that the commands done have
set their keys, or that the file is still what it was, or is what the first edit
makes of it (`Progress`), and once it is over, what it has done (`Effect`).

Only model-checked:

- `Returns`: fairness is out of the prover's reach.
- What the theorems leave out by hypothesis: `SetAndClearKeep` with two restorers
  and `MultisMerge` beside a restore are false, and so is `UserLinesKept` for files
  whose stray markers pair up once a block is gone (`BlockDamaged.cfg`).

## 5. What the code does that a document or comment does not say

Three are runs that TLC finds violated; the counterexamples are short, and all
are written up with the quoted line in `PROJECT.json`.

1. `restore_warning`: when `fn` returns a warning and the restore fails, the
   joined error is still "non-critical", so a caller takes it for success.
   `withState` guards against a warning inside the restore, not inside `fn`'s
   error.
2. `windows_login`: a `Set` that fails to write `ProxyServer` stores its login
   all the same, and the restore looks for that login under the host in
   `ProxyServer`, which is the old one. It stays, against "Credentials stored
   for a temporary proxy must not outlive it".
3. `app_ini`: a key that `[global]` of `pip.conf` does not have is put at the end
   of the file, into whatever section is last there, and `pip` does not see it.

Nine more have a config of their own, to be run with the module named; TLC finds
the property in it violated:

- `WithProxyUnreported` (`MCWithProxy`): "If restoring fails, the error is returned"
  (`sysproxy.go`, of `WithProxy`). The restore of Windows removes a value that was not
  there with `regBatch.try`, which only logs a failure, and so `WithProxy` may return
  nil and leave the value. On Linux the same holds of the GNOME keys but the mode,
  of which the desktop loses the writes without a session bus.
- `MacBypass` (`MCCommandLine`): "a `NoProxy` alone neither switches the manual
  proxy on nor replaces a PAC URL" (README of the package, on every OS). On macOS
  `SetMulti` with only a bypass list switches auto-proxy off.
- `MacPac` (`MCCommandLine`): "plain get also exits 2 when only a PAC URL is active"
  (usage text, README and a test of the exit codes, which replaces `GetGlobal` by a stub).
  `getGlobal` of macOS falls back to the PAC URL, and plain `get` prints it and exits
  with 0.
- `PipPrefix` (`MCAppConfig`): `removeINIKey` "removes key from [section]", and with it
  every option of that section whose name begins with the key.
- `WithProxyOverlap` (`MCWithProxy`): two overlapping `WithProxy` calls in two
  goroutines leave the temporary proxy of one of them behind, and both return
  nil.
- `LinuxHeadless` (`MCLinuxBackend`): without desktop tools, leaving credentials
  out of `/etc/environment`, which is announced as a warning, becomes a hard
  error.
- `LinuxProbe` (`MCLinuxBackend`): any failure of the probe `gsettings list-keys`
  counts as "no GNOME", also when the caller's context has just ended. `Set`
  then skips the desktop and returns nil although nothing was changed there.
  (For the same reason a snapshot whose probe fails saves nothing, and a later
  change is never undone.)
- `LinuxStale` (`MCLinuxBackend`): `Unset` leaves the GNOME hosts in place, and a
  later `SetMulti` that sets only one kind switches the others on again.
- `BlockDamaged` (`MCManagedBlock`): removing a complete block from between stray
  markers makes those markers enclose lines of the user, which the next removal
  deletes.

None of the properties of the passing runs claims the opposite of these: where the
code and its documentation disagree, they leave open which of the two is right, and
say so in their comments. The same goes for some smaller things seen while
modelling, which no config is about.

- Start-up files: in a file with two blocks the snapshot remembers the first,
  while a shell obeys the last; when `fn` calls `Unset`, the restore writes the
  block at the end of the file and not where it was; a file that `Unset` deleted
  comes back with default permissions; lines of old versions that `Unset`
  removed are not brought back; a user's own line of the form
  `export http_proxy='...'` cannot be told from one of an old version.
- macOS: a restore leaves the authentication flag of a temporary proxy on when the service had
  no server before; `getGlobalConfig` leaves a field that cannot be read empty;
  an `Unset` that is cut off leaves proxies without a server on, and says so; a
  service that is enabled between the snapshot and the change is changed and
  not restored; a `SetPAC` whose URL command fails leaves auto-proxy on without
  a URL, and a restore switches it off.
- Windows: an `Unset` whose delete of the PAC URL fails returns nil (as does a
  restore, see `WithProxyUnreported`), although THREAT_MODEL O4 has it that "a change that did not happen is an error";
  `Unset` does not notify running applications; `SetMulti` on a proxy that is
  off switches the kinds that were left in the value on; the login is orphaned
  when `fn` changes the host; a login of ours for the old host that a temporary
  login for the same host replaced is not put back; when the notification of a
  restore fails and `ProxyEnable` is then deleted, WinINET may later write the
  temporary proxy back.
- `/etc/environment`: `restoreEtcState` does not take `fileMu`, against
  THREAT_MODEL T3 ("serialised inside one process"); in a file written in place
  a set may read the middle of a restore and lose the administrator's lines;
  unmarked proxy lines of the administrator are removed with ours and not
  brought back by `Unset`; a restore puts the whole file back, and with it
  loses what the administrator has added since the snapshot.
- Tools: clearing git or npm ignores commands that fail and returns nil; a line
  `proxy=...` of the user's after the package's own wins in curl and wget, and
  makes a duplicate option in `pip.conf`; a failed step, or two overlapping writes,
  leave http and https with different proxies.

## 6. What is abstracted

- Values: URLs, hosts, ports, passwords and bypass lists are model values;
  their grammar, quoting and escaping are not modelled. On Linux host and port
  of a proxy are written by separate commands and are separate keys, since one
  may fail; on macOS and Windows they are one value.
- External programs are modelled from how the code uses them: `networksetup`
  switches on what it sets; WinINET writes a cached proxy back when it is
  notified while `ProxyEnable` is missing; `gsettings` loses a write without a
  session bus, and a read returns what is stored; curl and wget take the last
  line of a key, pip refuses two.
- `/etc/environment` in `LinuxBackend` is our block and one unmarked proxy line;
  `EtcEnvironment` has the rest.
- A file write is one step in `RcFiles` and `AppConfig`. In `AtomicFile` a rename
  is durable at once (the directory is not synced by the code), and modes,
  owners and symbolic links are left out. `HOME`, `ZDOTDIR` and `SHELL` do not
  change.
- The editor works outside the critical sections only. An edit between the read
  and the write of a file by another process is lost in the code too, as the
  comment of `fileMu` says.
- The command line is modelled on macOS and in the global scope.
- Logging, messages, tool lookup, privileges beyond "may write the file".
- `DefaultNoProxy` is one value; the lower- and upper-case spelling of a
  variable, always written together, is one variable (except in
  `EtcEnvironment`, where the two bypass variables are looked at separately).

Not modelled: the connectivity check (one dial, no state), the logger, build
information, the stub for other operating systems, the grammar of URLs
(`validate.go`, `helpers.go`), the lookup of tools in trusted directories and of
the user behind sudo (both only read), and the flags of the command line. The
PowerShell profiles of the Windows backend go through the functions of
`ManagedBlock`, with other file names and another quoting; their loop over
profiles has no model.

## 7. Plan

All components that change state have a model. What is left, in this order:

1. A weaker `SetAndClearKeep` for any number of restorers, with the texts they
   may put back spelled out.
2. The PowerShell profiles as an instance of `RcFiles`.
3. The macOS and Windows backends as implementations of a contract like
   `BackendContract`. There a setting may have a third value in between, since
   `networksetup` switches on what it sets and WinINET writes a cached proxy back.
