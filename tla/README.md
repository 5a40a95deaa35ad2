# J.A.R.V.I.S Server Manager: TLA+ models and proofs

J.A.R.V.I.S is a Tauri desktop application: a TypeScript interface in a webview
(`src/main.ts`), a native side in Rust (`src-tauri/src`), and a root helper on
the managed server (`helper.sh`, installed by
`server-setup/install-jarvis-remediation.sh`). This directory models its
stateful parts, checks them with TLC and proves the central safety properties
with TLAPS. Line numbers refer to the source files; "lib.rs" is
`src-tauri/src/lib.rs`, "main.ts" is `src/main.ts`, "contracts.md" is
`.omo/evidence/app-first/native/contracts.md`.

## 1. Inventory

How the parts interact: the interface *invokes* commands; all commands are
synchronous Tauri commands, so the native main thread runs one at a time.
Native threads *emit* events, which the webview receives in order. A reply and
an event are not ordered with respect to each other. JavaScript runs one task
at a time and suspends at every `await`; everything it read before an `await`
may be stale after it. Native threads share state behind a mutex per manager.
The server is reached through separate OpenSSH clients, one per terminal,
stream or command.

| Component | Source | State | Operations | Hard because |
|---|---|---|---|---|
| Native SSH session manager | lib.rs 22-296 | installed session, next generation, client process, reader thread, 15 s timer, event queue | `start_ssh`, `close_ssh`, `write_ssh`, `resize_ssh`, reader loop, timer | a reader, a timer and commands race to end one session; events are emitted after unlocking |
| Sentinel parser | native_ssh.rs 249-280 | pending bytes, authenticated flag | `push` | the sentinel and the line end after it arrive split anywhere |
| Terminal connection | main.ts 653-667, 752-871 | status, active generation, attempt flag, buffered events | `connectTerminal`, `disconnectTerminal`, lifecycle and output handlers, replay | receipts and events overtake each other; generations go stale across awaits |
| Live log and monitor streams | lib.rs 841-948, 1037-1123; main.ts 985-1018, 1666-1732, 1949-2022 | one child per stream kind, panel flags, monitor buffer | start, stop, line, end of stream | events carry no generation; the connection may be lost between awaits |
| Security fixes | helper.sh 47-95, 199-208, 228; lib.rs 1624-1717; main.ts 2267-2386 | managed sshd file, backups, loaded configuration, what the panel shows | fix, rollback, time-out, signal | partial failure, no lock, helper outlives the caller |
| Helper's reports | helper.sh 97-195 | none | listings | text only |
| Installer | install-jarvis-remediation.sh | transaction directory, installed files | stage, install, commit, roll back, supervise | interruption between any two steps |
| Security audit and its dialog | lib.rs 1356-1717; main.ts 2040-2434, 2560-2563 | findings on the page, the one dialog (its fix, its backup, whether applied), its two buttons | audit, prepare, apply, verify, roll back, close | one dialog variable serves every suspended call; a failure may be shown for what was done |
| Score | lib.rs 1560-1620 | none (one computation) | score | arithmetic, unknown values |
| Dashboard, remote access, updates, services, power | main.ts 643-750, 1021-1268, 1483-1619, 2436-2535; lib.rs 303-350, 600-790, 1180-1355 | shown values, busy buttons, the power button's state | refresh, inspect, install, WOL, shut down | results arrive after the connection they were asked for; the power button waits a minute and then writes the connection |
| File manager and transfers | main.ts 1280-1468, 2619-2650; remote_files.rs, lib.rs 359-600 | current path, selected file, menu, editor, rows | list, open, save, create, rename, delete, upload, download | one path and one selected file for calls that overlap; answers arrive under a newer path |
| Configuration and process runner | native_ssh.rs 1-240 | none | validate, run with deadline | the remote command survives its client |

What makes each one correct:

* **Session manager**: an installed session can always still be ended by one of
  its threads; no session ends without a report; no client whose terminal is
  still read is forgotten; each outcome is reported once; every session is
  eventually reported.
* **Terminal connection**: the interface goes online only for an authenticated
  generation; after everything in flight has arrived it shows the session that
  is really installed; an authentication is never lost; no shell stays open
  unseen; an attempt settles.
* **Streams**: at most one client per kind; none after a disconnect; what a
  panel shows comes from the stream it started.
* **Security fixes**: the administrator's file can always be had back; a fix or
  a rollback that reports success has had its effect and no other; a failed fix
  leaves nothing behind; a fix that took effect is shown as such.
* **Security dialog**: a rollback is offered only with a backup, and that one
  takes the fix back and no other; what the dialog claims is true of the
  server; no error leaves its buttons dead.
* **Pages**: what a page shows belongs to the session that is open; buttons
  follow the connection; the power button tells the truth and comes back.
* **Files**: what is listed is the directory that is acted in, and what is
  saved, renamed or deleted is the file in view.
* **Installer**: after an interruption either everything or nothing is new.
* **Score**: between 0 and 100, and never better for a worse observation.
* **Sentinel parser**: no output byte is lost or reordered, and detection does
  not depend on how the bytes are split.

## 2. Modules

| Module | Models | Status |
|---|---|---|
| `SshSession` | native session manager; implements `SessionLifecycle` (INSTANCE) | written, checked, proved |
| `SessionLifecycle` | abstract: what the interface is promised about the lives of sessions | written |
| `SshSessionProofs` | its safety properties and the refinement for every bound | proved |
| `SshConnection` | terminal connection; EXTENDS `SshSession`, whose steps run underneath | written, checked, proved |
| `SshConnectionProofs` | its safety and action properties for every bound | proved |
| `Remediation` | helper and fix command | written, checked, proved |
| `MCRemediation` | symmetry for TLC | written |
| `RemediationProofs` | its safety properties for every set of runs and directives | proved |
| `LiveStreams` | the two stream slots and their panels | written, checked, proved |
| `LiveStreamsProofs` | its safety properties for every bound | proved |
| `TerminalFilter` | abstract: what the terminal is promised about a session's bytes | written |
| `SentinelParser` | `push` over every split; implements `TerminalFilter` (INSTANCE) | written, checked, proved |
| `MCSentinelParser` | a self-overlapping sentinel for TLC | written |
| `SentinelParserProofs` | the refinement for every sentinel and input | proved |
| `SecurityPanel` | the audit page and the dialog of a fix, over the native commands as requests and replies | written, checked, proved |
| `SecurityPanelProofs` | what the dialog offers, claims and undoes, for every set of fixes | proved |
| `ServerPages` | the pages that show the server, its connection as they see it, the power button | written, checked through `FileManager`, proved |
| `ServerPagesProofs` | the invariant of the panels and the power button | proved |
| `FileManager` | the files page; EXTENDS `ServerPages`, whose steps interleave with its own | written, checked, proved |
| `FileManagerProofs` | the safety properties of both, for every bound | proved |
| `InstallTransaction` | installer with interruptions | planned |
| `SecurityScore` | scoring as operators over observations | planned |

Order of the plan: the session manager and the connection first, because every
other operation is only offered while they are right; then the fixes, which
change a server's access rules; then streams and parser; then the pages, whose
calls outlive the connection and the dialog they were made in; next the
installer and the score. Every invariant and action property that a passing run
checks is also proved (section 4). A theorem still worth proving: "all or
nothing" of the installer.

### How state and actions correspond to the code

`SshSession`. `session` and `next` are the two fields of `SshManager` (lib.rs
30-33); a generation's `child`, `reader` and `timer` are the client process and
the two threads start_ssh spawns; `cancelled` says that a message waits in the
timer's channel (or that its sender sent one). A command is one action because
only its single critical section on the mutex can conflict with a thread. The
reader is cut where the code unlocks: `ReadChunk` parses, `CheckCurrent`
compares generations under the lock, `Publish` emits after it, `ReaderEof`
takes the session, `ReaderReport` emits. The timer likewise: `TimerDisarm` or
`TimerExpire`, `TimerTake`, `TimerKill`. `told` is a history variable. A start
that fails may have launched its client already (`StartSshFails`, lib.rs
123-136): that client runs on without a terminal and nobody kills it, as does
one whose reader left its loop first. `NoClientIsStranded` therefore speaks of
the clients a reader still reads.

`SshConnection`. A task of the webview is an action. `inbox` and `replies` are
the invoke requests and answers; `DeliverReply` runs the continuation of the
awaiting function. `heldEvents` and `heldOutput` are the two maps of buffered
events. `Flush` computes what the replay loops do: they iterate arrays to which
the handlers they call append, so replaying an event that is held again never
ends (`hung`). Refreshing the dashboard and starting the monitor, which going
online triggers (main.ts 765-768), belong to other modules.

`Remediation`. One element of `Run` is one process of the helper. `managed` is
the file the helper owns, `running` what sshd has loaded of it, `mode` and
`copy` the backup directory of each run. Each external command is an action;
a command that fails ends the script where `set -e` is in force; inside
`backup_managed` it is not, and a failure there leaves a useless backup (`mode`
is "lost"). `disturbed`
records that a signal or another helper came in between, which is the
condition under which a receipt can be trusted.

`LiveStreams`. `slot`, `client` and `stdout` are one manager's child, its ssh
client and the thread that reads it; the log and the monitor slot are built
alike and independent, so a behaviour picks one (`kind`) and the panels differ.
`call` says at which `await` each panel call is suspended: `startMonitoring`
and `startGünlüklerLive` call the stop function first, and everything they read
before it is stale when they continue. `marked` is the live button's data
attribute, which the closed event clears (main.ts 1011-1018). The stop commands
that `handleSshLifecycle` issues are awaited by nobody. `overlapped` is a
history variable: a panel call was under way when the user or the connection
took another step; it is the condition under which panel, slot and connection
agree. The lines of a stream, and registering its listeners for the first time,
are left out.

`SentinelParser`. `pending` and `authenticated` are the parser's fields; `fed`
and `output` record what was pushed and returned. `PushThrough`, `PushFinds`
and `PushKeeps` are the three ways through `push`. The abstract filter speaks
of the whole session only: the sentinel is found with the byte that completes
it; it and at most one line end after it are removed; before that, fewer bytes
than the sentinel has are withheld. Two limits of the code are visible in it:
the line end goes only if it arrives with the sentinel's last byte, and what is
withheld when the session ends is never shown.

`SecurityPanel`. `active` is `activeSecurityFix` (the dialog is open while it is
not null), `claim` and `result` are its risk label and its result line, `apply`
and `rollback` its buttons with their two properties. `call` tells at which
`await` a function of the page is suspended: an apply first awaits
`security_apply_fix`, then the audit that verifies it; a rollback likewise; what
they do afterwards they do to the dialog that is open then. `inbox` and
`replies` are the requests and answers; the native commands are synchronous, so
`Serve` takes one at a time, in order. The server is what the managed file holds
(`managed`), the fixes another file of sshd's configuration overrides
(`overridden`) and the backups. Module `Remediation` has the helper's own steps;
here a command either does its work and reports it, does its work and reports a
failure, does nothing, or is given up: after 60 seconds its ssh client is killed
and a failure answered (lib.rs 451-461), while the helper goes on at the server.
`late` is such a helper and `Late` its steps: a fix still has to read the file and
then to write what it made of it, a rollback only to write, and either may stop
before that. Its steps come between whatever is served afterwards; one such helper
is at work at a time. Declining a confirmation, the rendering of findings
and the score are left out. Five history variables name what the properties
except: `abandoned` (a dialog was closed over its own call), `unconfirmed` (a
failure is shown for what was done or may still be done), `belated` (a late helper
has changed the file), `overlapped` (an apply was asked for while another call was
under way), `unread` (an audit could not read a setting, which the code then
counts as secure).

`ServerPages`. `conn`, `ssh` and `starting` are `state.connection`,
`activeSshGeneration` and `sshBaşlating` as the pages see them; module
`SshConnection` has the connection itself. `shown` is, for each page, the
session its data was asked for in, `Nothing` after `clearLiveConnectionData`;
`enabled` are the buttons three functions fight over; `power` is the power
button's state. `call` says where each call is suspended, and `wire` which of
them await a native command, in the order the answers come; the dashboard's
probe, shutting down, waiting for the server and file dialogs are answered in
any order. Every `After...` operator is what a function does when it goes on:
`AfterDashboard` looks at the connection again, `AfterInspect`, `AfterHistory`
and `AfterRemoteAccess` do not. `toggleServerPower` is the chain `shut`,
(`shutPart`,) `waitOff` or `wake`, `waitOn`, `wakeDial` or `wakePart`. Numbers,
charts and the monitor's snapshots are left out; so is the restart command,
which changes nothing in the interface.

`FileManager`. `path`, `selected` and `editor` are `currentRemotePath`,
`selectedFile` and the file whose text the editor holds; `rows` and `label` are
what was rendered last. An operation matters by the place it is aimed at
(`place`), not by what the server then holds. The menu and the editor are
overlays: any click hides the menu, and an open editor covers the page. A
reload after a change is part of the continuation that makes it.

## 3. Runs

| Run | Bounds | Shows |
|---|---|---|
| `ssh_session` | 2 generations, 2 events in flight | every interleaving of commands, reader, timer, client exit: sessions are watched, do not end silently and strand no client, the abstract life of sessions is implemented, every session is reported |
| `ssh_connection` | 2 generations, 3 clicks, 1 chunk of output in one of the sessions | the interface agrees with the sessions for a user who lets an attempt settle, and no attempt stays "connecting" |
| `ssh_flush` | as above | **violation**: an end held before its receipt, with more held after it, makes the replay loop for ever |
| `ssh_online_unauthenticated` | impatient user | **violation**: online with an unauthenticated active generation |
| `remediation` | 3 helper runs, 2 directives | overlapping, failing and signalled fixes and rollbacks: backups suffice, results of undisturbed runs are true |
| `remediation_failure` | the same | **violation**: a failed fix is not undone |
| `remediation_report` | the same | **violation**: a fix that took effect is shown as failed |
| `live_streams` | 3 streams, 5 steps of user and connection, 2 suspended calls | one client at a time whatever the panels do; panel, slot and connection agree when no call was overtaken |
| `live_streams_orphan` | the same | **violation**: a stream outlives the connection that was lost during its start |
| `security_panel` | 2 fixes, 1 review, 8 steps of user and connection, 2 suspended calls | the dialog's claims, reports, offers and buttons, over commands that fail, that succeed unreported or whose helper works on after the failure was answered |
| `server_pages` | 3 sessions, 7 steps of user and connection, 2 suspended calls; a directory, a folder, 2 files and a file in the folder; one tour per behaviour | pages, power button and files over a connection that comes and goes |
| `sentinel_parser` | 4 bytes, a sentinel of 3 that overlaps itself, 7 bytes of input | every split of every input: the parser implements the filter |

Bounds. Two generations are enough for a stale thread, event or command to meet
a newer session; a third adds a second stale one, whose threads do not interact
with the first's. Two events in flight let a lifecycle event overtake or follow
another; the queue bound only limits when commands are issued, never what
threads emit. Three clicks allow connect, disconnect, connect. Three helper
runs allow two overlapping fixes and a rollback, or a fix, a rollback and a
retry; two directives tell a fix's own line from another's. `Run` and
`Directive` are symmetric in the safety runs. Three streams allow one that is
replaced and one more after the end of the second; five steps allow go online,
start, and a disconnect, a page change or a second start in the middle. Seven
bytes hold the sentinel with its line end and bytes on both sides, and a false
start before it; the sentinel begins and ends with the same byte, as the real
one does, so that a failed match may hide the beginning of a good one.

Two fixes tell a dialog's own fix from another's and let one backup contain the
other fix; a review is the dialog without an apply button. Eight steps are
enough to go online, load, apply, close, open another dialog, apply again and
roll back, with the answers anywhere in between. One late helper (`GiveUp` waits
for the last one to end) is enough to change the file between a backup and its
restoration, which is all that the exception `belated` is about; how several
helpers meet is the business of `remediation`. Two suspended calls
(`Call == 1..2` in three modules) let any two functions overlap; no function of
the pages compares more than one other call's result with its own.
In `server_pages` the connection changes in every behaviour, while the user
keeps to the panels, the power button or the files (`tour`): the three share no
state but the connection and the buttons, which `Authentication`, `Loss` and
`ConnectClick` disturb in each tour. Three sessions let a load of the first
arrive in the third; seven steps allow two connections with a load, a wait or a
listing under way in each. The authentication refreshes the dashboard only while
a call is left for it. In `ssh_connection` the first session that forwards
output is the only one to do so (`NativeStep`), since output of a second one
meets the same code.

`Impatient` tells whether the user clicks while an attempt is under way
(`AttemptUnderWay`). The code does not prevent it: the status is only a label.
The passing run therefore says what holds for a user who waits, and
`ssh_online_unauthenticated` shows that waiting is necessary. With `Impatient`
set, `SettledOfflineHasNoShell` fails as well: an authenticated shell stays
behind an interface that shows none.

`CHECK_DEADLOCK FALSE` is set where clicks and runs are bounded: the system
then rightly stops.

Fairness. Weak fairness of the steps of the two threads, of the native main
thread and of event and reply delivery: operating-system threads and event
loops keep running, and `recv_timeout` returns after 15 seconds
(`FairConnSpec` groups them by thread: a thread that can go on does, whatever
its next step is). `FairPanelSpec` asks that the native side serves what it is
sent, as each command kills its client after a time limit, and that replies are
delivered; a late helper need not go on. `FairFilesSpec` asks that what a call
awaits ends: native commands and the waits for the server have time limits, and a
file dialog is modal. `Command.execute` (main.ts 745) has none of its own: the ssh
client gives a connection up by its options (735-737), and a remote command that
never ends over a healthy connection is assumed away. Otherwise nothing is
assumed of the user, the network, the client process or the server.

### Disagreements between the code and its documents

1. `connectTerminal` adopts the generation of its receipt (main.ts 848) and then
   replays what was held for it (849). A held "failed" or "closed" clears
   `activeSshGeneration` again (776, 784), so a held event after it, or held
   output, is not handled but held once more, in the very array that
   `flushBufferedSshEvents` iterates (801, 803): the loop never ends. contracts.md
   13 promises that an early event cannot be lost.
2. A click during an attempt leaves the interface online although its active
   generation is not authenticated (`.omo/plans/jarvis-1-2-2-app-first.md` 34).
3. The EXIT trap of `run_remediation` (helper.sh 202) reads locals that bash
   has unwound by then, and restores nothing; main.ts 2409 promises an
   automatic rollback.
4. `security_apply_fix` (lib.rs 1676-1689) insists on an `id=` line that
   helper.sh 207 does not print: a successful fix is shown as failed, and
   main.ts 2286-2308 never offers its rollback.
5. `startGünlüklerLive` and `startMonitoring` (main.ts 1709, 1978) look at the
   connection before their awaits only. If it is lost in between, the stream
   starts afterwards and stays, although on disconnect streams are to be
   terminated (`.omo/plans/jarvis-1-2-2-app-first.md` 34).

### What the exceptions in the properties stand for

A property that excepts a history names a defect that the models reach and that
no document of the repository speaks of. The dialog:

* closed during an apply, it gives its backup to the dialog opened next, even to
  one that only reviews (`abandoned`; main.ts 2289-2301, 2416);
* after a report that was lost, a second apply backs up the file that holds the
  fix already, and its rollback restores that file (`unconfirmed`; 2285, 2306);
* the helper of a command that was given up may change the file long after the
  failure was shown: it undoes what the dialog says by then, and a backup taken
  before it changed the file takes two fixes back (`belated`; lib.rs 451-461);
* an audit that arrives during an apply enables the apply button again
  (`overlapped`; 2428);
* a setting that could not be read counts as secure, and the dialog then says
  "applied" (`unread`; 2350);
* a rollback that succeeded leaves the label that says applied (2337-2341, 2299):
  `ClaimIsTrue` excepts the dialog that shows a rollback (`ShowsRollback`), which
  is known by its result line and its missing buttons. `RollbackReportIsTrue` says
  that this result line, at least, is right, also after a fix was applied twice.

The pages and the power button:

* results are rendered under another connection than they were asked for
  (`overtaken`; 1041, 1160, 1179, 2442), the update buttons are enabled offline
  (1167), and an update history without an inspection makes a record of its own
  that says nothing is available (1178);
* the power button says online after a failed shutdown (1229) and after a wake
  whose connection failed (`refused`; 1251);
* a shutdown that waits writes "offline" over a session opened meanwhile,
  without clearing its pages (`crossed`; 1225); a wake that waits ends a session
  opened meanwhile, for its connect closes it (README-TR.md 7 and 11 speak of
  waking an offline server only);
* `disconnectTerminal` forgets the session that is active when it ends, not the
  one it closed (859-869).

The files page:

* the path moves before the directory is listed, so after a failure new files
  go where the list does not show (`faltered`; 1321);
* the status of a save is written over the file that is open by then
  (`hurried`; 1463).

## 4. Proofs

`SshSessionProofs` proves, for every `MaxGen`, `MaxOutput` and `MaxQueue`:
`TypeCorrect`, `InstalledSessionsAreWatched`, `SessionsDoNotEndSilently`,
`ClientsAreNotStranded`, `AuthenticatesOnce`, `FailsOnce`, and the refinement
`SessionsLive`. The properties are not
inductive by themselves: whether a session is about to be reported depends on
what each thread still owes. The invariant `IInv` adds that

* generations not numbered yet have left no trace (`FreshGenerations`), and
  those whose launch failed have no threads (`UnlaunchedGenerations`), so a
  start never overwrites anything;
* a session's timer is only cancelled by its sentinel while the session is
  installed (`CancelMeansAuthenticated`), without which a cancelled timer could
  leave a silent session unwatched;
* the sentinel is found once and announced once or not at all
  (`AnnouncedOnce`);
* a session is taken once: reader and timer never both hold it, and whoever
  holds it has not reported (`TakenOnce`).

`SessionLifecycle` says the same from outside, without threads, locks or clients:
a session is opened once, in the place of the one that was open, and let go once;
on request the end is said at once, otherwise somebody owes it (`leaving`), and
says "closed" only of a session announced as authenticated. `due` is what
`emit_if_current` decided under the lock and says after it, perhaps after the end
of the session. Under the mapping `opened` are the generations whose reader was
started, `due` what a reader past its check is about to emit, `leaving` those
taken by a reader or a timer that has not reported yet; parsing, the deadline and
the exit of a client are stutters. The refinement needs one invariant more,
`SentinelIsAnnounced`: at end of file a reader that still owns its session has
announced what it found. It does not say that "failed" excludes "authenticated":
a timer that expired just before the sentinel came kills an announced session.
`AuthenticatedOnce` and `FailedOnce` are not among the properties of the run,
because the refinement, which is, says more.

`RemediationProofs` proves, for every finite set of runs and every set of
directives: `RemediationTypeCorrect`, `OriginalCanBeHadBack`,
`ReceiptsAreTrue`, `RollbacksRestore`. Its invariant `RInv` adds that backups
exist from the step that takes them and say "absent" only of a missing file
(`BackupsExist`), that until the first backup the file is untouched
(`FirstBackupHoldsOriginal`), that an undisturbed run is alone
(`UndisturbedIsAlone`), and how far an undisturbed fix or rollback has got at
each step (`FixProgress`, `RollbackProgress`).

`SshConnectionProofs` proves, for every number of sessions, outputs and clicks,
`ConnectionTypeCorrect` and `OnlineIsAnnounced` of any user, and
`OnlineMeansAuthenticated`, `OnlineIsLiveOnceSettled`, `OfflineLeavesNoShell` and
`AuthenticationIsShown` of one who lets an attempt settle. The assumption
`Impatient = FALSE` of these four is what the code leaves to the user: run
`ssh_online_unauthenticated` shows that they fail otherwise. Two invariants
carry them. `KInv` holds whatever the user does; it keeps the native `IInv`
and says that events in flight or held were said by the native side
(`EventsAreTold`), that a generation named anywhere was launched
(`NamesAreLaunched`) and that one reported as ended, or that a close has answered
for, is not installed (`EndedIsGone`). `PInv` adds what waiting gives: nothing is
asked for after a start (`StartIsLast`), a close is about the active generation
(`ClosesTheActive`), what was said of the active session is in flight, held or
shown (`NothingIsMissed`), and an installed session is known or its receipt is on
its way (`SessionIsKnown`). The four properties speak of moments when nothing is
in flight; these say what every other moment owes them.

`LiveStreamsProofs` proves `StreamsAreNotDuplicated`, `StreamsTypeCorrect`,
`StreamsEndIfUndisturbed`, `LivePanelHasStream` and `ButtonAgreesWithFlag` for
every bound. The slot is changed by the main thread only, which kills what is
installed before it installs anything; `FreshStreams` says that streams not
numbered yet have no client. The types need that each suspended call has one
message in flight and nothing else has (`CallsAwait`, in `CInv`). What panel, slot
and connection say of each other holds in four situations, which `UInv` spells
out: a call was overtaken, everything is at rest, a stream is let go, or a call of
the panel is at one of its awaits, with what it has done by then.

`SentinelParserProofs` proves `ParserTypeCorrect` and the refinement
`ParserFilters` for every alphabet, sentinel and bound. Its invariant `PInv`
says that before the sentinel what was received is what was shown followed by
what is kept, that it holds no sentinel, and that either nothing was shown or
exactly one byte less than the sentinel is kept. The last part is what makes
`push` right: a sentinel completed by new bytes begins among the kept ones
(`BeginsInKept`), so that searching them is enough (`FoundInKept`) and what was
shown before it stands in front unchanged (`RemovedIsContinued`).

`SecurityPanelProofs` proves `RollbackIsOfferedWithBackup`,
`BackupOfferedIsOfTheFix`, `PanelTypeCorrect`, `RollbackTouchesOneFix`,
`ClaimsAreTrue`, `RollbackReportsAreTrue` and `RestoringUndoesTheFix` for every
set of fixes and reviews and any number of steps. The backup a dialog offers travels from a reply to a
suspended call and, after the verification, to the dialog. The invariants:

* `PInv` follows it: a call has at most one message in flight (`OneMessage`), the
  one its step awaits (`MessagesAreAwaited`), a call that verifies holds a backup
  that exists (`VerifiedBackupExists`), and unless a dialog was closed over its own
  call every request, reply and suspended call of an apply is about the fix of the
  open dialog (`WorkIsOfTheDialog`). An answer taken for another call's would bring
  a backup to the wrong dialog.
* `LateInv`: whatever a late helper does or has done, a failure was shown for it.
  Its steps touch the managed file and nothing the page knows (`LateShape`); the
  invariants below that speak of that file are conditioned on `~belated`, or on
  `~unconfirmed`, which implies it.
* `AInv`: only a call that undoes has a rollback on its way, and every suspended
  call has a message, so it goes on one day.
* `TInv`: backups and apply requests under way count against the user's steps,
  which bounds the backups (`PanelTypeOK`).
* `BackupsAreNear`: every backup that may still be restored differs from the managed
  file at most in the dialog's fix, so a rollback, which restores the whole file,
  takes one fix back. It needs that no late helper has changed the file.
* `QuietInv`: at most one call undoes (`OneUndoer`), a dialog that says "applied" has
  no apply button (`ClaimHidesApply`), so an apply still under way was asked for
  before the rollback and is answered before it (`AppliersComeFirst`), and a dialog
  whose fix was just rolled back has nothing at work (`RolledBackIsQuiet`).
* `ClaimInv`: what an audit on its way found is so, unless a rollback that succeeded
  is behind it (`AuditsTellTruth`); a dialog that says "applied" is right unless such
  a rollback is still to reach it or shown by it (`ClaimOrUndo`).
* `ReportInv`: what an audit on its way lists is needed, unless a reply behind it is
  of a call at work (`AuditsListTruth`); a dialog that reports a rollback is right
  unless a call is at work (`ReportOrWork`).
* `WorkInv`, for behaviours without the exceptions of `OfferedBackupUndoesFix`: one
  call works at a time, and the buttons see to it (`OneWorker`,
  `WorkersHoldRollback`, `BackupHidesApply`); an audit under way in a dialog with a
  backup is answered before its rollback (`AuditsComeFirst`), or it would find the
  fix gone and enable the apply button.
* `OfferInv`: what the page lists and what the dialog may apply is `Fresh`, that is,
  not in effect, or put in effect by an apply that is still under way and took its
  backup before; the same of what an audit on its way lists (`AuditsAreFresh`); and
  what may be restored holds nothing the server lacks (`BackupsAreOlder`).

`ServerPagesProofs` establishes the invariant `GInv` of the panels and the power
button, and `FileManagerProofs` concludes from it, for every set of places and any
number of sessions and steps: `SelectedFileIsInView`,
`PageButtonsFollowConnection`, `FilesTypeCorrect`, `PanelsAreOfTheOpenSession`,
`PowerButtonFollowsConnection`, `ListedDirectoryIsCurrent`,
`SaveIsReportedForItsFile`. The first needs that a call that opens a file is about
a file (`CallsOK`); the second, for each of the two pages, that a load is only under
way online (`ButtonsOK`), as long as the connection was not changed under one: then
a load that ends enables what should be enabled, and a change of the connection,
which sets all the buttons, meets no load. The others rest on the order of the
native answers: a call that awaits a native command is on `wire` once (`WireOK`);
one call at most starts a session, and `starting` says so (`DialOK`); unless the
user acted in between, one call at a time changes the connection, so the power
button is right once none is left (`Alone`) and what the panels load is of
the session that is open (`PanelsOK`); the last listing asked for is of the current
path (`ListOK`), and a save is answered before a file asked for after it, so what it
marks is the file the editor shows (`EditorOK`).

Each invariant is proved with one lemma per action and one step per conjunct.
The only assumptions are the ones on the constants (`BoundsAssumption`,
`ConnectionAssumption`, `RunsAreFinite`, `StreamsAssumption`, `ParserAssumption`,
`PanelAssumption`, `PagesAssumption`, `FilesAssumption`); the bounds are parameters of the
specification, not of the proof, except that two calls of a page may be
suspended at once (`Call`).

Only model-checked: liveness (`EverySessionIsReported`, `ConnectingSettles`,
`ButtonsComeBack`, `SwitchingEnds`), since the prover reaches neither fairness nor
ENABLED. The violation runs are TLC's counterexamples.

## 5. Not modelled

* `write_ssh` and `resize_ssh` write to the pseudo-terminal of the installed
  generation and change no modelled state; so does terminal input in main.ts.
* Rendering, charts, the parsing of the monitor's snapshots and of
  measurements, translations and styles: data without control state.
* Saving settings while connected (main.ts 2584) changes what the next command
  connects to; the pages model neither settings nor servers.
* The listing commands of the helper, argument construction, the probe script
  and the scripts of remote_files.rs, of which the files page sees success or
  failure only.
* The score: operators over the findings of an audit, planned in section 2.
* The installer (`server-setup/install-jarvis-remediation.sh`). At this commit
  the script does not parse: the helper's text is pasted into the `sed`
  expressions of `stage_files` (line 104), and `bash -n` stops at line 190, so
  no transaction of it can run. Read for what it means to do, one thing is
  worth a model once it parses: `transaction_install` removes the transaction
  directory before it returns (line 371), so when `supervised_deploy` is
  aborted, times out or is signalled afterwards, `rollback_transaction` finds
  no directory and restores nothing, and `on_exit` still writes ROLLED_BACK.
