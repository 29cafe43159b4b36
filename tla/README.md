# Verification of AnyConnect Split

TLA+ models of the program in this repository, the TLC instances that check
them and the proofs that TLAPS checks. `src/` below is the repository's root.

## 1. The system

### Components

| Component | State it keeps | Operations | Source |
|---|---|---|---|
| Session control | backend in charge, context of the route work, connected site, busy and suppress flags, five mutexes | first connection, poll, state handler, recovery, disconnect, reconnect, choice of a site, return to the usual site, route refreshes, smart selection, quit | `cmd/main.go`, `cmd/select_site.go`, `cmd/split_mode.go` |
| VPN monitor | state (Idle, Connected, Active, Cleaning), channel of 10 changes | SetState, poll, handleDetection | `internal/monitor/vpn.go` |
| OpenConnect TUN session | two processes, state file, interface name, refusal flag; what earlier sessions left running | Start, Refresh, Stop, Presence, clean-up | `internal/tun/session.go` |
| Cisco client | none of its own; an external tunnel | prepare, connect, disconnect, status | `internal/vpn/connect.go` |
| Route manager | two lists, two records on disk, gateways; the system's table | add, remove, track, save, stale clean-up, reuse | `internal/route/manager.go` |
| CIDR summary | a list of blocks | sort, merge pass | `internal/route/manager.go` |
| Smart selection | recovery point (transaction file), decision channel, `modeSwitchMu`, configuration in memory and on disk | begin, probe, ask, try, adopt, go back, cancel, roll back at start | `internal/smartselect`, `cmd/smart_runtime.go`, `cmd/main.go`, `internal/codexprobe` |
| Dashboard channel | command files, snapshot file | write, consume, dispatch | `internal/dashboard`, `native/ui-host` |
| Configuration, credentials, autostart, installation | files and Windows settings | load, save, migrate | `internal/config`, `internal/credential`, ... |
| Tray, UI host | menus, windows | presentation | `internal/tray`, `internal/ui`, `native/ui-host` |
| Installer, uninstaller | files | install, roll back, remove | `cmd/installer`, `cmd/uninstaller` |
| Android VPN service | generation, worker, engine, saved status; the system's start state | connect, disconnect, restore, destroy, re-authenticate | `android/app/.../AnyConnectVpnService.kt`, `VpnRecoveryPolicy.kt` |
| Android VPN engine | native connection, TUN descriptor, pending table switch, refresher thread | connect, set up and switch TUN, refresh routes, cancel | `android/app/.../MinimalVpnEngine.kt` |
| Android pages, rules, smart selection | preferences, windows | presentation, planning of routes | `android/app` |
| Android route probe | run, descriptor, capture, report | establish, hand over, verify, finish | `android/route-probe` |

Generated icon data, the vendored tray library, the build scripts and
`.qoder/skillhub.js` (a minified React bundle among an editor's settings, the
only JavaScript here, which nothing loads) are not part of the system's
behaviour. PROJECT.json lists every component with its
status.

### How they interact

Every command of the tray runs in a goroutine of its own; the dashboard writes
commands as files that a ticker dispatches to the same functions. All of them,
the goroutine that receives the monitor's changes, the recovery it starts and
the start-up goroutine call the closures of `main`, which share variables and
mutexes. The monitor's poll asks the TUN session (its mutex) or vpncli for the
presence of a link and calls `SetState`, which changes the state under the
monitor's mutex and then sends on a bounded channel. The handler applies the
routes on Connected and takes the session down on Cleaning. The route manager
runs one netsh job at a time and outlives nothing but its records: the routing
table and the record files survive the program. A smart selection leaves the
line it is on and keeps a file with the way back while that is open; the windows
that answer its questions are another process and answer through command files.

On Android the service's main thread handles one command at a time. Each
connection is a generation with a worker, which calls `connect` of a new engine
and stays in it until the tunnel ends. In `connect` the worker runs OpenConnect's
main loop, a refresher resolves the hosts of the rules and asks the worker for a
new interface, and the main thread cancels. The system kills and restarts the
process as it likes.

### What is hard

Interleavings of poll, handler, recovery and commands; a context that is
cancelled and replaced while somebody works with the old one; a bounded channel
whose receiver is also a sender; netsh batches that fail or are killed part of
the way; crashes between a table change and its record; a restart that finds
records, routes or neither; processes that survive a failed kill or the program
itself; late answers to questions that have timed out; a cancel that finds
nothing to cancel yet; unsigned arithmetic at both ends of the address space. PROJECT.json lists the hazards at their lines.

## 2. Modules

| Module | Models | Proofs |
|---|---|---|
| `SessionControl` | session control, monitor, both backends as the control sees them | `SessionControlProofs`, `SessionSequentialProofs` |
| `TunPair` | what a TUN session promises its callers | - |
| `TunSession` | the session's two processes, implements `TunPair` | `TunSessionProofs` |
| `RouteManager` | lists, records, table, batches, restart | `RouteManagerProofs` |
| `CidrSummary` | `SummarizeCIDRs` on W-bit addresses | `CidrSummaryProofs` |
| `DashboardCommands` | the command files between host and program | with the next |
| `SmartSelection` | the selection, its recovery point, the user's own choices, restarts; extends `DashboardCommands` | `SmartSelectionProofs` |
| `VpnContract` | what the Android service relies on when it calls `connect` | - |
| `AndroidEngine` | one call of `connect` with its three threads, implements `VpnContract` | `AndroidEngineProofs` |
| `AndroidService` | commands, generations, workers, kills; built on `VpnContract` | `AndroidServiceProofs` |
| `MCSession`, `MCRoutes`, `MCCidrs`, `MCSmart`, `MCTun`, `MCEngine`, `MCService` | values of the constants for TLC | - |

Two pairs of modules meet in an abstract one. `SessionControl` drives a TUN
session as `TunPair` describes it; `TunSession` shows with `Pair == INSTANCE
TunPair WITH tun <- ..., busy <- op` that the code of `session.go` keeps that
promise. `AndroidService` carries a record of `VpnContract` for each worker and
takes only the steps of `Own` and `Hears`; `AndroidEngine` shows that every step
of `connect` is one of these (`KeepsContract`, where `contract` is the mapping).
So the composed system is checked in four pieces instead of two that would be out
of reach.

### SessionControl

Actors are the poll (`mon`), the handler (`hnd`), the recovery (`rec`) and one
goroutine per element of `Users`; `Boot` is the one that first runs the start-up
application of the routes. `pc` says where each is, `op` which command a user's
goroutine runs. A step ends where another goroutine can observe or disturb: at a
mutex, a channel operation, an atomic or an external process. `SetState` is two
steps, the change and the send (`outbox` holds the pending event, and a
goroutine inside `SetState` does nothing else). `stale[p]` says that the context
`p` captured has been cancelled; `ctxLive` that the current one has not.
`routes` abstracts the manager to none, partial and full, where full means that
every batch of the plan was tried. `tun` and `cisco` are the links themselves.

The actions follow the code's functions: `disconnectSessionContext` and the
Cleaning branch share the steps of `Teardown`, `connectFinalSite` and
`connectWithBestBackendContext` those of `Connect`, `applySplitRoutes` those of
`Apply`. Each section of the module names its functions; `map` in PROJECT.json
gives the lines.

`Overlap` limits what may begin while other work is under way. With
`{"poll", "command"}` nothing is limited. Without `"poll"` a poll happens only
when everybody is at rest and ends before anybody goes on (the code polls every
five seconds); without `"command"` a command starts only when the monitor's
changes have been handled. `SessionControlProofs` makes no such assumption. The
properties of the sequential run need it, and with it that one goroutine runs the
commands (`Users = {Boot}`): with a second one the start-up application of the
routes is still under way while commands work, and each of the four fails. A
finding shows what happens without the first.

Left out: `domestic_direct` (section 6, its first call is the finding of
`cidr_halves`), smart selection (a module of its own), quit, the white lists (they end in the same
refresh), failures of netsh (they are RouteManager's subject).

### TunPair and TunSession

`oc` and `sb` are the session's fields and the state of the process behind each;
`strays` are processes of an earlier session. Each operation holds the mutex from
`pc` leaving "idle" to `Return`. Processes link, are refused and exit at any
time, between any two steps. `Kill` may fail for any subset, and the code forgets
the process all the same: it becomes a stray, which only the clean-up of the next
`Start` ends. `file` is the state file of the connect script with its writer,
"own" or "other", because a name left by an earlier session is what sends routes
into a dead interface. `Exit` needs that a refusal has been read: `Wait` returns
when the pipes are drained.

Left out: the host route to the gateway, which only a disconnect script deletes
that never runs under `taskkill /F`; errors of `os.Remove`; what
`SetForeignWhitelist` puts into the configuration.

### RouteManager

One job at a time holds the mutex (`job`, `kind`, `todo`, `chunk`, `left` are
its local variables). `RunAdd` and `RunDelete` are one netsh script,
`RecordAdd` and `RecordDelete` what the code does with its answer, the retries
route by route included; `KillAdd`, `KillDelete` and `Killed` are scripts that the
end of the context kills part of the way. `table` and `saved` survive `Crash`,
the lists and the VPN's gateway do not, and `Reuse`, `CleanupStale`,
`CleanupStaleVpn` and `ForgetAppliedRoutes` are the start that follows. `Faults`
chooses what may go wrong. A crash loses unsaved work only between steps; the
write of a record is one step, as `os.WriteFile` of a short file is taken to be.

### CidrSummary

The loop of `summarizeIPv4CIDRs`, one action per branch, on words of W bits.
`Size` and `ParentSize` wrap as `uint32` does; `DivideByZero` is the run-time
panic of the remainder. The sort is taken from its specification. A rank in the
specification of the sort is a number of elements, which is what the proofs count.

### DashboardCommands and SmartSelection

`files` is the directory in the order of the names, `inbox` what one tick has read
and deleted. `held` is the command whose file another process keeps open: the
reading ends with an error there, what was read before is dropped, and the rest is
read at the next tick.

`pc` follows `switchToCodexMode`: the recovery point, the rounds on the current
line, the question, the candidates, the recommendation, adoption or return.
`decisions` is the channel of two answers, `expired` the end of the context after
60 seconds or a cancel. `cfg` and `saved` are the configuration in memory and in
the file; `TrySave` is a save whose error the code ignores. The host shows a window
for a result it has not seen and answers through `Send`, perhaps when the program
asks something else already. `RollBack` and `ClearPoint` are the start after a
crash. `user` is `OnSelectSite` or `OnRestoreNormal`.

Inputs: which candidates are eligible, what the probes find, whether a dial
succeeds.

### VpnContract, AndroidEngine, AndroidService

`AndroidEngine` is one call of `connect`. `worker`, `refresher` and `stopper` are
where the three threads are; flags that the code reads one after the other are
read in steps of their own (`Check`, then `Recheck`). `paused` and `canceled` are
the native library's, `answer` the future a table switch is waited for with.
OpenConnect itself (a cancel or a loss makes `mainloop` return an error, a pause
returns 0) is taken from how the code uses it.

`AndroidService` has the main thread (`main`, `command`), the fields
`connectionGeneration`, `engine` and `worker`, and a thread per generation.
`started`, `exists`, `inbox` and `Die` are the platform: commands in order,
START_STICKY redelivery or a null intent, no `onDestroy` while the VPN interface
keeps the service bound. These are marked external in `map`.

`slips` names three races that the code has and that the properties step around,
so that they say what holds otherwise: "stray" (a call could be cancelled only
after its generation had ended), "silent" (`connect` returned though nobody had
stopped it) and "overtaken" (`stopSelf()` without a start id ends a newer start).
The first is the finding of `android_after_disconnect`.

### Faulty variants

Operators named `<action>_<mistake>` are deliberate errors. Each property of a
passing run is violated when the variant that PROJECT.json names takes the place
of its original; they play no part in the specifications.

## 3. Runs

| Run | Instance | Distinct states | Shows |
|---|---|---|---|
| `session_sequential` | auto, 1 user, 3 commands, 3 losses, 3 attempts, `Overlap = {}` | 10 695 | no routes or processes left behind, recovery only after a loss, rest, losses noticed |
| `session_commands` | auto, 2 users, 2 manual connections, 1 loss, channel of 2, commands overlap | 1 152 085 | mutexes, busy flag, exclusion of manual connections |
| `session_overlap` | TUN only, 1 user, 1 switch, channel of 1, everything overlaps | 389 353 | the pending Cleaning event |
| `tun_session` | 5 operations, 3 faults (kill, clean-up, crash) | 14 984 | only our processes, routes into our interface, refusals reported, `TunPair` |
| `routes` | 5 + 1 prefixes, 2 networks, batches and samples of 2, 4 jobs, 2 faults of any kind, symmetric prefixes | 369 069 | list and record agree, nothing unknown, a fault loses one batch, table before record |
| `cidr_summary` | W = 3, every set of up to 4 of the 15 blocks | 14 697 | coverage, minimality, the passes end, when it panics |
| `smart_selection` | 2 lines, 2 selections, 2 commands, 1 own choice, 1 fault (crash or save), 1 held file | 1 103 978 | only wanted lines survive, commands once and in order, the start goes back, refusals hold, selections end |
| `android_engine` | 4 table switches | 7 636 | reported losses, routes in force, no use after destroy, a told connection ends, the contract |
| `android_service` | 3 commands, 1 fault (kill or a join that gives up) | 358 614 | a disconnect holds and ends, truthful status, a stop reaches the engine |

Bounds. They bound the environment only (commands, losses, faults, jobs), and a
run lists them in its cfg. Three commands and three losses let a second command
meet what the first and a failed recovery left; a channel of one or two is full
early, which a capacity of 10 would take ten unreceived changes for. Five prefixes
and batches of two need two full batches and a rest, so that a fault could lose
more than its own; a sample of two leaves routes unlooked at. Three bits give every
relation of two blocks, both ends of the space and passes that feed each other.
Two selections and two commands let an answer to one question, or one selection,
arrive at the next; with two lines there is one candidate, where the code tries up
to two, and the proofs cover any number. Four switches let a refresher time out,
fail and succeed in each order. Three commands with a late worker and a kill give
connect, disconnect, connect over a worker that has not ended.

Symmetry is used in `routes` only, over prefixes of one kind; the run has no
liveness property.

Deadlock is not checked: the environment's bounds run out, the algorithm of
CidrSummary and a call of `connect` end, and with a small channel the handler of
SessionControl can wait for itself for ever (see the hazards; the code's capacity
makes it remote, not impossible).

Fairness. `FairSpec` of SessionControl is weak fairness of each goroutine: Go's
scheduler runs whatever can run, its mutexes and channels serve waiters in order,
and every external process has a deadline in the code. Commands and losses are
not fair. `FairSpec` of SmartSelection is one weak fairness of the selection, the
user's own goroutine and the timer of the context; host, files and commands owe
nothing, so `SelectionEnds` holds without any answer. In AndroidEngine each thread
is weakly fair, and the tunnel need not be lost. In AndroidService the main thread
and each worker are weakly fair, but a call of `connect` only where the contract
makes it go on: while it loads, and once a cancel has reached it (`EndsOnceTold`
of the engine is what justifies the second). The other specifications state no
fairness and have safety properties only.

### Runs that find a disagreement

- `recovery_after_disconnect`: a poll inside a manual disconnect makes the
  program reconnect the user.
- `cidr_halves`: `0.0.0.0/1` and `128.0.0.0/1` make `SummarizeCIDRs` panic.
- `android_after_disconnect`: a disconnect while the engine loads its library is
  not heard; the tunnel comes up after it.

Each has its line, the sentence it contradicts and its explanation under
`findings` in PROJECT.json.

### What the models show besides

The properties above are stated so that they hold; where the code does less than
one might expect, the model has the behaviour and the property leaves room for it.

Session control. With overlapping commands an applied route set can be partial
while the state is Active, the start-up application can write routes after
RemoveAllRoutes (main.go:1338; checklist:112 and agent.md:108 promise otherwise), a
recovery's backend can be cleared by an older disconnect, and the state Connected
has no case in the poll, so a link lost before Active is seen only after the
application of the routes has ended. A start that reuses the routes of the last run
(`Kept`) leaves the state Idle: a link lost before the first poll is never noticed.

Routes. A cancelled batch leaves routes nobody knows (manager.go:587); after a
crash the stale VPN routes are forgotten, not removed (manager.go:1108;
checklist:113); the start that reuses bypass routes does not load the VPN's record;
one "already exists" line in a batch's output makes the whole batch count as done
(manager.go:842).

TUN session. A failed kill is forgotten, and Refresh has no clean-up: the process
runs until the next Start (checklist:111).

Smart selection. After a failed return a second selection takes the unaccepted
line as the one to go back to (main.go:1461). A failed save during the adoption
resets the mode but not the site (main.go:1590-1594). The status says that the
original line has been restored even when that failed (main.go:1577). The history
of failing dials is not saved when no candidate works (main.go:1552). A recovery
point that could not be deleted overrides a later choice at the next start. A
command that was read together with one whose file cannot be deleted is lost
(store.go:173, controller.go:61).

Android. A worker that has checked its generation can publish "failed" after a
newer generation has begun (design document:222); the interrupt of a delay in
`awaitReconnectNetwork` is not caught and ends the process; a tunnel that is lost
while a switch is pending ends the connection for good instead of reconnecting
(MinimalVpnEngine.kt:92-97); a refresh failure recorded between the last check and
the cancel check ends `connect` without an exception; the refresher runs before
its thread is stored (466), so a stop in between neither interrupts nor joins it;
the join of an interrupted worker returns at once (593), and `destroy()` may find
the refresher alive.

## 4. Proofs

Every theorem is for every value of the constants under the module's ASSUME, which
states the types of the constants and, for SessionControl, that the program's three
goroutines are not users. The theorems of `SessionSequentialProofs` assume
`Sequential` besides, and one of them `~Kept`; both are in their statements. Each
module proves an inductive invariant: it holds at the start, each action keeps each
part, and the properties follow from it. TLC has checked each invariant on the
instance of the module's run, and that of the sequential instances for each choice
of the configuration's flags.

| Module | Theorem | Property |
|---|---|---|
| `SessionControlProofs` | `SessionInvariant` | the strengthening |
| | `TypeCorrect` | `TypeOK` |
| | `LockDiscipline` | `LocksHeld` |
| | `BusyFlagExact` | `BusyWhileSwitching` |
| | `NoLostCleaning` | `CleaningIsPending` |
| | `ManualConnectionsExclusive` | `ConnectionsExclusive` |
| `SessionSequentialProofs` | `SequentialInvariant` | the strengthening |
| | `RoutesRemoved` | `RoutesGoneAtIdle` |
| | `RoutesComplete` | `RoutesWhileActive` |
| | `NoOrphans` | `NoOrphanTunnel` |
| | `NothingRecoveredUnlost` | `RecoveryNeedsLoss` |
| `TunSessionProofs` | `TypeCorrect` | `TypeOK` |
| | `NoStrays` | `OnlyOurs` |
| | `InterfaceIsOurs` | `RoutesIntoOurs` |
| | `RefusalIsReported` | `RefusalReported` |
| | `Implements` | `KeepsPromise` (`Pair!Spec`) |
| `RouteManagerProofs` | `TypeCorrect` | `TypeOK` |
| | `RecordsTrusted` | `RecordsAgree` |
| | `AllRoutesKnown` | `NothingUnknown` |
| | `TableBeforeRecord` | `RecordOutlivesRoute` |
| | `FaultBound` | `FaultLosesOneBatch` |
| `CidrSummaryProofs` | `CidrInvariant` | the strengthening |
| | `AddressesKept` | `CoverageKept` |
| | `SummaryMinimal` | `Minimal` |
| | `PassesEnd` | `PassesShrink` |
| | `PanicOnlyOnWhole` | `PanicNeedsWhole` |
| `AndroidEngineProofs` | `TypeCorrect` | `TypeOK` |
| | `SilenceHasCause` | `SilentOnlyIfCaused` |
| | `RoutesInForce` | `RoutesAsAnswered` |
| | `NoUseAfterDestroy` | `DestroyedIsLeftAlone` |
| | `Implements` | `KeepsContract` |
| `AndroidServiceProofs` | `TypeCorrect` | `TypeOK` |
| | `StopsFindEngine` | `StopReaches` |
| | `DisconnectIsFinal` | `DisconnectHolds` |
| | `StatusIsTrue` | `StatusTruthful` |
| `SmartSelectionProofs` | `SmartInvariant` | the strengthening |
| | `TypeCorrect` | `TypeOK` |
| | `CommandsOnce` | `OnceAndInOrder` |
| | `TriedLinesLeave` | `OnlyWantedLines` |
| | `RestartGoesBack` | `StartGoesBack` |
| | `RefusalIsFinal` | `RefusalHolds` |

SessionControl. None of the properties is inductive alone. `ControlFlow` (where
each goroutine can be, with which command) follows from the types. With it
`LocksHeld` is inductive: a step that enters or leaves a section takes or gives
exactly its mutex. That gives mutual exclusion of modeSwitchMu, which is why the
goroutine that clears `manualBusy` is the one that set it
(`BusyWhileSwitching`), and why two goroutines cannot both dial
(`ConnectionsExclusive`: both would hold `lock["mode"]`). `CleaningIsPending`
needs that only the poll sets Cleaning, and that the handler leaves the sections
of the teardown only by setting Idle: an event is in the poll's hand, then in
the channel, then with the handler.

SessionControl, sequential. `SeqInv` is built in layers, each of which assumes those
before it. `Turns`: the poll, the handler, the recovery and the command work one at
a time, none of them while a word the handler must act on (Connected, Cleaning) is
on its way, and there is at most one such word, which is the state. `Places`: where
a goroutine works, the state is what its work is about, and nobody else sets it.
`Pair`: processes run only while the backend is "tun" or about to be. `Routes`: an
application that is under way has a context nobody cancels, so the table holds all
or none but while it is being filled or emptied. `Gone`: Idle comes after the
removal. `Loss`: as long as no link was lost, it is up wherever the state counts on
it. The last four give the four properties where everybody is at rest.

TunSession. Every place a process can be left at sets `unclean`, and only a
clean-up that has ended every stray resets it. `FileInv` says when a state file of
another session can be there: after such a fault, or before the clean-up of a start
deletes it. `RefusalInv`: a login that was denied is refused or dead, and dead only
when its line has been read. The refinement is a step simulation: the initial states map to
`Pair!Init`, and under the invariant every action is a step of `TunPair` or leaves
the mapped variables alone.

RouteManager. A removal that is cut short must not have written a record without
what it has not deleted: `StoppedInv` says that everything on record is still to
come (`todo`) or gone from the table. `StartInv` pins the phases of a start to
what the records hold in them. The bound of `FaultLosesOneBatch` is a count: the
routes outside the record are those of the batch at hand and at most one batch for
each earlier fault, and a step that gives up a batch takes a fault for it
(`LossStep`, with the cardinality of a union).

CidrSummary. The solver knows `2 ^ n` only as the number of subsets of n things, so
`Doubling` counts: the subsets of 1..n+1 with and without n+1 are equally many. From
it come the multiples (`PowerDivides`, by induction), that only the size of a half of
the space wraps (`Words`), and that a merge yields the block of both halves and
nothing else (`Halves`). `SortPermutes` says what the specification of the sort
gives: in a finite set with a strict order each rank belongs to one element
(`Ranks`). Then `CoverageKept` is nearly inductive: what is written and what is
still unread stand for the argument. For `Minimal` two more parts are needed:
`ApartInv`, disjoint blocks stay disjoint, and `PassInv`, a pass without a change
has compared every two neighbours of a sorted list. `NoHalves` closes the gap that
the code leaves open, which never looks further than the next block: nothing that
is disjoint from both fits between two halves. `CountInv` counts one block written
for each read and one less for each merge. `PanicInv` remembers the two neighbours
at which the remainder was taken; with `CoverageKept` the argument covers what they
do, which is everything.

AndroidEngine. `CauseInv` says who can have cancelled: a stop that found the
connection, a refresh failure, which is recorded first, or a failed set-up, which
the worker has excluded at its last check; the order of `Record` and `ReportCancel`
is what makes it inductive. `SwitchInv` ties request, answer and routes of the
interface together over the five ways a request can end. `StopInv` follows the
refresher's thread field through a stop. `KeepsContract` is a case split over the
actions: each is a step of `Own`, of `Hears`, or leaves `contract` alone.

AndroidService. `CurrentInv`: a generation is current only while the main thread is
at rest, and then it is that of the field `worker`, because `stopConnection` ends the
generation first and joins the worker last. `LateInv`: a worker that the main thread
no longer waits for is inside its last `connect` or on the way out, so it never makes
an engine, and the one it clears there is its own.
A restart delivers the commands that were not finished, without those the system
gave itself. `unfinished` is that filter, a recursive function; `KeptExists` and
`UnfinishedKeeps` prove by induction that its equation has a solution and what it
keeps: the same commands in the same order. With it `HoldInv` is inductive: after a
disconnect everything in the queue that connects has a disconnect behind it
(`LastInv`), a null intent stands first and in an empty process (`RestoreInv`), and a
call that was not told to end is that of the current generation or of the one the
main thread is about to tell (`CallInv`). `TruthInv` needs the same of the status:
while it is active a worker of the current generation is at work or a command is
pending that sets it anew, and a service nobody keeps started has neither.
`DisconnectHolds` leaves out the race "stray", `StatusTruthful` all three of `slips`.

SmartSelection. `LockInv`: a selection that works holds modeSwitchMu and its
recovery point is the line it left, so nobody else changes configuration or link
meanwhile. `WantedInv` then follows each line: the configuration, in memory and in
the file, names a wanted line except at the commit of an adoption, where the
recovery point still names the old one, and in the start after a crash there, which
puts it back. `RefusedInv` keeps a refusal at the head of the channel until it is
read. `OrderInv` says that numbers rise in `files` and in `inbox`, and that what is
read precedes what is not.

Induction. The library's induction theorems take an operator as a parameter, which
the provers cannot instantiate, but the well-foundedness of the order on Nat is a
plain fact: `InductiveSet` derives from it that a set of numbers with 0 and every
successor is Nat, and the set is what a lemma defines.

Model-checked only: liveness (`ComesToRest`, `Heals`, `SelectionEnds`,
`EndsOnceTold`, `DisconnectEnds`), which the prover does not reach. Every invariant
and every action property that a passing run checks is proved, and so are both
refinements. The types of RouteManager and of SmartSelection are proved only.

## 5. Plan

1. Next: the installer's roll-back, the hand-over of the route probe, the Android
   smart selection, the `domestic_direct` variant of the route application.
2. Prove more: what the liveness properties rest on, as measures that each step of a
   worker or of a selection lowers (as `PassesShrink` is for the passes of
   CidrSummary); the properties of the parts named under 1.

Every run asks one question and every property is broken by a mutant of the code
that PROJECT.json names.

## 6. Not modelled, and why

Presentation (tray, windows, pages, texts), calls of Windows without state of
ours, downloads and DNS answers (inputs), parsing of the outputs of vpncli, netsh
and `route print` (inputs; a wrong answer is a fault), vendored and generated code,
build scripts. `.qoder/skillhub.js` is third-party code of an editor, minified into
545 lines that contain React and its libraries; no part of this program loads it
and it has no behaviour of this program to model.

The configuration file is written in place (config.go:610): a crash inside the write
is not modelled. Ranking, history and probes of the smart selection are inputs.
Statistics threads and notifications of the Android service publish and do not
decide. The Android route probe is a test tool beside the client.

`domestic_direct` on the static backend writes the two /1 routes first. Unless a
protected server address lies between them in the sorted list, that call panics
(`cidr_halves`); what follows it is `applySplitRoutes` with a second kind of
routes, which RouteManager has.
