# Talus in TLA+

Specifications of Talus, an endpoint agent that watches system calls through
eBPF, raises alerts on processes that open many files, and may kill them. The
modules follow the source under `src/`; line numbers below are of that source.
`PROJECT.json` lists components, runs, mutants, theorems, hazards and, for every
definition that models code, the lines it stands for.

## 1. The system

`frankentui/` is a vendored TUI workspace of about a million lines of Rust, of which the agent
uses one program loop. The agent's own code is about 12 000 lines, in Rust, C, Go and
TypeScript; the share of lines that is modelled is meant of those.

| Component | State | Operations | Interacts with |
|---|---|---|---|
| eBPF programs (`process-monitor-ebpf`) | per-CPU perf rings, kernel's loss counts | one record per system call | reader thread |
| reader thread (`monitor.rs` 629-701) | position in its round, idle flag | drain every ring, send, beat or sleep | rings, channel, watchdog |
| monitor core (`monitor.rs` 161-450) | windows, statistics, file and extension counts, rate samples, totals | `poll`, `handle_event`, threshold setters | channel, every consumer, `kill(2)` |
| process tree (`monitor.rs` 363-374, 490-570) | `pid_to_ppid`, filled from /proc | record a parent, build, flatten | core, kernel |
| watchdog (`watchdog.rs`) | HEARTBEAT, ALARM, locals of its thread | beat, wake, judge | reader thread |
| audit log (`audit.rs`) | a file of hash-chained JSON lines | append, verify | all commands and agents, unlocked |
| licensing (`license.rs`, `main.rs` 303-366) | `license.dat`, `.trial.dat`, `.integrity.hmac`, backups | activate, deactivate, transfer, backup, restore, verify, start | activation server, gates of `run_monitor` |
| run loops (`main.rs` 716-887) | QUIT flag | signal, poll, print, forward | core, storage |
| storage (`storage/`) | batches, producer queues | forward, flush | external databases |
| web API (`web.rs`), Go server (`go-web`) | shared monitor, broadcast channel, sockets | forwarder, REST, WebSocket | core |
| C FFI (`ffi.rs`) | a locked monitor | create, poll, setters, destroy | core |
| TUI (`tui.rs`) | input modes, snapshots, poll thread | keys, ticks | core, TUI runtime |
| TUI runtime (`frankentui/ftui-runtime`, `ftui-core`) | event loop, pending signal, output lock, teardown latch | look, poll, drain, draw, complete, clean up; signal thread | TUI, terminal, signals |
| sandbox (`sandbox.rs`) | kernel state of the process | drop capabilities, seccomp, Landlock | kernel |
| C port (`c-ebpf`) | ring of raw events, loss count | callbacks, poll | perf rings, its caller |
| key tool (`license-keygen`) | signing key, registry of licenses | init, issue, revoke | what agents verify |
| desktop shell (`talus-tauri`) | pid, running flag, a thread per child | start, stop, status | the agent as a child |

What is hard, and the properties that make each modelled part correct:

- *Stream.* Programs on all CPUs race the reader; rings overflow and the loss is
  told only by a later record. The core must get each CPU's records in order,
  once, and each loss counted (`NothingMissing`, `TakenInTurn`, `DeliversInOrder`), and the
  reader must show the watchdog that it works (`BusyReaderBeats`).
- *Core.* Alerts are an equality test on a sliding window fed with the time of
  handling; the threshold may change while windows are full; eight counters are
  kept side by side (`WindowExact`, `AlertIffCrossing`, `EveryBurstAlerted`,
  `CountersAgree`).
- *Process tree.* The parent of a pid is read when an event is handled, perhaps after the process
  or its parent has ended, and is never read again (`TreeExact`).
- *C port.* Callbacks run inside the poll that copies; a caller with little room leaves records
  behind, and a full ring drops them (`RawAccounted`).
- *Agent.* Pids are reused and records are late while windows, alerts and SIGKILL
  go by pid and by the time of handling (`AlertsReal`, `BurstsAlerted`,
  `CountsEndToEnd`, `EventuallyQuiet`).
- *Watchdog.* Two atomics, no lock, sleeps of uncertain length (`AlarmInTime`,
  `AlarmMeansSilence`).
- *Audit log.* No lock, two writes per entry, errors ignored, a key that may change
  (`LinkedUnlessDisturbed`, `VerifyExact`).
- *Licensing.* Three files updated separately and in place, dates rounded to days, a
  fingerprint that changes (`LicensedMeansGranted`, `KillMeansAllowed`).
- *Key tool.* Commands check, read and write two files without a lock, in place
  (`KeyKept`, `ValidUntilDeleted`, `RegistryExact`).
- *Run loops and storage.* A caller, three background threads and a signal share
  buffers that are taken out and posted with the lock released; no request is retried
  and no error reaches the caller (`StoredOnce`, `GraphAgrees`,
  `TurnComplete`, `EventuallyStored`).
- *Web server.* One task polls under the lock the REST handlers need, a bounded ring
  runs over slow clients (`IsFeed`, `ReachedOrEnded`, `LockReleased`,
  `CountsAgree`).
- *Go server on the C interface.* A poll with limited room, channels that drop, three
  goroutines for each client (`IsFeed`, `OnlySlowMiss`, `NeverHeldUp`).
- *TUI.* Snapshots queue up while the log is paused; a rate limit whose value changes in
  the middle of a window; a thread that the quitting application waits for
  (`NothingLost`, `SuppressedForCause`, `QuitReturns`).
- *TUI runtime.* A signal, an error and a quit may come at any point of the loop, of its end and of
  the teardown; two threads restore one terminal (`OrderlyEnd`, `SignalEndsIt`).
- *Desktop shell.* Two locks, one after the other, written by commands and by a thread that is
  late to see its child end (`StatusTrue`, `EndNoticed`).

## 2. Modules

`Detector` is the core. One step is one message of a batch: `poll` is `BeginPoll`,
then `HandleEvent` or `HandleLost` per message, then `EndPoll`; the clock may move
between any two, since `Instant::now()` is read for every open. `CountExec`,
`CountOpen` and `CountFs` are the arms of `handle_event`. Hash maps are total
functions with a default; `tracked` is the key set of `stats`. Labels (comm, uid,
argv, time stamps) take part in no decision and are left out. The history
variables `opened`, `alerted`, `delivered`, `rotated` serve the properties only.

`ProcessTree` is the other thing `handle_event` keeps: `pid_to_ppid`. `Handle` asks /proc for the
parent if there is no entry yet; the kernel's side of it (pids given out in turn, orphans handed
to init, zombies) is external. `Listed` is `build_process_tree` with `flatten_tree`, depth by depth.

`PerfRings` is the kernel's side of the perf rings: `Put` puts the record in, preceded by the count
of losses if there are any, or drops and counts it. Two readers extend it.

`PerfReader` is the path from the programs to `Monitor::poll`. The reader's loop is four actions, one per place where
another thread can get in: `EnterRing` (the head is read once), `ReadRecord`,
`LeaveRing`, `EndRound`. That a record is long enough (monitor.rs 658) is not modelled, as the eBPF side
makes them all of one size. Records carry numbers that the code does not have, so that
the properties can tell them apart. `LossyStream` is the abstract promise.

`RawRing` is the C port's `talus_monitor_poll`: `BeginPoll` to `EndCallbacks` is libbpf's poll with a
callback per record (`HandleEvent`, `HandleLost`), `Copy` a round of the loop that hands records to
the caller. All of it is the caller's thread; programs get in between any two steps.

`Agent` composes the two (`Detector` extended, `PerfReader` as an instance) with
processes that exit and pids that are given out again. `keeps_up`, chosen at the
start, says whether the agent is done with every record before time passes or a
process goes. The code does not promise that; the properties that need it name it.

`Watchdog` is the thread, with the load of HEARTBEAT (`Wake`) and the verdict
(`Judge`) as two steps, the reader and the clock.

`AuditLog` splits `audit_log` where other processes get in: read and hash
(`Begin`), the text (`WriteText`), the newline (`WriteNewline`: `writeln!` on a `File`
is two writes). `WriteShort` is a disk that fills up, `CutShort` a process that is
gone, `NewFingerprint` a change of the key. A hash stands for all it covers: it
*is* the list of keys and bodies before it.

`License` has the three files as variables and a command per action. A file that
is truncated and then written may stay empty (`Empty`): the process was gone. An
empty seal is one that no verification passes.
`Verifies` is `verify_cached_license`, `Start` is `init_license` with the gate of
`run_monitor` for `--auto-kill`; the gates of the other features have the same shape
and are one with it. Commands and agents do not overlap in this model, and disk
errors other than a cut-short write are left out. The rate limiter of
`activate_license` counts within one process and one command is one process: left
out. Signatures are taken as sound (every key is genuine), and a backup is restored as it was
written: `restore` checks the key's signature alone, so of a file edited in between
the model says nothing.

`Keygen` is the vendor's side. A command is a chain of steps, cut where another command or a death
gets in: the check of the key and its write, the load of the registry and its save, each write
truncating first (`Cut`). A registry that does not parse is an empty one (`Loaded`). `replaced` is set
by the operator alone (`RemoveKey`); `early` has the licenses that were signed while an `init` that had
found no key was still to write its own (`MakingKey`).

`Storage` has the three backends behind `forward_event`: the call is a chain of steps
(`SendKafka`, `Insert`, `PostOwn`, `MergeNode`, `CountAccess`), and each background thread
a chain of its own. A batch that is taken out of the buffer by the caller (`own`) and one
that is taken by the thread (`flush`) may be under way together. An INSERT takes effect, whole, or
does not, and one that did may still be reported as failed, its answer lost, late or bad
(`Outcome`, `failures`); the code goes on alike. librdkafka
and the databases are external, modelled by what the code asks of them.

`RunLoop` extends it with `run_json` and `run_plain`, the signal handler and the end of the
process, at which every thread stops where it is.

`Feed` is the abstract promise of a live feed, with or without gaps. `WebFeed` (`web.rs`)
implements the feed without gaps: `Poll` takes the monitor's lock, `Publish` handles one
output of the batch, the lock goes with the last; `Recv` and `Sent` are the task of a
connection. `GoFeed` (`go-web/main.go` on `ffi.rs`) implements the one with gaps: `Poll` is
`pollEvents` with `talus_monitor_poll`'s truncation, `Offer` the `select` with a default,
`Take` and `Write` the writer, `Unlist` the reader at its end. In both, the core is
reduced to how many outputs of which kind a poll returns; `Detector` models the rest.

`Tui` is the poll thread, the channel of snapshots, and `update` of the application: `Tick`,
`Receive` per snapshot, `Apply` per event, and the keys that reach the state (`Pause`,
`NextLimit`, `ShowHelp`, `CloseHelp`, `Quit`). Keys are handled between two ticks, never
within one, which is what the event loop does.

`Program` is that event loop: `Look` is `observed_termination_signal` at each of its places, `Work`
what is done between two of them, `Render` and `Present` a frame under the output lock; then
`Complete`, `Shutdown` and `Result` are `complete_lifecycle`, `DropWriter` and `Latch` to
`JoinAndRestore` the drops, `Exit` is `App::run`. The signal thread is `TakeSignal`, `LockCleanup`,
`EmitCleanup`, `ReadLatch` and then `Acknowledged` or `GiveUp`. The two seconds of grace are not
counted: `GiveUp` is possible where the main thread can spend them, on input that does not stop
or in waiting for the signal thread. What the application does is in `Tui`.

`Shell` has `start_monitor` and `stop_monitor` as chains of steps (each takes one of the two locks),
and for each child the thread that waits for the end of its stderr.

`MCDetector`, `MCAgent` and `MCLicense` hold values of constants and bounds for TLC.
`MCRings` (`WebFeed`, `RawRing`), `MCParts` (`AuditLog`, `Watchdog`, `ProcessTree`), `MCKept`
(`License`, `Keygen`, `RunLoop`) and `MCDashboard` (`Shell`, `Tui`, `Program`) put components that share no state
into one run: `part`, chosen at the start, says which of them moves, so that a behaviour is one of one
of them, and the number of states is a sum. `RawRing`, `ProcessTree`, `Watchdog`, `Keygen`, `RunLoop`, `Tui` and `Program` have
names such as `KeygenInit` in place of `Init` so that these modules, and those with the proofs, can
extend them next to another. `Counting` holds `Count`, what the counters of both servers count.
Definitions such as `EvictOne` next to `Evict` are the wrong versions which the mutation
runs substitute.

## 3. Runs

| Run | Expect | What it shows | Bounds |
|---|---|---|---|
| Detector | pass | windows exact; alerts exactly at crossings under changing thresholds; counters, samples and outputs agree | 2 pids, 4 kinds, 3 messages; or 5 opens of one pid over 4 instants and thresholds 0, 2, 3 |
| Readers | pass | order, completeness, loss accounting; refinement of `LossyStream`; every busy round beats | 2 CPUs, rings of 2, 5 records |
| Agent | pass | every record accounted for, the pipeline drains, no burst skipped, and if the agent keeps up, alerts on just the real bursts | 4 records and losses over 2 instants when late; 3 over 3 instants when not; 2 lives of one pid |
| Parts | pass | audit log: undisturbed calls leave one chain, verification exact, the intact part stays good. Tree: recursion ends, nothing twice, nothing missing but behind a reused pid. Watchdog: stall noticed within two rounds, recovery within one, no false alarm | 2 processes, 4 calls, 5 lines, 2 fingerprints; 4 pids, 4 forks; timeout 2, slack 1, 10 instants |
| Kept | pass | License: licensed means granted to this machine with a day left; kills only by right. Key tool: what was handed out verifies until the key is removed, unless it was signed while an `init` was on its way; the registry is what was issued unless cut or overlapped, and never repeats or invents. Loops: no event stored twice or posted again after a failure, Kafka in order, graph and caches agree with the outputs, a turn leaves nothing behind, a buffered event is stored or reported as failed | 2 keys, 2 fingerprints, 3 commands, 5 instants of half a day; 2 commands of the tool at once, 2 ids, 2 signing keys, 2 licenses; each backend by itself, 3 outputs in polls of up to 2, batch 2, queue 1 |
| LicenseReactivate | violation | after one verified start a new activation never verifies | as Kept, 4 commands |
| InitRace | violation | an `init` writes its key over that of another, with which a license was signed | 2 commands at once, 2 signing keys, 1 license |
| Rings | pass | Web: refinement of `Feed` without gaps; counters and answers of one moment; the lock is always released; a reading client gets everything or ends. C port: every record in one place, in order, dropped only by a full ring | 2 clients, one may stop reading; ring of 1; 3 outputs in polls of up to 2; 2 CPUs, rings of 2, 5 records, raw ring of 3 slots, room for 1 or 3 |
| GoFeed | pass | refinement of `Feed` with gaps; only a client's own full channel costs it messages, counters account for the rest; no client holds up the forwarder | 2 clients, one may stop reading; channel 1; room for 2 of polls of up to 3 |
| GoFeedPoll | violation | a poll drops the outputs it has no room for | as GoFeed |
| Dashboard | pass | TUI: alerts pass the limit, suppression only with cause, pauses lose nothing, quit returns. Runtime: the terminal is left restored, the exit tells of the first signal seen in time, then of an error; a signal ends the process unless it meets the deadlock below. Shell: only the latest child is shown, and while it lives unless starts overlapped; an end is noticed | 2 programs, one noisy; limits 2 and 1; window 2; snapshot at least every 2 polls; 3 outputs; 2 snapshots waiting; 4 instants; 2 kinds of signals, 3 sent; 3 children |
| SignalLock | violation | a signal taken during the teardown makes both threads wait for ever | as Dashboard |

Why these bounds are enough: a ring of 2 is the smallest that holds a loss report
with its record, and 5 records fill it, overflow it and report; two CPUs are
needed for the reader to move on; thresholds 2 and 3 lie on both sides of what
windows of up to five opens reach, and 0 is "off"; four instants let a window empty
and fill again; a rate history of one sample rotates; two lives of a pid are what
reuse needs; timeout 2 with slack 1 separates a late from a missed round; two
writers and four calls give forks, joins of two entries on a line and torn lines;
two half-day ticks per day tell truncation of days from the date itself; three commands are an
activation, a backup and the restore of it, or any of these with a new fingerprint before or after. The backends
share no variable but `call`, which passes them one after the other, so each by itself is
enough; a batch of 2 with 3 outputs fills once and leaves a rest, which puts the
caller's batch and the thread's side by side; a queue of 1 overflows. A ring
or channel of 1 runs over at the second message, so 3 outputs give a client that
misses one and one that does not. Polls of up to 3 exceed a room of 2. Limits 2 and 1
change in both directions within a window of 2, and 4 instants let it begin anew. A raw ring of 3
slots keeps two records and wraps; room 1 leaves one behind, 3 empties it. Four pids and as many
forks give a parent that has gone, a pid with two owners, and two that record one another as parents.
Two commands of the key tool are an overlap; two licenses may share an id or not.
Three signals of two kinds are one that is pending, one flagged a second time and one that comes late.
Three children are an old one, the one started before its thread was done, and the next.

Deadlock is checked in `Detector`, `Readers` and `Agent`. The other systems
really may stop: calls and forks run out (`Parts`), the agent has crashed (`Watchdog`), the process
has ended (`RunLoop`, in `Kept`, `Dashboard`, `SignalLock`), or the outputs have run out and every client is gone
(`WebFeed`, in `Rings`, and `GoFeed`). `RawRing` never stops: an idle caller can always poll.

Fairness. `PerfReader` and `Agent`: weak fairness of the reader (its loop never blocks;
the channel is unbounded) and of `poll` (all consumers call it in a loop).
None for programs or processes: nothing has to happen. `LossyStream` promises
delivery under weak fairness of `Deliver`, which the refinement run checks.
`RunLoop`: weak fairness of the loop (no step of it blocks for good: polls and sends do not
wait, a request is given up after ten seconds) and of ClickHouse's thread (a loop with a
sleep), both while the process runs; none for Kafka, MemGraph, signals or failures.
`WebFeed` and `GoFeed`: weak fairness of the forwarder and of every task that takes from a
channel, which a runtime that polls what is ready gives; of a write to a socket only if its
client reads (`Readers`) or, in Go, the socket has ended, since then it fails at once. No client
has to connect, leave or, outside `Readers`, read. `Tui`: weak fairness of the poll thread, of
the tick and of `update` once it has begun; none for keys. That of the tick holds only if input
pauses now and then: `drain_ready_events` goes on while there is any. `Program`: weak fairness of both
threads, which the scheduler gives, and strong fairness of the signal thread's lock, since a mutex
waiter is woken when the lock is given back and the main thread leaves it free while it waits for
input. None for signals, and none that lets input stop. `Shell`: weak fairness of a command that has
begun and of the thread of each child that ended; a child need never end, nor a stop succeed.
In the composed runs each of these is the fairness of that part's steps.
`AuditLog`, `License`, `Keygen`, `ProcessTree`, `RawRing` and `Watchdog` state safety only; the watchdog's promises are bounded in time,
so no fairness is needed there, only the assumption in `Tick` that a sleep overruns by
at most `Slack` and that a reader with records ends a round in each second.

## 4. Disagreements with documents, comments and names

Shown by a run (see `findings` in `PROJECT.json`):

- `activate`, `restore` and `deactivate` rewrite the files but not their seal, so the
  next verification reports tampering and asks for the activation that just
  happened; only removing `.integrity.hmac` helps (license.rs 551).
- `keygen init` looks for a key (license-keygen main.rs 184) and writes one later (205) without looking
  again. Of two that both found none the second replaces the key of the first, and a license issued in
  between is void, though nobody did what line 186 asks for: "Delete it first".
- `talus_monitor_poll` empties the core and returns the first `max_events` outputs; the rest are
  in no later poll (ffi.rs 197), though talus.h 137 promises the "events since the last poll".
- `TerminalSession::cleanup` joins the signal thread while it holds the lock that thread takes to
  restore the terminal (terminal_session.rs 1081-1084, 1232, 1306): a signal taken in between makes
  both wait for ever, though line 288 says that wait "is bounded by a single flush".

Met while modelling, visible in the models, without a run of their own:

- `kill_process` signals whoever has the pid by then (monitor.rs 424): `Exit` and
  `Reuse` of `Agent` may come between the open and its handling.
- Dropping a `Monitor` leaves its reader going round (monitor.rs 646); talus.h 132 speaks
  of freeing "all resources".
- An expired trial's file is removed, and the next start is a first run (license.rs 981):
  `KillMeansAllowed` is about each trial by itself.
- An INSERT whose answer is lost or late is reported as "flush failed" (clickhouse.rs 99) though its rows
  are in the table; nothing posts them again (`Outcome`, `StoredOnce`).
- Two overlapping `audit_log` calls fork the chain (audit.rs 87), which `audit verify` then
  reports as a corruption (`disturbed` in `AuditLog`).
- A signal ends the loop after its turn; what the storage threads still hold then is lost,
  for nothing flushes at shutdown (main.rs 774, clickhouse.rs 98).
- Web and TUI modes install the handler of SIGTERM and SIGINT (main.rs 703-716) and never
  look at QUIT, and they forward nothing to storage. In TUI mode the runtime's own handler takes the
  signals and ends the process in `App::run`; `h.join()` (tui.rs 1046) is only reached by quitting.
- A signal recorded after the runtime's last look but read before the latch is set waits its two
  seconds out and ends the process in the middle of the drops if these take that long
  (`GiveUp` at "join"); the comment at terminal_session.rs 148-150 says it must not.
- Input that does not stop keeps the runtime's loop from looking for signals and from ticking
  (program.rs 5564); the grace period then ends the process.
- A frame may still be drawn after the signal thread has restored the terminal and before the loop
  looks (`Present`); the teardown, or the thread of the next signal, restores it again.
- The C port's ring drops what it has no place for without counting it (ebpf.c 91), while
  talus.h 100 speaks of "the total number of lost events".
- Two processes whose entries in `pid_to_ppid` name one another are in no tree (monitor.rs 490):
  `TreeExact` says when, and that it takes a reused pid.
- `keygen revoke` only edits the registry: a revoked license goes on verifying. Two licenses
  issued in one second without an id share it, and are revoked together. A registry that was cut
  short counts as empty, and the next save makes that final (license-keygen main.rs 74).
- Desktop shell: the thread of an old child clears the state of a newer one (lib.rs 126-127), which
  then runs unseen and cannot be stopped; or only its pid, and `stop` says it stopped what it did not
  signal. Nobody waits for a child: each stays a zombie (`overlap` in `Shell`).
- `MemGraphStore::ingest` counts every event that names a file as `OPENED`, also those that
  open nothing, against its comment "For open events" (`CountAccess`).
- librdkafka reports are only served once the channel is empty (`Acknowledge`), so under a steady
  load its queue fills and events are dropped.
- In the TUI the arm for typing in search mode comes after the arm for any key and is never
  reached (tui.rs 367), so typed letters act as commands; `q` and Escape quit only in
  the first panel; help takes any key, Ctrl-C included. A pause lets the unbounded channel of
  snapshots grow.
- The Go server's writer of a client that has left waits for a channel nobody closes, unless a
  message is in it (`Take`).
- `window_opens` is not brought down for a process that went quiet (monitor.rs 406),
  while ARCHITECTURE.md 168 calls the ranking "current opens/s".
- A threshold lowered below a window's size silences the pid until the window has
  fallen below it (monitor.rs 412): `AlertIffCrossing` is the exact statement.
- Opens are judged by the time of handling (monitor.rs 400), so a late poll counts
  opens that were further apart than a second: `AlertsReal` needs `keeps_up`.
- A window outlives its process, so a new owner of the pid is alerted on for its
  predecessor's opens (monitor.rs 401); ARCHITECTURE.md 232 says "its own rate".
- No traffic means no heartbeat (monitor.rs 692), and after ten seconds an alarm;
  watchdog.rs 8 says "every 1s". The watchdog dies with the agent whose crash
  watchdog.rs 4 wants it to report.
- The key of the audit hashes follows network cards and host name (audit.rs 60): after a
  change the whole log is reported as corrupted (`Own` in `VerifyExact`).
- `init_license` (license.rs 832) turns a license within its grace period, and one in its
  last 24 hours, into community mode after verification accepted it.

## 5. Proofs

All for every value of the constants, with `tlapm`.

- `DataLemmas` holds the facts about data that several components need: every set of naturals has a
  least element, from which all inductions here follow; what `Count` is of a concatenation; sums of
  functions over sequences and sets under a single change (`SumChange`, `SumLast`, `SumFirst`) and place
  by place (`SumPlus`); that a
  fold exists (`FoldExists`), so that one can follow it step by step.
- `DetectorProofs`: `TypeCorrect` (so no run checks it). `WindowsAreExact`, whose invariant adds that
  opens are in order of time, without which the eviction loop's stop at the first recent entry
  would say nothing about the entries behind it. `BurstsAreAlerted`, for a threshold that stays: a
  window at the threshold or above has passed through it, because an open adds one entry.
  `AlertsAreCrossings`: an alert goes out just with the open that makes a window as long as the
  threshold. `CountersNeverDrift`: the counters per process, file, extension and second are sums over
  what was taken in, and each handler changes one term of each. Of `Agent`, in the same module:
  `EveryRecordCounted`, `NoBurstMissed`, `AlertsForBursts`. Every step of the agent is a step of
  `PerfReader` or leaves it alone, so the theorems of `PerfReaderProofs` hold of its rings and channel
  (`AgentStreams`), and one of the core or leaves it alone (`CoreStep`). If the agent keeps up, a
  record is handled at the instant it was made (`Punctual`), so any second holds as many opens handled as
  recorded (`SeenAgrees`); a second that holds enough of them was a full window at its last open.
- `PerfReaderProofs`: `ReaderTyped`, `StreamKept`, `CoreInTurn`. The invariant says that the
  entries of a CPU in the channel and then those in its ring cover, without gap or
  overlap and in order, the numbers from `Taken + 1` to `produced - missed`
  (`Flow`); the lemmas `FlowGrows`, `FlowMoves`, `FlowShrinks`, `FlowApart` are what each action does to it.
  `StreamImplemented`: the safety of `LossyStream`, step by step (`EmitStreams`, `ReadStreams`,
  `ReceiveStreams`, `DestroyStreams`). `Pending` is the ascending order of the numbers in flight, so a
  record made is its new last element and, by `Flow`, the one taken its first (`AscendingAppend`,
  `AscendingTail`); a loss told is of records neither taken nor in flight, so no more is reported than dropped.
- `RingProofs`, of `WebFeed`: `FeedImplemented`, every step is a step of the feed without gaps or changes nothing
  of it: the place of a connection in the ring is one past what its socket was given last, but for
  the message in hand. `CountersAreExact`: `CountConcat` for each batch. Of `RawRing`:
  `RawRecordsKept`. A perf ring holds, without a gap, the numbers after those handled (`Strung`,
  `Through`); what was handled is split into what the caller has, what waits in the raw ring, what was
  dropped and what a Lost told (`Split`). An event read moves one number to the second or third, a Lost
  a range to the fourth, `Copy` one from the second to the first; `KeptPut` and `KeptTake` are what the
  remainders of `head` and `tail` do to the records that wait. That no record is in two places follows
  from the order of the first two and from the same `waiting` in all that was dropped.
- `GoFeedProofs`: `FeedImplemented`, the same for the feed with gaps: what a channel holds lies between
  what its writer took and the end of the feed, in order (`Placed`). `OnlySlowClientsMiss`: a message
  that a listed client was not offered found the client's own channel full.
- `PartsProofs`, of `AuditLog`: `AuditTyped` and `ChainKept`. Undisturbed, at most one writer is in
  `audit_log`, its entry continues the file as it is, and the file lacks its newline
  just while that writer is between its two writes (`Alone`). `VerificationIsExact`: along the lines,
  the counts and the hash are those of the definition (`Judged`), and what was complete at the first
  disturbance stays, as a chain (`IntactOK`), and is accepted (`Kept`). Of `Watchdog`: `WatchdogTyped`,
  `AlarmsAreInTime`, `NoFalseAlarm`. The invariant ties the thread's locals to the clock and to the
  last heartbeat in both of its states; from it the bounds 2 (Timeout + Slack) and Timeout + Slack.
  Of `ProcessTree`: `TreeIsComplete`. The kernel gives pids out upwards, so a pid that had one owner has
  its parent below it, in the kernel and in the agent's late entry (`TreeInv`). `Listed` and the way up
  are functions that call themselves one depth down; such functions exist (`IterateExists`), and as many
  depths as there are pids, and one, cannot all have an element of their own (`Crowded`). So the tree
  ends, the way up of a process it leaves out is a circle, and a circle of descents is none.
- `StoredProofs`, of `License`: `LicensedByGrant`, `KillsByRight`. No cache in `license.dat` or in a
  backup is about anything the server did not grant (`LicenseInv`); the rest is arithmetic of
  whole days (`SomeDay`, `FewerDays`). Of `Keygen`, for any number of commands under way and any
  failures: `KeyIsKept`. A license lasts if it is signed with the key in the file and no `init` is on its
  way, or is in `early` (`Lasts`): an `init` begins only where there is no key, so none begins while that
  key is there, and none is left that could write. Until a key is removed that holds of the licenses
  handed out and, for the induction, of those still with a command (`AllLast`). `RegistryIsExact`. The
  number of a license on its way is in no text that may be written (`Numbers`); undisturbed, one command at a time is at the registry and its
  text is what `list` should say once it is written (`Undisturbed`). Of `RunLoop` with `Storage`:
  `NothingStoredTwice`, `GraphIsComplete`, `TurnsAreComplete`. The invariant follows each output through
  `forward_event`: those past the stage of the call under way (`Past`) have exactly one place among
  buffer, flush, post, table and the batches that were lost for good (`Copies`, `Lost`: reported as failed
  and not in the table), one acknowledged or waiting message, and one count in the
  graph or its cache; and standard output shows the outputs up to the loop's place, in order (`OutOK`).
- `DashboardProofs`: `StatusIsTrue`, for any number of starts. The invariant says at which steps of a
  command the two variables of the shell may disagree (`OfLatest`), that a thread begins with the end of
  its start (`Threads`), and that without an overlap every earlier thread is done (`Shown`).
  `NothingIsLost` and `SuppressionHasCause`, for any events, limits and pauses: how far each snapshot
  in the channel reaches, and how many lines of the log the counter of a program stands for.
  `EndsOrderly`: which signal is pending before and after the last look at the latch, and who
  restored the terminal last.

Two definitions changed because a proof could not be had: `CheckLine` was a `CASE` whose first two
guards are both true of an empty line (TLC takes the first, the logic leaves it open), and the
assumption on `Cut` did not say that a truncated file is no list of licenses. Neither changes what the
runs explore. The mapping of `PerfReader` on `LossyStream` orders sets of numbers instead of
filtering sequences: an order can be reasoned about, a filter of the library is a recursion. So does
the order in `RawAccounted`, which compares places.

Assumptions used are the ASSUMEs of the modules (positive numbers of CPUs, ticks and so
on), which TLC evaluates in the runs.

Only model-checked: the liveness properties (`EventuallyQuiet`, `BusyReaderBeats`,
`EventuallyStored`, `LockReleased`, `ReachedOrEnded`, `NeverHeldUp`, `QuitReturns`, `SignalEndsIt`,
`EndNoticed`) and the fairness of the refinement `DeliversInOrder` (liveness and ENABLED are beyond
the prover). Every invariant and every action property of the runs that pass is proved. A proved type invariant is in no run.

## 6. Not modelled, and the plan

Order of the modules so far: `Detector`, `PerfReader` with `LossyStream`, `Agent` over both, then
`Watchdog`, `AuditLog`, `License`, the consumers (`Storage` with `RunLoop`, `Feed` with `WebFeed` and
`GoFeed`, `Tui`), then `RawRing`, `ProcessTree`, `Keygen`, `Shell` and `Program`.

Left to model, most important first:

1. `SeccompFilter`: the jumps of the generated filter against the list it was built from
   (sandbox.rs).
2. The shutdown of the Go server, whose signal goroutine destroys the monitor without `mu`
   (go-web/main.go 576), and the remaining queries of the C interface.
3. `suppressed_rename` and the sorted tables of the core; focus, scrolling and collapsing in the TUI.

Proofs next: what follows from the abstract specifications alone, for any constants. `Feed`: a client has
been given an ascending run of the feed, without gaps the whole of it from its subscription on, however
it ended. `LossyStream`: what was made on a CPU is delivered, pending or counted, and no more is reported
than was lost.

Hazards that no property covers are listed in `PROJECT.json` with the reason: mostly, that the code
does what one would not want, so nothing that holds could be stated (section 4). Beside those: a quiet
host raises the alarm, the watchdog dies with its process, `window_opens` goes stale, the reader
outlives its monitor, and the rate limiter of activations counts within one process.

Left out for good: argument decoding in the eBPF programs (the verifier's business),
drawing, command-line wording, `go-agent` (a stateless client), `useTalus.ts` (shows what
it is sent), build scripts, manifests, fuzz targets, `docs/`, and all of `frankentui` but the path
in `Program`: widgets, layout, text, demos and other backends are third-party code without a part in
what the agent does. They are the greatest part of the repository by lines, so that the mapped share
of the whole stays small however much of the agent is modelled.
