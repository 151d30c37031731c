# A TLA+ model of awto-riden

awto-riden controls Riden RD60xx bench supplies over Modbus RTU on a serial
line.  This directory holds TLA+ modules for the parts of it whose order of
steps matters, TLC configurations that check them on small instances, and
proofs that hold for every instance.  File names and line numbers refer to the
repository's `src/`.

## 1. The system

| Component | Source | State it keeps | Operations |
|---|---|---|---|
| Serial transport | `riden_transport.py` `SerialTransport` | the open port and its input buffer | `open`, `close`, `read` (FC03), `write` (FC06), `write_multiple` (FC16), each with a number of attempts |
| Device | `riden_daemon.py` `RidenDevice` | status attributes cached from the last `update` or setter | setters, getters, `update` |
| Worker | `riden_daemon.py` `RidenWorker` | `_psu`, `_lock`, counters | about twenty commands, all through `_execute`; each takes `_lock` for one or more sections |
| Logging | `RidenWorker.log_*`, `_stop_log`, the two loops | `_log_stop`, `_log_thread`, `_log_file`, `_log_path` | `log_start`, `log_current_start`, `log_stop`, `log_retrieve` |
| Discovery | `discover_devices` | the open port of one owner thread per port | sweep of Modbus addresses |
| MCP server | `mcp/mcp_server.py` | registry of named workers | tools over the workers, `rd_connect`, `rd_disconnect`, `rd_all_off` |
| Parked server, client | `parked/*.py`, `protocol.py` | socket and pid file, client threads | one request and one reply per connection |
| Flasher | `riden_flash.py` | the supply's boot loader state | reboot, identify, write chunks |
| Command line, test runner, scripts | `awto_riden.py`, `scripts/`, `test_harness.py` | none of their own | sequences of worker commands |

The pieces are stacked: MCP tools, the parked server and the command line call
worker commands, the server from one thread per client (the MCP library runs the
tools one after the other); a worker command takes `_lock` and calls the
device; the device calls the transport; the transport exchanges frames with the
supply.  The log loop is one more thread that uses the worker.  Several
processes may open the same port: nothing locks it.

What is hard in this code:

* **A lossy request and reply link with retries and no tag in the reply.**  An
  FC03 reply says neither which register nor which request it belongs to; the
  flush before each attempt is all that keeps an old reply from being taken for
  a new one.
* **Procedures that release the lock.**  `power_cycle`, `waveform`,
  `inrush_capture`, `vsweep` and `diff_scan` hold `_lock` only for each of their
  sections, so anything may happen in between: an emergency stop, a disconnect,
  another setting.
* **Failure in the middle.**  Any Modbus call can raise, having taken effect or
  not.  Whether the output of a real supply is left on depends on what is in a
  `finally` clause.
* **Programs that must leave a supply off**, whichever command fails and wherever
  Ctrl-C falls: the test runner and the bench scripts, with their `finally`
  clauses, and the emergency stops of both servers.
* **A dialogue that erases before it writes** (the flasher), on a unit that may
  be switched off at any moment.
* **The life of the server**: files of a server that was killed, handlers that
  wait on silent clients while it stops.
* **The life of the log thread**: a stop event that is cleared again, a join
  with a timeout, a file another thread may close or replace.

Correctness of each component, in a sentence: the transport behaves like a bank
of registers; the worker never interleaves two sections, always releases the
lock, never talks through a closed device, and leaves the output as each
procedure promises; `log_stop` ends logging, rows go into their own file, and
the file follows the readings; discovery reports a supply at its own address and
misses none; a flash that reports success has written the whole image, and none
was written that the caller did not ask for; a script ends with the output off;
an emergency stop that reports no error has turned everything off; the socket
server starts, stops and cleans up behind itself and its killed predecessors.

## 2. The modules

| Module | Models |
|---|---|
| `ModbusRtu` | request frames of the three calls, replies, and what the host checks of a reply |
| `RegisterBank` | abstract: what `RidenTransport` promises its callers |
| `SerialTransport` | the transport, the line and the supply |
| `MCSerialTransport` | instances of `SerialTransport` |
| `WorkerCommands` | every command of `RidenWorker` as a program: its sections and its `finally` clause |
| `RidenWorker` | the threads that run these programs on one worker, with failures |
| `MCRidenWorker` | menus of commands for the instances of `RidenWorker` |
| `LogSession` | `log_start`, `log_current_start`, `log_stop` and the log loops |
| `FirmwareFlash` | `flash_firmware` and the boot-loader dialogue, the unit, the line |
| `Discovery` | `discover_devices` and its probe of each port |
| `BenchScripts` | the one-shot commands, the test runner and five bench scripts as blocks under `try` |
| `CommandLine`, `MCCommandLine` | composes the three: the programs that own their port; instances |
| `PsuRegistry` | the supplies a process owns, and the steps of a command on them |
| `SocketServer` | the parked server: main thread, files, handlers, clients |
| `McpServer` | the MCP server: `main` and the tools |
| `Services`, `MCServices` | composes the two servers; instances |
| `SerialTransportProofs`, `RidenWorkerProofs`, `LogSessionProofs`, `FirmwareFlashProofs`, `DiscoveryProofs`, `CommandLineProofs`, `SocketServerProofs`, `McpServerProofs` | the theorems; `CommandLineProofs` has those about the scripts and about `CommandLine`, `McpServerProofs` the one about `Services` |

### SerialTransport

A *master* is a process that has the port open.  `pc[m]` is `"closed"`,
`"idle"`, `"send"` (at the head of the retry loop) or `"await"` (in
`serial.read`).  `rx` is the kernel's input buffer of the port, one for all
masters, as the kernel allows several opens of a tty.  `toDev` and `toHost` are
the frames on the line.  `Send` is the flush and the write of one attempt;
`Receive`, `Reject` and `Timeout` are the three ways the attempt ends, and
`Fails` is the `except` clause with the loop: next attempt or `TimeoutError`.
`PackFails` is `struct.pack` raising inside the retry loop of `write`.  The line
may lose a frame either way (`LoseRequest`, `LoseReply`) or damage a reply
(`DeliverDamaged`); a damaged request is ignored by the supply and so the same
as a lost one.  `LineNoise` is the adapter's line-status bytes.

The bytes are abstracted: a frame is a record, a CRC is the record being the
one that was sent, and a reply of another length has another `n`.  A frame the
host rejects empties the buffer: what is left no longer starts on a frame, and
the next attempt flushes it.  Noise only arrives while no attempt waits; bytes
that arrive within an attempt belong to the line of the late kind (`Late`).

`Late = TRUE` lets an attempt time out while its request or its reply is still
on the way.  `Late = FALSE` is the assumption the code works under: the time the
supply takes (about 143 ms, by the comment at `riden_transport.py:447`) is less
than the port's timeout (500 ms).

`RegisterBank` says that a call which returns normally has taken effect and
returns what the registers hold, and that one which raises may have taken
effect any number of times.  `SerialTransport!ImplementsBank` is the refinement.

### WorkerCommands and RidenWorker

A program is a sequence of sections and the sections of a `finally` clause.  A
section is the operations made while `_lock` is held, with what an exception in
it does: `"raise"` out of the command (or to the `finally` clause when the
section is inside the `try`), be `"swallow"`ed (the `try` around a sample or a
chunk), or be `"count"`ed (`waveform` gives up at one error more than
`MaxErrs`).  Every section of a command starts with `_assert_connected`; those
of `open` and `close` do not.

`RidenWorker` runs the programs.  `Acquire` and `NotConnected` are
`with self._lock` followed by `_assert_connected`; then one action per
operation: `WriteReturns`, `WriteUnacknowledged` (it took effect, the reply was
lost, the call raises), `WriteFails`, `Updates`, `Measures`, `Reports` and so
on.  `Leave` releases the lock; `Convert` is `get_v_out(raw[0])`, which
stores into the device object *after* the release.  The setters cache before
they write, as in `riden_daemon.py:162`.  What the supply does on its own is
`Refresh`: it measures.

Which command is which: `set_voltage`, `set_current`, `set_output`, and
`set_parameter` of one of these settings, are `setting`; `set_ovp` and `set_ocp`
are `protection`, since they cache nothing.  `set_parameter` of the protection
writes and then raises, because it cannot read the value back; of any other
parameter it raises at once.  `sine_wave` is `waveform`.  `beep` makes no Modbus
call, because `RidenDevice` has neither a buzzer method nor a buzzer attribute:
it catches the `ValueError` and returns "not supported".  `close` is the
log stop of `LogSession` followed by the section that detaches.  The file a
procedure writes is left out: an `open` or `write` of it that fails acts as a
failed first call of the section next to it does.

Registers are the three settings, the measured voltage and the two protection
levels; setpoints are 0, `Low` and `Peak`.  Values are not scaled.

### LogSession

Session `k` has kind, file and loop `k`.  A client's `pc` walks through
`_stop_log` (`SetEvent`, `Join`, `Joined` or `JoinGivesUp`, `CloseFile`) and
the rest of `log_start` (`ClearEvent`, `OpenFile` or `OpenFails`, `Spawn`).  A
loop is in `wait`, `woken` (the event was set while it waited), `poll`, `write`
or `dead`.  `Polls` is a successful poll with any reading; for a current log it
compares with `last` and writes only what `Differs`.

A poll alone is over in three attempts of half a second at most, less than the
join's 3 s; `JoinGivesUp` is what happens when it is not.  Another client may
clear the event, and another handler's command may keep the loop waiting for
`_lock`: `profile_serial` holds it for about 5 s with its default arguments.
`busy` says whether this may happen to a lone client in the present behaviour;
`Contention` gives its values.  A behaviour belongs to one of `Teams`, the
clients that take part in it.  `StopEndsLogging` and `RowsBelong` speak of a lone
client; of one whose join gave up, `StopEndsLogging` says that the loop is in its
last pass and finds no file.  `log_clients` shows why `RowsBelong` needs its two
conditions: `ClientsAreSafe` is violated by two clients, and with `Teams = {{c1}}`
by one whose join gave up.  `FileTracks` exempts a failed write, after which a
change of state is not written by the polls that still see it.

### FirmwareFlash

`stage` walks through `flash_firmware`: read the file, open the port, `query`
(is the unit in its boot loader?), `reboot` and `requery` when it is not,
`getinf`, the checks, `upfirm`, and one `chunk` after the other; then `done`,
`failed` or `stopped` (Ctrl-C).  `waiting` says that the step's request has been
written; `Accept` and `Reject` are the two ways its read ends.  The unit runs its
application, restarts, runs its boot loader or is in its upload state; a request
it does not know is lost on it.  A reply may be late or lost, and is dropped when
the session closes the port.  `PowerCycle` switches the unit off and on at any
moment, in a session or between two.  A chunk is its file and number; the unit may
refuse it.  `Abandon` is Ctrl-C or an error of the port.

### Discovery

Per port, `probe` is `"queued"`, reading the `"identity"` or the `"status"`
block of the address `Addresses[try]`, or over.  `Ask` is an attempt's flush and
request, `Take` its reply being accepted, `GiveUp` its timeout with the next
attempt, the next address or the end.  The supply answers its own address only,
but the host does not compare addresses.  `BudgetEnds` is `max_scan_s`.
`FoundIsThere` holds for one attempt per read, the function's default: a late
identity read at the wrong address is followed by a status read nobody answers.
With two attempts, as `mcp_server.main` asks for, both replies can be late, and
the supply is reported at the wrong address.

### BenchScripts

A block is one `try` statement: its steps, the block that follows, the exceptions
it swallows, and the block that catches the others.  `Step` performs a step;
`CallFails` makes it raise before or after the supply has obeyed; `Interrupted`
is Ctrl-C; `OpenDeaf` is `RidenWorker.open` returning although the supply was
silent, after which every command of that connection raises (`DeafFails`);
`GoesUnnoticed` is a lost request nobody looks for (over BLE, and in the sampling
loop of the waveform).  A `"poll"` catches its own failures; an `"ask"`, the globe
test's read over BLE, does not notice a missing answer but raises when the link
is lost.  The supply is its output and its set point: zero, low or
high.  A loop over set points is two passes.

### PsuRegistry, SocketServer, McpServer

A command is a sequence of sections of the workers it names, each atomic, which
is what `RidenWorkerProofs` establishes (`WorkerSectionsApart`: while a thread is
inside a section, nobody else changes the connection or a setting); it is reduced
to what it does to the connection and to the output.  A step either ends the command
when it fails (`Do`) or is listed or counted (`Try`).

`SocketServer`: `up` is the place of the main thread from `main` through
`_run_server` to the `finally` clauses; a slot of `req` is one client at a time
with its connection and its handler.  `"hold"` is a client that connects and
sends nothing.  `Joined` does not wait for a handler (five seconds are over);
`CloseWorkers` closes the supplies under it.  `Kill` leaves both files.  A client
that times out and tries again is a second request: the first one runs on.

`McpServer`: one tool runs at a time, since the tools are plain functions which
FastMCP calls on its event loop.  `MainConfigured` and `MainDiscovered` are the
two ways `main` fills the registry.  Tools that do the same to connection, output
and log share a program.

## 3. The runs

| Run | Expects | What it shows |
|---|---|---|
| `link_prompt` | pass | one master, two registers, two attempts, three calls, values that do not pack and values that wrap: `OnlyThisCall`, `OkMeansDone`, `ImplementsBank`, `CallsReturn` |
| `link_shared` | violation of `OkMeansDone` | two processes on one port: a read returns another register's value |
| `link_late` | violation of `OkMeansDone` | one master, late replies: the same |
| `worker_procedures` | pass | procedures against stop, close, open, samples and two faults: `OneAtATime`, `ConnectedInside`, `SectionsApart`, `ReturnedProceduresLeaveOff`, `FailedWaveformLeavesOff`, `DiffScanRestores` |
| `worker_commands` | pass | every single-section command in two threads: `LockIsReleased`, `StatusShowsSetting`, `CommandsReturn` |
| `worker_stop` | violation of `OffStaysOff` | a stop between the sections of `power_cycle` is undone, and so is one before `diff_scan` restores the output |
| `worker_measure` | violation of `MeasurementsLeaveOff` | a sweep in which one call fails leaves the output on, and so does an inrush capture whose last section fails |
| `log_sessions` | pass | one client or two: `TypeOK`, `FileTracks`, `ClientsReturn`; a lone one: `StopEndsLogging`, `RowsBelong` |
| `log_clients` | violation of `ClientsAreSafe` | two clients, or one while another command keeps `_lock`: rows go into a foreign file |
| `command_line` | pass | two flash sessions on any unit: `FlashedWhole`, `FlashAllowed`, `FlashEnds`; scans of two ports: `FoundIsThere`, `NothingMissed`, `ScanEnds`; every script with up to three failures and interrupts: `OneFaultEndsOff`, `OnlyFailedOffLeavesOn`, `ProbeLowAfterZero`, `ExitZeroMeansDone` |
| `bench_probe` | violation of `ProbeStaysLow` | the probe of the load starts at the voltage somebody left set |
| `services` | pass | the socket server, started twice: `AllOffReplyMeansOff`, `CleanStop`, `StartServes`, `ShutdownEnds`; the MCP server with every tool: `ApprovedFirst`, `AllOffReturnMeansOff`, `LogsStoppable` |

### Bounds, and why they are enough

* Link: a stale reply needs one earlier call or attempt, so two calls and two
  attempts meet every case of a retry; the third call follows a call that
  followed a failed one.  Two registers tell a right answer from a wrong one,
  and `Word = 2` makes both the value that does not pack and the one that wraps
  cheap.
* Worker: two threads, since every property is about one command and those that
  run beside it.  Two samples make the loop of `waveform` continue after a
  counted error and reach the limit (`MaxErrs = 1` for the code's 5).  Two
  faults fail a section and then the clean-up.  Two commands per thread and two
  opens reach close and open again in the middle of a procedure.
* Log: with two sessions, an old loop meets a new file.  `MaxVolt` 2 and
  `Threshold` 2 let readings drift by less than the threshold at each step and
  more than it in two.  Kinds and readings vary where one loop lives at a time
  (`Overlap` is false); what loops do to each other's files does not depend on them.
* Command line: two flash sessions, since the second meets a unit the first left
  half written; images of no, one and two chunks, since the first and the last
  chunk are the special ones; a file that names its model and one that does not;
  a supported unit, another supported one and an unsupported one.  Two ports for
  the budget that ends while one is done and the other is not; two addresses for
  a reply that comes to the wrong one; one and two attempts per read.  Three
  failures: one in a stage, one in the clean-up after it, one in the last
  clean-up; `OneFaultEndsOff` is about the first, the other script properties
  about all.
* Services: two supplies, so that one is done and the other not; two slots, one
  that stops things and one that uses them, since every property is about one
  request and the others as a whole; both may ask for `all_off`, so that a second
  one runs beside a first whose client has given up; two starts, the second after a kill or
  after a stop.
* `CHECK_DEADLOCK FALSE` is set everywhere: nobody has to call anything, and the
  bounds end every behaviour.

### Fairness

* `SerialTransport!FairSpec`: weak fairness of an attempt in progress (a
  `serial.read` returns at its timeout) and of the line as a whole (a frame
  arrives or is lost).  Nobody is made to call.
* `RidenWorker!FairSpec`: weak fairness of a thread inside a section (every
  Modbus call returns, which is `CallsReturn` of the transport) and strong
  fairness of taking the lock.  Python's lock gives no order, so starvation of a
  waiting thread is excluded by assumption; what the property is about is that
  no path forgets to release.
* `LogSession!FairSpec`: weak fairness of a client in the middle of a call and
  of a loop in the middle of a pass; the waking of a loop by its interval is
  not needed.

* `FlashFairness`, `DiscoveryFairness`: weak fairness of the tool's own steps:
  every read has a timeout.  Nothing is asked of the unit or of the line.
* `ServerFairness`: weak fairness of the main thread, whose accept has a timeout
  of a second.  No handler is made to run: its client may send nothing.

## 4. What disagrees with the docs

* `ARCHITECTURE.md:133` calls several processes on one serial port safe "via
  Modbus RTU" (`link_shared`; `docs/USB_TESTING.md:191` measures that it is not).
* The comment at `riden_transport.py:460` relies on the flush to handle residual
  data (`link_late`).
* `protocol.py:24` says that commands which affect the supply are serialised, and
  `protocol.py:77` that `all_off` disables the output (`worker_stop`).
* `rd_vsweep` is documented to turn off at the end, and `inrush_capture`
  (`riden_daemon.py:1108`) too (`worker_measure`).  The trace is that of the sweep;
  without `vsweep` in its menu, the run finds the inrush capture whose last section
  fails.  For the sweep, a path that cannot be opened has the same effect: the file
  is opened after the output has been turned on.
* `protocol.py:25` calls concurrent clients safe, and `riden_daemon.py:895` says that
  a session is written to its path (`log_clients`).
* `scripts/awto-riden-test.py:116` calls its measurement of the load a low-voltage
  probe.  It turns the output on before it sets a voltage, and relies on the
  `safe_zero` of the stage before, which there need not be and whose failure is
  only printed (`bench_probe`; `ProbeLowAfterZero` is what does hold).

The header of `protocol.py` marks its description of the daemon as legacy, since
the active tools drive the supply without one.  The server it describes is still
there, in `parked/`, and is what is checked; `riden_daemon.py:2` and `:253` call
the worker itself thread-safe.

Met on the way, of no interest to a model: `modbus_write_register` reports an
error for every write it makes (`int(None)`), and `speed_test` and
`_usb_topology_info` are nested, by their indentation, behind the `return` of
`discover_devices` instead of being methods of the worker.

## 5. What is proved

For **every** number of masters, registers, values, calls and attempts
(`SerialTransportProofs`):

* `TransportTypes`: the type invariant, on any line.
* `TransportOnlyThisCall`, `TransportOkMeansDone`, `TransportImplementsBank`:
  with one master and `Late = FALSE`, the two assumptions the violating runs
  show to be necessary.

The argument: `TypeInv` adds to the types that queued requests pack and that a
call in progress has attempts left.  `OnlyThisCall` is inductive on top of it:
at every moment the line holds the present call's request, or its reply with
the registers already as it asks, or nothing but noise.  A reply that passes
`Accepts` is then the call's own.  Serving a request twice changes nothing
(`PatchedTwice`, `ReplyTwice`), which is why the retries of a write are
harmless.  The refinement takes each action to a step of `RegisterBank`:
`DeviceServes` is `Apply`, `Receive` is `ReturnOk`, a last `Fails` is
`ReturnTimeout`.

For **every** set of threads, menu of commands and number of samples, errors,
commands and faults (`RidenWorkerProofs`), all the safety properties of the
worker's two passing runs, in three layers:

* `WorkerTypes`, `WorkerOneAtATime`, `WorkerConnectedInside`,
  `WorkerLockIsReleased`, `WorkerSectionsApart`.  The first three are not
  inductive alone.  `WorkerInv` adds that a thread inside a section holds the lock
  and that a thread that runs a command is at one of its program's sections; that
  needs `ProgramsWellFormed`, a fact about all programs: only `close`
  detaches, in a section that does not assert the connection, and a section inside
  a `try` has a `finally` clause to go to.  `WorkerLockIsReleased` is the half of
  `CommandsReturn` that a safety proof can give: however a section fails, it is
  left without the lock.
* `WorkerReturnedProceduresLeaveOff`, `WorkerFailedWaveformLeavesOff`,
  `WorkerDiffScanRestores`.  These speak of the end of a command, and its last
  write to the output may be many steps back.  `OutputInv` carries it there:
  `OffDone` says of a place in a program that it is past that write, `SwitchesBack`
  that from there on the output is not on in the thread's name, or is as saved.
  The lemmas about shapes (`WaveformShape`, `DiffScanShape`, `InrushShape`,
  `VsweepShape`) say what a program must look like for that: the section that
  switches off is last and raises what fails in it, and every section between the
  first and the `finally` clause is inside the `try`.  `ProceedsExits`, `FailsExits`
  and `LeavesExits` say where a step can take a thread: to the start of a section,
  or out of the command, at its last section or at an unguarded one.
* `WorkerStatusShowsSetting`.  `ShowingInv` follows a setting from the supply into
  the attributes and into the status, as the three operations of its section go on.
  Meanwhile the others may only store a measured voltage (`Convert`), which is no
  setting.

For **every** set of files, images, models and number of sessions
(`FirmwareFlashProofs`): `FlashTypes`, `FlashIsWhole`, `FlashIsAllowed`.
`FlashedWhole` speaks of the end of a session only; what makes it inductive is
that at most one reply is ever between unit and tool (`LineInv`), so an `OK`
that is read belongs to the chunk just sent, and that while chunks are sent the
unit holds the chunks acknowledged, and one more if the acknowledgement is under
way (`MemoryInv`).  `CallerInv` carries the result of the checks to the steps
that erase and write.

For **every** set of clients, sessions and readings (`LogSessionProofs`):
`LogTypes` and `LogFileTracks`, and for a lone client `LogStopEndsLogging` and
`LogRowsBelong`.  The argument for a lone client has two parts.  `Lone`: from
`_stop_log` to the next session the event stays set, so that no loop comes to
wait again, and the file stays closed; that holds also when a join gave up.
`Unhurried`, while no other command keeps `_lock`: whoever leaves `_stop_log` has
seen the old loop dead, so the only loop alive is the one `_log_thread` names, and
the open file is its file.
`FileTracks`, for any number of clients, rests on a file being opened before its
loop runs and never again, so that `last` is the file's last row; it needs a
threshold that is not zero (with zero, a reading equal to the last one counts as
different).

For **every** set of ports and addresses (`DiscoveryProofs`):
`DiscoveryMissesNothing`, with any number of attempts, and
`DiscoveryFoundIsThere`, with one attempt per read and addresses that differ.  In
the first, as long as no frame was lost or late, the line holds what the present
attempt asked for and nothing else.  In the second, a reply lags at most one
read behind: an identity taken at the wrong address is the only reply there is,
so the status read after it ends with nothing.

For **every** set of supplies, clients and commands, and any number of starts and
kills (`SocketServerProofs`): `ServerCleanStop` and `ServerAllOffMeansOff`.  Only
a bind makes the socket's file, and a server that is past `closing` does not bind
again.  What makes the reply of `all_off` say something is `PassedOff`: the
supplies its handler has passed without an error are off, if connected, unless
another handler has switched or connected one since.

For **every** number of supplies (`McpServerProofs`): `McpWritesApproved`,
`McpLogsStoppable`, `McpAllOffMeansOff`.  The lemma `Steps` says what every step
of every tool is: only `rd_connect` opens a supply, its own; only `rd_log_status`
starts a loop, right after it has tested the connection.  So what is open is
approved (`OpenIsApproved`), a loop starts on an open supply (`LogSeesOpen`), and
what `rd_all_off` has passed is off (`OffSoFar`).

The server theorems are about `SocketServer` and `McpServer` each on its own; the
run `services` puts the two into one state machine, and `ServicesApart` shows that
every behaviour of it is a behaviour of one of them.

For **every** choice of scripts, chains of stages, failures and interrupts
(`CommandLineProofs`): `ScriptsOneFaultEndsOff`, `ScriptsOnlyFailedOffLeavesOn`,
`ScriptsProbeLowAfterZero`, `ScriptsExitZeroMeansDone`.  `ScriptsInv` has a part for
each question.  `SwitchInv` names the places where the output is on in the
ordinary course (`Powered`) and those where it may be on after an exception, with
the command that turns it off still ahead (`Draining`): with at most one failure,
the output is on at one of these places or not at all.  `FinallyInv` follows the
`finally` clauses through any number of failures; `ZeroInv` is about the supply
between two stages of the runner, `CommandInv` about the one-shot commands.  The
programs are tables of blocks, so the step from one place to the next is a fact
about their rows (`RowsKnown` and `GuardsKnown` check them block by block).
`CommandLineApart`: every
behaviour of `CommandLine` is one of the flasher, of the discovery and of the
scripts, so their theorems hold of what `command_line` checks.

Assumptions: the named `ASSUME`s of the constants, which TLC evaluates in every
run.  Those that say more than a type are in the code: a menu has only settings a
setter makes and only two states of the output (`AllCommands`), and a chain of
stages is not empty, since the runner refuses one
(`scripts/awto-riden-test.py:239`).  No proof relies on a bound: `MaxCalls`, `MaxOpens` and `MaxFaults` may be
any number.

Only model-checked: the liveness properties (`CallsReturn`, `CommandsReturn`,
`ClientsReturn`, `FlashEnds`, `ScanEnds`, `StartServes`, `ShutdownEnds`), which
are out of the prover's reach, as is `ENABLED`.  Every invariant and every
step property of a passing run is a theorem.  The runs that expect a violation
are counterexamples; what holds in their place is proved with the hypothesis the
counterexample breaks (one master, a prompt line, a lone client, a safe_zero that
worked).

## 6. Not modelled, and the plan

Left out for good: tables of registers, the detection of ports and models (scores
and look-ups), plots, reports and benchmarks, the TCP and BLE stubs that only
raise, `capabilities` and `info` (reports), `log_retrieve`'s statistics,
`rd_plot_results`, the operation counters, the vendored discovery primitive
(absent from the repository, external), `test_harness.py` (a test of a real
supply).

Left out of the servers: two socket servers on one path at once, which unlink
each other's files and which nothing in the code is meant to exclude; the log
commands, which are `LogSession`'s; two handlers that connect the same supply at
once and open its port twice.

Next, in this order:

1. **Composition**: the worker's Modbus calls as calls of `RegisterBank`.
2. **Proofs**: what `ShutdownEnds` and `ClientsReturn` need besides fairness, as
   `LockIsReleased` is what `CommandsReturn` needs.
3. **Pure algorithms** against reference definitions: chunks of a register scan,
   steps of a sweep, quantised poll interval, down-sampling.
