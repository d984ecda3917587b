# mbdeploy, specified

mbdeploy finds BBC micro:bits on USB, keeps a registry of them, flashes them
through pyOCD, talks to them over serial, and can do all of that over a LAN:
`mbdeploy serve` is a daemon that advertises every attached board under two
mDNS services, a raw serial pipe and a flash service. This directory holds
TLA+ specifications of the parts of it that have state, the TLC runs that check
them on small instances, and TLAPS proofs of the properties that matter most.

Source paths below are relative to the repository; `server.py` etc. are under
`src/mbdeploy/`. `PROJECT.json` lists components, runs, mutations, the lines
every definition stands for, findings, hazards and theorems.

## 1. Inventory

| Part | State | Operations | Interacts with |
|---|---|---|---|
| `Board` (server.py:172-272) | `lock`, `occupant`, `connected` | `claim_serial`, `claim_flash`, `release`, `take_occupant` | every handler thread, the Supervisor |
| `Session` (83-165) | `stop` event, socket, thread | `terminate`, `join` (2 s), `_terminate_displaced` | called by whoever displaced the session |
| `serve_serial` (480-525) | its control point | authenticate, claim, open port, relay, release | `Board`, `console.relay_socket` |
| `serve_flash` (583-694) | its control point | authenticate, command, claim, preempt, payload, digest, `flash_hex`, release | `Board`, `flash_hex` |
| `AcceptLoop` (294-365) | selector, stop flag | `register`, `unregister`, `run`, `close` | one thread per accepted connection |
| `Supervisor` (739-979) | `_known`, `boards`, port maps | `_tick`, `_on_arrival`, `_on_departure`, `_alloc_ports`, `run` | probe list, registry, `Board`, `AcceptLoop`, `Advertiser` |
| shutdown (cli.py:959-1089) | `_done`, `_lock`, `stop_event` | signal handler, `_run_serve` | all three threads |
| `flash_hex` (flash.py) | return code, output | validate, flash, retry, mass erase, reflash, reset | pyocd subprocesses |
| registry (devices.py:293-399) | a JSON file | `load_devices`, `probe_all`, `assign_enum`, `save_devices` | `probe`, `list`, `deploy`, the Supervisor, other processes |
| discovery (devices.py:58-290) | none | `flashable_probes`, `probe_type`, `read_device_id` | USB, serial, SWD |
| names (devices.py:205-218, 415-475; remote.py:246-427) | none | `friendly_name`, `resolve_target`, `resolve_board`, `list_remote` | registry, mDNS |
| remote deploy (remote.py:457-607) | its control point | `deploy_over_network` | `serve_flash`, over TCP |
| console (console.py, remote.py:73-243) | threads, buffer, socket mode | `interact`, `relay_socket`, `SocketSerial` | serial port, socket |
| mDNS (mdns.py) | handles | `register`, `unregister`, `close`, `browse` | python-zeroconf |
| local commands, service files, builder (cli.py, builder.py) | none of their own | `deploy`, `connect`, `probe`, `list`, `build` | the above |

What is hard here:

* **Threads.** A daemon has one thread per connection, the Supervisor's, the
  accept loop's and the main one. They share `Board.occupant`; everything else
  about a board (its port, pyocd) is protected only by who the occupant is. A
  `FLASH` displaces a serial session *first* and stops it *afterwards*, outside
  the lock, and its wait for it is bounded, so a displaced session runs on for a
  while and releases late.
* **Departures.** A micro:bit that leaves is noticed while its threads run. Its
  listeners stay registered until the end of `_on_departure`, and a micro:bit
  that comes back gets a new `Board`.
* **Failures.** `flashable_probes` returns an empty list when pyocd cannot be
  queried, which looks like every board leaving. A handler's exception ends
  the Supervisor's thread. pyocd says little about what it did to a chip.
* **The wire.** Every send of the daemon is best-effort under whatever timeout its
  socket's last read left: a line may be lost, or torn and completed by the next
  one. Both ends of a serial pipe have two threads on one socket, and all their
  sends fail after 0.1 s without room.
* **Signals.** The shutdown runs in signal handlers that interrupt each other.
* **Sharing.** The registry file is read, changed for seconds and rewritten by
  the daemon and by any number of command-line processes, without a lock. Serial
  paths are re-issued on every reconnect, and `deploy` and `connect` read the
  registry, the probe list and the port list at different moments.

What makes each part correct is stated as the properties of section 3; the
hazards they are aimed at are listed in `PROJECT.json`.

## 2. Plan

In this order, the most important behaviour first:

1. `BoardOccupancy`, `BoardSessions`: who may use a board. *Done, proved.*
2. `FlashHex`: what a flash does to a chip and says about it. *Done, proved.*
3. `Registry`: the registry file. *Done, proved.*
4. `Supervisor`: hotplug, ports, advertisements. *Done; its invariants proved.*
5. `ServeShutdown`: signals and teardown. *Done; its invariants proved.*
6. `RemoteFlash`: `deploy_over_network` against `serve_flash`, with `FlashHex` in
   the middle. *Done; its invariants proved.*
7. `SerialPipe`: `connect --remote` against `serve_serial`: the relay's two threads,
   `interact`, `send_command` and `SocketSerial`. *Done; its invariants proved.*
8. `LocalDeploy`: `deploy` and `connect` with a local registry, name resolution
   included. *Done; its invariants proved.*
9. Further proofs: an abstract board under the exchange and one under the pipe, so that
   `RemoteFlash` and `SerialPipe` are tied to `BoardSessions` by theorems as
   `BoardSessions` is to `BoardOccupancy`; an abstract pair allocator that `Supervisor`
   implements. *Left.*
10. `Daemon`: the AcceptLoop's selector with listeners that come and go during a
    round, composed with `Supervisor`. *Left.*

How the modules fit: `BoardSessions` implements `BoardOccupancy` (its
`Occupancy` instance). The Supervisor appears in `BoardSessions` step by step
where it meets sessions, and in `Supervisor` as whole handlers, where ports and
advertisements matter; `ServeShutdown` has it only as far as registrations in
flight. `FlashHex` is the step `PyocdStarted` .. `PyocdEnded` of `BoardSessions`,
and `RemoteFlash` extends it: one connection in full detail, where `BoardSessions`
has several of them step by step and nothing of what is said. In the same way
`SerialPipe` is one serial connection in detail, the other connections reduced to
what they can do to it (`Refuse`, `Terminated`). `LocalDeploy` reads the registry
`Registry` is about, from the point of view of one command;
`Registry`'s `Start` .. `Write` is the first line of `Supervisor`'s `OnArrival`.

## 3. The modules

### BoardOccupancy, BoardSessions

`BoardOccupancy` is the promise: a board has at most one holder; a serial session
takes an idle board only; a flash takes an idle board or takes over from a serial
session; one who lost the board leaves without disturbing the one who took it.

`BoardSessions` is the code. A connection's `pc` is its handler's place; `on` the
Board its listener was registered for; `occupant` is `Board.occupant`; `stopped`
holds the sessions `terminate` was called on; `abandoned` those whose `join` expired.
Each method of `Board` is atomic because it holds the lock for its whole body;
`terminate` and `join` are separate steps because they do not. `status`, `live`,
`listening` and `sup` follow `_on_arrival` and `_on_departure`. Serial I/O, pyocd
and the client may succeed, fail or take their time at any point. The relay
(`relay_socket`) is one control point: it ends when stopped, or by itself.

* Run `sessions`: `OneFlashPerBoard`, `PortQuietDuringFlash`, `NoLeakedOccupancy`,
  `DisplacedIsTerminated` and the refinement `ImplementsOccupancy`, over two serial and
  two flash connections and two Board objects *of one micro:bit*. Two of each kind is
  the least in which a flash can be refused, a stale release meet a new holder, and
  a late claim meet a new Board; three of a kind add only bystanders.
* Run `sessions_live`: `FlashConcludes`, `DepartureConcludes`, under `LiveSpec`, with *no*
  fairness for serial threads, and `TerminatedExits`, whose premise `SerialFairness`
  says that serial threads do run. Here the two Boards are of two micro:bits, so
  a departure of one is checked beside a flash on the other.
* Run `sessions_uid`: `OneFlashPerUid` does not hold (finding). Exclusivity belongs
  to the Board object, and a claim does not look at `connected`, so a connection
  accepted before the listeners go can claim a board after `take_occupant`. A
  serial connection can do the same, and then relays on with nobody to stop it
  until its client leaves.

Fairness: every wait of a flash handler and of `_on_departure` for a peer or for another
thread has a timeout (`AUTH_TIMEOUT`, `COMMAND_TIMEOUT`, `PAYLOAD_TIMEOUT`,
`PREEMPT_JOIN_TIMEOUT`; sends carry the socket timeout that the last read left). Two waits
have none and are assumed to end: pyocd (one that hangs does hang its flash) and, in
`SerialFairness` only, a write to the port. A client that keeps its relay for ever is
allowed.

### FlashHex

`at` is the next thing `flash_hex` does, `rc` and `output` are its variables, the
device variables (`firmware`, `locked`, `restarted`) are what really happened. A
pyocd call chooses its exit code, which signature lists its output matches, and
what it did, independently of each other, with two exceptions: success of a flash means
that the new firmware is in, and a locked chip rejects a flash whole. In particular a
flash may fail with everything programmed, since pyocd resets the chip and lets go of
the probe afterwards. `SuccessIsReal`, `BlankIsTold`, `ErasesOnlyLocked`. The state space
is complete: there is no bound to choose. The module is checked in the run
`remote_flash`, as a part of `RemoteFlash`; its proofs are of its own specification.

* `BlankIsTold` says what the message about the erased board can be relied on for. A
  board this call erased and left without the new firmware is always told of. The
  converse is weaker: a board that is told of was erased by this call, has lost its old
  firmware and is reported as failed, but it may have the new one: then the message
  ("NOW HAS NO FIRMWARE", and flash.py:212-213, "the board has no firmware at all") is
  wrong, as an exit code cannot tell a flash that did nothing from one that failed at
  its end.
* A mass erase that reports failure after it erased, and a kill between erase and
  reflash, leave a blank board nobody is told of; `BlankIsTold` does not speak of them.
* An exception of the HEX parser other than its own is not modelled.

### Registry

`file` is the JSON file (`Unreadable`: missing, empty, invalid), `dict` each process's
copy. A process loads, probes its boards in any order with any answers, truncates
the file (`write_text` opens it) and writes it; another process may do anything in
between, and `CanCrash` lets one be killed. An entry is its enum, its announcement
and whether it has a name; `port` is refreshed by every probe and decides nothing.

`ever` and `disturbed` are history: what was ever recorded, and whether processes
overlapped, one was killed between the halves of `save_devices`, or `--clear` was used.

* Run `registry`, two processes and two micro:bits, everything allowed: `EnumsUnique`
  holds whatever happens. `RegistryKept` holds as long as nothing is `disturbed`:
  what devices.py:5-11 promises of the file, for processes that take turns, also when
  a probe is killed before it saves.
* Run `registry_lost_update`: `RegistryAlwaysKept`, the promise without that proviso,
  fails with two overlapping processes (finding). A kill between the halves of
  `save_devices` breaks it too: the file then reads as empty (devices.py:297) and the
  next probe numbers from 1. `RegistryKept` excepts such a kill, and no property
  promises anything of it.

### Supervisor

`Poll` takes the snapshot of `_tick`; each uid of the difference is one step,
departures first; `EndTick` assigns `_known`. USB changes in between freely.
`held`, `freelist`, `nextPort` are the port bookkeeping, a pair named by its first
port. `CanFail` lets handlers raise, which ends the thread (`at = "dead"`).

* Run `supervisor`, three micro:bits, handlers that raise. `PortsExclusive` holds
  always, `PortsConserved` while the thread lives; the free-list can hold two pairs
  while the third is handed out. `PlugTracked` and `UnplugTracked` are liveness for
  behaviours in which no handler raises, under weak fairness of the thread's work:
  its HELLO and its joins have timeouts, and that pyocd's probe list and SWD read and
  the mDNS calls return is an assumption about the environment.
* Run `supervisor_raises`: `UnplugAlwaysTracked`, without that condition, does not
  hold (finding): nothing restarts the thread.

### ServeShutdown

`frames` is the stack of calls of the `_ServeShutdown` object on the main thread,
`main` the place of `_run_serve` below them. A `Signal` pushes a call at any point.
Two locks matter: the object's `_lock`, held at point `locked`, and the one inside
`stop_event`, held while the main thread enters `wait` (point `entering`; CPython's
`Event` is modelled as it is written). `Wedged` is a call that waits for a lock of
its own stack. The Supervisor's thread is modelled where it meets the teardown.

* Run `shutdown`, up to three signals (the first, one during it, one during that),
  two micro:bits: `TearsDownOnce`, `AdvertiserClosedIdle`, `ExitIsClean`, and, with
  weak fairness of the main thread only, `SignalEndsServe`.
* Run `shutdown_second`: `SecondCallIsNoOp` does not hold (finding). `SignalEndsServe`
  is therefore stated for behaviours that are never `Wedged`.
* The accept thread may find its selector closed between the test of its flag and
  `select()`; the `ValueError` this raises is no `OSError`, so the thread ends with a
  traceback (`accept = "raised"`) instead of returning. Nothing waits for it then.

### RemoteFlash

`client` and `daemon` are the control points of `deploy_over_network` and
`serve_flash`; `up` is what the client has sent, `down` the complete lines under way
to it, `tail` the beginning of an incomplete one. `Sent` is `_send_line`: the line
goes out, or a part of it does, or nothing, and no exception tells the handler;
`Glued` is what the next line is then read as, since the client only looks for
line ends. A torn line may or may not show its first four bytes, which decide whether
it counts as `LOG`. `clean` is history: whether anything befell the
exchange while the client was there. `config` is what decides about the request
(`--no-flash`, the recorded role, `force-relay`, an access token, which this client
cannot give). Every step of `FlashHex` may put LOG lines on the wire.

* Run `remote_flash`: one client, one exchange, everything may go wrong. Exit code 0
  is `VerdictIsHonest`, and on a `clean` exchange exit code 1 is too (`VerdictAgrees`);
  without `clean` it is not, a client that loses the last line reports a failure of a
  flash that succeeded. `BlankReachesOperator` follows flash.py's
  message to the client's screen. `RefusalHarmless`: a refusal touches neither board
  nor session. `CallerIsTold` is liveness: an exchange the daemon took up ends for the
  client without a timeout of its own, whichever way the handler ends.
* Fairness: the handler's (its waits for the client have timeouts, and pyocd is assumed to
  end) and the client's where it has something to read or send. The client's timeouts are *not* fair: `CallerIsTold`
  must hold without them. In exchange nothing is said of a client whose connection
  the accept loop never takes.
* `_read_exact` says of itself that it never raises (server.py:430). It does when the
  Supervisor has closed the connection under it, since `settimeout` stands outside the
  `try`: `PayloadRaises`. No line is lost by it that could still be sent, and the
  handler's `finally` blocks release and close, so the outcome is the same.

### SerialPipe

Four threads: `main` and `reader` at the client, `relay` (the handler's thread, in
`serve_serial` from the claim on) and `pump` (the relay's reader thread) at the daemon.
Bytes are numbers in the order they were typed or said, so that a sequence tells
what is missing, doubled or out of order; 0 is an ERR line. `taken`, `load` and `buf` are data in
the hands of a thread: received from one side, not yet given to the other. `Room` bounds
what is under way in one direction; a `sendall` that meets a full buffer may send a
part, and raises. `events` is history: what befell the session.

* Run `serial_pipe`, three bytes typed, three said, room for two: the least with which a
  read can be split, a send of either end can meet a full buffer, and one of the daemon
  can be sent in part. `InOrder`: both directions are prefixes, for the interactive and
  the one-shot client. `NothingIsLost`: while nothing befalls the session the two
  directions are whole, and each byte is in one place on its way; a prefix alone would
  allow an end to be missing. `EndsForAReason` says the relay does not end of itself,
  `RelayReturns` that it does end once there is a reason, which serve_serial relies on when
  it closes the port and releases the board; the reader thread, which the bounded join of
  console.py:186 may leave running for a while, ends too.
* Fairness: only the two relay threads. Their polls and sends are bounded by 0.1 s (the
  port's and the connection's timeout). `ser.write` and `flush` are not, the port being
  opened without a `write_timeout`: that they return is an assumption, and a board whose
  USB end stops taking bytes would hold its relay. Nothing is assumed of the client, the
  user or the board.
* The client's end and a cut are seen at once by whoever looks. A half-open connection,
  that is one whose other end is gone without a packet saying so, is not modelled:
  no keepalive is set, and a relay that has nothing to send would sit on it until the
  board leaves or a FLASH preempts it.
* `interact` is not told when the daemon ends the session: its reader goes on reading
  nothing, its main thread waits for the user, and it takes a line typed into the closed
  connection, or the end of stdin, to end it. No property says the client returns.
* Not seen here: an ERR line split by TCP, or a board whose own first output begins with
  `ERR `, either of which the peek of `connect --remote` mistakes.

### LocalDeploy

One command, from `load_devices` to its end, against a world in which boards are
replugged on any free path, probed and flashed by others, and the list of probes or of
ports may come back empty (`ProbeLists`, `listed`). Each look at USB is a step of its own, so
the world can move between them; `--build` is a step that takes any time. `registry` is the
command's copy, of which it keeps the entry it resolved; `seen`, `confirmed` and `spared` are
history. Enum and uid are one kind of target: both name one entry.

* Run `local_deploy`, two boards with one name, two paths: `RelaySpared` and `PairIsFresh`.
  A relay is spared as far as the code can know it is one: it announced itself to some
  probe, was not reflashed since, and the command read the file after that. Later silence
  does not matter, except to a `probe --clear` (`ProbeCleared`), which rebuilds the file
  from what it hears: a relay whose port was in use at that moment is flashed without
  the flag from then on, until it answers a probe again. `PairIsFresh`
  is the promise of cli.py:519-529 and 717-725 that a recorded port never decides, with the exception the code
  makes: `connect` to an attached board for which no port is listed opens the
  recorded one. Two boards suffice, as a wrong choice is of one board instead of another.
* Other processes update the file one after another and before the command reads it:
  `Registry` has the interleavings of the file, and nothing is read from it later.

## 4. Bounds

Sets of connections, Boards, micro:bits and processes are finite in the runs; a
connection and a Board object are used once. `MaxSignals` bounds signals. `Types`, `Says` and `Room` bound what goes through a
pipe. `RemoteFlash` has one exchange, and runs of LOG lines count as one line
(`Queued`), so its queue is bounded by the code's own course. Nothing
else is bounded: counters (`nextPort`, enums, `attempts`) stay finite by what the
code does, and `MaxAttempts` is part of `TypeOK`, i.e. checked, not assumed.
Symmetry is used where a run checks invariants, and for the refinement in `sessions`,
which is a property of single steps and of specifications that tell none of the
exchanged values apart; runs with liveness properties use none. Each module ends in a stuttering step where
the program really rests (`Quiescent`, `Returned`, `Ended`), so that the deadlock
check is on in every run.

## 5. Proofs

Every safety property that a passing run checks, invariants, action property and
refinement, is also a theorem: for arbitrary constants, under the named assumptions of
the modules. `SessionsAssumption`, `RegistryAssumption`, `SupervisorAssumption`,
`ShutdownAssumption` and `DeployAssumption` say that the special values (`None`,
`Absent`) are no elements of the sets they are told apart from, and give the other
constants their types; `PipeAssumption` has `Room` at least 1, since a connection that
can carry nothing is none. No set of boards, paths, connections or processes is assumed
to be finite. TLC checked each inductive invariant below on the run of its module before
it was proved.

* `BoardSessionsProofs`. `IInv` is `TypeInv` (types, and that a thread which may claim
  knows its Board) with the two invariants `NoLeakedOccupancy` and
  `DisplacedIsTerminated` and three strengthenings: `SupAware` (in the middle of a
  departure the board is departed), `FlashOwns` (a flash inside a connected board *is*
  its occupant: nobody but a departure displaces a flash) and `SerialSettled` (a serial
  thread that holds the port of a board under a flash past its join had its join
  expire). `OneFlashPerBoard` follows from `FlashOwns` because an occupant is unique,
  `PortQuietDuringFlash` from `SerialSettled`. `LocalIsQuiet` reduces all steps that
  touch nothing shared to one case. `Implements` proves the refinement: each step is a
  step of `BoardOccupancy` or changes nothing it sees.
* `FlashHexProofs`. The properties themselves, with `Progress`: how many attempts lie
  behind each point, and what is known of the chip there.
* `RegistryProofs`. Uniqueness of enums is not inductive; *density* is: every
  dictionary, in the file or in a process, uses exactly the enums 1..k. The next one,
  max + 1, is then free, and a lost update loses a consistent dictionary. `RegistryKept`
  needs to know how an undisturbed process gets from one save to the next
  (`TakingTurns`): it is alone, and its copy `Covers` all that was recorded, which
  loading establishes, a probe of any outcome keeps, and saving turns back into a file
  that remembers everything.
* `SupervisorProofs`. Exclusivity of pairs, `PortInv`, adds `BelowNext`: every pair in
  circulation is below `_next_port`, so a fresh one is nobody's. `PortsConserved` says
  that the pairs held and the free ones are the whole row up to `_next_port`. It is lost
  if a board that already holds a pair is given another, so `FleetInv` has to know that
  an arrival is of a board that is not up: only boards that are up hold a pair
  (`OnlyBoardsHold`), and what arrives in a tick is disjoint from them (`Diffed`, which
  goes back to `_known` being at least what is up whenever the thread polls).
* `RemoteFlashProofs`. `ExchangeImplementsFlashHex` (`RemoteSpec => Spec`, no
  substitution needed since `RemoteFlash` extends `FlashHex`): only `FlashStep` touches
  the variables of `FlashHex`, and its steps are steps there, so every theorem of
  `FlashHexProofs` carries over (`FlashHexPromisesCarryOver`). `VerdictIsHonest` alone
  is not inductive: a client that has not heard yet will believe what is under way.
  `HonestInv` adds `LinesInTime` (an `OK flashed` on the wire was said after a success;
  log lines, which may tear and glue, never make one) and `SentInTime` (the daemon
  flashes only a payload that arrived whole, and a client whose payload is whole has no
  more to send). `ExitZeroIsReal` joins the two: exit code 0 at the client means the
  firmware on the remote chip.

  What a client learns on a connection that nothing befell is `ExchangeInv`:
  `ClientPhases` and `DaemonPhases` place the two ends, and `Expected` says what must be
  under way while the client is there, by where the handler is: before the client has
  read its answer, nothing, an `OK send`, or an error alone or after it (`BeforeOk`);
  afterwards log lines only, closed by the one line that fits the outcome once the
  handler is past it (`AfterOk`). `VerdictAgrees` follows because the first line that is
  no log line is then the last; `BlankReachesOperator` because the message about the
  blank board is either printed or `Among` the lines before that one; `RefusalHarmless`
  because an error that comes first was said before the handler had claimed the board.
  `Settled` carries this past the client's return, when `down` is gone.
  `BoardWaitsForPayload` holds on any connection and is the other half of a refused or
  broken upload: no pyocd was started for it.
* `SerialPipeProofs`. `InOrder` is about what has come out, and says nothing of bytes
  that are in a thread's hands, in a buffer or in the network. `UpInv` and `DownInv`
  account for all of them: what was written, then what the relay has taken, then what is
  under way, is the *beginning* of what was typed, and all of it as long as nobody has
  cut the connection and no thread has ended; likewise from the board to the screen,
  through `load`, `down` and `buf`. `Phases` says which buffers are empty where (a
  thread takes only when it holds nothing). `Reasons` is the invariant for
  `EndsForAReason`: a `stop`, an end of file or a failed send has its event before the
  relay can see it. `NothingIsLost` joins the two, with `EndTold` (the reader thread does
  not end without a `stop`): where there is no event yet, no thread has ended and no
  connection is gone, and `UpInv` and `DownInv` are equations. A step either moves the front of one part to the end of the one
  before it, or cuts the end off; the lemmas about concatenation and prefixes
  (`FrontAndAfter`, `HeadAndTail`, `PrefixShorter`, ...) are those two facts.
* `ServeShutdownProofs`. `ServeInv` is about the stack of nested calls. `OneCall`: at
  most one call in it is deciding (it holds `_lock`) and at most one is tearing down, at
  whatever depth. `Stages` says what each step of the teardown has behind it; with
  `done` set before the lock is let go, a later call cannot begin a second one. `Still`:
  once the join is past, the Supervisor is between ticks, or `abandoned`; it does not
  begin another, because `stop_event` was set first. `OpenKnown` is what `ExitIsClean`
  needs and what the order in `_on_arrival` gives: a listener that is open belongs to a
  board in `boards` or to the arrival in hand, so a teardown that closes the listeners
  of `boards` with no arrival in hand closes them all.
* `LocalDeployProofs`. `ConfirmedOnFile` (who announced itself as a relay since the last `--clear` is one and the
  file says so) becomes `SparedOnCopy` when the command reads the file, for the whole
  dictionary until it picks an entry and for that entry from then on; `PastGuard` is
  what the guard makes of it. `SeesWorld` (every plugged board was seen where it is
  since the command began) gives `PairSeen` at the moment a path is resolved, and no
  later move of a board takes that back.

Only model-checked: the liveness properties (`FlashConcludes`, `DepartureConcludes`,
`TerminatedExits`, `CallerIsTold`, `RelayReturns`, `PlugTracked`, `UnplugTracked`,
`SignalEndsServe`), since TLAPS does not reason about fairness and ENABLED here. The
runs that expect a violation are TLC's too.

## 6. Not modelled

* What is pure formatting or sequential I/O without state: HELLO dialects, SWD reads,
  TXT records and `browse`, `friendly_name`, `list` and `list --remote`, argument parsing, table
  output, service files, the builder.
* The AcceptLoop's selector when a listener becomes ready and is unregistered in the same
  round, and exhaustion of threads.
* A path or port pair re-issued in the middle of one network or serial call: a port pair
  given to another board between `resolve_board` and `connect`, a serial path given to
  another board between the port list and the HELLO. Nothing in the code could notice
  (hazards at server.py:946 and devices.py:383).
* `INFO` reads a board's fields without its lock and changes nothing: it is one of the
  commands `CommandDeclined` stands for.
* A half-open connection, whose other end is gone without a packet saying so.
* Security properties of the access token are out of scope.
