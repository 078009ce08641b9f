# Verification of linux_board_mcp

`linux_board_mcp` is an MCP server that lets a client drive an embedded Linux
board (over SSH, a serial console or adb) and a microcontroller (over a pyOCD
debug probe). This directory models it in TLA+, checks the models on small
instances with TLC, and proves their safety properties with TLAPS, for every
number of calls, sessions and threads, every file, environment, path, command
and memory map.

File names below are relative to `src/src/linux_board_mcp/`.

## 1. The system

One process, one asyncio event loop. The MCP framework starts one coroutine
per tool call; calls in progress interleave at every `await`. Nothing in the
server serialises tool calls: each shared object has its own lock, or none.

| Part | State it keeps | Operations | Talks to |
|---|---|---|---|
| MCU tools, `tools/mcu.py` | none between calls | 10 tools; all connect on demand (`_ensure_connected`), a mass erase twice | probe, audit |
| pyOCD probe, `probes/pyocd.py` | `_session`, `_flash_ready`, `_chip_info`, `_lock` | `connect`, `is_alive`, `chip_info`, memory, registers, `reset`, `halt`, `resume`, `flash`, `erase`; all through `_run` | executor threads, pyOCD |
| Serial transport, `transports/serial.py` | `_ser`, `_lock` | `connect`, `disconnect`, `run`, `push`, `pull`, `is_alive` | the OS's port, the board's shell |
| UART capture, `tools/readonly.py:168`, `transports/serial.py:37` | none | takes the port from the transport and gives it back | serial transport, the OS's port |
| Read-only tools, `tools/readonly.py` | none | build a command, check it, `run` it | transport, safety |
| Writable tools, `tools/writable.py` | none | `install_module`, `push_file`, sysfs, GPIO, reboot | transport, safety, audit |
| adb transport, `transports/adb.py` | `_connected` | lazy `connect`, a subprocess per command | adb server |
| SSH transport, `transports/ssh.py` | none | a subprocess per command | ssh |
| Command safety, `safety.py` | none | allow, deny, path checks | — |
| Audit, `audit.py` | an append-only file | `write` | file system |
| Server, factories, configuration | built once at start-up | registration of tools by mode | all of the above |

### Which behaviours are hard

* **A timeout does not stop a thread.** `PyOCDProbe._run` awaits an executor
  future under `wait_for`. When it gives up, the thread stays in pyOCD, the
  session is closed under it, the lock is released, and the next call starts a
  thread of its own. What the first thread does later to `_session` and
  `_flash_ready` is not ordered with anything.
* **A session outlives its board.** `is_open` stays true when the probe or the
  board is gone.
* **The event loop can be blocked**: `session.close()` is called on it.
* **A port with two kinds of user.** A capture closes the transport's port,
  then opens it *outside* the transport's lock. A command in between reopens it.
* **A console is a byte stream.** Chunks are cut anywhere, commands are echoed
  with their marker, and a command that the host gave up still runs and prints.
* **A push is many commands.** The lock covers each, not the whole; the status
  of all but the last is ignored.
* **A request that is given up is not undone.** Killing the adb client or closing
  the ssh connection does not stop the board; cancelling a call does not even
  kill the client. adb answers its own failures with what looks like the status
  of the command.
* **A flag without a lock.** `AdbTransport._connected` is tested, awaited upon
  and set by any number of calls at once, and nothing resets it when the board
  or the adb server goes.
* **Lists kept in step by hand**: roots to read and to write, paths the GPIO tools
  make up, operators of the two command checks, tools and what they need.

### What makes each part correct

* *probe*: one owner of the lock at a time, and its thread belongs to it; an
  awaited thread works on an open, current session; the flash flag and the
  halted core hold when flash is programmed; no session is leaked; every call
  is answered even if pyOCD never returns.
* *port*: who has the port open is known to the code; a running command keeps it
  open, after a login, and no capture joins it that did not wait for it; a capture
  gives the port back; no call waits for ever.
* *command protocol*: a success is real, a result has its command's own output,
  the end of a command is noticed.
* *push*: what is reported as copied, or is loaded into the kernel, is the
  local file.
* *ssh, adb*: a request is executed at most once, whatever happens to it, and a
  success is a success; a wifi target is introduced to adb before it is used; no
  client is left behind by a call that returned.
* *shell tools, audit*: requests in their order, a module only loaded after its
  push; every call that returns has left true records.
* *argument checks*: the text of an accepted path stays below its roots, an
  accepted read-only line is one command that begins like an allowed one, a line
  that was approved as one command does not chain a second one, an accepted erase
  erases its sectors and no other.
* *start-up*: what is offered can work, and the two users of a serial port share
  one transport.

## 2. Modules

| Module | What it is |
|---|---|
| `Transport` | abstract: the life of one request, as the users of `transports/base.py` may rely on it |
| `ToolCalls` | the shell tools: their requests, what they do with the answers, their audit records |
| `ShellTransport` | `ToolCalls` over ssh or adb; implements `Transport` |
| `ShellTransportProofs` | its inductive invariant, seven theorems, the refinement among them |
| `ArgumentChecks` | paths, commands and flash ranges: what is accepted |
| `Server` | start-up, and how a tool call begins |
| `ArgumentProofs` | lemmas about `Server`'s reference definitions: what the text of an accepted path names, where a shell cuts a line, which sectors a range overlaps |
| `ServerProofs` | its inductive invariant and seven theorems |
| `ProbeSession` | the MCU tools, `_run`, the executor threads, the probe's fields, pyOCD and the board |
| `ProbeSessionProofs` | its inductive invariant and seven theorems |
| `SerialPort` | commands, captures, the transport's lock and the OS's port |
| `SerialPortProofs` | its inductive invariant and five theorems |
| `SerialLink` | `_run_sync`, its markers and its read loop, against a board that executes lines; implements `Transport` |
| `SerialLinkProofs` | its inductive invariant and five theorems, the refinement among them |
| `SerialPush` | `push` and `install_module` as sequences of commands, the board's files |
| `SerialPushProofs` | its inductive invariant and four theorems |
| `SequenceFacts` | lemmas that three of the proof modules share: least and greatest numbers, induction over a set, sequences position by position |
| `MCShellTransport`, `MCServer`, `MCProbeSession`, `MCSerialPort`, `MCSerialLink`, `MCSerialPush` | small instances; what comments claim and the code does not do |

How they fit together:

    Server ------ EXTENDS ArgumentChecks        which calls begin
    ShellTransport EXTENDS ToolCalls            what accepted calls do over ssh, adb
        \-- implements --> Transport <-- implements -- SerialLink
    SerialPort, SerialLink, SerialPush          the serial transport at three grains
    ProbeSession                                the MCU tools and the probe

The three serial modules describe one transport at three grains, and meet at
`run()`. `SerialPort` treats a command as one place, `command`, in which the
lock is held and the transport has the port open. `SerialLink` looks inside that
place: one command at a time is what the lock of `SerialPort` provides; that
nobody else reads the port is an assumption of `SerialLink`. `SerialPort` shows
when it fails: only with a capture that another call's connect has overtaken, on a
host where the port can be opened twice (`RunningCommandLeftAlone`). `SerialPush` uses `run()` as a
step that types a line and gets a status or gives up, which is what
`SuccessIsReal` of `SerialLink` allows (a status is zero exactly if the
command's was). The pushes are in a module of their own because over a console,
and only there, a push is many commands; over ssh and adb it is one request.

`Transport` is the specification that the tools rely on. It is about one
request, so an implementation has one mapping for each of its requests:
`Interface(c, i)` of `ShellTransport` is the `i`-th request of call `c`,
`Interface(c)` of `SerialLink` is command `c`. `ImplementsTransport` says that all
of them behave: the conjunction of `Interface(...)!Spec`, written as one
formula on initial states and one `[]`, the form that TLC accepts for a
parameterised instance. A request that the client cancelled counts as one that
ended in an error.

Operators beginning a comment with "Mutant:" are plausible mistakes in the
operation that follows. They are part of no specification; each is substituted
for that operation to see that a property notices.

### ToolCalls and ShellTransport

`ToolCalls` has one record per call: `tool`, the answers it was `told`, its audit
`records`, and its `outcome`. `Plans` is the list of requests of each tool; tools
that behave alike are one (`command` is every tool that runs one command, also
`read_iio` with a literal device). `Proceeds`, `Returns` and `Raises` are what
the code after an `await transport...` does; `Rejected` is a failed check,
`Cancelled` the `CancelledError` that a cancelled call gets at its `await`.

`ShellTransport` adds where the coroutine is (`place`) and where its requests are
(`wire`: none, sent, executed), the flag `connected`, the client processes that
were `left` behind, the board and the adb server.

| Action | Code |
|---|---|
| `Invoke`, `Reject` | a tool is called, its arguments pass or not |
| `SshOpens`, `SshOpenFails` | `SshTransport._open` |
| `AdbConnects`, `AdbWaited`, `AdbHelperFails` | `AdbTransport.connect` from `_ensure_connected`: `adb connect` (wifi), `adb wait-for-device` |
| `Transmit`, `Execute` | the command reaches the board, and is executed there, or never is |
| `Reply`, `ClientFails` | the client ends, with the command's status or with one of its own |
| `Timeout`, `Reaped` | `wait_for` is over: `kill()` and `wait()`, or leaving `async with`; then the `TransportError` |
| `Listed`, `DevicesTimeout` | `list_devices()`, which does not kill its client |
| `Cancel`, `LeftoverExits` | the call is cancelled; a client that nobody awaits ends by itself |
| `BoardDown`, `BoardUp`, `ServerChanges` | the board leaves and comes back; the adb server forgets or finds its target |

### ArgumentChecks and Server

A path is `path.split("/")`, with the real lists of roots and of high-risk
fragments. A command line is cut into pieces, names or parts of names and single
other characters, so that `str.startswith` is the prefix of a sequence and
`dmesg2` begins with `dmesg`. All deny patterns are there (`Denied`); four of the
allowed prefixes stand for the list, one for each way in which a prefix can end:
with a name, with the second of two, inside a name, inside a path.

`Server` goes through `main()`: `FromEnv`, `BuildTransport`, `RegisterCapture`,
`RegisterLinuxTools`, `RegisterMcuTools` in the order of `build_server`, then
`Call` with any of `Requests`, and `Return`. `Accepts` is what the tool's checks
say. The properties compare it with definitions of their own: what the text of
a path names when empty segments, `.` and `..` are worked out (`Normalised`, which
follows no symbolic links, as the code follows none), where a shell ends one
command of a line and begins another (`Breaks`), the sectors that overlap a range.

### ProbeSession

A call's coroutine is `stage` (which probe method it is in), `mode` (waiting
for the lock, awaiting its thread, closing a session) and, when done, `answer`
and `audit`. The threads are `job[c][s]`, one for each call and stage,
because a thread survives the stage that started it; `uses[c][s]` is the
session whose target the thread has read from `_target_obj`.

| Action | Code |
|---|---|
| `ChipInfo`, `Access`, `Reset`, `Halt`, `Resume`, `Flash`, `Erase` (by `Invoke`) | a tool of `mcu.py` is called, its arguments pass; `is_alive()` queues for the lock |
| `Reject` | an argument check fails: return before probe and audit |
| `Grant` | `async with self._lock`, submission to the executor |
| `Deliver` | the job ended in time: lock released, and the tool goes on to its next probe method (`Succeed`, `Fail`, `EnterOp`) |
| `TimeoutUnconnected`, `TimeoutConnected`, `CloseReturns` | `TimeoutError` in `_run`, then `_invalidate_session`; with a session its `close()` occupies the event loop |
| `StartOp`, `StartConnect`, `OpenDone`, `OpDone` | a worker thread takes a job: `_target_obj`, `_maybe_connect_sync` and its `Session.open`, simple operations |
| `HaltDone`, `SetupDone`, `ProgramBegin`, `ProgramDone` | `flash` and `erase`: halt, `_setup_flash_sync`, the second read of the session, the programming |
| `JobFails` | any step in a thread raises |
| `Replug` | the board loses power or its cable; open sessions do not notice |

A thread's steps do not ask for `loop = NoCall`: they run while the loop is
blocked. A queued job is cancelled by its timeout, a running one is not, and
at most `Workers` run. `late` is a history variable: some thread that had been
given up has since *taken effect* (published a session, set the flag, moved the
core). Four properties are conditional on `~late`, because without it they are
false of the code (section 6); the condition is exact in the sense that merely
timing out, and threads that go on but only fail, do not set it.

### SerialPort

`pc[c]` is where a call is; in the places `connect`, `login`, `command` and
`close` it owns the lock. `holders` is the operating system's view (who has the
port open), `ser` the transport's (`_ser` set and open), `ready` says that the
login sequence was completed on the port that is open. The code does not ask for
exclusive access (`transports/serial.py:70`), which Windows grants anyway and
POSIX hosts do not: so in the model an open may succeed or fail whoever has the
port. `retaken[c]` is history: since the capture `c` made the transport let go, it
has been connected again. `Run` and
`CaptureSerial` are the tool calls. A capture goes through `Close`
(`disconnect()` under the lock), `CaptureOpens` or `CaptureOpenFails` (without
it), `CaptureEnds`, and the `connect()` of its `finally` clause. The lock is
FIFO, as asyncio's is.

### SerialLink

The console is a sequence of tokens: the echo of a command line, which has the
marker without digits after it; a line of output; a marker; single digits of
the exit status; an end of line. They are as fine as the parsing can tell
apart: the read loop may stop between any two of them. `Complete` is the test
that ends the loop (own marker anywhere, *any* command's marker with digits up to
an end of line or of the buffer), `SplitOutput` what is made of the buffer.
`Send` drains what has arrived (but not what arrives later), `Deadline`
ends the loop with what there is; the board goes on.

### SerialPush

A call is at command `step[c]`: 0 is `rm -f <path>.b64`, then one `printf >>`
per chunk, the decode with its `rm`, and for `install_module` the `insmod`.
`Grant` types the line, `Execute` lets the board execute the line typed first,
successfully or not, `Return` is `run()` coming back with the status and
`GiveUp` with a `TransportError`. `faulty` and `met` are history: a call whose
`rm` or chunk failed on the board, and a call that overlapped with another one
on the same path.

## 3. Runs

| Run | Shows | Bounds | States |
|---|---|---|---|
| `tools` | the transports keep the promise of `Transport`; records are true and complete; requests are in order; calls end | a call of any tool but `command`, beside a `command`; ssh, adb-usb, adb-wifi | 375 k |
| `server` | what is offered can work; accepted paths, lines and ranges are what reference definitions allow | all 144 environments; every root and some neighbours with up to two of 9 segments behind, lines of up to 3 of 16 fragments, all erases around a flash of 8 addresses | 636 k |
| `probe_flash` | the lock and the ownership of sessions; session, flash flag and halted core stay consistent under flash and resume, timeouts, unplugging and surviving threads | 2 calls, 3 sessions, 2 workers, symmetry | 1.1 M |
| `probe_live` | every call of the other tools is answered, also when threads wedge and fill the executor | 2 calls, 1 session, 1 worker | 0.5 M |
| `port` | handles are accounted for; a command keeps an open, logged-in port, and only an overtaken capture reads along; the port is given back; no call waits for ever | 3 calls | 140 k |
| `link` | results are true and own; the end of a command is noticed; `Transport` is implemented | 3 commands, two statuses, one of two digits | 90 k |
| `push` | copies are complete, whatever earlier pushes left behind; every call ends | 2 calls, 2 paths, files of 0 to 2 chunks | 0.6 M |
| `probe_one_thread`, `probe_hang`, `port_raise`, `link_status`, `push_status` | the code does not do what a comment says: section 6 | | |

The properties of each run are in its `.cfg`, and each is stated in a comment
where it is defined.

Why the bounds are enough for the hazards:

* A call identity may be used again once nothing of its last use is left, so
  two `Calls` make arbitrarily long histories with two calls at a time: one
  whose thread was given up, and one in its way. A call identity with a thread
  that runs on is not used again, so two calls cannot show two wedged tool calls
  *and* a third one; the proofs, which have no bound, cover that.
* `Sessions` bounds how often a board is connected. Two are needed for one that
  was lost and its replacement, three for a late flash that sets a flag for one
  while another comes and goes.
* `Workers = 1` in `probe_live` makes one wedged thread exhaust the executor:
  every later job has to be timed out in the queue.
* Three calls in `port`: a capture, a command that reopens the port in between,
  and one more of either kind waiting for the lock.
* Three commands in `link`: one given up, one whose read loop sees the other's
  marker, and one after it. A two-digit status can be cut between its digits.
* Two calls in `tools`: the hazards are two calls that connect at the same time,
  and a call against the board, the adb server and its own earlier request. No
  call reads what another one asked, so more calls add only more connects. A
  call is used once, and whether the audit file can be written is fixed in a
  behaviour. The proofs have no bound.
* `server`: the paths are every root, what it is below and its neighbours, with
  up to two segments behind, among them `.`, `..`, empty ones, a high-risk name
  in capitals, one that is longer than the fragment, and both halves of a fragment
  of two names. The fragments of lines are allowed prefixes (whole, and ending inside
  a name), the rest of a longer name, words of the deny list, blanks, operators and a
  backquote; three of them make every pair with an operator or a blank between,
  before or behind. A sector of 3 addresses from 4 on has ranges that begin and end
  before, at, in and after its edges, and the top address 11 is the last of none of
  them.
* Two chunks in `push`: a chunk can be lost with another in place, and a first
  one repeated. Zero chunks is the empty file.

Symmetry is used in safety runs only. `link`, `push` and `tools` set
`CHECK_DEADLOCK FALSE`: a command is sent once and a call made once, so a
behaviour ends when all are done; so does `server`, where a configuration may be
refused. The other runs check for deadlock.

## 4. Fairness

* `ProbeSession!LoopRuns` (weak fairness of `Run(c)`): the event loop, unless
  blocked, resumes the coroutine that gets the lock, delivers a result, or fires
  the timer of `wait_for`. The timer is what makes `Run(c)` always enabled for
  the owner of the lock, and every `_run` has one. **Nothing is assumed of
  threads or of the board**: they may wedge for ever.
* `CloseEnds`: `session.close()` on the loop returns. The code has no timeout
  for it, so this is a real assumption; `probe_hang` drops it and finds every
  call stuck.
* `SerialPort!FairSpec`: each step of a call that can be taken is taken; the
  jobs under the transport's lock read until a deadline, and a capture ends
  after its seconds.
* `SerialLink!FairSpec`: the console delivers and the board executes.
  **Nothing is assumed of the deadline**, since with it the property would say
  only that a timer goes off: the read loop has to notice the end by itself.
* `ShellTransport!FairSpec`: the event loop fires timers and hands over what has
  ended (`Resume`). **Nothing is assumed of adb, ssh or the board**, so a call ends
  by its timeouts alone, each of its requests by its own. The exception is in the
  property: scp has no timeout (`transports/ssh.py:86`), and a call may wait for
  it for ever (`Unbounded`).
* `SerialPush!FairSpec`: a call gets the lock, and `run()` returns or gives up
  (its deadline). Nothing is assumed of the board, which may stop.

## 5. What is proved

Every safety property that a passing run checks is also a theorem. All theorems
hold for every value of the constants under named assumptions:

* `ProbeAssumption`: `NoCall` is no call, `NoSession` no session, there is at
  least one worker, the tools are of the known set;
* `PortAssumption`: `NoCall` and `Transport` are no calls;
* `ToolAssumption` and `KindAssumption`: known tools and transports;
* `FlashAssumption`: the flash starts in the address space, its sectors are not
  empty;
* `ServerAssumption`: environments are of their type, `None` is no request, and
  arguments have the type that the tool's signature gives them: integers or
  missing for an erase, a sequence of strings for what is a `str` in the code (a
  path cut at its slashes, a command line cut into pieces);
* `LinkAssumption`: `NoCmd` is no command, and an exit status is printed with at
  least one digit and without leading zeros, as the shell's `$?` is. Without this
  a status could be `00`, of which the first digit says less than all of them;
* `PushAssumption`: `NoCall` is no call, and `NoFile` not the contents of a file.

TLC evaluates them in the runs of these modules. Nothing is assumed beyond them;
`Calls`, `Cmds`, `Sessions` and `Requests` may be infinite, and files and paths
of any length.

**ShellTransport.** `Invariance` proves `IInv`: `TypeOK`, `FlagInv` (on wifi, the
flag is set only after an `adb connect` has succeeded) and, for each call,

* `Progressing`: it has heard fewer answers than its plan has requests while it
  is in progress, and what it heard first allows it to be at its second;
* `Ordered`: what is on the wire was asked for and not yet answered, or given up;
  an answer `ok` is of a request that was executed. It speaks of cancelled calls
  too, whose clients may still transmit;
* `Left`: who may have left a client behind, and that a command's client is that
  of the request the call was at;
* `Recorded`: how many records there are at each request, and that those of
  success are true;
* `Introduced`: who is past `adb connect`.

The argument: every step is of one call and leaves the variables of the others
alone (`Frame`). The seven ways in which a request ends are one (`Answered`), with
three continuations (`AnsweredWays`). `TransportImplemented` is the refinement:
`AnswerAt` says what each request's answer is, and each kind of step is an
`Ask`, an `Execute`, an `Answer` or a stutter of the request concerned, a
stutter of the others (`StepMaps`). `TypeCorrect`, `RecordsComplete`, `OkRecordsTrue`,
`RequestsOrdered`, `ServerToldFirst` and `ClientsReaped` follow from `IInv`.

**Server.** `IInv` is `TypeOK`, `WiringInv` (what start-up has built at each step, from
what environment), `OfferedInv` (every tool is offered for a reason) and `VerdictInv`
(a verdict is about the call in progress). From it `TypeCorrect`, `OfferedWork` and
`TransportShared`. `EraseExact` also needs arithmetic: `Pieces` shows that a
range overlaps the n-th piece of a line exactly if n is between the quotients of
its ends, for any piece length.

The other three theorems are about what an accepted argument means, so their work
is in `ArgumentProofs`:

* `PathsInside`. `Normalised` walks the text of a path segment by segment.
  `WalkExists` shows that there is such a walk and that it stays among sequences of
  strings. If the path has no `..`, each step keeps what is there or adds a
  segment; so the walk of a path agrees with that of its root as far as the root
  goes, and stays below it from there on (`NormalisedPrefix`), whatever `.` and empty
  segments it has. That `..` is refused is used in every step: without it the walk
  may leave the root. For the high-risk names, what is left of a path are segments
  of the path, of which only the last may be the path's last (`NormalisedSegments`);
  so a fragment that takes one name, and is found in what is
  left, is found in the path as it was given (`OneNameKept`). Of a fragment with two
  names this is false, since `//` or `/./` may be between them.
* `ListsFit`. Every root to write to is a root to read or below one (`RootsNest`),
  and being below is transitive; the paths the GPIO tools make up have a root to
  write to and no segment that a check minds (`HarmlessTarget`).
* `LinesChecked`. `Strip` and `WithoutBackground` cut a line at its ends: what they
  leave is a `Part` of it, and what they cut off is blanks, or blanks and `&`
  (`StripFacts`, `BackgroundFacts`; a part of a part is one, `CoreOfCore`). A break of a
  line is an operator between two pieces that are neither operators nor blanks, so
  it is inside of both parts (`BreaksInside`), and each check sees it. Hence what
  `run_shell` accepts has no break (`ShellAccepted`), and what `run_command` accepts
  has none but a single `&` (`CommandAccepted`). For the refusals, a newline that is
  left after `Strip` has something on both sides, and so is a break (`ShellRefused`,
  `CommandRefused`).

No prover knows that a literal such as "sys" is in `STRING`, so `ArgumentProofs`
works with `Text`: `STRING`, with the literals of the model written out.

**ProbeSession.** `Invariance` proves `IInv`, the conjunction of

* `TypeOK`;
* `CreatedInv`: the current session is open or there is none, and threads only
  hold sessions that were created. It is what keeps types closed when a
  region is installed;
* `LockInv`: `lock = c` exactly when `c` is awaiting its thread or closing, the
  loop is blocked exactly by the call that is closing, and a job that is queued or
  has a result is awaited. Hence at most one thread is awaited (`OneAwaited`);
* `LiveInv`: the awaited thread works on an open session or none; unless `late`,
  a connecting thread has unset the session, and any other thread works on
  the *current* one. The safety property alone (the session is open) is not
  inductive: that a thread's session is the current one is what shows
  that nobody else closes it;
* `SessionInv`: unless `late`, only the current session is open, what is being
  closed is the current session, the flag speaks about the current session, and
  the core is halted from the second step of an awaited flash on.

The argument: steps of the loop await no thread they did not await before, and
change session and board only in `CloseReturns`, when nothing is awaited
(`ControlLive`, `CloseNotLive`); a step of a thread that is not awaited either has
no effect or sets `late`; so what remains is the one awaited thread, action by
action (`Rest...` lemmas). The theorems `TypeCorrect`, `LockOwned`,
`OpenSessionUsed`, `FlashFlagCorrect`, `OneSessionOpen`, `CoreHalted` follow from
`IInv`; `SessionGuarded` is the action property, from `IInv` and one step.

**SerialPort.** `Invariance` proves `IInv`, the conjunction of `TypeOK` and

* `LockInv`: the call in a locked place is the owner;
* `PortInv`: `NoHandleLost`; a capture that has let the transport go and is not
  done finds it open only if it was `retaken`; logins and commands have `ser`. The
  operating system keeps nobody out, and the capture does not hold the lock when it
  opens the port: what protects a command is that a capture has to get the lock and
  disconnect first, so that any open port it meets is a newer one;
* `LoginInv`: an open port without a completed login is being logged in by the
  owner of the lock, unless a login has failed. This is why a command that
  finds the port open may skip the login;
* `CloseInv` and `OwedInv`: only captures disconnect, and a transport that was
  connected, is not, and had no raise, is owed a connect by a capture in
  progress.

From it: `TypeCorrect`, `HandlesKept`, `CommandLeftAlone`, `LoginFirst`,
`PortReturned`.

**SerialLink.** `Invariance` proves `IInv`: `TypeOK` and

* `LinesInv`: what is typed and not executed is awaited or was given up, and is
  there once;
* `UnsentInv`: a command that was not sent has left nothing on the console. What
  was given up may still print, so this, and not an empty wire, is what makes
  a marker found in the buffer a marker of a command that was sent;
* `PrintedInv`, about `Heard`, the buffer followed by what has not been read yet:
  behind every marker are *all* the digits of its command's status and an end of
  line (`Whole`), and before the awaited command's marker is its output (`Ordered`).
  It speaks of both together because a chunk may be cut anywhere: reading moves
  tokens from one to the other and leaves `Heard` as it is (`ReadFacts`);
* `QuietInv`: as long as no deadline has passed, the console belongs to one
  command, and behind its marker come only digits;
* the three properties, about the results of commands that are over.

The argument for a result: what the read loop has of a status are the first
digits of it (`DigitsFollow`), since `Whole` holds of all that was heard and the buffer is
how it begins; a status without leading zeros is zero exactly if its first
digit is. Hence `ResultsTrue`. `OutputOwn` and `LoopEndsInTime` need `QuietInv`: the only marker with digits
that can be in the buffer is the command's own. `TransportImplemented` is the
refinement, for each command: `Send` asks, the board's marker executes,
`Finish` answers with the status that `SuccessIsReal` speaks of, and every other step stutters.

**SerialPush.** `Invariance` proves `IInv`: `TypeOK` and

* `LockInv`: the lock is owned by the call that waits for its status;
* `LinesInv`: a line not yet executed is the command its call is at, each call has
  one at most, and that of the call in conversation is the last. Those before
  it were given up and are executed first: this order is what the `rm` relies on;
* `FilesInv`, for a call without fault and without company: while it works, the
  `.b64` holds exactly the chunks sent so far, from its `rm` on nothing given up earlier can
  touch its path, and after the decode the file is the local one (`WorkInv`); and
  an `insmod` that was given up still finds it (`LateInv`), since nothing for
  this path is typed before it. `LoadedIntact` alone is not inductive: it says
  nothing until the module is loaded.

The argument: a line that is executed is of an undisturbed call itself, and then does what
the call's step needs (`EffectCases`, `OwnLine`), or it touches another path
(`OtherLine`); every step of the host has a lemma of its own (`InvokeFiles`,
`GrantFiles`, `ReturnFiles`, `GiveUpFiles`). `TypeCorrect`, `ConsoleOfOne` and
`InsmodLoadsFile` follow from `IInv`; `PushReportsCopy` is the action property, from
`IInv` and the step in which the push returns.

**Only model-checked**: liveness (`EveryCallAnswered`, the three `EveryCallEnds`,
`EveryCommandAnswered`), since fairness is out of reach of the proof system used here.
Its provers cannot use the library's induction rules either, which take an operator
as a parameter; `NatSetInduction` of `SequenceFacts` is induction over the *set* of the
numbers with the property instead, proved from the least member of its complement. Every
`IInv` was model-checked before it was proved.

## 6. Where code and comments disagree

Each is the counterexample of a run, in which the claim is quoted.

1. `probe_one_thread`: a thread that timed out and the next call's thread are
   in pyOCD together, although `_run` is said to hold the lock because "pyOCD
   is not re-entrant" (`probes/pyocd.py:132`).
2. `probe_hang`: "a wedged SWD transaction can never hang the server"
   (`probes/pyocd.py:9`) needs `session.close()` to return, on the event loop.
3. `port_raise`: a `SerialException` in the login of `run()`, or the `connect()`
   in the `finally` clause of a capture, is raised out of a tool ("Errors are
   returned as strings", `tools/readonly.py:3`).
4. `link_status`: an exit status whose digits are cut by a chunk is reported
   as its first digits (`transports/serial.py:266`). `SuccessIsReal` shows what
   still holds: zero is zero.
5. `push_status`: a chunk the board could not write is missing from a push that
   returns OK (`transports/serial.py:301`).

Seen while modelling, present in the models, and not the subject of a run:

* a given-up flash may set `_flash_ready` (`probes/pyocd.py:434`) after
  another session has been opened, which then has no flash region: this, and
  a late connect that publishes over a newer session, are why
  `FlashFlagTracksSession`, `NoOpenSessionLost` and `HaltedWhileProgramming`
  need `~late`;
* `reset()` drops the chip-info cache before it waits for the lock
  (`probes/pyocd.py:306`), so that a `chip_info` in progress may fill it again;
* a marker of an earlier command, given up, ends the wait of the next one, which
  then raises at once (`transports/serial.py:266`): why `NoErrorUnlessExpired`
  speaks of no deadline at all and not of the command's own;
* nothing asks for exclusive access to the port (`transports/serial.py:70`): on a
  POSIX host a capture that was overtaken by a command's connect opens the port
  beside it, and both read the console (`tools/readonly.py:205`). The repository's
  `README.md`, line 105, says that one program at a time has the port. Why
  `RunningCommandLeftAlone` has `retaken`;
* the prefixes of `run_shell` are compared by `str.startswith` (`safety.py:153`), so
  `dmesg2` passes, against `docs/ARCHITECTURE.md:215`, which says that `dmesg` is
  allowed and `dmesg2` is not. `LinesLimited` says "begins like";
* the pattern for substitution needs a parenthesis (`safety.py:93`), so a command
  between backquotes, which the shell runs first, is not refused in either tool;
* `run_command` lets one `&` stand between two commands, although a command is not
  to be "silently extended into a second one" (`tools/writable.py:164`): only `&&` is in
  its list, and only a `&` at the end is meant for the background;
* the high-risk fragments of two names are found only if the names have one slash
  between them (`safety.py:197`): `watchdog//disable`, the same file as
  `watchdog/disable`, passes, which `tests/test_safety.py:155` and
  `docs/mcp-server-vs-raw-adb.md:65` want refused. `AcceptedInside` speaks of the
  fragments with one name;
* the push of an empty file writes no chunk, and its decode fails
  (`transports/serial.py:299`);
* two `install_module` of different files with one base name share a path on
  the board (`tools/writable.py:51`);
* after the board was unplugged, `connect()` of the probe returns without
  attaching, since the session still says that it is open (`probes/pyocd.py:166`,
  against `probes/base.py:51`); the operation then times out and closes the session;
* calls without an audit record, against `audit.py:1` ("every tool invocation")
  and `docs/ARCHITECTURE.md:314` ("任意分支都写一条 audit"): most rejections, MCU
  calls that could not connect (`tools/mcu.py:88`), the look-up of
  `read_iio`, and calls that raise or are cancelled. `EveryReturnRecorded` says
  what does hold;
* `OSError`s other than a missing binary leave the adb tools as exceptions
  (`transports/adb.py:75`), and so do those of an ssh command;
* `board_info` records `ok` without looking at a status (`tools/readonly.py:293`);
* the failure of an adb client itself, for an unknown device say, is reported as
  the status of the command (`transports/adb.py:128`);
* `adb-wifi` without a host is noticed by the factory (`transports/__init__.py:35`),
  where nothing turns the `ValueError` into the exit status 2 of `__main__.py`;
* a range that ends with the last address is refused (`tools/mcu.py:354`).

## 7. Abstractions and what is not modelled

* The probe: addresses, values and messages; the sectors are in `ArgumentChecks`;
  the clamp of `read_mem` and the hex digits of `write_mem`; which step of pyOCD fails
  (any may); that a client may cancel an MCU call.
* The port: the contents of commands and the login dialogue (done, or broken
  half way); which hosts let a port be opened twice (any open may succeed or
  fail); an adapter that is unplugged while open.
* The link: characters; a command prints one line of output and does not print
  the markers of others; lines are not lost or garbled by the console.
* The push: base64, the size of chunks; a `printf >>` that fails appends
  nothing; a decode that fails leaves an empty file; the status of a line is the board's (`SerialLink`).
* The shell tools: the text of commands and answers; the durations of timeouts;
  adb passes the status of a command on, as it does from version 23 on
  (the repository's `README.md`, line 281); with an older adb every status is zero, and neither `OkRecordIsReal`
  nor `ImplementsTransport` holds.
* The checks: a path is its text. Symbolic links, which are everywhere below `/proc`
  and `/sys/class`, are followed neither by the code nor by the model, so
  `AcceptedInside` does not say where the file is in the end. Characters within a
  segment or a piece: one name in capitals and a few longer names stand for
  all. Four prefixes stand for the list of allowed ones; `\r`, NUL and other blanks
  are covered by `\n` and the space. `Breaks` knows no quotes and no redirection, so
  a `;` in a string, or the `&` of `2>&1`, counts as an operator, as it does in the code. The deny
  patterns look for known words; no property claims that they find every
  dangerous command, or that a line without breaks runs no second one (backquotes do).
* Start-up: the values of settings, and the warnings about keys and permissions.
  `build_probe` cannot fail, since `pyocd.py` imports pyOCD when it connects.
* Not modelled: `disconnect()` of the probe and of adb, which nothing calls; `pull()`
  and `is_alive()` of the serial transport; exports, the installer and the tests.

Hazards that no property covers, and why: the chip-info cache against a reset and
against another board (`probes/pyocd.py:307`, `:246`): the code promises nothing, a property
needs the abstract probe of section 8. The session that stays open without a
board (`probes/pyocd.py:166`) is part of every probe run. The records that
early returns of the MCU tools skip (`tools/mcu.py:88`) are in the model, and are
no promise of the code. The adapter that is unplugged (`transports/serial.py:284`)
is planned. The push of an empty file (`transports/serial.py:299`) is modelled and
simply fails. Others happen in the runs, and the properties next to them except
them by name, because without the exception they are false of the code: the late
connect (`probes/pyocd.py:206`, `late`; so is the late flash at `:362`, of which
`FlashFlagTracksSession` covers the rest), two pushes or installs on one path at
the same time (`transports/serial.py:298`, `tools/writable.py:60`; `met`), scp without a
timeout (`transports/ssh.py:86`, `Unbounded`), an audit file that cannot be written
(`audit.py:48`). The adb flag that stays set when the board has gone
(`transports/adb.py:118`) breaks no promise: later commands fail, and say so.

## 8. Plan

Done, in the order of importance: `ProbeSession`, `SerialPort`, `SerialLink`,
`SerialPush`, `Transport`, `ToolCalls`, `ShellTransport`, `ArgumentChecks`, `Server`, and
the proofs of their safety properties. Next:

1. `ProbeService`, an abstract probe (a call is answered once; what it did was
   done on the board attached at that time, in lock order while not `late`), and
   `ProbeSession` shown to implement it. Properties of the cache against resets
   belong there.
2. In `SerialPort`, an adapter that is unplugged; `pull()`; in `ProbeSession` and
   `SerialPort`, calls that the client cancels.
