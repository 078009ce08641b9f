---------------------------- MODULE ProbeSession ----------------------------
(***************************************************************************)
(* The MCU side of the server: the tool calls of tools/mcu.py, which run   *)
(* concurrently on the asyncio event loop, the asyncio lock and timeout of *)
(* PyOCDProbe._run, the executor threads that do the blocking pyOCD work,  *)
(* and the session, flash flag and chip-info cache they share              *)
(* (probes/pyocd.py).  A thread whose call has timed out is not stopped by *)
(* wait_for: it goes on, without the lock, until it returns by itself.     *)
(***************************************************************************)
EXTENDS Naturals, Sequences, FiniteSets

CONSTANTS
  Calls,      \* tool calls in progress at the same time
  Sessions,   \* pyOCD Session objects; their number bounds the connects
  NoCall,     \* the lock has no owner, the loop is not blocked
  NoSession,  \* self._session is None, self._chip_info is None
  Workers,    \* threads of the default executor
  Offered     \* the operations that calls ask for

FlashTools == {"flash", "erase", "mass_erase"}
Tools == {"chip_info", "access", "reset", "halt", "resume"} \union FlashTools

ASSUME ProbeAssumption ==
  /\ NoCall \notin Calls
  /\ NoSession \notin Sessions
  /\ Workers \in Nat \ {0}
  /\ Offered \subseteq Tools

VARIABLES
  \* one coroutine per tool call, on the event loop
  tool,       \* the operation the call is for
  stage,      \* the probe method it is in
  mode,       \* "idle", "wait" for the lock, "run" in the executor, "close"
  answer,     \* what the tool returned
  audit,      \* the audit records written for the call
  lock,       \* owner of PyOCDProbe._lock
  waiters,    \* FIFO of the calls waiting for it
  loop,       \* call whose session.close() blocks the event loop, or NoCall
  closing,    \* the session that close() is closing
  \* executor threads
  job,        \* job[c][s]: the thread started by call c at stage s
  uses,       \* uses[c][s]: the session whose target that thread captured
  \* fields of PyOCDProbe
  session,    \* _session
  flashReady, \* _flash_ready
  chipInfo,   \* _chip_info, as the session it was read through
  \* pyOCD and the board
  created,    \* sessions constructed so far
  isOpen,     \* sessions s with s.is_open
  attached,   \* open sessions whose board is still there: SWD succeeds
  mapped,     \* sessions in whose memory map the flash region is installed
  halted,     \* the core is halted
  \* history
  late        \* a thread given up by its call has since taken effect

callVars  == <<tool, stage, mode, answer, audit, waiters>>
probeVars == <<session, flashReady, chipInfo>>
boardVars == <<created, isOpen, attached, mapped, halted>>
threadVars == <<job, uses>>
vars == <<callVars, lock, loop, closing, threadVars, probeVars, boardVars, late>>

\* alive2 and connect2: the second _ensure_connected of a mass erase
Stages == {"alive", "connect", "alive2", "connect2", "op"}
ConnectStages == {"connect", "connect2"}
Modes == {"idle", "wait", "run", "close"}
Answers == {"none", "ok", "failed", "unreachable", "rejected"}
Records == {"_connect", "tool"}
\* what a thread is executing; only flash and erase go beyond "busy"
Executing == {"busy", "setup", "ready", "program"}
JobStates == {"none", "queued", "ok", "err"} \union Executing

Active(c, s) == job[c][s] \in Executing
\* the call still awaits this thread; otherwise wait_for has given it up
Awaited(c, s) == mode[c] = "run" /\ stage[c] = s
Live(c, s) == Active(c, s) /\ Awaited(c, s)
ActiveJobs == {cs \in Calls \X Stages : Active(cs[1], cs[2])}

TypeOK ==
  /\ tool \in [Calls -> Tools]
  /\ stage \in [Calls -> Stages]
  /\ mode \in [Calls -> Modes]
  /\ answer \in [Calls -> Answers]
  /\ audit \in [Calls -> SUBSET Records]
  /\ lock \in Calls \union {NoCall}
  /\ waiters \in Seq(Calls)
  /\ loop \in Calls \union {NoCall}
  /\ closing \in Sessions \union {NoSession}
  /\ job \in [Calls -> [Stages -> JobStates]]
  /\ uses \in [Calls -> [Stages -> Sessions \union {NoSession}]]
  /\ session \in Sessions \union {NoSession}
  /\ flashReady \in BOOLEAN
  /\ chipInfo \in Sessions \union {NoSession}
  /\ created \subseteq Sessions
  /\ isOpen \subseteq created
  /\ attached \subseteq isOpen
  /\ mapped \subseteq created
  /\ halted \in BOOLEAN
  /\ late \in BOOLEAN

Init ==
  /\ tool = [c \in Calls |-> "access"]
  /\ stage = [c \in Calls |-> "alive"]
  /\ mode = [c \in Calls |-> "idle"]
  /\ answer = [c \in Calls |-> "none"]
  /\ audit = [c \in Calls |-> {}]
  /\ lock = NoCall
  /\ waiters = <<>>
  /\ loop = NoCall
  /\ closing = NoSession
  /\ job = [c \in Calls |-> [s \in Stages |-> "none"]]
  /\ uses = [c \in Calls |-> [s \in Stages |-> NoSession]]
  /\ session = NoSession
  /\ flashReady = FALSE
  /\ chipInfo = NoSession
  /\ created = {} /\ isOpen = {} /\ attached = {} /\ mapped = {}
  /\ halted = FALSE
  /\ late = FALSE

-----------------------------------------------------------------------------
(* The coroutine of a call: its control between two awaits.                *)

\* the call enters a probe method, whose _run queues for the lock
Await(c, s) ==
  /\ stage' = [stage EXCEPT ![c] = s]
  /\ mode' = [mode EXCEPT ![c] = "wait"]
  /\ waiters' = Append(waiters, c)
  /\ UNCHANGED <<answer, audit>>

\* the tool writes an audit record and returns
Return(c, a, record) ==
  /\ mode' = [mode EXCEPT ![c] = "idle"]
  /\ answer' = [answer EXCEPT ![c] = a]
  /\ audit' = [audit EXCEPT ![c] = @ \union {record}]
  /\ stage' = [stage EXCEPT ![c] = "alive"]
  /\ UNCHANGED waiters

\* chip_info() answers from the cache, without lock or thread
CacheHit(c) ==
  /\ tool[c] = "chip_info"
  /\ chipInfo # NoSession
  /\ session # NoSession

\* the probe method the tool is for; reset() drops the cache before _run
EnterOp(c) ==
  \/ /\ CacheHit(c)
     /\ Return(c, "ok", "tool")
     /\ UNCHANGED chipInfo
  \/ /\ ~CacheHit(c)
     /\ Await(c, "op")
     /\ chipInfo' = IF tool[c] = "reset" THEN NoSession ELSE chipInfo

\* the awaited probe method returned
Succeed(c) ==
  \/ /\ stage[c] \in {"alive", "connect"}
     /\ tool[c] = "mass_erase"
     /\ Await(c, "alive2")
     /\ UNCHANGED chipInfo
  \/ /\ stage[c] # "op"
     /\ ~(stage[c] \in {"alive", "connect"} /\ tool[c] = "mass_erase")
     /\ EnterOp(c)
  \/ /\ stage[c] = "op"
     /\ Return(c, "ok", "tool")
     /\ chipInfo' = IF tool[c] = "chip_info" THEN uses[c]["op"] ELSE chipInfo

\* it raised ProbeError: is_alive() turns that into False, so the tool
\* connects; a failed connect and a failed operation end the tool
Fail(c) ==
  /\ \/ stage[c] = "alive" /\ Await(c, "connect")
     \/ stage[c] = "alive2" /\ Await(c, "connect2")
     \/ stage[c] \in ConnectStages /\ Return(c, "unreachable", "_connect")
     \/ stage[c] = "op" /\ Return(c, "failed", "tool")
  /\ UNCHANGED chipInfo

\* A new call may take the identity c once nothing of its last use is left.
Fresh(c) == mode[c] = "idle" /\ \A s \in Stages : ~Active(c, s)

Invoke(c, t) ==
  /\ loop = NoCall
  /\ Fresh(c)
  /\ t \in Offered
  /\ tool' = [tool EXCEPT ![c] = t]
  /\ mode' = [mode EXCEPT ![c] = "wait"]
  /\ answer' = [answer EXCEPT ![c] = "none"]
  /\ audit' = [audit EXCEPT ![c] = {}]
  /\ waiters' = Append(waiters, c)
  /\ UNCHANGED <<stage, lock, loop, closing, threadVars, probeVars, boardVars>>
  /\ UNCHANGED late

ChipInfo(c) == Invoke(c, "chip_info")
Access(c) == Invoke(c, "access")    \* read or write memory or a register
Reset(c) == Invoke(c, "reset")
Halt(c) == Invoke(c, "halt")
Resume(c) == Invoke(c, "resume")
Flash(c) == Invoke(c, "flash")
Erase(c) == \E t \in {"erase", "mass_erase"} : Invoke(c, t)

\* An argument check fails: the tool returns before the probe is touched,
\* and before any audit record is written.
Reject(c, t) ==
  /\ loop = NoCall
  /\ Fresh(c)
  /\ t \in Offered
  /\ tool' = [tool EXCEPT ![c] = t]
  /\ answer' = [answer EXCEPT ![c] = "rejected"]
  /\ audit' = [audit EXCEPT ![c] = {}]
  /\ UNCHANGED <<stage, mode, waiters>>
  /\ UNCHANGED <<lock, loop, closing, threadVars, probeVars, boardVars, late>>

-----------------------------------------------------------------------------
(* PyOCDProbe._run: the lock, the executor, the timeout.                   *)

\* Mutant: `async with self._lock` is missing.
GrantNoLock(c) ==
  /\ loop = NoCall
  /\ mode[c] = "wait"
  /\ waiters # <<>> /\ Head(waiters) = c
  /\ lock' = c
  /\ waiters' = Tail(waiters)
  /\ mode' = [mode EXCEPT ![c] = "run"]
  /\ job' = [job EXCEPT ![c][stage[c]] = "queued"]
  /\ UNCHANGED <<tool, stage, answer, audit, loop, closing, uses>>
  /\ UNCHANGED <<probeVars, boardVars, late>>

\* the lock goes to the call that waited longest, which submits its job
Grant(c) ==
  /\ loop = NoCall
  /\ lock = NoCall
  /\ mode[c] = "wait"
  /\ waiters # <<>> /\ Head(waiters) = c
  /\ lock' = c
  /\ waiters' = Tail(waiters)
  /\ mode' = [mode EXCEPT ![c] = "run"]
  /\ job' = [job EXCEPT ![c][stage[c]] = "queued"]
  /\ UNCHANGED <<tool, stage, answer, audit, loop, closing, uses>>
  /\ UNCHANGED <<probeVars, boardVars, late>>

\* the thread finished in time; the lock is released and the tool goes on
Deliver(c) ==
  /\ loop = NoCall
  /\ mode[c] = "run"
  /\ \/ job[c][stage[c]] = "ok" /\ Succeed(c)
     \/ job[c][stage[c]] = "err" /\ Fail(c)
  /\ lock' = NoCall
  /\ job' = [job EXCEPT ![c][stage[c]] = "none"]
  /\ uses' = [uses EXCEPT ![c][stage[c]] = NoSession]
  /\ UNCHANGED <<tool, loop, closing, session, flashReady, boardVars, late>>

\* wait_for gives up: a job still queued is cancelled, a finished one is
\* dropped, a running one is left to itself
GiveUp(c) ==
  job' = [job EXCEPT ![c][stage[c]] = IF @ \in Executing THEN @ ELSE "none"]

\* Mutant: the time is counted from the start of the thread.
TimeoutOnlyRunning(c) ==
  /\ loop = NoCall
  /\ mode[c] = "run" /\ Active(c, stage[c])
  /\ session = NoSession
  /\ GiveUp(c)
  /\ flashReady' = FALSE
  /\ Fail(c)
  /\ lock' = NoCall
  /\ UNCHANGED <<tool, loop, closing, uses, session, boardVars, late>>

\* The timeout fires with no session to close: _invalidate_session only
\* clears the flag.
TimeoutUnconnected(c) ==
  /\ loop = NoCall
  /\ mode[c] = "run"
  /\ session = NoSession
  /\ GiveUp(c)
  /\ flashReady' = FALSE
  /\ Fail(c)
  /\ lock' = NoCall
  /\ UNCHANGED <<tool, loop, closing, uses, session, boardVars, late>>

\* Mutant: the lock is released before the session is closed.
TimeoutReleasesFirst(c) ==
  /\ loop = NoCall
  /\ mode[c] = "run"
  /\ session # NoSession
  /\ GiveUp(c)
  /\ lock' = NoCall
  /\ loop' = c
  /\ closing' = session
  /\ mode' = [mode EXCEPT ![c] = "close"]
  /\ UNCHANGED <<tool, stage, answer, audit, waiters, uses>>
  /\ UNCHANGED <<probeVars, boardVars, late>>

\* The timeout fires with a session: its close() is called on the event
\* loop itself, with the lock held.
TimeoutConnected(c) ==
  /\ loop = NoCall
  /\ mode[c] = "run"
  /\ session # NoSession
  /\ GiveUp(c)
  /\ loop' = c
  /\ closing' = session
  /\ mode' = [mode EXCEPT ![c] = "close"]
  /\ UNCHANGED <<tool, stage, answer, audit, waiters, lock, uses>>
  /\ UNCHANGED <<probeVars, boardVars, late>>

\* Mutants: the closed session stays in _session ...
CloseKeepsSession(c) ==
  /\ loop = c
  /\ isOpen' = isOpen \ {closing}
  /\ attached' = attached \ {closing}
  /\ flashReady' = FALSE
  /\ Fail(c)
  /\ lock' = NoCall /\ loop' = NoCall /\ closing' = NoSession
  /\ UNCHANGED <<tool, threadVars, session, created, mapped, halted, late>>
\* ... or it is forgotten without being closed.
CloseForgets(c) ==
  /\ loop = c
  /\ session' = NoSession
  /\ flashReady' = FALSE
  /\ Fail(c)
  /\ lock' = NoCall /\ loop' = NoCall /\ closing' = NoSession
  /\ UNCHANGED <<tool, threadVars, boardVars, late>>

\* close() returns or raises; the session is forgotten, the lock released.
\* pyOCD may resume the core when it disconnects.
CloseReturns(c) ==
  /\ loop = c
  /\ isOpen' = isOpen \ {closing}
  /\ attached' = attached \ {closing}
  /\ \E h \in {halted, FALSE} : halted' = h
  /\ session' = NoSession
  /\ flashReady' = FALSE
  /\ Fail(c)
  /\ lock' = NoCall
  /\ loop' = NoCall
  /\ closing' = NoSession
  /\ UNCHANGED <<tool, threadVars, created, mapped, late>>

-----------------------------------------------------------------------------
(* Executor threads.  They run whether or not the loop is blocked, and     *)
(* whether or not their call still awaits them.                            *)

ThreadFrame == UNCHANGED <<callVars, lock, loop, closing, chipInfo>>

\* the result of a thread nobody awaits is discarded
Finish(c, s, result) ==
  LET delivered == Awaited(c, s) IN
  /\ job' = [job EXCEPT ![c][s] = IF delivered THEN result ELSE "none"]
  /\ uses' = [uses EXCEPT ![c][s] =
                IF delivered /\ result = "ok" THEN @ ELSE NoSession]

Advance(c, s, to) == job' = [job EXCEPT ![c][s] = to]

\* self._target_obj or self._sess is read: the thread works on session x
Capture(c, s, x) == uses' = [uses EXCEPT ![c][s] = x]

\* effects of a thread that was given up are what `late` remembers
Effect(c, s) == late' = (late \/ ~Awaited(c, s))

\* a worker picks up the queued job of a stage other than connect: the
\* job captures the target of the current session, or raises
StartOp(c, s) ==
  /\ s \notin ConnectStages
  /\ job[c][s] = "queued"
  /\ Cardinality(ActiveJobs) < Workers
  /\ \/ /\ session = NoSession
        /\ Finish(c, s, "err")
     \/ /\ session # NoSession
        /\ Advance(c, s, "busy")
        /\ Capture(c, s, session)
  /\ ThreadFrame
  /\ UNCHANGED <<session, flashReady, boardVars, late>>

\* _maybe_connect_sync: nothing to do while the session says it is open;
\* otherwise a stale session is closed and forgotten, and a new one opened
StartConnect(c, s) ==
  /\ s \in ConnectStages
  /\ job[c][s] = "queued"
  /\ Cardinality(ActiveJobs) < Workers
  /\ \/ /\ session \in isOpen
        /\ Finish(c, s, "ok")
        /\ UNCHANGED <<session, flashReady>>
     \/ /\ session \notin isOpen
        /\ Advance(c, s, "busy")
        /\ session' = NoSession
        /\ flashReady' = (flashReady /\ session = NoSession)
        /\ UNCHANGED uses
  /\ ThreadFrame
  /\ UNCHANGED <<boardVars, late>>

\* Session.open() succeeds and the session is published
OpenDone(c, s) ==
  /\ s \in ConnectStages
  /\ job[c][s] = "busy"
  /\ \E new \in Sessions \ created :
       /\ session' = new
       /\ created' = created \union {new}
       /\ isOpen' = isOpen \union {new}
       /\ attached' = attached \union {new}
  /\ flashReady' = FALSE
  /\ Finish(c, s, "ok")
  /\ Effect(c, s)
  /\ ThreadFrame
  /\ UNCHANGED <<mapped, halted>>

\* operation t may leave the core halted (h) or running (~h): resume() and
\* reset() leave it running, halt() and reset_and_halt() do not
CoreAfter(t, h) ==
  /\ t = "halt" => h
  /\ t = "resume" => ~h
  /\ t \notin {"halt", "resume", "reset"} => h = halted

\* the transactions of is_alive() or of a simple operation succeed
OpDone(c, s) ==
  /\ s \notin ConnectStages
  /\ ~(s = "op" /\ tool[c] \in FlashTools)
  /\ job[c][s] = "busy"
  /\ uses[c][s] \in attached
  /\ \E h \in BOOLEAN : /\ CoreAfter(IF s = "op" THEN tool[c] ELSE "access", h)
                         /\ halted' = h
  /\ Finish(c, s, "ok")
  /\ Effect(c, s)
  /\ ThreadFrame
  /\ UNCHANGED <<session, flashReady, created, isOpen, attached, mapped>>

\* Mutants: the core is not halted ...
FlashNoHalt(c) ==
  /\ tool[c] \in FlashTools
  /\ job[c]["op"] = "busy"
  /\ Advance(c, "op", IF flashReady THEN "ready" ELSE "setup")
  /\ Effect(c, "op")
  /\ ThreadFrame
  /\ UNCHANGED <<uses, session, flashReady, boardVars>>
\* ... or the flag is set when the set-up begins.
FlashFlagEarly(c) ==
  /\ tool[c] \in FlashTools
  /\ job[c]["op"] = "busy"
  /\ uses[c]["op"] \in attached
  /\ halted' = TRUE
  /\ flashReady' = TRUE
  /\ Advance(c, "op", IF flashReady THEN "ready" ELSE "setup")
  /\ Effect(c, "op")
  /\ ThreadFrame
  /\ UNCHANGED <<uses, session, created, isOpen, attached, mapped>>

\* flash() and erase() halt the core; _setup_flash_sync returns at once if
\* the flag is set, else it takes the target of the current session
HaltDone(c) ==
  /\ tool[c] \in FlashTools
  /\ job[c]["op"] = "busy"
  /\ uses[c]["op"] \in attached
  /\ halted' = TRUE
  /\ \/ /\ flashReady
        /\ Advance(c, "op", "ready")
        /\ UNCHANGED uses
     \/ /\ ~flashReady /\ session # NoSession
        /\ Advance(c, "op", "setup")
        /\ Capture(c, "op", session)
     \/ /\ ~flashReady /\ session = NoSession
        /\ Finish(c, "op", "err")
  /\ Effect(c, "op")
  /\ ThreadFrame
  /\ UNCHANGED <<session, flashReady, created, isOpen, attached, mapped>>

\* Mutant: the region goes to whatever session is current at the end.
SetupInCurrent(c) ==
  /\ job[c]["op"] = "setup"
  /\ mapped' = mapped \union {session}
  /\ flashReady' = TRUE
  /\ Advance(c, "op", "ready")
  /\ Effect(c, "op")
  /\ ThreadFrame
  /\ UNCHANGED <<uses, session, created, isOpen, attached, halted>>

\* the region is installed in the captured target's memory map and the
\* flag set; no transaction is needed (a failed size read has a fallback)
SetupDone(c) ==
  /\ job[c]["op"] = "setup"
  /\ mapped' = mapped \union {uses[c]["op"]}
  /\ flashReady' = TRUE
  /\ Advance(c, "op", "ready")
  /\ Effect(c, "op")
  /\ ThreadFrame
  /\ UNCHANGED <<uses, session, created, isOpen, attached, halted>>

\* the session is read again for FileProgrammer or _get_flash_obj, which
\* fail when it has no flash region
ProgramBegin(c) ==
  /\ job[c]["op"] = "ready"
  /\ \/ /\ session \in mapped
        /\ Advance(c, "op", "program")
        /\ Capture(c, "op", session)
     \/ /\ session \notin mapped
        /\ Finish(c, "op", "err")
  /\ Effect(c, "op")
  /\ ThreadFrame
  /\ UNCHANGED <<session, flashReady, boardVars>>

ProgramDone(c) ==
  /\ job[c]["op"] = "program"
  /\ uses[c]["op"] \in attached
  /\ Finish(c, "op", "ok")
  /\ Effect(c, "op")
  /\ ThreadFrame
  /\ UNCHANGED <<session, flashReady, boardVars>>

\* any step of a job may raise (no probe, SWD fault, missing FLM file ...)
JobFails(c, s) ==
  /\ Active(c, s)
  /\ Finish(c, s, "err")
  /\ ThreadFrame
  /\ UNCHANGED <<session, flashReady, boardVars, late>>

\* the board is unplugged or power cycled; open sessions do not notice
Replug ==
  /\ attached # {}
  /\ attached' = {}
  /\ halted' = FALSE
  /\ UNCHANGED <<callVars, lock, loop, closing, threadVars, probeVars>>
  /\ UNCHANGED <<created, isOpen, mapped, late>>

-----------------------------------------------------------------------------
Tool(c) ==
  \/ ChipInfo(c) \/ Access(c) \/ Reset(c) \/ Halt(c) \/ Resume(c)
  \/ Flash(c) \/ Erase(c)
  \/ \E t \in {"access", "flash", "erase"} : Reject(c, t)

Run(c) == Grant(c) \/ Deliver(c) \/ TimeoutUnconnected(c) \/ TimeoutConnected(c)

Thread(c) ==
  \/ \E s \in Stages : StartOp(c, s) \/ StartConnect(c, s) \/ OpenDone(c, s)
                       \/ OpDone(c, s) \/ JobFails(c, s)
  \/ HaltDone(c) \/ SetupDone(c) \/ ProgramBegin(c) \/ ProgramDone(c)

Next ==
  \/ \E c \in Calls : Tool(c) \/ Run(c) \/ CloseReturns(c) \/ Thread(c)
  \/ Replug

Spec == Init /\ [][Next]_vars

\* The loop resumes a granted waiter, delivers a result or fires a timer,
\* unless it is blocked.  Nothing is assumed of threads, which may wedge.
LoopRuns == \A c \in Calls : WF_vars(Run(c))
\* session.close() on the loop returns
CloseEnds == \A c \in Calls : WF_vars(CloseReturns(c))

LoopSpec == Spec /\ LoopRuns
FairSpec == LoopSpec /\ CloseEnds

-----------------------------------------------------------------------------
(* Safety                                                                  *)

\* A thread that a call still waits for belongs to the owner of the lock: the
\* lock is never passed on under a call that has not given up its thread
\* (_run holds _lock around the executor call).
LiveThreadOwnsLock ==
  \A c \in Calls, s \in Stages : Live(c, s) => lock = c

\* A thread that its call waits for never works through a session that has
\* been closed: sessions are closed only by a timeout, which gives up the
\* thread, and every later job reads the session anew (_target_obj).
LiveThreadUsesOpenSession ==
  \A c \in Calls, s \in Stages :
    Live(c, s) /\ uses[c][s] # NoSession => uses[c][s] \in isOpen

\* Unless a given-up thread takes effect, _flash_ready says of the current
\* session that its flash region is installed (it is reset with the session).
FlashFlagTracksSession ==
  ~late /\ flashReady /\ session # NoSession => session \in mapped

\* Unless a given-up thread takes effect, no session is left open and
\* unreferenced: what is open is the current session.
NoOpenSessionLost ==
  ~late => isOpen \subseteq {session}

\* Unless a given-up thread takes effect, the core is halted while an awaited
\* flash or erase is setting up or programming ("The CPU is halted first (the
\* algo requires it)", flash()), as long as the board stays attached.
HaltedWhileProgramming ==
  \A c \in Calls :
    /\ ~late
    /\ Live(c, "op") /\ job[c]["op"] \in {"setup", "ready", "program"}
    /\ uses[c]["op"] \in attached
    => halted

\* Unless a given-up thread takes effect, the session changes only on behalf
\* of the owner of the lock.
SessionChangesUnderLock ==
  [][session' # session => late' \/ lock # NoCall]_vars

(* Liveness                                                                *)

\* Every tool call returns, even if the threads it started never do.
EveryCallAnswered ==
  \A c \in Calls : mode[c] # "idle" ~> mode[c] = "idle"
=============================================================================
