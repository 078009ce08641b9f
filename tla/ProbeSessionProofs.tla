------------------------- MODULE ProbeSessionProofs -------------------------
(***************************************************************************)
(* Proofs about ProbeSession, for every number of calls, sessions and      *)
(* workers.                                                                *)
(***************************************************************************)
EXTENDS ProbeSession, TLAPS

\* The steps of Next, for the case splits below.
LEMMA NextCases ==
  ASSUME Next
  PROVE
    \/ \E c \in Calls, t \in Tools : Invoke(c, t) \/ Reject(c, t)
    \/ \E c \in Calls : Run(c) \/ CloseReturns(c)
    \/ \E c \in Calls, s \in Stages :
         \/ StartOp(c, s) \/ StartConnect(c, s) \/ OpenDone(c, s)
         \/ OpDone(c, s) \/ JobFails(c, s)
    \/ \E c \in Calls : HaltDone(c) \/ SetupDone(c) \/ ProgramBegin(c)
                        \/ ProgramDone(c)
    \/ Replug
  BY DEF Next, Tool, Thread, ChipInfo, Access, Reset, Halt, Resume, Flash,
         Erase, Tools, FlashTools

-----------------------------------------------------------------------------
(* Type correctness                                                        *)

\* The thread table is typed.
ThreadsTyped ==
  /\ job \in [Calls -> [Stages -> JobStates]]
  /\ uses \in [Calls -> [Stages -> Sessions \union {NoSession}]]

\* The program starts in well-typed fields (PyOCDProbe.__init__).
LEMMA TypeInit == Init => TypeOK
<1> SUFFICES ASSUME Init PROVE TypeOK
  OBVIOUS
<1>1. ThreadsTyped
  BY DEF Init, ThreadsTyped, JobStates
<1>2. /\ tool \in [Calls -> Tools]
      /\ stage \in [Calls -> Stages]
      /\ mode \in [Calls -> Modes]
      /\ answer \in [Calls -> Answers]
      /\ audit \in [Calls -> SUBSET Records]
  BY DEF Init, Tools, Stages, Modes, Answers
<1>3. waiters \in Seq(Calls)
  BY DEF Init
<1> QED
  BY <1>1, <1>2, <1>3 DEF Init, TypeOK, ThreadsTyped

\* What the coroutine of a call changes between two awaits is typed.
ControlTyped ==
  /\ stage' \in [Calls -> Stages]
  /\ mode' \in [Calls -> Modes]
  /\ answer' \in [Calls -> Answers]
  /\ audit' \in [Calls -> SUBSET Records]
  /\ waiters' \in Seq(Calls)

\* Entering a probe method keeps the fields of the calls typed.
LEMMA AwaitTyped ==
  ASSUME TypeOK, NEW c \in Calls, NEW s \in Stages, Await(c, s)
  PROVE ControlTyped
  BY DEF TypeOK, Await, ControlTyped, Modes

\* So does the return of a tool.
LEMMA ReturnTyped ==
  ASSUME TypeOK, NEW c \in Calls, NEW a \in Answers, NEW r \in Records,
         Return(c, a, r)
  PROVE ControlTyped
  BY DEF TypeOK, Return, ControlTyped, Modes, Stages

\* So does whatever a tool does after a ProbeError.
LEMMA FailTyped ==
  ASSUME TypeOK, NEW c \in Calls, Fail(c)
  PROVE ControlTyped /\ chipInfo' \in Sessions \union {NoSession}
<1>1. chipInfo' \in Sessions \union {NoSession}
  BY DEF Fail, TypeOK
<1>2. CASE Await(c, "connect") \/ Await(c, "connect2")
  BY <1>1, <1>2, AwaitTyped DEF Stages
<1>3. CASE Return(c, "unreachable", "_connect") \/ Return(c, "failed", "tool")
  BY <1>1, <1>3, ReturnTyped DEF Answers, Records
<1> QED
  BY <1>2, <1>3 DEF Fail

\* So does whatever a tool does after a probe method that returned.
LEMMA SucceedTyped ==
  ASSUME TypeOK, NEW c \in Calls, Succeed(c)
  PROVE ControlTyped /\ chipInfo' \in Sessions \union {NoSession}
<1>1. chipInfo' \in Sessions \union {NoSession}
  BY DEF Succeed, EnterOp, TypeOK, Stages
<1>2. CASE Await(c, "alive2") \/ Await(c, "op")
  BY <1>1, <1>2, AwaitTyped DEF Stages
<1>3. CASE Return(c, "ok", "tool")
  BY <1>1, <1>3, ReturnTyped DEF Answers, Records
<1> QED
  BY <1>2, <1>3 DEF Succeed, EnterOp

\* A thread that ends leaves the job tables typed.
LEMMA FinishTyped ==
  ASSUME TypeOK, NEW c \in Calls, NEW s \in Stages, NEW r \in {"ok", "err"},
         Finish(c, s, r)
  PROVE ThreadsTyped'
  BY DEF TypeOK, Finish, ThreadsTyped, JobStates

\* So does a thread that goes on.
LEMMA AdvanceTyped ==
  ASSUME TypeOK, NEW c \in Calls, NEW s \in Stages, NEW to \in Executing,
         Advance(c, s, to)
  PROVE job' \in [Calls -> [Stages -> JobStates]]
<1>1. to \in JobStates
  BY DEF JobStates
<1> QED
  BY <1>1 DEF TypeOK, Advance

\* So does a thread that captures a session.
LEMMA CaptureTyped ==
  ASSUME TypeOK, NEW c \in Calls, NEW s \in Stages,
         uses' = uses \/ Capture(c, s, session)
  PROVE uses' \in [Calls -> [Stages -> Sessions \union {NoSession}]]
<1>1. CASE uses' = uses
  BY <1>1 DEF TypeOK
<1>2. CASE Capture(c, s, session)
  BY <1>2 DEF TypeOK, Capture
<1> QED
  BY <1>1, <1>2

\* So does a thread that goes on and captures a session in one step.
LEMMA StepTyped ==
  ASSUME TypeOK, NEW c \in Calls, NEW s \in Stages, NEW to \in Executing,
         Advance(c, s, to), uses' = uses \/ Capture(c, s, session)
  PROVE ThreadsTyped'
<1>1. job' \in [Calls -> [Stages -> JobStates]]
  BY AdvanceTyped
<1>2. uses' \in [Calls -> [Stages -> Sessions \union {NoSession}]]
  BY CaptureTyped
<1> QED
  BY <1>1, <1>2 DEF ThreadsTyped

\* So does a wait that times out.
LEMMA GiveUpTyped ==
  ASSUME TypeOK, NEW c \in Calls, GiveUp(c)
  PROVE job' \in [Calls -> [Stages -> JobStates]]
  BY DEF TypeOK, GiveUp, JobStates

\* Threads and probe refer only to sessions that have been constructed, and
\* a thread setting up the flash has one; connecting threads capture none.
CreatedInv ==
  /\ session \in isOpen \union {NoSession}
  /\ \A c \in Calls, s \in Stages :
       /\ uses[c][s] \in created \union {NoSession}
       /\ job[c][s] = "setup" => uses[c][s] # NoSession
       /\ s \in ConnectStages => uses[c][s] = NoSession

\* Every step of the program keeps every field typed.
LEMMA TypeStep == TypeOK /\ CreatedInv /\ [Next]_vars => TypeOK'
<1> SUFFICES ASSUME TypeOK, CreatedInv, [Next]_vars PROVE TypeOK'
  OBVIOUS
<1> USE DEF TypeOK, callVars, threadVars, probeVars, boardVars
<1>1. ASSUME NEW c \in Calls, NEW t \in Tools, Invoke(c, t) PROVE TypeOK'
  BY <1>1 DEF Invoke, Modes, Answers, Records
<1>2. ASSUME NEW c \in Calls, NEW t \in Tools, Reject(c, t) PROVE TypeOK'
  BY <1>2 DEF Reject, Answers, Records
<1>3. ASSUME NEW c \in Calls, Grant(c) PROVE TypeOK'
  BY <1>3 DEF Grant, Modes, JobStates
<1>4. ASSUME NEW c \in Calls, Deliver(c) PROVE TypeOK'
  <2>1. ControlTyped /\ chipInfo' \in Sessions \union {NoSession}
    BY <1>4, SucceedTyped, FailTyped DEF Deliver
  <2> QED
    BY <1>4, <2>1 DEF Deliver, ControlTyped, JobStates
<1>5. ASSUME NEW c \in Calls, TimeoutUnconnected(c) PROVE TypeOK'
  BY <1>5, FailTyped, GiveUpTyped DEF TimeoutUnconnected, ControlTyped
<1>6. ASSUME NEW c \in Calls, TimeoutConnected(c) PROVE TypeOK'
  BY <1>6, GiveUpTyped DEF TimeoutConnected, Modes
<1>7. ASSUME NEW c \in Calls, CloseReturns(c) PROVE TypeOK'
  BY <1>7, FailTyped DEF CloseReturns, ControlTyped
<1>8. ASSUME NEW c \in Calls, NEW s \in Stages, StartOp(c, s) PROVE TypeOK'
  <2>1. ThreadsTyped'
    BY <1>8, FinishTyped, StepTyped DEF StartOp, Executing
  <2> QED
    BY <1>8, <2>1 DEF StartOp, ThreadFrame, ThreadsTyped
<1>9. ASSUME NEW c \in Calls, NEW s \in Stages, StartConnect(c, s) PROVE TypeOK'
  <2>1. ThreadsTyped'
    BY <1>9, FinishTyped, StepTyped DEF StartConnect, Executing
  <2>2. session' \in Sessions \union {NoSession} /\ flashReady' \in BOOLEAN
    BY <1>9 DEF StartConnect
  <2> QED
    BY <1>9, <2>1, <2>2 DEF StartConnect, ThreadFrame, ThreadsTyped
<1>10. ASSUME NEW c \in Calls, NEW s \in Stages, OpenDone(c, s) PROVE TypeOK'
  <2>1. ThreadsTyped'
    BY <1>10, FinishTyped DEF OpenDone
  <2> QED
    BY <1>10, <2>1 DEF OpenDone, Effect, Awaited, ThreadFrame, ThreadsTyped
<1>11. ASSUME NEW c \in Calls, NEW s \in Stages, OpDone(c, s) PROVE TypeOK'
  <2>1. ThreadsTyped'
    BY <1>11, FinishTyped DEF OpDone
  <2> QED
    BY <1>11, <2>1 DEF OpDone, Effect, Awaited, ThreadFrame, ThreadsTyped
<1>12. ASSUME NEW c \in Calls, NEW s \in Stages, JobFails(c, s) PROVE TypeOK'
  <2>1. ThreadsTyped'
    BY <1>12, FinishTyped DEF JobFails
  <2> QED
    BY <1>12, <2>1 DEF JobFails, ThreadFrame, ThreadsTyped
<1>13. ASSUME NEW c \in Calls, HaltDone(c) PROVE TypeOK'
  <2>1. ThreadsTyped'
    BY <1>13, FinishTyped, StepTyped DEF HaltDone, Executing, Stages
  <2> QED
    BY <1>13, <2>1 DEF HaltDone, Effect, Awaited, ThreadFrame, ThreadsTyped
<1>14. ASSUME NEW c \in Calls, SetupDone(c) PROVE TypeOK'
  <2>1. ThreadsTyped'
    BY <1>14, StepTyped DEF SetupDone, Executing, Stages
  <2>2. mapped' \subseteq created'
    BY <1>14 DEF SetupDone, CreatedInv, Stages
  <2> QED
    BY <1>14, <2>1, <2>2 DEF SetupDone, Effect, Awaited, ThreadFrame, ThreadsTyped
<1>15. ASSUME NEW c \in Calls, ProgramBegin(c) PROVE TypeOK'
  <2>1. ThreadsTyped'
    BY <1>15, FinishTyped, StepTyped DEF ProgramBegin, Executing, Stages
  <2> QED
    BY <1>15, <2>1 DEF ProgramBegin, Effect, Awaited, ThreadFrame, ThreadsTyped
<1>16. ASSUME NEW c \in Calls, ProgramDone(c) PROVE TypeOK'
  <2>1. ThreadsTyped'
    BY <1>16, FinishTyped DEF ProgramDone, Stages
  <2> QED
    BY <1>16, <2>1 DEF ProgramDone, Effect, Awaited, ThreadFrame, ThreadsTyped
<1>17. CASE Replug
  BY <1>17 DEF Replug
<1>18. CASE UNCHANGED vars
  BY <1>18 DEF vars
<1> QED
  BY <1>1, <1>2, <1>3, <1>4, <1>5, <1>6, <1>7, <1>8, <1>9, <1>10, <1>11, <1>12,
     <1>13, <1>14, <1>15, <1>16, <1>17, <1>18, NextCases DEF Run

-----------------------------------------------------------------------------
(* The lock                                                                *)

\* A call is in the executor, or blocks the loop, exactly while it owns the
\* lock; a result is kept only for the stage its call is awaiting.
LockInv ==
  /\ \A c \in Calls : mode[c] \in {"run", "close"} <=> lock = c
  /\ \A c \in Calls : mode[c] = "close" <=> loop = c
  /\ \A c \in Calls, s \in Stages :
       job[c][s] \in {"queued", "ok", "err"} => Awaited(c, s)

\* Steps of threads and of the board leave the coroutines and the lock alone.
ThreadStep ==
  \/ \E c \in Calls, s \in Stages :
       \/ StartOp(c, s) \/ StartConnect(c, s) \/ OpenDone(c, s)
       \/ OpDone(c, s) \/ JobFails(c, s)
  \/ \E c \in Calls :
       HaltDone(c) \/ SetupDone(c) \/ ProgramBegin(c) \/ ProgramDone(c)

\* A thread never touches the coroutines, the lock or the loop.
LEMMA ThreadStepFrame ==
  ASSUME ThreadStep
  PROVE UNCHANGED <<callVars, lock, loop, closing, chipInfo>>
  BY DEF ThreadStep, StartOp, StartConnect, OpenDone, OpDone, JobFails, HaltDone,
         SetupDone, ProgramBegin, ProgramDone, ThreadFrame

\* A call that ends its wait for the executor gives up its place there.
LEMMA LeaveExecutor ==
  ASSUME TypeOK, NEW c \in Calls, Fail(c) \/ Succeed(c)
  PROVE /\ mode' \in [Calls -> Modes] /\ stage' \in [Calls -> Stages]
        /\ mode'[c] \in {"idle", "wait"}
        /\ \A d \in Calls \ {c} : mode'[d] = mode[d] /\ stage'[d] = stage[d]
<1>1. mode' \in [Calls -> Modes] /\ stage' \in [Calls -> Stages]
  BY FailTyped, SucceedTyped DEF ControlTyped
<1>2. ASSUME NEW s, Await(c, s)
      PROVE /\ mode'[c] = "wait"
            /\ \A d \in Calls \ {c} : mode'[d] = mode[d] /\ stage'[d] = stage[d]
  BY <1>2 DEF Await, TypeOK
<1>3. ASSUME NEW a, NEW r, Return(c, a, r)
      PROVE /\ mode'[c] = "idle"
            /\ \A d \in Calls \ {c} : mode'[d] = mode[d] /\ stage'[d] = stage[d]
  BY <1>3 DEF Return, TypeOK
<1> QED
  BY <1>1, <1>2, <1>3 DEF Fail, Succeed, EnterOp

\* The thread of another call, or of another stage, keeps its state.
LEMMA FinishFrame ==
  ASSUME TypeOK, NEW c \in Calls, NEW s \in Stages, NEW r, Finish(c, s, r)
  PROVE /\ job'[c][s] = IF Awaited(c, s) THEN r ELSE "none"
        /\ uses'[c][s] \in {uses[c][s], NoSession}
        /\ \A d \in Calls, q \in Stages :
             ~(d = c /\ q = s) => job'[d][q] = job[d][q] /\ uses'[d][q] = uses[d][q]
  BY DEF Finish, TypeOK

\* A thread that goes on leaves the state of every other thread alone.
LEMMA AdvanceFrame ==
  ASSUME TypeOK, NEW c \in Calls, NEW s \in Stages, NEW to, Advance(c, s, to)
  PROVE /\ job'[c][s] = to
        /\ \A d \in Calls, q \in Stages :
             ~(d = c /\ q = s) => job'[d][q] = job[d][q]
  BY DEF Advance, TypeOK

\* A thread that captures a session leaves the others' sessions alone.
LEMMA CaptureFrame ==
  ASSUME TypeOK, NEW c \in Calls, NEW s \in Stages, NEW x, Capture(c, s, x)
  PROVE /\ uses'[c][s] = x
        /\ \A d \in Calls, q \in Stages :
             ~(d = c /\ q = s) => uses'[d][q] = uses[d][q]
  BY DEF Capture, TypeOK

\* What a step of a thread does to the job table.
LEMMA ThreadStepJobs ==
  ASSUME TypeOK, ThreadStep
  PROVE \A d \in Calls, q \in Stages :
          job'[d][q] # job[d][q] =>
            \/ job'[d][q] \in {"none"} \union Executing
            \/ job'[d][q] \in {"ok", "err"} /\ Awaited(d, q)
<1> SUFFICES ASSUME NEW d \in Calls, NEW q \in Stages, job'[d][q] # job[d][q]
             PROVE \/ job'[d][q] \in {"none"} \union Executing
                   \/ job'[d][q] \in {"ok", "err"} /\ Awaited(d, q)
  OBVIOUS
<1>1. PICK c \in Calls, s \in Stages :
        \/ Finish(c, s, "ok") \/ Finish(c, s, "err")
        \/ \E to \in Executing : Advance(c, s, to)
  BY DEF ThreadStep, StartOp, StartConnect, OpenDone, OpDone, JobFails, HaltDone,
         SetupDone, ProgramBegin, ProgramDone, Executing, Stages
<1>2. CASE Finish(c, s, "ok") \/ Finish(c, s, "err")
  BY <1>2, FinishFrame
<1>3. ASSUME NEW to \in Executing, Advance(c, s, to)
      PROVE job'[d][q] \in Executing
  BY <1>3, AdvanceFrame
<1> QED
  BY <1>1, <1>2, <1>3

\* Every step keeps the lock with the call that is in _run or closing.
LEMMA LockStep == TypeOK /\ LockInv /\ [Next]_vars => LockInv'
<1> SUFFICES ASSUME TypeOK, LockInv, [Next]_vars PROVE LockInv'
  OBVIOUS
<1> USE ProbeAssumption DEF LockInv, Awaited
<1>1. ASSUME NEW c \in Calls, NEW t \in Tools, Invoke(c, t) PROVE LockInv'
  BY <1>1 DEF Invoke, Fresh, TypeOK, threadVars
<1>2. ASSUME NEW c \in Calls, NEW t \in Tools, Reject(c, t) PROVE LockInv'
  BY <1>2 DEF Reject, Fresh, TypeOK, threadVars
<1>3. ASSUME NEW c \in Calls, Grant(c) PROVE LockInv'
  <2>1. \A d \in Calls : /\ mode'[d] \in {"run", "close"} <=> lock' = d
                         /\ mode'[d] = "close" <=> loop' = d
    BY <1>3 DEF Grant, TypeOK
  <2>2. \A d \in Calls, q \in Stages :
          job'[d][q] # job[d][q] => d = c /\ q = stage[c]
    BY <1>3 DEF Grant, TypeOK
  <2>3. mode'[c] = "run" /\ \A d \in Calls : mode[d] = "run" => mode'[d] = "run"
    BY <1>3 DEF Grant, TypeOK
  <2> QED
    BY <1>3, <2>1, <2>2, <2>3 DEF Grant
<1>4. ASSUME NEW c \in Calls, Fail(c) \/ Succeed(c), lock' = NoCall,
             loop' = NoCall, loop \in {c, NoCall}, lock = c,
             \A d \in Calls, q \in Stages :
               /\ job'[d][q] = job[d][q] \/ (d = c /\ q = stage[c])
               /\ job'[c][stage[c]] \notin {"queued", "ok", "err"}
      PROVE LockInv'
  <2>1. /\ mode'[c] \in {"idle", "wait"}
        /\ \A d \in Calls \ {c} : mode'[d] = mode[d] /\ stage'[d] = stage[d]
    BY <1>4, LeaveExecutor
  <2>2. \A d \in Calls : /\ mode'[d] \in {"run", "close"} <=> lock' = d
                         /\ mode'[d] = "close" <=> loop' = d
    BY <1>4, <2>1
  <2> QED
    BY <1>4, <2>1, <2>2
<1>5. ASSUME NEW c \in Calls, Deliver(c) PROVE LockInv'
  <2>1. \A d \in Calls, q \in Stages :
          /\ job'[d][q] = job[d][q] \/ (d = c /\ q = stage[c])
          /\ job'[c][stage[c]] = "none"
    BY <1>5 DEF Deliver, TypeOK
  <2> QED
    BY <1>4, <1>5, <2>1 DEF Deliver
<1>6. ASSUME NEW c \in Calls, GiveUp(c)
      PROVE \A d \in Calls, q \in Stages :
              /\ job'[d][q] = job[d][q] \/ (d = c /\ q = stage[c])
              /\ job'[c][stage[c]] \notin {"queued", "ok", "err"}
  BY <1>6 DEF GiveUp, Executing, TypeOK
<1>7. ASSUME NEW c \in Calls, TimeoutUnconnected(c) PROVE LockInv'
  BY <1>4, <1>6, <1>7 DEF TimeoutUnconnected
<1>8. ASSUME NEW c \in Calls, TimeoutConnected(c) PROVE LockInv'
  <2>1. \A d \in Calls : /\ mode'[d] \in {"run", "close"} <=> lock' = d
                         /\ mode'[d] = "close" <=> loop' = d
    BY <1>8 DEF TimeoutConnected, TypeOK
  <2>2. \A d \in Calls \ {c} : mode'[d] = mode[d] /\ stage'[d] = stage[d]
    BY <1>8 DEF TimeoutConnected, TypeOK
  <2> QED
    BY <1>6, <1>8, <2>1, <2>2 DEF TimeoutConnected
<1>9. ASSUME NEW c \in Calls, CloseReturns(c) PROVE LockInv'
  <2>1. mode[c] = "close" /\ lock = c
    BY <1>9 DEF CloseReturns
  <2>2. \A q \in Stages : job[c][q] \notin {"queued", "ok", "err"}
    BY <2>1
  <2> QED
    BY <1>4, <1>9, <2>1, <2>2 DEF CloseReturns, threadVars, TypeOK
<1>10. CASE ThreadStep
  <2>1. UNCHANGED <<mode, stage, lock, loop>>
    BY <1>10, ThreadStepFrame DEF callVars
  <2>2. \A d \in Calls, q \in Stages :
          job'[d][q] \in {"queued", "ok", "err"} =>
            job'[d][q] = job[d][q] \/ Awaited(d, q)
    BY <1>10, ThreadStepJobs DEF Executing
  <2> QED
    BY <2>1, <2>2
<1>11. CASE Replug
  BY <1>11 DEF Replug, callVars, threadVars
<1>12. CASE UNCHANGED vars
  BY <1>12 DEF vars, callVars, threadVars
<1> QED
  BY <1>1, <1>2, <1>3, <1>5, <1>7, <1>8, <1>9, <1>10, <1>11, <1>12, NextCases
  DEF Run, ThreadStep

-----------------------------------------------------------------------------
(* Sessions                                                                *)

\* What awaited threads rely on.  Without effects of given-up threads an
\* awaited operation works through the current session, and an awaited
\* connect finds none.
LiveInv ==
  \A c \in Calls, s \in Stages : Live(c, s) =>
    /\ uses[c][s] \in isOpen \union {NoSession}
    /\ ~late /\ s \in ConnectStages => session = NoSession
    /\ ~late /\ s \notin ConnectStages => uses[c][s] = session /\ session # NoSession

\* What the fields of the probe say about the current session.
SessionInv ==
  ~late =>
    /\ isOpen \subseteq {session}
    /\ loop # NoCall => closing = session
    /\ flashReady /\ session # NoSession => session \in mapped
    /\ \A c \in Calls :
         Live(c, "op") /\ job[c]["op"] # "busy" /\ uses[c]["op"] \in attached => halted

IInv == TypeOK /\ CreatedInv /\ LockInv /\ LiveInv /\ SessionInv

\* Only one thread is awaited.
LEMMA OneAwaited ==
  ASSUME LockInv, NEW c \in Calls, NEW s \in Stages, Awaited(c, s),
         NEW d \in Calls, NEW q \in Stages, Awaited(d, q)
  PROVE c = d /\ s = q
  BY DEF LockInv, Awaited

\* Steps of coroutines start no thread and change none that stays awaited.
ControlAction(c) ==
  \/ \E t \in Tools : Invoke(c, t) \/ Reject(c, t)
  \/ Run(c)

\* A step of the event loop awaits no thread that it did not await before,
\* but for one newly queued, and leaves what the awaited threads do alone.
LEMMA ControlLive ==
  ASSUME TypeOK, LockInv, NEW c \in Calls, ControlAction(c) \/ CloseReturns(c)
  PROVE \A d \in Calls, q \in Stages :
          /\ Live(d, q)' => Live(d, q) /\ uses'[d][q] = uses[d][q]
                            /\ job'[d][q] = job[d][q]
          /\ uses'[d][q] \in {uses[d][q], NoSession}
          /\ job'[d][q] = "setup" => /\ job[d][q] = "setup"
                                     /\ uses'[d][q] = uses[d][q]
<1> SUFFICES ASSUME NEW d \in Calls, NEW q \in Stages
             PROVE /\ Live(d, q)' => Live(d, q) /\ uses'[d][q] = uses[d][q]
                                     /\ job'[d][q] = job[d][q]
                   /\ uses'[d][q] \in {uses[d][q], NoSession}
                   /\ job'[d][q] = "setup" => /\ job[d][q] = "setup"
                                              /\ uses'[d][q] = uses[d][q]
  OBVIOUS
<1> USE DEF Live, Active, Awaited, Executing
<1>1. ASSUME NEW t \in Tools, Invoke(c, t) \/ Reject(c, t)
      PROVE /\ mode'[d] = "run" => mode[d] = "run" /\ stage'[d] = stage[d]
            /\ UNCHANGED threadVars
  BY <1>1 DEF Invoke, Reject, TypeOK
<1>2. CASE Grant(c)
  <2>1. /\ d # c => mode'[d] = mode[d]
        /\ stage' = stage /\ uses' = uses
        /\ job'[c][stage[c]] = "queued"
        /\ ~(d = c /\ q = stage[c]) => job'[d][q] = job[d][q]
    BY <1>2 DEF Grant, TypeOK
  <2> QED
    BY <2>1
<1>3. ASSUME mode[c] = "run", Fail(c) \/ Succeed(c)
      PROVE mode'[d] # "run"
  BY <1>3, LeaveExecutor DEF LockInv
<1>4. CASE Deliver(c)
  <2>1. /\ d = c /\ q = stage[c] => job'[d][q] = "none" /\ uses'[d][q] = NoSession
        /\ ~(d = c /\ q = stage[c]) => /\ job'[d][q] = job[d][q]
                                       /\ uses'[d][q] = uses[d][q]
    BY <1>4 DEF Deliver, TypeOK
  <2> QED
    BY <1>3, <1>4, <2>1 DEF Deliver
<1>5. ASSUME GiveUp(c)
      PROVE job'[d][q] \in Executing => job'[d][q] = job[d][q]
  BY <1>5 DEF GiveUp, TypeOK
<1>6. CASE TimeoutUnconnected(c)
  BY <1>3, <1>5, <1>6 DEF TimeoutUnconnected
<1>7. CASE TimeoutConnected(c)
  <2>1. mode'[d] # "run" /\ uses' = uses
    BY <1>7 DEF TimeoutConnected, LockInv, TypeOK
  <2> QED
    BY <1>5, <1>7, <2>1 DEF TimeoutConnected
<1>8. CASE CloseReturns(c)
  <2>1. mode[c] = "close" /\ lock = c
    BY <1>8 DEF CloseReturns, LockInv
  <2>2. mode'[d] # "run"
    BY <1>8, <2>1, LeaveExecutor DEF CloseReturns, LockInv
  <2> QED
    BY <1>8, <2>2 DEF CloseReturns, threadVars
<1> QED
  BY <1>1, <1>2, <1>4, <1>6, <1>7, <1>8 DEF ControlAction, Run, threadVars

\* Closing happens while nothing is awaited.
LEMMA CloseNotLive ==
  ASSUME TypeOK, LockInv, NEW c \in Calls, CloseReturns(c)
  PROVE \A d \in Calls, q \in Stages : ~Live(d, q)
  BY DEF CloseReturns, LockInv, Live, Awaited

\* A step of the event loop touches neither the session nor the board.
LEMMA ControlFrame ==
  ASSUME TypeOK, LockInv, NEW c \in Calls, ControlAction(c)
  PROVE /\ UNCHANGED <<session, boardVars, late>>
        /\ flashReady' => flashReady
        /\ loop' # NoCall => \/ loop # NoCall /\ closing' = closing
                             \/ closing' = session
  BY DEF ControlAction, Run, Invoke, Reject, Grant, Deliver, TimeoutUnconnected,
         TimeoutConnected, probeVars, TypeOK

\* A thread step of (c, s) leaves every other thread as it is.
LEMMA ThreadFinish ==
  ASSUME TypeOK, NEW c \in Calls, NEW s \in Stages, NEW r \in {"ok", "err"},
         Finish(c, s, r), ThreadFrame
  PROVE /\ ~Live(c, s)'
        /\ job'[c][s] # "setup"
        /\ uses'[c][s] \in {uses[c][s], NoSession}
        /\ mode' = mode /\ stage' = stage
        /\ \A d \in Calls, q \in Stages :
             ~(d = c /\ q = s) => job'[d][q] = job[d][q] /\ uses'[d][q] = uses[d][q]
<1>1. UNCHANGED <<mode, stage>>
  BY DEF ThreadFrame, callVars
<1>2. job'[c][s] \in {"none", r}
  BY FinishFrame
<1> QED
  BY <1>1, <1>2, FinishFrame DEF Live, Active, Awaited, Executing

\* Preservation by each action of what is not type correctness or the lock.
Rest == CreatedInv /\ LiveInv /\ SessionInv

\* Steps of the event loop preserve the rest of the invariant.
LEMMA RestControl ==
  ASSUME IInv, NEW c \in Calls, ControlAction(c)
  PROVE Rest'
<1>1. \A d \in Calls, q \in Stages :
        /\ Live(d, q)' => Live(d, q) /\ uses'[d][q] = uses[d][q]
                          /\ job'[d][q] = job[d][q]
        /\ uses'[d][q] \in {uses[d][q], NoSession}
        /\ job'[d][q] = "setup" => /\ job[d][q] = "setup"
                                   /\ uses'[d][q] = uses[d][q]
  BY ControlLive DEF IInv
<1>2. /\ session' = session /\ created' = created /\ isOpen' = isOpen
      /\ attached' = attached /\ mapped' = mapped /\ halted' = halted
      /\ late' = late
      /\ flashReady' => flashReady
      /\ loop' # NoCall => \/ loop # NoCall /\ closing' = closing
                           \/ closing' = session
  BY ControlFrame DEF IInv, boardVars
<1>3. CreatedInv'
  BY <1>1, <1>2 DEF IInv, CreatedInv
<1>4. LiveInv'
  BY <1>1, <1>2 DEF IInv, LiveInv
<1>5. SessionInv'
  BY <1>1, <1>2 DEF IInv, SessionInv, Stages
<1> QED
  BY <1>3, <1>4, <1>5 DEF Rest

\* So does the end of session.close() after a timeout.
LEMMA RestClose ==
  ASSUME IInv, NEW c \in Calls, CloseReturns(c)
  PROVE Rest'
<1>1. \A d \in Calls, q \in Stages : ~Live(d, q)'
  BY CloseNotLive, ControlLive DEF IInv
<1>2. CreatedInv'
  BY DEF IInv, CreatedInv, CloseReturns, threadVars
<1>3. LiveInv'
  BY <1>1 DEF LiveInv
<1>4. SessionInv'
  BY <1>1, ProbeAssumption DEF IInv, SessionInv, CloseReturns, Stages
<1> QED
  BY <1>2, <1>3, <1>4 DEF Rest

\* So does a board that goes away.
LEMMA RestReplug ==
  ASSUME IInv, Replug
  PROVE Rest'
  BY DEF IInv, Rest, CreatedInv, LiveInv, SessionInv, Replug, Live, Active,
         Awaited, callVars, threadVars, probeVars

\* While no given-up thread takes effect, a thread that does is the only one
\* awaited.
LEMMA QuietThread ==
  ASSUME LockInv, NEW c \in Calls, NEW s \in Stages, Effect(c, s), ~late'
  PROVE /\ ~late /\ Awaited(c, s)
        /\ \A d \in Calls, q \in Stages : Awaited(d, q) => d = c /\ q = s
  BY OneAwaited DEF Effect

\* So does a thread that raises.
LEMMA RestFails ==
  ASSUME IInv, NEW c \in Calls, NEW s \in Stages, JobFails(c, s)
  PROVE Rest'
<1>1. /\ ~Live(c, s)'
      /\ job'[c][s] # "setup"
      /\ uses'[c][s] \in {uses[c][s], NoSession}
      /\ mode' = mode /\ stage' = stage
      /\ \A d \in Calls, q \in Stages :
           ~(d = c /\ q = s) => job'[d][q] = job[d][q] /\ uses'[d][q] = uses[d][q]
  BY ThreadFinish DEF IInv, JobFails
<1> USE DEF JobFails, ThreadFrame
<1>2. CreatedInv'
  BY <1>1 DEF IInv, CreatedInv, boardVars
<1>3. LiveInv'
  BY <1>1 DEF IInv, LiveInv, Live, Active, Awaited, boardVars
<1>4. SessionInv'
  BY <1>1 DEF IInv, SessionInv, Live, Active, Awaited, boardVars, Stages
<1> QED
  BY <1>2, <1>3, <1>4 DEF Rest

\* So does the start of an operation in a thread.
LEMMA RestStartOp ==
  ASSUME IInv, NEW c \in Calls, NEW s \in Stages, StartOp(c, s)
  PROVE Rest'
<1>1. Awaited(c, s)
  BY DEF IInv, LockInv, StartOp
<1>2. \A d \in Calls, q \in Stages : Awaited(d, q) => d = c /\ q = s
  BY <1>1, OneAwaited DEF IInv
<1>3. /\ \/ ~Live(c, s)' /\ uses'[c][s] \in {uses[c][s], NoSession}
         \/ uses'[c][s] = session /\ session # NoSession
      /\ job'[c][s] \notin {"setup", "ready", "program"}
      /\ mode' = mode /\ stage' = stage
      /\ \A d \in Calls, q \in Stages :
           ~(d = c /\ q = s) => job'[d][q] = job[d][q] /\ uses'[d][q] = uses[d][q]
  <2>1. CASE Finish(c, s, "err")
    <3>1. job'[c][s] \in {"none", "err"}
      BY <2>1, FinishFrame DEF IInv
    <3> QED
      BY <2>1, <3>1, ThreadFinish DEF IInv, StartOp
  <2>2. CASE /\ session # NoSession
             /\ Advance(c, s, "busy")
             /\ Capture(c, s, session)
    <3>1. /\ session \in Sessions \union {NoSession} /\ "busy" \in Executing
          /\ TypeOK /\ ThreadFrame
      BY DEF IInv, TypeOK, Executing, StartOp
    <3>2. /\ job'[c][s] = "busy"
          /\ uses'[c][s] = session
          /\ mode' = mode /\ stage' = stage
          /\ \A d \in Calls, q \in Stages :
               ~(d = c /\ q = s) => job'[d][q] = job[d][q] /\ uses'[d][q] = uses[d][q]
      BY <2>2, <3>1, AdvanceFrame, CaptureFrame DEF ThreadFrame, callVars
    <3> QED
      BY <2>2, <3>2
  <2> QED
    BY <2>1, <2>2 DEF StartOp
<1>4. /\ UNCHANGED <<session, flashReady, late, loop, closing>>
      /\ UNCHANGED <<created, isOpen, attached, mapped, halted>>
      /\ s \notin ConnectStages
  BY DEF StartOp, ThreadFrame, boardVars
<1>5. CreatedInv'
  <2>1. isOpen \subseteq created
    BY DEF IInv, TypeOK
  <2>2. \A q \in Stages, d \in Calls : uses'[d][q] \in {uses[d][q], session, NoSession}
    BY <1>3
  <2>3. \A q \in Stages, d \in Calls :
          job'[d][q] = "setup" => job[d][q] = "setup" /\ uses'[d][q] = uses[d][q]
    BY <1>3
  <2>4. \A q \in ConnectStages \intersect Stages, d \in Calls :
          uses'[d][q] \in {uses[d][q], NoSession}
    BY <1>3, <1>4
  <2> QED
    BY <1>4, <2>1, <2>2, <2>3, <2>4 DEF IInv, CreatedInv
<1>6. LiveInv'
  BY <1>2, <1>3, <1>4 DEF IInv, LiveInv, CreatedInv, Live, Active, Awaited
<1>7. SessionInv'
  BY <1>2, <1>3, <1>4 DEF IInv, SessionInv, Live, Active, Awaited, Executing, Stages
<1> QED
  BY <1>5, <1>6, <1>7 DEF Rest

\* So does the start of _maybe_connect_sync.
LEMMA RestStartConnect ==
  ASSUME IInv, NEW c \in Calls, NEW s \in Stages, StartConnect(c, s)
  PROVE Rest'
<1>1. Awaited(c, s)
  BY DEF IInv, LockInv, StartConnect
<1>2. \A d \in Calls, q \in Stages : Awaited(d, q) => d = c /\ q = s
  BY <1>1, OneAwaited DEF IInv
<1>3. /\ ~Live(c, s)' \/ (session \notin isOpen /\ session' = NoSession)
      /\ uses'[c][s] \in {uses[c][s], NoSession}
      /\ job'[c][s] \notin {"setup", "ready", "program"}
      /\ mode' = mode /\ stage' = stage
      /\ \A d \in Calls, q \in Stages :
           ~(d = c /\ q = s) => job'[d][q] = job[d][q] /\ uses'[d][q] = uses[d][q]
  <2>1. CASE Finish(c, s, "ok")
    <3>1. job'[c][s] \in {"none", "ok"}
      BY <2>1, FinishFrame DEF IInv
    <3> QED
      BY <2>1, <3>1, ThreadFinish DEF IInv, StartConnect
  <2>2. CASE /\ session \notin isOpen
             /\ Advance(c, s, "busy")
             /\ session' = NoSession
             /\ UNCHANGED uses
    <3>1. /\ job'[c][s] = "busy"
          /\ \A d \in Calls, q \in Stages :
               ~(d = c /\ q = s) => job'[d][q] = job[d][q]
      BY <2>2, AdvanceFrame DEF IInv
    <3> QED
      BY <2>2, <3>1 DEF StartConnect, ThreadFrame, callVars
  <2> QED
    BY <2>1, <2>2 DEF StartConnect
<1>4. /\ session' \in {session, NoSession}
      /\ session' # session /\ isOpen \subseteq {session} => isOpen = {}
      /\ flashReady' => flashReady
      /\ UNCHANGED <<late, loop, closing>>
      /\ UNCHANGED <<created, isOpen, attached, mapped, halted>>
      /\ s \in ConnectStages
  BY DEF StartConnect, ThreadFrame, boardVars, IInv, TypeOK
<1>5. loop = NoCall
  BY <1>1 DEF IInv, LockInv, Awaited, TypeOK
<1>6. CreatedInv'
  BY <1>3, <1>4 DEF IInv, CreatedInv
<1>7. LiveInv'
  BY <1>2, <1>3, <1>4 DEF IInv, LiveInv, CreatedInv, Live, Active, Awaited, TypeOK
<1>8. SessionInv'
  BY <1>2, <1>3, <1>4, <1>5
  DEF IInv, SessionInv, Live, Active, Awaited, Executing, Stages, ConnectStages
<1> QED
  BY <1>6, <1>7, <1>8 DEF Rest

\* So does the publication of a new session.
LEMMA RestOpenDone ==
  ASSUME IInv, NEW c \in Calls, NEW s \in Stages, OpenDone(c, s)
  PROVE Rest'
<1>1. PICK new \in Sessions \ created :
        /\ session' = new
        /\ created' = created \union {new}
        /\ isOpen' = isOpen \union {new}
        /\ attached' = attached \union {new}
  BY DEF OpenDone
<1>2. /\ UNCHANGED <<mapped, halted, loop, closing>> /\ flashReady' = FALSE
      /\ Effect(c, s) /\ s \in ConnectStages /\ job[c][s] = "busy"
      /\ new # NoSession
  BY ProbeAssumption DEF OpenDone, ThreadFrame
<1>3. /\ ~Live(c, s)'
      /\ job'[c][s] # "setup"
      /\ uses'[c][s] \in {uses[c][s], NoSession}
      /\ mode' = mode /\ stage' = stage
      /\ \A d \in Calls, q \in Stages :
           ~(d = c /\ q = s) => job'[d][q] = job[d][q] /\ uses'[d][q] = uses[d][q]
  BY ThreadFinish DEF IInv, OpenDone
<1>4. ASSUME ~late'
      PROVE /\ ~late /\ Awaited(c, s)
            /\ \A d \in Calls, q \in Stages : Awaited(d, q) => d = c /\ q = s
  BY <1>2, <1>4, QuietThread DEF IInv
<1>5. CreatedInv'
  BY <1>1, <1>2, <1>3 DEF IInv, CreatedInv
<1>6. LiveInv'
  BY <1>1, <1>3, <1>4 DEF IInv, LiveInv, Live, Active, Awaited
<1>7. SessionInv'
  <2> SUFFICES ASSUME ~late' PROVE SessionInv'
    BY DEF SessionInv
  <2>1. Live(c, s)
    BY <1>2, <1>4 DEF Live, Active, Executing
  <2>2. session = NoSession /\ NoSession \notin isOpen
    BY <1>2, <1>4, <2>1, ProbeAssumption DEF IInv, LiveInv, TypeOK
  <2>3. isOpen = {}
    BY <1>4, <2>2 DEF IInv, SessionInv
  <2>4. loop = NoCall
    BY <1>4 DEF IInv, LockInv, Awaited, TypeOK
  <2>5. \A d \in Calls : ~Live(d, "op")'
    BY <1>2, <1>3, <1>4 DEF Live, Active, Awaited, Stages, ConnectStages
  <2> QED
    BY <1>1, <1>2, <2>3, <2>4, <2>5 DEF SessionInv
<1> QED
  BY <1>5, <1>6, <1>7 DEF Rest

\* So does the end of a simple operation.
LEMMA RestOpDone ==
  ASSUME IInv, NEW c \in Calls, NEW s \in Stages, OpDone(c, s)
  PROVE Rest'
<1>1. /\ UNCHANGED <<session, flashReady, created, isOpen, attached, mapped>>
      /\ UNCHANGED <<loop, closing>> /\ Effect(c, s)
  BY DEF OpDone, ThreadFrame
<1>2. /\ ~Live(c, s)'
      /\ job'[c][s] # "setup"
      /\ uses'[c][s] \in {uses[c][s], NoSession}
      /\ mode' = mode /\ stage' = stage
      /\ \A d \in Calls, q \in Stages :
           ~(d = c /\ q = s) => job'[d][q] = job[d][q] /\ uses'[d][q] = uses[d][q]
  BY ThreadFinish DEF IInv, OpDone
<1>3. ASSUME ~late'
      PROVE /\ ~late /\ Awaited(c, s)
            /\ \A d \in Calls, q \in Stages : Awaited(d, q) => d = c /\ q = s
  BY <1>1, <1>3, QuietThread DEF IInv
<1>4. CreatedInv'
  BY <1>1, <1>2 DEF IInv, CreatedInv
<1>5. LiveInv'
  BY <1>1, <1>2, <1>3 DEF IInv, LiveInv, Live, Active, Awaited
<1>6. SessionInv'
  BY <1>1, <1>2, <1>3 DEF IInv, SessionInv, Live, Active, Awaited, Stages
<1> QED
  BY <1>4, <1>5, <1>6 DEF Rest

\* So does the end of programming.
LEMMA RestProgramDone ==
  ASSUME IInv, NEW c \in Calls, ProgramDone(c)
  PROVE Rest'
<1>1. /\ UNCHANGED <<session, flashReady, created, isOpen, attached, mapped>>
      /\ UNCHANGED <<loop, closing, halted>> /\ Effect(c, "op")
      /\ "op" \in Stages
  BY DEF ProgramDone, ThreadFrame, boardVars, Stages
<1>2. /\ ~Live(c, "op")'
      /\ job'[c]["op"] # "setup"
      /\ uses'[c]["op"] \in {uses[c]["op"], NoSession}
      /\ mode' = mode /\ stage' = stage
      /\ \A d \in Calls, q \in Stages :
           ~(d = c /\ q = "op") => job'[d][q] = job[d][q] /\ uses'[d][q] = uses[d][q]
  BY <1>1, ThreadFinish DEF IInv, ProgramDone
<1>3. ASSUME ~late'
      PROVE /\ ~late /\ Awaited(c, "op")
            /\ \A d \in Calls, q \in Stages : Awaited(d, q) => d = c /\ q = "op"
  BY <1>1, <1>3, QuietThread DEF IInv
<1>4. CreatedInv'
  BY <1>1, <1>2 DEF IInv, CreatedInv
<1>5. LiveInv'
  BY <1>1, <1>2, <1>3 DEF IInv, LiveInv, Live, Active, Awaited
<1>6. SessionInv'
  BY <1>1, <1>2, <1>3 DEF IInv, SessionInv, Live, Active, Awaited, Stages
<1> QED
  BY <1>4, <1>5, <1>6 DEF Rest

\* So does the halt that starts flash() and erase().
LEMMA RestHaltDone ==
  ASSUME IInv, NEW c \in Calls, HaltDone(c)
  PROVE Rest'
<1>1. /\ UNCHANGED <<session, flashReady, created, isOpen, attached, mapped>>
      /\ UNCHANGED <<loop, closing>> /\ Effect(c, "op") /\ halted' = TRUE
      /\ job[c]["op"] = "busy" /\ "op" \in Stages
  BY DEF HaltDone, ThreadFrame, Stages
<1>2. /\ uses'[c]["op"] \in {uses[c]["op"], session, NoSession}
      /\ job'[c]["op"] = "setup" => uses'[c]["op"] # NoSession
      /\ Live(c, "op")' => uses'[c]["op"] \in {uses[c]["op"], session}
      /\ mode' = mode /\ stage' = stage
      /\ \A d \in Calls, q \in Stages :
           ~(d = c /\ q = "op") => job'[d][q] = job[d][q] /\ uses'[d][q] = uses[d][q]
  <2>1. CASE Finish(c, "op", "err")
    BY <1>1, <2>1, ThreadFinish DEF IInv, HaltDone
  <2>2. CASE Advance(c, "op", "ready") /\ UNCHANGED uses
    <3>1. /\ job'[c]["op"] = "ready"
          /\ \A d \in Calls, q \in Stages :
               ~(d = c /\ q = "op") => job'[d][q] = job[d][q]
      BY <1>1, <2>2, AdvanceFrame DEF IInv
    <3> QED
      BY <2>2, <3>1 DEF HaltDone, ThreadFrame, callVars
  <2>3. CASE session # NoSession /\ Advance(c, "op", "setup") /\ Capture(c, "op", session)
    <3>1. \A d \in Calls, q \in Stages :
            ~(d = c /\ q = "op") => job'[d][q] = job[d][q]
      BY <1>1, <2>3, AdvanceFrame DEF IInv
    <3>2. /\ uses'[c]["op"] = session
          /\ \A d \in Calls, q \in Stages :
               ~(d = c /\ q = "op") => uses'[d][q] = uses[d][q]
      BY <1>1, <2>3, CaptureFrame DEF IInv
    <3> QED
      BY <2>3, <3>1, <3>2 DEF HaltDone, ThreadFrame, callVars
  <2> QED
    BY <2>1, <2>2, <2>3 DEF HaltDone
<1>3. ASSUME ~late'
      PROVE /\ ~late /\ Awaited(c, "op")
            /\ \A d \in Calls, q \in Stages : Awaited(d, q) => d = c /\ q = "op"
  BY <1>1, <1>3, QuietThread DEF IInv
<1>4. CreatedInv'
  <2>1. isOpen \subseteq created
    BY DEF IInv, TypeOK
  <2>2. \A d \in Calls, q \in Stages :
          /\ uses'[d][q] \in {uses[d][q], session, NoSession}
          /\ q \in ConnectStages => uses'[d][q] = uses[d][q]
          /\ job'[d][q] = "setup" =>
               uses'[d][q] # NoSession \/ (job[d][q] = "setup" /\ uses'[d][q] = uses[d][q])
    BY <1>2 DEF ConnectStages
  <2> QED
    BY <1>1, <2>1, <2>2 DEF IInv, CreatedInv
<1>5. LiveInv'
  BY <1>1, <1>2, <1>3
  DEF IInv, LiveInv, CreatedInv, Live, Active, Awaited, Executing, ConnectStages
<1>6. SessionInv'
  BY <1>1, <1>2, <1>3 DEF IInv, SessionInv
<1> QED
  BY <1>4, <1>5, <1>6 DEF Rest

\* So does the end of _setup_flash_sync.
LEMMA RestSetupDone ==
  ASSUME IInv, NEW c \in Calls, SetupDone(c)
  PROVE Rest'
<1>1. /\ UNCHANGED <<session, created, isOpen, attached, halted, uses>>
      /\ UNCHANGED <<loop, closing>> /\ Effect(c, "op")
      /\ mapped' = mapped \union {uses[c]["op"]}
      /\ job[c]["op"] = "setup" /\ "op" \in Stages
  BY DEF SetupDone, ThreadFrame, Stages
<1>2. /\ job'[c]["op"] = "ready"
      /\ mode' = mode /\ stage' = stage
      /\ \A d \in Calls, q \in Stages :
           ~(d = c /\ q = "op") => job'[d][q] = job[d][q]
  BY <1>1, AdvanceFrame DEF IInv, SetupDone, ThreadFrame, callVars
<1>3. ASSUME ~late'
      PROVE /\ ~late /\ Awaited(c, "op")
            /\ \A d \in Calls, q \in Stages : Awaited(d, q) => d = c /\ q = "op"
  BY <1>1, <1>3, QuietThread DEF IInv
<1>4. CreatedInv'
  BY <1>1, <1>2 DEF IInv, CreatedInv
<1>5. LiveInv'
  BY <1>1, <1>2, <1>3
  DEF IInv, LiveInv, Live, Active, Awaited, Executing, ConnectStages
<1>6. SessionInv'
  <2> SUFFICES ASSUME ~late' PROVE SessionInv'
    BY DEF SessionInv
  <2>1. Live(c, "op")
    BY <1>1, <1>3 DEF Live, Active, Executing
  <2>2. session \in mapped'
    BY <1>1, <1>3, <2>1 DEF IInv, LiveInv, ConnectStages
  <2>3. \A d \in Calls : Live(d, "op")' => d = c
    BY <1>1, <1>2, <1>3 DEF Live, Awaited
  <2> QED
    BY <1>1, <1>2, <1>3, <2>1, <2>2, <2>3 DEF IInv, SessionInv
<1> QED
  BY <1>4, <1>5, <1>6 DEF Rest

\* So does the second read of the session in flash() and erase().
LEMMA RestProgramBegin ==
  ASSUME IInv, NEW c \in Calls, ProgramBegin(c)
  PROVE Rest'
<1>1. /\ UNCHANGED <<session, flashReady, created, isOpen, attached, mapped>>
      /\ UNCHANGED <<loop, closing, halted>> /\ Effect(c, "op")
      /\ job[c]["op"] = "ready" /\ "op" \in Stages
  BY DEF ProgramBegin, ThreadFrame, boardVars, Stages
<1>2. /\ uses'[c]["op"] \in {uses[c]["op"], session, NoSession}
      /\ job'[c]["op"] # "setup"
      /\ Live(c, "op")' => uses'[c]["op"] = session /\ session \in mapped
      /\ mode' = mode /\ stage' = stage
      /\ \A d \in Calls, q \in Stages :
           ~(d = c /\ q = "op") => job'[d][q] = job[d][q] /\ uses'[d][q] = uses[d][q]
  <2>1. CASE Finish(c, "op", "err")
    BY <1>1, <2>1, ThreadFinish DEF IInv, ProgramBegin
  <2>2. CASE /\ session \in mapped
             /\ Advance(c, "op", "program") /\ Capture(c, "op", session)
    <3>1. /\ job'[c]["op"] = "program"
          /\ \A d \in Calls, q \in Stages :
               ~(d = c /\ q = "op") => job'[d][q] = job[d][q]
      BY <1>1, <2>2, AdvanceFrame DEF IInv
    <3>2. /\ uses'[c]["op"] = session
          /\ \A d \in Calls, q \in Stages :
               ~(d = c /\ q = "op") => uses'[d][q] = uses[d][q]
      BY <1>1, <2>2, CaptureFrame DEF IInv
    <3> QED
      BY <2>2, <3>1, <3>2 DEF ProgramBegin, ThreadFrame, callVars
  <2> QED
    BY <2>1, <2>2 DEF ProgramBegin
<1>3. ASSUME ~late'
      PROVE /\ ~late /\ Awaited(c, "op")
            /\ \A d \in Calls, q \in Stages : Awaited(d, q) => d = c /\ q = "op"
  BY <1>1, <1>3, QuietThread DEF IInv
<1>4. CreatedInv'
  <2>1. isOpen \subseteq created
    BY DEF IInv, TypeOK
  <2>2. \A d \in Calls, q \in Stages :
          /\ uses'[d][q] \in {uses[d][q], session, NoSession}
          /\ q \in ConnectStages => uses'[d][q] = uses[d][q]
          /\ job'[d][q] = "setup" =>
               uses'[d][q] # NoSession \/ (job[d][q] = "setup" /\ uses'[d][q] = uses[d][q])
    BY <1>2 DEF ConnectStages
  <2> QED
    BY <1>1, <2>1, <2>2 DEF IInv, CreatedInv
<1>5. LiveInv'
  BY <1>1, <1>2, <1>3
  DEF IInv, LiveInv, CreatedInv, Live, Active, Awaited, Executing, ConnectStages
<1>6. SessionInv'
  <2> SUFFICES ASSUME ~late' PROVE SessionInv'
    BY DEF SessionInv
  <2>1. Live(c, "op") /\ uses[c]["op"] = session
    BY <1>1, <1>3 DEF IInv, LiveInv, Live, Active, Executing, ConnectStages
  <2>2. \A d \in Calls : Live(d, "op")' => d = c /\ uses'[c]["op"] = session
    BY <1>1, <1>2, <1>3 DEF Live, Awaited
  <2> QED
    BY <1>1, <1>2, <1>3, <2>1, <2>2 DEF IInv, SessionInv
<1> QED
  BY <1>4, <1>5, <1>6 DEF Rest

-----------------------------------------------------------------------------
(* The inductive invariant and what follows from it                        *)

\* The inductive invariant holds initially.
LEMMA InvInit == Init => IInv
<1> SUFFICES ASSUME Init PROVE IInv
  OBVIOUS
<1>1. \A c \in Calls, s \in Stages :
        /\ job[c][s] = "none" /\ uses[c][s] = NoSession /\ mode[c] = "idle"
  BY DEF Init
<1>2. LockInv /\ CreatedInv
  BY <1>1, ProbeAssumption DEF Init, LockInv, CreatedInv
<1>3. LiveInv /\ SessionInv
  BY <1>1 DEF Init, LiveInv, SessionInv, Live, Awaited, Stages
<1> QED
  BY <1>2, <1>3, TypeInit DEF IInv

\* Every step preserves it.
LEMMA InvStep == IInv /\ [Next]_vars => IInv'
<1> SUFFICES ASSUME IInv, [Next]_vars PROVE IInv'
  OBVIOUS
<1>1. TypeOK' /\ LockInv'
  BY TypeStep, LockStep DEF IInv
<1>2. CASE UNCHANGED vars
  BY <1>2 DEF vars, callVars, threadVars, probeVars, boardVars, IInv, TypeOK,
              CreatedInv, LockInv, LiveInv, SessionInv, Live, Active, Awaited
<1>3. CASE Next
  <2>1. Rest'
    BY <1>3, NextCases, RestControl, RestClose, RestStartOp, RestStartConnect,
       RestOpenDone, RestOpDone, RestFails, RestHaltDone, RestSetupDone,
       RestProgramBegin, RestProgramDone, RestReplug DEF ControlAction
  <2> QED
    BY <1>1, <2>1 DEF IInv, Rest
<1> QED
  BY <1>2, <1>3

\* The inductive invariant holds in every reachable state.
THEOREM Invariance == Spec => []IInv
  BY InvInit, InvStep, PTL DEF Spec

\* Every variable keeps its type.
THEOREM TypeCorrect == Spec => []TypeOK
<1>1. IInv => TypeOK
  BY DEF IInv
<1> QED
  BY <1>1, Invariance, PTL

\* An awaited thread belongs to the owner of PyOCDProbe._lock, whatever
\* threads have been given up meanwhile.
THEOREM LockOwned == Spec => []LiveThreadOwnsLock
<1>1. IInv => LiveThreadOwnsLock
  BY DEF IInv, LockInv, LiveThreadOwnsLock, Live, Awaited
<1> QED
  BY <1>1, Invariance, PTL

\* An awaited thread never works through a closed session.
THEOREM OpenSessionUsed == Spec => []LiveThreadUsesOpenSession
<1>1. IInv => LiveThreadUsesOpenSession
  BY DEF IInv, LiveInv, LiveThreadUsesOpenSession
<1> QED
  BY <1>1, Invariance, PTL

\* As long as no given-up thread takes effect, _flash_ready is right about
\* the current session ...
THEOREM FlashFlagCorrect == Spec => []FlashFlagTracksSession
<1>1. IInv => FlashFlagTracksSession
  BY DEF IInv, SessionInv, FlashFlagTracksSession
<1> QED
  BY <1>1, Invariance, PTL

\* ... no session but the current one is open ...
THEOREM OneSessionOpen == Spec => []NoOpenSessionLost
<1>1. IInv => NoOpenSessionLost
  BY DEF IInv, SessionInv, NoOpenSessionLost
<1> QED
  BY <1>1, Invariance, PTL

\* ... and the core stays halted while the flash is set up and programmed.
THEOREM CoreHalted == Spec => []HaltedWhileProgramming
<1>1. IInv => HaltedWhileProgramming
  BY DEF IInv, SessionInv, HaltedWhileProgramming
<1> QED
  BY <1>1, Invariance, PTL

\* The session changes only on behalf of the lock's owner, unless a given-up
\* connect publishes its session late.
THEOREM SessionGuarded == Spec => SessionChangesUnderLock
<1>1. IInv /\ [Next]_vars
        => [session' # session => late' \/ lock # NoCall]_vars
  <2> SUFFICES ASSUME IInv, Next, session' # session, ~late'
               PROVE lock # NoCall
    OBVIOUS
  <2>1. ASSUME NEW c \in Calls, ControlAction(c) PROVE FALSE
    BY <2>1, ControlFrame DEF IInv
  <2>2. ASSUME NEW c \in Calls, CloseReturns(c) PROVE lock = c
    BY <2>2 DEF CloseReturns, IInv, LockInv
  <2>3. ASSUME NEW c \in Calls, NEW s \in Stages, StartConnect(c, s)
        PROVE lock = c
    BY <2>3 DEF StartConnect, IInv, LockInv, Awaited
  <2>4. ASSUME NEW c \in Calls, NEW s \in Stages, OpenDone(c, s)
        PROVE lock = c
    BY <2>4 DEF OpenDone, Effect, IInv, LockInv, Awaited
  <2>5. ASSUME NEW c \in Calls, NEW s \in Stages,
               StartOp(c, s) \/ OpDone(c, s) \/ JobFails(c, s)
        PROVE FALSE
    BY <2>5 DEF StartOp, OpDone, JobFails
  <2>6. ASSUME NEW c \in Calls,
               HaltDone(c) \/ SetupDone(c) \/ ProgramBegin(c) \/ ProgramDone(c)
        PROVE FALSE
    BY <2>6 DEF HaltDone, SetupDone, ProgramBegin, ProgramDone
  <2>7. CASE Replug
    BY <2>7 DEF Replug, probeVars
  <2> QED
    BY <2>1, <2>2, <2>3, <2>4, <2>5, <2>6, <2>7, NextCases, ProbeAssumption
    DEF ControlAction
<1> QED
  BY <1>1, Invariance, PTL DEF Spec, SessionChangesUnderLock
=============================================================================
