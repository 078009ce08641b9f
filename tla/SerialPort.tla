----------------------------- MODULE SerialPort -----------------------------
(***************************************************************************)
(* Who holds the serial port.  Shell tools run commands through            *)
(* SerialTransport.run, which connects when the transport has no open      *)
(* port; capture_serial on the same port first makes the transport let go  *)
(* of it, opens it for itself outside the transport's lock, and connects   *)
(* the transport again when it is done (transports/serial.py,              *)
(* tools/readonly.py).  Nothing asks the operating system for exclusive    *)
(* access: on Linux a port that is open can be opened again, on Windows it *)
(* cannot.  The model allows both, so an open may succeed or fail whoever  *)
(* has the port.                                                           *)
(***************************************************************************)
EXTENDS Naturals, Sequences

CONSTANTS
  Calls,     \* tool calls in progress at the same time
  NoCall,    \* the transport's lock has no owner
  Transport  \* the transport, as a holder of the port

ASSUME PortAssumption ==
  /\ NoCall \notin Calls
  /\ Transport \notin Calls

VARIABLES
  pc,        \* where each call is
  kind,      \* "run" or "capture"
  answer,    \* what the tool returned, or "raised"
  captured,  \* what a capture has got so far: "none", "ok", "failed"
  lock,      \* owner of SerialTransport._lock
  waiters,   \* FIFO of the calls waiting for it
  holders,   \* who has the port open
  ser,       \* _ser is set and says it is open
  ready,     \* the login sequence was completed on the open port
  connected, \* history: the transport has been connected once
  retaken,   \* history: the transport was connected again after a capture let go
  raised,    \* history: a tool call has ended with an exception
  broken     \* history: a login sequence has failed half way

vars == <<pc, kind, answer, captured, lock, waiters, holders, ser, ready,
          connected, retaken, raised, broken>>
history == <<connected, retaken, raised, broken>>

Places == {"idle", "lock", "connect", "login", "command", "close", "open",
           "capture", "relock"}
Outcomes == {"none", "ok", "failed", "raised"}
\* the places where a call owns the transport's lock
Locked == {"connect", "login", "command", "close"}

TypeOK ==
  /\ pc \in [Calls -> Places]
  /\ kind \in [Calls -> {"run", "capture"}]
  /\ answer \in [Calls -> Outcomes]
  /\ captured \in [Calls -> {"none", "ok", "failed"}]
  /\ \A c \in Calls : pc[c] = "relock" => captured[c] # "none"
  /\ lock \in Calls \union {NoCall}
  /\ waiters \in Seq(Calls)
  /\ holders \subseteq Calls \union {Transport}
  /\ ser \in BOOLEAN /\ ready \in BOOLEAN
  /\ connected \in BOOLEAN /\ raised \in BOOLEAN /\ broken \in BOOLEAN
  /\ retaken \in [Calls -> BOOLEAN]

Init ==
  /\ pc = [c \in Calls |-> "idle"]
  /\ kind = [c \in Calls |-> "run"]
  /\ answer = [c \in Calls |-> "none"]
  /\ captured = [c \in Calls |-> "none"]
  /\ lock = NoCall /\ waiters = <<>>
  /\ holders = {} /\ ser = FALSE /\ ready = FALSE
  /\ connected = FALSE /\ raised = FALSE /\ broken = FALSE
  /\ retaken = [c \in Calls |-> FALSE]

Goto(c, place) == pc' = [pc EXCEPT ![c] = place]
Queue(c) == waiters' = Append(waiters, c)

\* the tool returns or raises
End(c, outcome) ==
  /\ Goto(c, "idle")
  /\ answer' = [answer EXCEPT ![c] = outcome]
  /\ raised' = (raised \/ outcome = "raised")

\* a tool call enters the transport's lock: to run a command, or to make the
\* transport disconnect before a capture
Invoke(c, k) ==
  /\ pc[c] = "idle"
  /\ Goto(c, "lock")
  /\ Queue(c)
  /\ kind' = [kind EXCEPT ![c] = k]
  /\ answer' = [answer EXCEPT ![c] = "none"]
  /\ captured' = [captured EXCEPT ![c] = "none"]
  /\ retaken' = [retaken EXCEPT ![c] = FALSE]
  /\ UNCHANGED <<lock, holders, ser, ready, connected, raised, broken>>

Run(c) == Invoke(c, "run")
CaptureSerial(c) == Invoke(c, "capture")

\* where the call goes with the lock: run() connects only when there is no
\* open port; a capture disconnects first and connects at the end
Destination(c) ==
  IF pc[c] = "relock" THEN "connect"
  ELSE IF kind[c] = "capture" THEN "close"
  ELSE IF ser THEN "command" ELSE "connect"

\* Mutant: disconnect() and connect() do not take the lock.
GrantUnlocked(c) ==
  /\ pc[c] \in {"lock", "relock"}
  /\ \/ kind[c] = "capture" /\ UNCHANGED lock
     \/ lock = NoCall /\ kind[c] = "run" /\ lock' = c
  /\ waiters' = SelectSeq(waiters, LAMBDA d : d # c)
  /\ Goto(c, Destination(c))
  /\ UNCHANGED <<kind, answer, captured, holders, ser, ready, history>>

\* Mutant: the last call to arrive is served first.
GrantNewest(c) ==
  /\ lock = NoCall
  /\ waiters # <<>> /\ waiters[Len(waiters)] = c
  /\ pc[c] \in {"lock", "relock"}
  /\ lock' = c
  /\ waiters' = SubSeq(waiters, 1, Len(waiters) - 1)
  /\ Goto(c, Destination(c))
  /\ UNCHANGED <<kind, answer, captured, holders, ser, ready, history>>

\* asyncio.Lock serves the calls in the order they came
Grant(c) ==
  /\ lock = NoCall
  /\ waiters # <<>> /\ Head(waiters) = c
  /\ pc[c] \in {"lock", "relock"}
  /\ lock' = c
  /\ waiters' = Tail(waiters)
  /\ Goto(c, Destination(c))
  /\ UNCHANGED <<kind, answer, captured, holders, ser, ready, history>>

\* the connect is over: run() goes on to its command, a capture returns
Connected(c) ==
  \/ /\ kind[c] = "run"
     /\ Goto(c, "command")
     /\ UNCHANGED <<answer, raised, lock>>
  \/ /\ kind[c] = "capture"
     /\ End(c, captured[c])
     /\ lock' = NoCall

\* _connect_sync with a port that is open already
ConnectNothing(c) ==
  /\ pc[c] = "connect"
  /\ ser
  /\ Connected(c)
  /\ connected' = TRUE
  /\ UNCHANGED <<kind, captured, waiters, holders, ser, ready, retaken, broken>>

\* the transport has the port open again: captures that had made it let go and
\* are not done have it no more to themselves
TransportOpens ==
  /\ ~ser
  /\ holders' = holders \union {Transport}
  /\ ser' = TRUE
  /\ ready' = FALSE
  /\ retaken' = [d \in Calls |-> retaken[d] \/ pc[d] \in {"open", "capture"}]

\* Mutant: run() opens the port itself, without the login sequence.
OpensForCommand(c) ==
  /\ pc[c] = "connect"
  /\ TransportOpens
  /\ Goto(c, IF kind[c] = "run" THEN "command" ELSE "login")
  /\ UNCHANGED <<kind, answer, captured, lock, waiters, connected, raised, broken>>

\* _connect_sync opens the port and starts the login sequence; it may share it
\* with a capture
ConnectOpens(c) ==
  /\ pc[c] = "connect"
  /\ TransportOpens
  /\ Goto(c, "login")
  /\ UNCHANGED <<kind, answer, captured, lock, waiters, connected, raised, broken>>

\* The operating system refuses the port, which a capture has open, or the port
\* is not there: TransportError, which the shell tools report and the finally
\* clause of a capture does not.
ConnectFails(c) ==
  /\ pc[c] = "connect"
  /\ ~ser
  /\ End(c, IF kind[c] = "run" THEN "failed" ELSE "raised")
  /\ lock' = NoCall
  /\ UNCHANGED <<kind, captured, waiters, holders, ser, ready, connected, retaken, broken>>

LoginDone(c) ==
  /\ pc[c] = "login"
  /\ ready' = TRUE
  /\ connected' = TRUE
  /\ Connected(c)
  /\ UNCHANGED <<kind, captured, waiters, holders, ser, retaken, broken>>

\* A SerialException in the middle of the login sequence is no
\* TransportError: it leaves the tool, and leaves the port open.
LoginFails(c) ==
  /\ pc[c] = "login"
  /\ End(c, "raised")
  /\ broken' = TRUE
  /\ lock' = NoCall
  /\ UNCHANGED <<kind, captured, waiters, holders, ser, ready, connected, retaken>>

\* _run_sync ends, with a result or a TransportError
CommandEnds(c) ==
  /\ pc[c] = "command"
  /\ \E outcome \in {"ok", "failed"} : End(c, outcome)
  /\ lock' = NoCall
  /\ UNCHANGED <<kind, captured, waiters, holders, ser, ready, connected, retaken, broken>>

\* Mutant: disconnect() clears _ser and does not close the port.
CloseLeaks(c) ==
  /\ pc[c] = "close"
  /\ ser' = FALSE
  /\ ready' = FALSE
  /\ lock' = NoCall
  /\ Goto(c, "open")
  /\ UNCHANGED <<kind, answer, captured, waiters, holders, history>>

\* disconnect() of a capture
Close(c) ==
  /\ pc[c] = "close"
  /\ holders' = holders \ {Transport}
  /\ ser' = FALSE
  /\ ready' = FALSE
  /\ lock' = NoCall
  /\ Goto(c, "open")
  /\ UNCHANGED <<kind, answer, captured, waiters, history>>

\* capture_serial_output opens the port, without the transport's lock and
\* whoever else has it open
CaptureOpens(c) ==
  /\ pc[c] = "open"
  /\ holders' = holders \union {c}
  /\ Goto(c, "capture")
  /\ UNCHANGED <<kind, answer, captured, lock, waiters, ser, ready, history>>

\* Mutant: a capture that cannot open the port returns without the finally.
CaptureGivesUp(c) ==
  /\ pc[c] = "open"
  /\ End(c, "failed")
  /\ UNCHANGED <<kind, captured, lock, waiters, holders, ser, ready, connected, retaken, broken>>

\* Mutant: ... or reconnects without keeping the message to return.
CaptureFailsMutely(c) ==
  /\ pc[c] = "open"
  /\ Goto(c, "relock")
  /\ Queue(c)
  /\ UNCHANGED <<kind, answer, captured, lock, holders, ser, ready, history>>

\* ... or cannot: the operating system refuses it because a command has
\* reconnected the transport meanwhile or another capture runs, or the port is
\* gone
CaptureOpenFails(c) ==
  /\ pc[c] = "open"
  /\ captured' = [captured EXCEPT ![c] = "failed"]
  /\ Goto(c, "relock")
  /\ Queue(c)
  /\ UNCHANGED <<kind, answer, lock, holders, ser, ready, history>>

\* the seconds are over, or reading or writing raised; the port is closed and
\* the finally clause asks for connect()
CaptureEnds(c) ==
  /\ pc[c] = "capture"
  /\ \E outcome \in {"ok", "failed"} :
       captured' = [captured EXCEPT ![c] = outcome]
  /\ holders' = holders \ {c}
  /\ Goto(c, "relock")
  /\ Queue(c)
  /\ UNCHANGED <<kind, answer, lock, ser, ready, history>>

Step(c) ==
  \/ Grant(c) \/ ConnectNothing(c) \/ ConnectOpens(c) \/ ConnectFails(c)
  \/ LoginDone(c) \/ LoginFails(c) \/ CommandEnds(c)
  \/ Close(c) \/ CaptureOpens(c) \/ CaptureOpenFails(c) \/ CaptureEnds(c)

Next == \E c \in Calls : Run(c) \/ CaptureSerial(c) \/ Step(c)

Spec == Init /\ [][Next]_vars

\* Executor jobs of this transport read until a deadline, so each ends.
FairSpec == Spec /\ \A c \in Calls : WF_vars(Step(c))

-----------------------------------------------------------------------------
\* A capture waits for the command in progress: while a login or a command
\* runs, the transport's port stays open under it, and a capture reads along
\* only if another call has connected the transport again since the capture made
\* it let go, never because it did not wait.  (Such a capture does share the
\* console, where the operating system lets it open the port.)
RunningCommandLeftAlone ==
  \A c \in Calls : pc[c] \in {"login", "command"} =>
    /\ ser /\ Transport \in holders
    /\ \A d \in Calls : pc[d] = "capture" => retaken[d]

\* The port is never left open without an owner: the transport has it open
\* exactly while _ser says so, and a capture while it captures.
NoHandleLost ==
  holders = {c \in Calls : pc[c] = "capture"}
              \union (IF ser THEN {Transport} ELSE {})

\* Unless a login sequence has failed half way, a command runs only after
\* the login sequence on the open port was completed.
CommandsAfterLogin ==
  \A c \in Calls : ~broken /\ pc[c] = "command" => ready

\* A capture gives the port back: once the transport has been connected, and
\* as long as no tool has raised, it is connected whenever no call is in
\* progress.
PortGivenBack ==
  connected /\ ~raised /\ (\A c \in Calls : pc[c] = "idle") => ser

\* Every tool call ends.
EveryCallEnds ==
  \A c \in Calls : pc[c] # "idle" ~> pc[c] = "idle"
=============================================================================
