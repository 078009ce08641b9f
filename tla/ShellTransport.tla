---------------------------- MODULE ShellTransport ----------------------------
(***************************************************************************)
(* The shell tools over SshTransport (transports/ssh.py) or AdbTransport   *)
(* (transports/adb.py).  Both give every request a connection or a client  *)
(* process of its own and no lock; adb connects lazily, before the first   *)
(* command, and remembers that in a flag.  A request that times out is     *)
(* given up by the host, whatever has reached the board goes on there.     *)
(***************************************************************************)
EXTENDS ToolCalls

CONSTANT Kinds  \* the transports that the configuration may choose

ASSUME KindAssumption == Kinds \subseteq {"ssh", "adb-usb", "adb-wifi"}

VARIABLES
  kind,       \* the transport, chosen at start-up
  place,      \* where each call is
  connected,  \* AdbTransport._connected
  wire,       \* wire[c][i]: the i-th request of c on its way and on the board
  left,       \* a client process that outlives its call: "none", or which
  board,      \* the board is up and can be reached
  known,      \* the adb server knows the wifi target
  introduced  \* history: an `adb connect` has succeeded

envVars == <<board, known>>
vars == <<toolVars, kind, place, connected, wire, left, envVars, introduced>>

Places == {"idle", "open", "connect", "wait", "command", "reap"}
Progress == {"none", "sent", "ok", "failed"}
Wifi == kind = "adb-wifi"

TypeOK ==
  /\ ToolTypeOK
  /\ kind \in Kinds
  /\ place \in [Calls -> Places]
  /\ connected \in BOOLEAN
  /\ wire \in [Calls -> [1 .. 2 -> Progress]]
  /\ left \in [Calls -> {"none", "helper", "command"}]
  /\ board \in BOOLEAN /\ known \in BOOLEAN /\ introduced \in BOOLEAN
  /\ \A c \in Calls : (place[c] # "idle") <=> (outcome[c] = "none")

Init ==
  /\ ToolInit
  /\ kind \in Kinds
  /\ place = [c \in Calls |-> "idle"]
  /\ connected = FALSE
  /\ wire = [c \in Calls |-> [i \in 1 .. 2 |-> "none"]]
  /\ left = [c \in Calls |-> "none"]
  /\ board = TRUE
  /\ known = FALSE /\ introduced = FALSE

-----------------------------------------------------------------------------
Goto(c, p) == place' = [place EXCEPT ![c] = p]

\* _ensure_connected connects unless the flag is set; `adb devices` needs no
\* target; ssh opens a connection for each request
Entry(op) ==
  IF kind = "ssh" THEN "open"
  ELSE IF op = "devices" \/ connected THEN "command"
  ELSE IF Wifi THEN "connect" ELSE "wait"

\* Mutant: the flag is set before what it stands for is awaited.
InvokeFlags(c, t) ==
  /\ t = "adb_devices" => kind # "ssh"
  /\ Started(c, t)
  /\ Goto(c, Entry(Plans[t][1]))
  /\ connected' = (connected \/ kind # "ssh")
  /\ UNCHANGED <<kind, wire, left, envVars, introduced>>

Invoke(c, t) ==
  /\ t = "adb_devices" => kind # "ssh"
  /\ Started(c, t)
  /\ Goto(c, Entry(Plans[t][1]))
  /\ UNCHANGED <<kind, connected, wire, left, envVars, introduced>>

Reject(c, t) ==
  /\ t # "board_info"
  /\ t = "adb_devices" => kind = "ssh"
  /\ Rejected(c, t)
  /\ UNCHANGED <<kind, place, connected, wire, left, envVars, introduced>>

\* the request is over; the tool goes on with its next one, or ends
Answer(c, a) ==
  \/ Proceeds(c, a) /\ Goto(c, Entry(Plans[tool[c]][At(c) + 1]))
  \/ (Returns(c, a) \/ Raises(c, a)) /\ Goto(c, "idle")

-----------------------------------------------------------------------------
(* Connecting                                                              *)

SshOpens(c) ==
  /\ place[c] = "open"
  /\ board
  /\ Goto(c, "command")
  /\ UNCHANGED <<toolVars, kind, connected, wire, left, envVars, introduced>>

\* refused, not authenticated, or after default_timeout
SshOpenFails(c) ==
  /\ place[c] = "open"
  /\ Answer(c, "error")
  /\ UNCHANGED <<kind, connected, wire, left, envVars, introduced>>

\* `adb connect` says that it is connected; it may believe so of a board that
\* is gone
AdbConnects(c) ==
  /\ place[c] = "connect"
  /\ board \/ known
  /\ known' = TRUE
  /\ introduced' = TRUE
  /\ Goto(c, "wait")
  /\ UNCHANGED <<toolVars, kind, connected, wire, left, board>>

\* `adb wait-for-device` has seen the device; connect() is done
AdbWaited(c) ==
  /\ place[c] = "wait"
  /\ board /\ (Wifi => known)
  /\ connected' = TRUE
  /\ Goto(c, "command")
  /\ UNCHANGED <<toolVars, kind, wire, left, envVars, introduced>>

\* adb is missing, cannot be executed, exits with a status, or does not say
\* that it is connected
AdbHelperFails(c) ==
  /\ place[c] \in {"connect", "wait"}
  /\ \E a \in {"error", "raised"} : Answer(c, a)
  /\ UNCHANGED <<kind, connected, wire, left, envVars, introduced>>

-----------------------------------------------------------------------------
(* One request                                                             *)

\* Commands reach the board while their client is there.  A client whose
\* call was cancelled is still there.
Transmit(c) ==
  /\ \/ place[c] = "command"
     \/ place[c] = "idle" /\ left[c] = "command"
  /\ Op(c) # "devices"
  /\ wire[c][At(c)] = "none"
  /\ board /\ (Wifi => known)
  /\ wire' = [wire EXCEPT ![c][At(c)] = "sent"]
  /\ UNCHANGED <<toolVars, kind, place, connected, left, envVars, introduced>>

\* the board executes what has reached it, reachable or not
Execute(c, i) ==
  /\ wire[c][i] = "sent"
  /\ \E result \in {"ok", "failed"} : wire' = [wire EXCEPT ![c][i] = result]
  /\ UNCHANGED <<toolVars, kind, place, connected, left, envVars, introduced>>

\* The client ends with the status of the command.  push() and pull() raise
\* when it is not zero.
Reply(c) ==
  /\ place[c] = "command"
  /\ Op(c) # "devices"
  /\ wire[c][At(c)] \in {"ok", "failed"}
  /\ Answer(c, IF Op(c) = "run" \/ wire[c][At(c)] = "ok"
               THEN wire[c][At(c)] ELSE "error")
  /\ UNCHANGED <<kind, connected, wire, left, envVars, introduced>>

\* list_devices() does not look at the status
Listed(c) ==
  /\ place[c] = "command"
  /\ Op(c) = "devices"
  /\ Answer(c, "ok")
  /\ UNCHANGED <<kind, connected, wire, left, envVars, introduced>>

\* The client ends by itself, without the command's status: adb does not
\* know the device, or the connection is lost.  run() takes its status for
\* that of the command, or raises what is no TransportError (an OSError).
Failures(op) ==
  IF op = "run" THEN {"failed", "error", "raised"}
  ELSE IF kind = "ssh" THEN {"error"} ELSE {"error", "raised"}

ClientFails(c) ==
  /\ place[c] = "command"
  /\ \E a \in Failures(Op(c)) : Answer(c, a)
  /\ UNCHANGED <<kind, connected, wire, left, envVars, introduced>>

\* scp is awaited without a timeout
Unbounded(c) ==
  kind = "ssh" /\ place[c] = "command" /\ Op(c) \in {"push", "pull"}

\* Mutants: wait-for-device is awaited without a timeout ...
TimeoutNotWaiting(c) ==
  /\ place[c] \in {"connect", "command"}
  /\ ~Unbounded(c)
  /\ Op(c) # "devices"
  /\ Goto(c, "reap")
  /\ UNCHANGED <<toolVars, kind, connected, wire, left, envVars, introduced>>
\* ... or the client is not killed when the time is up.
TimeoutKeepsClient(c) ==
  /\ place[c] \in {"connect", "wait", "command"}
  /\ ~Unbounded(c)
  /\ Op(c) # "devices"
  /\ Answer(c, "error")
  /\ left' = [left EXCEPT ![c] = IF place[c] = "command" THEN "command" ELSE "helper"]
  /\ UNCHANGED <<kind, connected, wire, envVars, introduced>>

\* The time is up: the adb process is killed, the ssh connection closed, and
\* both are awaited.
Timeout(c) ==
  /\ place[c] \in {"connect", "wait", "command"}
  /\ ~Unbounded(c)
  /\ Op(c) # "devices"
  /\ Goto(c, "reap")
  /\ UNCHANGED <<toolVars, kind, connected, wire, left, envVars, introduced>>

\* Mutant: a command that timed out is tried again.
ReapedRetries(c) ==
  /\ place[c] = "reap"
  /\ Goto(c, Entry(Op(c)))
  /\ wire' = [wire EXCEPT ![c][At(c)] = "none"]
  /\ UNCHANGED <<toolVars, kind, connected, left, envVars, introduced>>

Reaped(c) ==
  /\ place[c] = "reap"
  /\ Answer(c, "error")
  /\ UNCHANGED <<kind, connected, wire, left, envVars, introduced>>

\* list_devices() gives up its process without killing it
DevicesTimeout(c) ==
  /\ place[c] = "command"
  /\ Op(c) = "devices"
  /\ Answer(c, "error")
  /\ left' = [left EXCEPT ![c] = "helper"]
  /\ UNCHANGED <<kind, connected, wire, envVars, introduced>>

\* Mutant: the coroutine still waits for the process when it is cancelled.
CancelReaps(c) ==
  /\ place[c] # "idle"
  /\ Cancelled(c)
  /\ Goto(c, "reap")
  /\ UNCHANGED <<kind, connected, wire, left, envVars, introduced>>

\* The client cancels the call.  An adb process is not killed then; leaving
\* the `async with` closes an ssh connection.
Cancel(c) ==
  /\ place[c] # "idle"
  /\ Cancelled(c)
  /\ Goto(c, "idle")
  /\ left' = [left EXCEPT ![c] =
       IF kind = "ssh" \/ place[c] = "reap" THEN "none"
       ELSE IF place[c] = "command" /\ Op(c) # "devices" THEN "command"
       ELSE "helper"]
  /\ UNCHANGED <<kind, connected, wire, envVars, introduced>>

LeftoverExits(c) ==
  /\ left[c] # "none"
  /\ left' = [left EXCEPT ![c] = "none"]
  /\ UNCHANGED <<toolVars, kind, place, connected, wire, envVars, introduced>>

-----------------------------------------------------------------------------
(* The board and the adb server                                            *)

\* The board leaves the network, or reboots; then what it was executing is
\* lost, as Execute may never happen.
BoardDown ==
  /\ board
  /\ board' = FALSE
  /\ UNCHANGED <<toolVars, kind, place, connected, wire, left, known, introduced>>

BoardUp ==
  /\ ~board
  /\ board' = TRUE
  /\ UNCHANGED <<toolVars, kind, place, connected, wire, left, known, introduced>>

\* the adb server drops a target, or finds it again by itself
ServerChanges ==
  /\ Wifi
  /\ \/ known /\ known' = FALSE
     \/ ~known /\ introduced /\ board /\ known' = TRUE
  /\ UNCHANGED <<toolVars, kind, place, connected, wire, left, board, introduced>>

-----------------------------------------------------------------------------
\* what the coroutine of a call does when its timer or its client ends
Resume(c) ==
  \/ SshOpenFails(c) \/ Timeout(c) \/ DevicesTimeout(c) \/ Reaped(c) \/ Reply(c)

Next ==
  \/ \E c \in Calls :
       \/ \E t \in Tools : Invoke(c, t) \/ Reject(c, t)
       \/ SshOpens(c) \/ AdbConnects(c) \/ AdbWaited(c) \/ AdbHelperFails(c)
       \/ Transmit(c) \/ Listed(c) \/ ClientFails(c) \/ Resume(c)
       \/ \E i \in 1 .. 2 : Execute(c, i)
       \/ Cancel(c) \/ LeftoverExits(c)
  \/ BoardDown \/ BoardUp \/ ServerChanges

Spec == Init /\ [][Next]_vars

\* The event loop fires timers and reaps what was killed.  Nothing is assumed
\* of adb, ssh or the board.
FairSpec == Spec /\ \A c \in Calls : WF_vars(Resume(c))

-----------------------------------------------------------------------------
(* Properties                                                              *)

Happened(c, i) == wire[c][i] \in {"ok", "failed"}

\* What the tool knows of its i-th request; a cancelled one counts as an
\* error, and `adb devices` asks nothing of the board.
AnswerOf(c, i) ==
  IF tool[c] = "adb_devices" THEN "new"
  ELSE IF i \in DOMAIN told[c]
  THEN IF told[c][i] = "raised" THEN "error" ELSE told[c][i]
  ELSE IF i > At(c) \/ outcome[c] \in {"new", "returned", "rejected", "raised"}
  THEN "new"
  ELSE IF outcome[c] = "cancelled" THEN "error" ELSE "asked"

\* ssh and adb keep the promise of the Transport interface: a request is
\* executed at most once, also if it was given up, and success is true.
Interface(c, i) == INSTANCE Transport WITH
  answer   <- AnswerOf(c, i),
  executed <- IF Happened(c, i) THEN wire[c][i] ELSE "no"
\* (Interface(c, i)!Spec for every c and i, under one [] as TLC wants it)
ImplementsTransport ==
  /\ \A c \in Calls, i \in 1 .. 2 : Interface(c, i)!Init
  /\ [][\A c \in Calls, i \in 1 .. 2 :
          Interface(c, i)!Next \/ UNCHANGED Interface(c, i)!vars]_vars

\* A call whose arguments passed and that returns has left its audit record, one
\* for each of the two writes of export_gpio, also after an error.  Nothing is
\* said of calls that are rejected by their checks, that raise or are cancelled,
\* that only looked an IIO device up, and of an audit file that cannot be written.
EveryReturnRecorded ==
  \A c \in Calls :
    /\ outcome[c] = "returned" /\ logging
    /\ ~(tool[c] = "read_iio" /\ Len(told[c]) = 1)
    => Len(records[c]) = IF tool[c] = "export_gpio" THEN 2 ELSE 1

\* A record says `ok` only of what the board has executed with status zero,
\* and each of the two of export_gpio of its own command; board_info and
\* adb_devices do not look at the status.
OkRecordIsReal ==
  \A c \in Calls, i \in 1 .. 2 :
    /\ tool[c] \notin {"board_info", "adb_devices"}
    /\ i \in DOMAIN records[c] /\ records[c][i]
    => wire[c][IF tool[c] = "export_gpio" THEN i ELSE Len(Plans[tool[c]])] = "ok"

\* The second command of a call never overtakes the first one, unless that
\* was given up or lost; and insmod finds the whole module.
StepsInOrder ==
  \A c \in Calls : wire[c][2] # "none" =>
    /\ Happened(c, 1) \/ told[c][1] \in {"failed", "error"}
    /\ tool[c] = "install_module" => wire[c][1] = "ok"

\* No command is given to adb for a wifi target that it has not been told of
\* (_ensure_connected), however many calls connect at the same time.
TargetToldFirst ==
  \A c \in Calls :
    place[c] = "command" /\ Wifi /\ Op(c) # "devices" => introduced

\* No client process outlives its call, but for cancelled calls and the
\* `adb devices` that was given up.
NothingLeftRunning ==
  \A c \in Calls :
    left[c] # "none" => outcome[c] = "cancelled" \/ tool[c] = "adb_devices"

\* Every call ends, whatever adb, ssh and the board do, unless it waits for an
\* scp, which has no timeout.
EveryCallEnds ==
  \A c \in Calls : place[c] # "idle" ~> place[c] = "idle" \/ Unbounded(c)
=============================================================================
