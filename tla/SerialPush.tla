----------------------------- MODULE SerialPush -----------------------------
(***************************************************************************)
(* Copying a file to the board over a console: SerialTransport.push types  *)
(* one command per chunk, each under the transport's lock but not the      *)
(* whole push, and looks only at the status of the last one;               *)
(* install_module goes on with insmod (transports/serial.py,               *)
(* tools/writable.py).  A command that the host gives up stays typed: the  *)
(* board executes its lines in order.                                      *)
(***************************************************************************)
EXTENDS Naturals, Sequences

CONSTANTS
  Calls,      \* tool calls, each made once, each with a local file of its own
  NoCall,     \* the lock has no owner
  Paths,      \* remote paths
  NoFile,     \* there is no such file on the board
  MaxChunks,  \* bound on the length of a file
  Offered     \* the tools that are called

ASSUME PushAssumption ==
  /\ NoCall \notin Calls
  /\ MaxChunks \in Nat
  /\ NoFile \notin Seq(Calls \X (1 .. MaxChunks))
  /\ Offered \subseteq {"push", "install"}

VARIABLES
  tool, path, size,  \* what each call is asked for; size in chunks
  pc,      \* "new", "lock" for the lock, "sent" for the status, "done"
  step,    \* the command the call is at: 0 rm, then the chunks, decode, insmod
  reply,   \* status of that command
  answer,  \* what the tool returned
  lock, waiters,  \* SerialTransport._lock
  lines,   \* typed and not yet executed
  b64,     \* <path>.b64 on the board
  disk,    \* <path> on the board
  loaded,  \* loaded[c]: what the insmod of c loaded
  faulty,  \* history: calls with a chunk, or the rm, that the board failed
  met      \* history: calls that ran at the same time as one for their path

askVars == <<tool, path, size>>
callVars == <<pc, step, reply, answer>>
boardVars == <<b64, disk, loaded>>
vars == <<askVars, callVars, lock, waiters, lines, boardVars, faulty, met>>

Parts == Calls \X (1 .. MaxChunks)
Contents == Seq(Parts)
\* the local file of c
File(c) == [i \in 1 .. size[c] |-> <<c, i>>]
Decode(c) == size[c] + 1
Insmod(c) == size[c] + 2
Lines == [of : Calls, at : 0 .. MaxChunks + 2]
Line(c) == [of |-> c, at |-> step[c]]
Busy(c) == pc[c] \in {"lock", "sent"}

TypeOK ==
  /\ tool \in [Calls -> {"push", "install"}]
  /\ path \in [Calls -> Paths]
  /\ size \in [Calls -> 0 .. MaxChunks]
  /\ pc \in [Calls -> {"new", "lock", "sent", "done"}]
  /\ step \in [Calls -> 0 .. MaxChunks + 2]
  /\ \A c \in Calls : step[c] <= IF tool[c] = "push" THEN Decode(c) ELSE Insmod(c)
  /\ reply \in [Calls -> {"none", "ok", "err"}]
  /\ answer \in [Calls -> {"none", "ok", "failed"}]
  /\ lock \in Calls \union {NoCall}
  /\ waiters \in Seq(Calls)
  /\ lines \in Seq(Lines)
  /\ b64 \in [Paths -> Contents \union {NoFile}]
  /\ disk \in [Paths -> Contents \union {NoFile}]
  /\ loaded \in [Calls -> Contents \union {NoFile}]
  /\ faulty \subseteq Calls /\ met \subseteq Calls

Init ==
  /\ tool \in [Calls -> Offered]
  /\ path \in [Calls -> Paths]
  /\ size \in [Calls -> 0 .. MaxChunks]
  /\ pc = [c \in Calls |-> "new"]
  /\ step = [c \in Calls |-> 0]
  /\ reply = [c \in Calls |-> "none"]
  /\ answer = [c \in Calls |-> "none"]
  /\ lock = NoCall /\ waiters = <<>> /\ lines = <<>>
  /\ b64 = [p \in Paths |-> NoFile]
  /\ disk = [p \in Paths |-> NoFile]
  /\ loaded = [c \in Calls |-> NoFile]
  /\ faulty = {} /\ met = {}

-----------------------------------------------------------------------------
(* The host                                                                *)

Goto(c, place) == pc' = [pc EXCEPT ![c] = place]

\* run() is called for the command at s
Command(c, s) ==
  /\ step' = [step EXCEPT ![c] = s]
  /\ Goto(c, "lock")
  /\ waiters' = Append(waiters, c)
  /\ UNCHANGED answer

End(c, a) ==
  /\ Goto(c, "done")
  /\ answer' = [answer EXCEPT ![c] = a]
  /\ UNCHANGED <<step, waiters>>

\* Mutant: push does not remove what an earlier push left behind.
InvokeNoRm(c) ==
  LET others == {d \in Calls : Busy(d) /\ path[d] = path[c]} IN
  /\ pc[c] = "new"
  /\ Command(c, 1)
  /\ met' = met \union others \union (IF others = {} THEN {} ELSE {c})
  /\ UNCHANGED <<askVars, reply, lock, lines, boardVars, faulty>>

\* push_file or install_module is called, and starts with rm -f <path>.b64
Invoke(c) ==
  LET others == {d \in Calls : Busy(d) /\ path[d] = path[c]} IN
  /\ pc[c] = "new"
  /\ Command(c, 0)
  /\ met' = met \union others \union (IF others = {} THEN {} ELSE {c})
  /\ UNCHANGED <<askVars, reply, lock, lines, boardVars, faulty>>

\* Mutant: run() does not wait for the lock.
GrantUnlocked(c) ==
  /\ waiters # <<>> /\ Head(waiters) = c
  /\ lock' = c
  /\ waiters' = Tail(waiters)
  /\ lines' = Append(lines, Line(c))
  /\ reply' = [reply EXCEPT ![c] = "none"]
  /\ Goto(c, "sent")
  /\ UNCHANGED <<askVars, step, answer, boardVars, faulty, met>>

\* the lock is free: _run_sync types the command
Grant(c) ==
  /\ lock = NoCall
  /\ waiters # <<>> /\ Head(waiters) = c
  /\ lock' = c
  /\ waiters' = Tail(waiters)
  /\ lines' = Append(lines, Line(c))
  /\ reply' = [reply EXCEPT ![c] = "none"]
  /\ Goto(c, "sent")
  /\ UNCHANGED <<askVars, step, answer, boardVars, faulty, met>>

\* Mutants: the tool goes on to insmod whatever push says ...
ProceedAnyway(c) ==
  \/ step[c] < Insmod(c) /\ tool[c] = "install" /\ Command(c, step[c] + 1)
  \/ step[c] < Decode(c) /\ tool[c] = "push" /\ Command(c, step[c] + 1)
  \/ step[c] = Decode(c) /\ tool[c] = "push" /\ reply[c] = "ok" /\ End(c, "ok")
  \/ step[c] = Decode(c) /\ tool[c] = "push" /\ reply[c] = "err" /\ End(c, "failed")
  \/ step[c] = Insmod(c) /\ End(c, IF reply[c] = "ok" THEN "ok" ELSE "failed")
\* ... or there is one command too many.
ProceedTwice(c) ==
  \/ step[c] <= Decode(c) /\ Command(c, step[c] + 1)
  \/ step[c] > Decode(c) /\ End(c, IF reply[c] = "ok" THEN "ok" ELSE "failed")

\* the command has ended: the status of the rm and of the chunks is ignored
Proceed(c) ==
  \/ step[c] < Decode(c) /\ Command(c, step[c] + 1)
  \/ step[c] = Decode(c) /\ reply[c] = "err" /\ End(c, "failed")
  \/ step[c] = Decode(c) /\ reply[c] = "ok" /\ tool[c] = "push" /\ End(c, "ok")
  \/ step[c] = Decode(c) /\ reply[c] = "ok" /\ tool[c] = "install" /\ Command(c, Insmod(c))
  \/ step[c] = Insmod(c) /\ End(c, IF reply[c] = "ok" THEN "ok" ELSE "failed")

\* run() returns and releases the lock
Return(c) ==
  /\ pc[c] = "sent" /\ reply[c] # "none"
  /\ Proceed(c)
  /\ lock' = NoCall
  /\ UNCHANGED <<askVars, reply, lines, boardVars, faulty, met>>

\* Mutant: the lock is kept when run() raises.
GiveUpLocked(c) ==
  /\ pc[c] = "sent" /\ reply[c] = "none"
  /\ End(c, "failed")
  /\ UNCHANGED <<askVars, reply, lock, lines, boardVars, faulty, met>>

\* run() raises TransportError (a deadline, a foreign marker, a port that
\* fails); the command stays typed
GiveUp(c) ==
  /\ pc[c] = "sent" /\ reply[c] = "none"
  /\ End(c, "failed")
  /\ lock' = NoCall
  /\ UNCHANGED <<askVars, reply, lines, boardVars, faulty, met>>

-----------------------------------------------------------------------------
(* The board                                                               *)

\* the effect on the files of line l executed with status s; a decode that
\* fails has truncated its target already
Effect(l, s) ==
  LET c == l.of
      p == path[c]
      part == IF b64[p] = NoFile THEN <<>> ELSE b64[p]
      b64After(x) == b64' = [b64 EXCEPT ![p] = x]
      diskAfter(x) == disk' = [disk EXCEPT ![p] = x]
  IN  \/ /\ l.at = 0 /\ s = "ok"
         /\ b64After(NoFile) /\ UNCHANGED <<disk, loaded>>
      \/ /\ l.at \in 1 .. size[c] /\ s = "ok"
         /\ b64After(Append(part, <<c, l.at>>)) /\ UNCHANGED <<disk, loaded>>
      \/ /\ l.at = Decode(c) /\ s = "ok" /\ b64[p] # NoFile
         /\ diskAfter(b64[p]) /\ b64After(NoFile) /\ UNCHANGED loaded
      \/ /\ l.at = Decode(c) /\ s = "err"
         /\ diskAfter(<<>>) /\ UNCHANGED <<b64, loaded>>
      \/ /\ l.at = Insmod(c) /\ s = "ok" /\ disk[p] # NoFile
         /\ loaded' = [loaded EXCEPT ![c] = disk[p]] /\ UNCHANGED <<b64, disk>>
      \/ /\ l.at \notin {Decode(c)} /\ s = "err"
         /\ UNCHANGED boardVars

\* the board executes the line typed first
Execute ==
  /\ lines # <<>>
  /\ lines' = Tail(lines)
  /\ LET l == Head(lines) IN
     \E s \in {"ok", "err"} :
       /\ Effect(l, s)
       /\ faulty' = IF s = "err" /\ l.at <= size[l.of] THEN faulty \union {l.of}
                    ELSE faulty
       /\ reply' = IF pc[l.of] = "sent" /\ step[l.of] = l.at
                   THEN [reply EXCEPT ![l.of] = s] ELSE reply
  /\ UNCHANGED <<askVars, pc, step, answer, lock, waiters, met>>

Run(c) == Grant(c) \/ Return(c) \/ GiveUp(c)

Next == Execute \/ \E c \in Calls : Invoke(c) \/ Run(c)

Spec == Init /\ [][Next]_vars

\* run() has a deadline; the board may never execute a line.
FairSpec == Spec /\ \A c \in Calls : WF_vars(Run(c))

-----------------------------------------------------------------------------
\* While the host waits for a command, the command is the last one typed: no
\* other call types into the same console.
OneConversation ==
  \A c \in Calls : pc[c] = "sent" /\ reply[c] = "none"
    => lines # <<>> /\ lines[Len(lines)] = Line(c)

\* A push that had its path to itself, and whose rm and chunks the board
\* executed, reports OK only for a complete copy, whatever an earlier push
\* left behind or still has typed.
PushedIntact ==
  [][\A c \in Calls \ (faulty \union met) :
       tool[c] = "push" /\ answer[c] # "ok" /\ answer'[c] = "ok"
         => disk'[path[c]] = File(c)]_vars

\* Likewise, what insmod loads is the local file, even when the host had given
\* up the insmod before it was executed.
LoadedIntact ==
  \A c \in Calls \ (faulty \union met) : loaded[c] \in {NoFile, File(c)}

\* Every call ends, even if the board executes nothing.
EveryCallEnds ==
  \A c \in Calls : pc[c] = "lock" ~> pc[c] = "done"
=============================================================================
