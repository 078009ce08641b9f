-------------------------- MODULE SerialPortProofs --------------------------
(***************************************************************************)
(* Proofs about SerialPort: who holds the port, and what a command may     *)
(* rely on, for any number of concurrent calls, and whether or not the     *)
(* operating system lets several of them have the port open.               *)
(***************************************************************************)
EXTENDS SerialPort, TLAPS

\* SerialTransport._lock is held exactly by the call that is at a place
\* inside `async with self._lock`.
LockInv == \A c \in Calls : pc[c] \in Locked <=> lock = c

\* A capture that has made the transport let go finds it with the port again
\* only if it was connected since; the command and the login have an open port.
PortInv ==
  /\ NoHandleLost
  /\ \A c \in Calls : ser /\ pc[c] \in {"open", "capture"} => retaken[c]
  /\ \A c \in Calls : pc[c] \in {"login", "command"} => ser

\* An open port that did not get its login is being logged in, unless a
\* login has failed.
LoginInv ==
  ser /\ ~ready /\ ~broken => lock \in Calls /\ pc[lock] = "login"

\* c is a capture that made the transport let go and has yet to reconnect it.
Owes(c) ==
  kind[c] = "capture" /\ pc[c] \in {"open", "capture", "relock", "connect"}

\* Only a capture disconnects the transport.
CloseInv == \A c \in Calls : pc[c] = "close" => kind[c] = "capture"

\* A transport that was connected and is not any more is owed a connect.
OwedInv == connected /\ ~raised /\ ~ser => \E c \in Calls : Owes(c)

IInv ==
  /\ TypeOK /\ LockInv /\ PortInv /\ LoginInv
  /\ CommandsAfterLogin /\ CloseInv /\ OwedInv

-----------------------------------------------------------------------------
\* The end of a call, with any outcome, leaves the fields of the calls typed.
LEMMA EndTyped ==
  ASSUME TypeOK, NEW c \in Calls, NEW o \in {"ok", "failed", "raised"}, End(c, o)
  PROVE /\ pc' \in [Calls -> Places]
        /\ answer' \in [Calls -> Outcomes]
        /\ raised' \in BOOLEAN
        /\ pc' = [pc EXCEPT ![c] = "idle"]
  BY DEF TypeOK, End, Goto, Places, Outcomes

\* What a call does next when its connect is over.
LEMMA ConnectedTyped ==
  ASSUME TypeOK, NEW c \in Calls, Connected(c)
  PROVE /\ pc' \in [Calls -> Places]
        /\ answer' \in [Calls -> Outcomes]
        /\ raised' \in BOOLEAN
        /\ \/ pc' = [pc EXCEPT ![c] = "command"] /\ lock' = lock
           \/ pc' = [pc EXCEPT ![c] = "idle"] /\ lock' = NoCall
<1>1. CASE kind[c] = "run" /\ Goto(c, "command") /\ UNCHANGED <<answer, raised, lock>>
  BY <1>1 DEF TypeOK, Goto, Places
<1>2. CASE kind[c] = "capture" /\ End(c, captured[c]) /\ lock' = NoCall
  <2>1. captured[c] \in Outcomes
    BY DEF TypeOK, Outcomes
  <2> QED
    BY <1>2, <2>1 DEF TypeOK, End, Goto, Places
<1> QED
  BY <1>1, <1>2 DEF Connected

\* Every step keeps every field typed.
LEMMA TypeStep == TypeOK /\ [Next]_vars => TypeOK'
<1> SUFFICES ASSUME TypeOK, [Next]_vars PROVE TypeOK'
  OBVIOUS
<1>1. CASE UNCHANGED vars
  BY <1>1 DEF TypeOK, vars
<1>2. ASSUME NEW c \in Calls, NEW k \in {"run", "capture"}, Invoke(c, k)
      PROVE TypeOK'
  BY <1>2 DEF TypeOK, Invoke, Goto, Queue, history, Places, Outcomes
<1>3. ASSUME NEW c \in Calls, Grant(c) PROVE TypeOK'
  <2>1. Destination(c) \in {"connect", "close", "command"}
    BY DEF Destination
  <2> QED
    BY <1>3, <2>1 DEF TypeOK, Grant, Goto, history, Places
<1>4. ASSUME NEW c \in Calls, ConnectNothing(c) \/ LoginDone(c) PROVE TypeOK'
  <2>1. \A d \in Calls : pc'[d] = "relock" => pc[d] = "relock"
    BY <1>4, ConnectedTyped DEF ConnectNothing, LoginDone, TypeOK
  <2>2. lock' \in Calls \union {NoCall}
    BY <1>4, ConnectedTyped DEF ConnectNothing, LoginDone, TypeOK
  <2> QED
    BY <1>4, <2>1, <2>2, ConnectedTyped DEF ConnectNothing, LoginDone, TypeOK
<1>5. ASSUME NEW c \in Calls, ConnectOpens(c) PROVE TypeOK'
  BY <1>5 DEF TypeOK, ConnectOpens, TransportOpens, Goto, Places
<1>6. ASSUME NEW c \in Calls, ConnectFails(c) \/ LoginFails(c) \/ CommandEnds(c)
      PROVE TypeOK'
  <2>1. PICK o \in {"ok", "failed", "raised"} : End(c, o)
    BY <1>6 DEF ConnectFails, LoginFails, CommandEnds
  <2> QED
    BY <1>6, <2>1, EndTyped DEF TypeOK, ConnectFails, LoginFails, CommandEnds
<1>7. ASSUME NEW c \in Calls, Close(c) \/ CaptureOpens(c) PROVE TypeOK'
  BY <1>7 DEF TypeOK, Close, CaptureOpens, Goto, history, Places
<1>8. ASSUME NEW c \in Calls, CaptureOpenFails(c) \/ CaptureEnds(c) PROVE TypeOK'
  <2>1. PICK o \in {"ok", "failed"} : captured' = [captured EXCEPT ![c] = o]
    BY <1>8 DEF CaptureOpenFails, CaptureEnds
  <2>2. pc' = [pc EXCEPT ![c] = "relock"] /\ waiters' = Append(waiters, c)
    BY <1>8 DEF CaptureOpenFails, CaptureEnds, Goto, Queue
  <2>3. /\ holders' \subseteq holders
        /\ UNCHANGED <<kind, answer, lock, ser, ready, history>>
    BY <1>8 DEF CaptureOpenFails, CaptureEnds
  <2> QED
    BY <2>1, <2>2, <2>3 DEF TypeOK, history, Places
<1> QED
  BY <1>1, <1>2, <1>3, <1>4, <1>5, <1>6, <1>7, <1>8
  DEF Next, Step, Run, CaptureSerial

-----------------------------------------------------------------------------
\* The lock is taken and released together with the place of its owner.
LEMMA LockStep == TypeOK /\ LockInv /\ [Next]_vars => LockInv'
<1> SUFFICES ASSUME TypeOK, LockInv, [Next]_vars PROVE LockInv'
  OBVIOUS
<1> USE DEF LockInv, Locked
<1>1. CASE UNCHANGED vars
  BY <1>1 DEF vars
<1>2. ASSUME NEW c \in Calls, NEW k \in {"run", "capture"}, Invoke(c, k)
      PROVE LockInv'
  BY <1>2 DEF TypeOK, Invoke, Goto
<1>3. ASSUME NEW c \in Calls, Grant(c) PROVE LockInv'
  <2>1. Destination(c) \in {"connect", "close", "command"}
    BY DEF Destination
  <2> QED
    BY <1>3, <2>1, PortAssumption DEF TypeOK, Grant, Goto
<1>4. ASSUME NEW c \in Calls, ConnectNothing(c) \/ LoginDone(c) PROVE LockInv'
  BY <1>4, ConnectedTyped, PortAssumption DEF ConnectNothing, LoginDone, TypeOK
<1>5. ASSUME NEW c \in Calls, ConnectOpens(c) PROVE LockInv'
  BY <1>5 DEF TypeOK, ConnectOpens, TransportOpens, Goto
<1>6. ASSUME NEW c \in Calls, ConnectFails(c) \/ LoginFails(c) \/ CommandEnds(c)
      PROVE LockInv'
  <2>1. PICK o \in {"ok", "failed", "raised"} : End(c, o)
    BY <1>6 DEF ConnectFails, LoginFails, CommandEnds
  <2> QED
    BY <1>6, <2>1, EndTyped, PortAssumption
    DEF TypeOK, ConnectFails, LoginFails, CommandEnds
<1>7. ASSUME NEW c \in Calls, Close(c) \/ CaptureOpens(c) PROVE LockInv'
  BY <1>7, PortAssumption DEF TypeOK, Close, CaptureOpens, Goto
<1>8. ASSUME NEW c \in Calls, CaptureOpenFails(c) \/ CaptureEnds(c) PROVE LockInv'
  BY <1>8 DEF TypeOK, CaptureOpenFails, CaptureEnds, Goto
<1> QED
  BY <1>1, <1>2, <1>3, <1>4, <1>5, <1>6, <1>7, <1>8
  DEF Next, Step, Run, CaptureSerial

\* Every open and every close is matched by the bookkeeping of its side.
LEMMA PortStep ==
  TypeOK /\ LockInv /\ PortInv /\ [Next]_vars => PortInv'
<1> SUFFICES ASSUME TypeOK, LockInv, PortInv, [Next]_vars PROVE PortInv'
  OBVIOUS
<1> USE DEF PortInv, NoHandleLost
<1>1. CASE UNCHANGED vars
  BY <1>1 DEF vars, history
<1>2. ASSUME NEW c \in Calls, NEW k \in {"run", "capture"}, Invoke(c, k)
      PROVE PortInv'
  <2>1. \A d \in Calls : d # c => pc'[d] = pc[d] /\ retaken'[d] = retaken[d]
    BY <1>2 DEF TypeOK, Invoke, Goto
  <2>2. pc[c] = "idle" /\ pc'[c] = "lock" /\ ser' = ser /\ holders' = holders
    BY <1>2 DEF TypeOK, Invoke, Goto
  <2> QED
    BY <2>1, <2>2
<1>3. ASSUME NEW c \in Calls, Grant(c) PROVE PortInv'
  <2>1. /\ Destination(c) \in {"connect", "close", "command"}
        /\ Destination(c) = "command" => ser
    BY DEF Destination
  <2> QED
    BY <1>3, <2>1 DEF TypeOK, Grant, Goto, history
<1>4. ASSUME NEW c \in Calls, ConnectNothing(c) \/ LoginDone(c) PROVE PortInv'
  <2>1. /\ ser /\ ser' = ser /\ holders' = holders /\ retaken' = retaken
        /\ pc[c] \in {"connect", "login"}
    BY <1>4 DEF ConnectNothing, LoginDone, PortInv
  <2>2. \A d \in Calls : /\ (pc'[d] = "capture") = (pc[d] = "capture")
                         /\ (pc'[d] = "open") = (pc[d] = "open")
    BY <1>4, <2>1, ConnectedTyped DEF ConnectNothing, LoginDone, TypeOK
  <2> QED
    BY <2>1, <2>2
<1>5. ASSUME NEW c \in Calls, ConnectOpens(c) PROVE PortInv'
  <2>1. \A d \in Calls : /\ (pc'[d] = "capture") = (pc[d] = "capture")
                         /\ (pc'[d] = "open") = (pc[d] = "open")
    BY <1>5 DEF ConnectOpens, Goto, TypeOK
  <2>2. /\ ~ser /\ ser' /\ holders' = holders \union {Transport}
        /\ \A d \in Calls : retaken'[d] = (retaken[d] \/ pc[d] \in {"open", "capture"})
    BY <1>5 DEF ConnectOpens, TransportOpens
  <2> QED
    BY <2>1, <2>2
<1>6. ASSUME NEW c \in Calls, ConnectFails(c) \/ LoginFails(c) \/ CommandEnds(c)
      PROVE PortInv'
  <2>1. PICK o \in {"ok", "failed", "raised"} : End(c, o)
    BY <1>6 DEF ConnectFails, LoginFails, CommandEnds
  <2>2. /\ ser' = ser /\ holders' = holders /\ retaken' = retaken
        /\ pc[c] \in {"connect", "login", "command"}
    BY <1>6 DEF ConnectFails, LoginFails, CommandEnds
  <2>3. \A d \in Calls : pc'[d] # pc[d] => d = c /\ pc'[d] = "idle"
    BY <2>1, EndTyped DEF TypeOK
  <2>4. \A d \in Calls : (pc'[d] = "capture") = (pc[d] = "capture")
    BY <2>2, <2>3
  <2> QED
    BY <2>2, <2>3, <2>4
<1>7. ASSUME NEW c \in Calls, Close(c) PROVE PortInv'
  <2>1. \A d \in Calls : /\ pc'[d] = "capture" <=> pc[d] = "capture"
                         /\ pc'[d] \notin {"login", "command"}
    BY <1>7 DEF Close, Goto, TypeOK, LockInv, Locked
  <2> QED
    BY <1>7, <2>1, PortAssumption DEF Close
<1>8. ASSUME NEW c \in Calls, CaptureOpens(c) PROVE PortInv'
  <2>1. /\ pc[c] = "open" /\ ser' = ser /\ retaken' = retaken
        /\ holders' = holders \union {c}
    BY <1>8 DEF CaptureOpens, history
  <2>2. \A d \in Calls : /\ pc'[d] = "capture" <=> d = c \/ pc[d] = "capture"
                         /\ d # c => pc'[d] = pc[d]
    BY <1>8 DEF CaptureOpens, Goto, TypeOK
  <2>3. pc'[c] = "capture"
    BY <2>2
  <2> QED
    BY <2>1, <2>2, <2>3
<1>9. ASSUME NEW c \in Calls, CaptureOpenFails(c) PROVE PortInv'
  BY <1>9 DEF TypeOK, CaptureOpenFails, Goto, history
<1>10. ASSUME NEW c \in Calls, CaptureEnds(c) PROVE PortInv'
  <2>1. \A d \in Calls : /\ pc'[d] = "capture" <=> pc[d] = "capture" /\ d # c
                         /\ pc'[d] \in {"login", "command", "open"} => pc'[d] = pc[d]
    BY <1>10 DEF CaptureEnds, Goto, TypeOK
  <2>2. ser' = ser /\ retaken' = retaken /\ holders' = holders \ {c}
    BY <1>10 DEF CaptureEnds, history
  <2> QED
    BY <2>1, <2>2, PortAssumption
<1> QED
  BY <1>1, <1>2, <1>3, <1>4, <1>5, <1>6, <1>7, <1>8, <1>9, <1>10
  DEF Next, Step, Run, CaptureSerial

-----------------------------------------------------------------------------
\* A port that is open without a login is being logged in, or stays behind a
\* login that failed.
LEMMA LoginStep ==
  TypeOK /\ LockInv /\ PortInv /\ LoginInv /\ [Next]_vars => LoginInv'
<1> SUFFICES ASSUME TypeOK, LockInv, PortInv, LoginInv, [Next]_vars,
                    ser', ~ready', ~broken'
             PROVE lock' \in Calls /\ pc'[lock'] = "login"
  BY DEF LoginInv
<1> USE DEF LoginInv
<1>1. CASE UNCHANGED vars
  BY <1>1 DEF vars, history
<1>2. ASSUME NEW c \in Calls, NEW k \in {"run", "capture"}, Invoke(c, k)
      PROVE lock' \in Calls /\ pc'[lock'] = "login"
  BY <1>2 DEF TypeOK, Invoke, Goto, history
<1>3. ASSUME NEW c \in Calls, Grant(c) PROVE FALSE
  BY <1>3, PortAssumption DEF Grant, history
<1>4. ASSUME NEW c \in Calls, ConnectNothing(c) \/ LoginDone(c) PROVE FALSE
  BY <1>4 DEF ConnectNothing, LoginDone, LockInv, Locked
<1>5. ASSUME NEW c \in Calls, ConnectOpens(c)
      PROVE lock' \in Calls /\ pc'[lock'] = "login"
  BY <1>5 DEF TypeOK, ConnectOpens, TransportOpens, Goto, LockInv, Locked
<1>6. ASSUME NEW c \in Calls, ConnectFails(c) \/ LoginFails(c) \/ CommandEnds(c)
      PROVE FALSE
  BY <1>6 DEF ConnectFails, LoginFails, CommandEnds, LockInv, Locked
<1>7. ASSUME NEW c \in Calls, Close(c) PROVE FALSE
  BY <1>7 DEF Close
<1>8. ASSUME NEW c \in Calls,
             CaptureOpens(c) \/ CaptureOpenFails(c) \/ CaptureEnds(c)
      PROVE lock' \in Calls /\ pc'[lock'] = "login"
  <2>1. UNCHANGED <<lock, ser, ready, broken>>
    BY <1>8 DEF CaptureOpens, CaptureOpenFails, CaptureEnds, history
  <2>2. \A d \in Calls \ {c} : pc'[d] = pc[d]
    BY <1>8 DEF CaptureOpens, CaptureOpenFails, CaptureEnds, Goto, TypeOK
  <2>3. pc[c] # "login"
    BY <1>8 DEF CaptureOpens, CaptureOpenFails, CaptureEnds
  <2> QED
    BY <2>1, <2>2, <2>3
<1> QED
  BY <1>1, <1>2, <1>3, <1>4, <1>5, <1>6, <1>7, <1>8
  DEF Next, Step, Run, CaptureSerial

\* A command starts on a port that has its login, and the port is not
\* reopened while the command runs.
LEMMA CommandStep ==
  IInv /\ [Next]_vars => CommandsAfterLogin'
<1> SUFFICES ASSUME IInv, [Next]_vars, NEW d \in Calls,
                    ~broken', pc'[d] = "command"
             PROVE ready'
  BY DEF CommandsAfterLogin
<1> USE DEF IInv, CommandsAfterLogin
<1>1. CASE UNCHANGED vars
  BY <1>1 DEF vars, history
<1>2. ASSUME NEW c \in Calls, NEW k \in {"run", "capture"}, Invoke(c, k)
      PROVE ready'
  BY <1>2 DEF TypeOK, Invoke, Goto, history
<1>3. ASSUME NEW c \in Calls, Grant(c) PROVE ready'
  <2>1. CASE d = c
    BY <1>3, <2>1, PortAssumption
    DEF TypeOK, Grant, Goto, Destination, LoginInv, history
  <2>2. CASE d # c
    BY <1>3, <2>2 DEF TypeOK, Grant, Goto, history
  <2> QED
    BY <2>1, <2>2
<1>4. ASSUME NEW c \in Calls, ConnectNothing(c) PROVE ready'
  BY <1>4 DEF ConnectNothing, LockInv, Locked, LoginInv
<1>5. ASSUME NEW c \in Calls, LoginDone(c) PROVE ready'
  BY <1>5 DEF LoginDone
<1>6. ASSUME NEW c \in Calls, ConnectOpens(c) \/ Close(c) PROVE FALSE
  <2>1. d # c /\ pc[d] = "command"
    BY <1>6 DEF ConnectOpens, Close, Goto, TypeOK
  <2> QED
    BY <1>6, <2>1 DEF ConnectOpens, Close, LockInv, Locked
<1>7. ASSUME NEW c \in Calls, ConnectFails(c) \/ LoginFails(c) \/ CommandEnds(c)
      PROVE ready'
  <2>1. PICK o \in {"ok", "failed", "raised"} : End(c, o)
    BY <1>7 DEF ConnectFails, LoginFails, CommandEnds
  <2>2. pc[d] = "command"
    BY <2>1, EndTyped DEF TypeOK
  <2> QED
    BY <1>7, <2>2 DEF ConnectFails, LoginFails, CommandEnds
<1>8. ASSUME NEW c \in Calls,
             CaptureOpens(c) \/ CaptureOpenFails(c) \/ CaptureEnds(c)
      PROVE ready'
  BY <1>8 DEF TypeOK, CaptureOpens, CaptureOpenFails, CaptureEnds, Goto, history
<1> QED
  BY <1>1, <1>2, <1>3, <1>4, <1>5, <1>6, <1>7, <1>8
  DEF Next, Step, Run, CaptureSerial

\* The lock grants a disconnect to captures only.
LEMMA CloseStep == TypeOK /\ CloseInv /\ [Next]_vars => CloseInv'
<1> SUFFICES ASSUME TypeOK, CloseInv, [Next]_vars, NEW d \in Calls,
                    pc'[d] = "close"
             PROVE kind'[d] = "capture"
  BY DEF CloseInv
<1>1. CASE UNCHANGED vars
  BY <1>1 DEF vars, CloseInv
<1>2. ASSUME NEW c \in Calls, NEW k \in {"run", "capture"}, Invoke(c, k)
      PROVE kind'[d] = "capture"
  BY <1>2 DEF TypeOK, Invoke, Goto, CloseInv
<1>3. ASSUME NEW c \in Calls, Grant(c) PROVE kind'[d] = "capture"
  BY <1>3 DEF TypeOK, Grant, Goto, Destination, CloseInv
<1>4. ASSUME NEW c \in Calls, ConnectNothing(c) \/ LoginDone(c)
      PROVE kind'[d] = "capture"
  BY <1>4, ConnectedTyped DEF ConnectNothing, LoginDone, TypeOK, CloseInv
<1>5. ASSUME NEW c \in Calls, ConnectFails(c) \/ LoginFails(c) \/ CommandEnds(c)
      PROVE kind'[d] = "capture"
  <2>1. PICK o \in {"ok", "failed", "raised"} : End(c, o)
    BY <1>5 DEF ConnectFails, LoginFails, CommandEnds
  <2> QED
    BY <1>5, <2>1, EndTyped
    DEF ConnectFails, LoginFails, CommandEnds, TypeOK, CloseInv
<1>6. ASSUME NEW c \in Calls, ConnectOpens(c) \/ Close(c) \/ CaptureOpens(c)
      PROVE kind'[d] = "capture"
  BY <1>6 DEF ConnectOpens, Close, CaptureOpens, Goto, TypeOK, CloseInv
<1>7. ASSUME NEW c \in Calls, CaptureOpenFails(c) \/ CaptureEnds(c)
      PROVE kind'[d] = "capture"
  BY <1>7 DEF CaptureOpenFails, CaptureEnds, Goto, TypeOK, CloseInv
<1> QED
  BY <1>1, <1>2, <1>3, <1>4, <1>5, <1>6, <1>7
  DEF Next, Step, Run, CaptureSerial

\* A capture that owes the transport a connect pays or raises.
LEMMA OwedStep ==
  IInv /\ [Next]_vars => OwedInv'
<1> SUFFICES ASSUME IInv, [Next]_vars, connected', ~raised', ~ser'
             PROVE \E d \in Calls : Owes(d)'
  BY DEF OwedInv
<1> USE DEF IInv
<1>1. CASE UNCHANGED vars
  BY <1>1 DEF vars, history, OwedInv, Owes
<1>2. ASSUME NEW c \in Calls, Close(c) PROVE Owes(c)'
  <2>1. kind[c] = "capture"
    BY <1>2 DEF Close, CloseInv
  <2> QED
    BY <1>2, <2>1 DEF Close, Goto, Owes, TypeOK
<1>3. ASSUME NEW c \in Calls,
             ConnectNothing(c) \/ ConnectOpens(c) \/ LoginDone(c)
      PROVE FALSE
  <2>1. ConnectNothing(c) => ser'
    BY DEF ConnectNothing
  <2>2. ConnectOpens(c) => ser'
    BY DEF ConnectOpens, TransportOpens
  <2>3. LoginDone(c) => ser'
    BY DEF LoginDone, PortInv
  <2> QED
    BY <1>3, <2>1, <2>2, <2>3
<1>4. ASSUME NEW c \in Calls, LoginFails(c) PROVE FALSE
  BY <1>4 DEF LoginFails, End
<1>5. ASSUME connected, ~raised, ~ser,
             \A d \in Calls : Owes(d) => Owes(d)'
      PROVE \E d \in Calls : Owes(d)'
  BY <1>5 DEF OwedInv
<1>6. ASSUME NEW c \in Calls, ConnectFails(c) \/ CommandEnds(c)
      PROVE \E d \in Calls : Owes(d)'
  <2>1. PICK o \in {"ok", "failed", "raised"} : End(c, o)
    BY <1>6 DEF ConnectFails, CommandEnds
  <2>2. ~Owes(c)
    BY <1>6 DEF ConnectFails, CommandEnds, End, Owes
  <2>3. \A d \in Calls : Owes(d) => Owes(d)'
    BY <1>6, <2>1, <2>2, EndTyped DEF ConnectFails, CommandEnds, Owes, TypeOK
  <2>4. UNCHANGED <<connected, ser>>
    BY <1>6 DEF ConnectFails, CommandEnds
  <2>5. ~raised
    BY <2>1 DEF End
  <2> QED
    BY <1>5, <2>3, <2>4, <2>5
<1>7. ASSUME NEW c \in Calls, NEW k \in {"run", "capture"}, Invoke(c, k)
      PROVE \E d \in Calls : Owes(d)'
  <2>1. \A d \in Calls : Owes(d) => Owes(d)'
    BY <1>7 DEF Invoke, Goto, Owes, TypeOK
  <2> QED
    BY <1>5, <1>7, <2>1 DEF Invoke, history
<1>8. ASSUME NEW c \in Calls, Grant(c) PROVE \E d \in Calls : Owes(d)'
  <2>1. \A d \in Calls : Owes(d) => Owes(d)'
    BY <1>8 DEF Grant, Destination, Goto, Owes, TypeOK
  <2> QED
    BY <1>5, <1>8, <2>1 DEF Grant, history
<1>9. ASSUME NEW c \in Calls,
             CaptureOpens(c) \/ CaptureOpenFails(c) \/ CaptureEnds(c)
      PROVE \E d \in Calls : Owes(d)'
  <2>1. \A d \in Calls : Owes(d) => Owes(d)'
    BY <1>9 DEF CaptureOpens, CaptureOpenFails, CaptureEnds, Goto, Owes, TypeOK
  <2>2. UNCHANGED <<ser, history>>
    BY <1>9 DEF CaptureOpens, CaptureOpenFails, CaptureEnds
  <2> QED
    BY <1>5, <2>1, <2>2 DEF history
<1> QED
  BY <1>1, <1>2, <1>3, <1>4, <1>6, <1>7, <1>8, <1>9
  DEF Next, Step, Run, CaptureSerial

-----------------------------------------------------------------------------
\* The inductive invariant holds in every reachable state.
THEOREM Invariance == Spec => []IInv
<1>1. Init => IInv
  <2> SUFFICES ASSUME Init PROVE IInv
    OBVIOUS
  <2>1. TypeOK
    <3>1. /\ pc \in [Calls -> Places] /\ kind \in [Calls -> {"run", "capture"}]
          /\ answer \in [Calls -> Outcomes]
          /\ captured \in [Calls -> {"none", "ok", "failed"}]
          /\ \A c \in Calls : pc[c] = "idle"
      BY DEF Init, Places, Outcomes
    <3>2. waiters \in Seq(Calls) /\ lock = NoCall /\ holders = {}
      BY DEF Init
    <3>3. /\ ser \in BOOLEAN /\ ready \in BOOLEAN
          /\ connected \in BOOLEAN /\ raised \in BOOLEAN /\ broken \in BOOLEAN
      BY DEF Init
    <3>4. retaken \in [Calls -> BOOLEAN]
      BY DEF Init
    <3> QED
      BY <3>1, <3>2, <3>3, <3>4 DEF TypeOK
  <2>2. LockInv
    BY PortAssumption DEF Init, LockInv, Locked
  <2>3. NoHandleLost
    BY DEF Init, NoHandleLost
  <2>4. PortInv
    BY <2>3 DEF Init, PortInv
  <2>5. LoginInv /\ CommandsAfterLogin /\ CloseInv /\ OwedInv
    BY DEF Init, LoginInv, CommandsAfterLogin, CloseInv, OwedInv
  <2> QED
    BY <2>1, <2>2, <2>4, <2>5 DEF IInv
<1>2. IInv /\ [Next]_vars => IInv'
  BY TypeStep, LockStep, PortStep, LoginStep, CommandStep, CloseStep, OwedStep
  DEF IInv
<1> QED
  BY <1>1, <1>2, PTL DEF Spec

\* Every variable keeps its type, and a capture on its way back has its result.
THEOREM TypeCorrect == Spec => []TypeOK
<1>1. IInv => TypeOK
  BY DEF IInv
<1> QED
  BY <1>1, Invariance, PTL

\* The port is open exactly for those whose bookkeeping says so: no close is
\* forgotten on any path of run, disconnect, connect and capture_serial.
THEOREM HandlesKept == Spec => []NoHandleLost
<1>1. IInv => NoHandleLost
  BY DEF IInv, PortInv
<1> QED
  BY <1>1, Invariance, PTL

\* A capture never takes the port from a login or a command in progress, nor
\* reads along with one unless the transport was connected again behind it,
\* although a capture opens the port without the transport's lock.
THEOREM CommandLeftAlone == Spec => []RunningCommandLeftAlone
<1>1. IInv => RunningCommandLeftAlone
  <2> SUFFICES ASSUME IInv, NEW c \in Calls, pc[c] \in {"login", "command"}
               PROVE /\ ser /\ Transport \in holders
                     /\ \A d \in Calls : pc[d] = "capture" => retaken[d]
    BY DEF RunningCommandLeftAlone
  <2>1. ser /\ \A d \in Calls : pc[d] = "capture" => retaken[d]
    BY DEF IInv, PortInv
  <2> QED
    BY <2>1 DEF IInv, PortInv, NoHandleLost
<1> QED
  BY <1>1, Invariance, PTL

\* A command finds the login done, unless a login has failed half way.
THEOREM LoginFirst == Spec => []CommandsAfterLogin
<1>1. IInv => CommandsAfterLogin
  BY DEF IInv
<1> QED
  BY <1>1, Invariance, PTL

\* A capture gives the port back, unless a tool has raised.
THEOREM PortReturned == Spec => []PortGivenBack
<1>1. IInv => PortGivenBack
  BY DEF IInv, OwedInv, Owes, PortGivenBack
<1> QED
  BY <1>1, Invariance, PTL
=============================================================================
