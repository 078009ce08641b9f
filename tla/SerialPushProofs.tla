--------------------------- MODULE SerialPushProofs ---------------------------
(***************************************************************************)
(* Proofs about SerialPush, for any number of calls, paths and chunks: one *)
(* conversation at a time, and what a push or an insmod that had its path  *)
(* to itself leaves on the board.                                          *)
(***************************************************************************)
EXTENDS SerialPush, SequenceFacts

Pending(c) == \E i \in DOMAIN lines : lines[i].of = c

\* The lock belongs to the call that waits for a status; only calls that wait
\* for the lock are queued for it, each once.
LockInv ==
  /\ \A c \in Calls : pc[c] = "sent" <=> lock = c
  /\ \A i \in DOMAIN waiters : pc[waiters[i]] = "lock"
  /\ \A i, j \in DOMAIN waiters : waiters[i] = waiters[j] => i = j

\* A line not yet executed is the command its call is at.  The call waits for
\* it, then it is the last line, or has given it up.
LineInv(i, c) ==
  lines[i].of = c =>
    /\ lines[i] = Line(c)
    /\ reply[c] = "none"
    /\ \/ pc[c] = "sent" /\ i = Len(lines)
       \/ pc[c] = "done"

LinesInv ==
  /\ \A i \in DOMAIN lines, c \in Calls : LineInv(i, c)
  /\ \A i, j \in DOMAIN lines : lines[i].of = lines[j].of => i = j
  /\ OneConversation

\* the commands of c that the board has executed are those before this one
Upcoming(c) ==
  IF pc[c] = "sent" /\ reply[c] # "none" THEN step[c] + 1 ELSE step[c]

\* what n chunks of c make of its .b64
Chunks(c, n) == IF n = 0 THEN NoFile ELSE [i \in 1 .. n |-> <<c, i>>]

\* While c is at work, and no other call for its path is, its chunks are in
\* the .b64, and then its file is there; what was given up before it started
\* has been executed when its rm has.
WorkInv(c) ==
  Busy(c) =>
    /\ \A d \in Calls \ {c} : path[d] = path[c] =>
         /\ ~Busy(d)
         /\ Upcoming(c) # 0 => ~Pending(d)
    /\ Upcoming(c) \in 1 .. Decode(c) => b64[path[c]] = Chunks(c, Upcoming(c) - 1)
    /\ Upcoming(c) = Insmod(c) /\ ~(pc[c] = "sent" /\ reply[c] = "err") =>
         disk[path[c]] = File(c)

\* An insmod that was given up still finds the file: no line for its path is
\* executed before it.
LateInv(c) ==
  pc[c] = "done" /\ step[c] = Insmod(c) =>
    \A i \in DOMAIN lines : lines[i].of = c =>
      /\ disk[path[c]] = File(c)
      /\ \A j \in 1 .. i - 1 : path[lines[j].of] # path[c]

FilesInv ==
  /\ \A c \in Calls \ (faulty \union met) : WorkInv(c) /\ LateInv(c)
  /\ LoadedIntact

\* The inductive invariant: who talks to the console, what is typed, and what
\* an undisturbed call has made of its files.
IInv == TypeOK /\ LockInv /\ LinesInv /\ FilesInv
-----------------------------------------------------------------------------
(* The chunks of a file                                                    *)

\* The chunks of a call are a file on the board, unless there are none.
LEMMA ChunksAreContents ==
  ASSUME NEW c \in Calls, NEW n \in 1 .. MaxChunks
  PROVE  /\ Chunks(c, n) \in Contents /\ Chunks(c, n) # NoFile
         /\ Len(Chunks(c, n)) = n
         /\ \A i \in 1 .. n : Chunks(c, n)[i] = <<c, i>>
<1>1. Chunks(c, n) = [i \in 1 .. n |-> <<c, i>>]
  BY DEF Chunks
<1>2. Chunks(c, n) \in Contents
  BY <1>1, PushAssumption DEF Contents, Parts
<1>3. NoFile \notin Contents
  BY PushAssumption DEF Contents, Parts
<1>4. Len(Chunks(c, n)) = n
  BY <1>1, <1>2, LenProperties, PushAssumption DEF Contents
<1> QED
  BY <1>1, <1>2, <1>3, <1>4

\* The next chunk makes the chunks one more.
LEMMA ChunksAppend ==
  ASSUME NEW c \in Calls, NEW n \in 0 .. MaxChunks - 1
  PROVE  Append(IF Chunks(c, n) = NoFile THEN <<>> ELSE Chunks(c, n), <<c, n + 1>>)
           = Chunks(c, n + 1)
<1> DEFINE part == IF Chunks(c, n) = NoFile THEN <<>> ELSE Chunks(c, n)
           S == Calls \X (1 .. MaxChunks)
<1> USE PushAssumption
<1>1. part \in Seq(S) /\ Len(part) = n /\ \A i \in 1 .. n : part[i] = <<c, i>>
  <2>1. CASE n = 0
    BY <2>1, EmptySeq DEF Chunks
  <2>2. CASE n # 0
    BY <2>2, ChunksAreContents DEF Contents, Parts
  <2> QED
    BY <2>1, <2>2
<1>2. <<c, n + 1>> \in S
  OBVIOUS
<1>3. /\ Append(part, <<c, n + 1>>) \in Seq(S)
      /\ Len(Append(part, <<c, n + 1>>)) = n + 1
      /\ \A i \in 1 .. n + 1 : Append(part, <<c, n + 1>>)[i] = <<c, i>>
  <2> HIDE DEF part, S
  <2> QED
    BY <1>1, <1>2, AppendFacts
<1>4. /\ Chunks(c, n + 1) \in Seq(S) /\ Len(Chunks(c, n + 1)) = n + 1
      /\ \A i \in 1 .. n + 1 : Chunks(c, n + 1)[i] = <<c, i>>
  BY ChunksAreContents DEF Contents, Parts
<1> QED
  BY <1>3, <1>4, SeqEqual

-----------------------------------------------------------------------------
(* Types                                                                   *)

\* What a call does next keeps its fields typed.
LEMMA ProceedTyped ==
  ASSUME TypeOK, NEW c \in Calls, Proceed(c)
  PROVE  /\ pc' \in [Calls -> {"new", "lock", "sent", "done"}]
         /\ step' \in [Calls -> 0 .. MaxChunks + 2]
         /\ \A d \in Calls : step'[d] <= IF tool[d] = "push" THEN Decode(d) ELSE Insmod(d)
         /\ answer' \in [Calls -> {"none", "ok", "failed"}]
         /\ waiters' \in Seq(Calls)
<1> USE PushAssumption
<1>1. ASSUME NEW s \in 0 .. MaxChunks + 2, Command(c, s),
             s <= IF tool[c] = "push" THEN Decode(c) ELSE Insmod(c)
      PROVE  /\ pc' \in [Calls -> {"new", "lock", "sent", "done"}]
             /\ step' \in [Calls -> 0 .. MaxChunks + 2]
             /\ \A d \in Calls : step'[d] <= IF tool[d] = "push" THEN Decode(d) ELSE Insmod(d)
             /\ answer' \in [Calls -> {"none", "ok", "failed"}]
             /\ waiters' \in Seq(Calls)
  BY <1>1 DEF TypeOK, Command, Goto
<1>2. ASSUME NEW a \in {"ok", "failed"}, End(c, a)
      PROVE  /\ pc' \in [Calls -> {"new", "lock", "sent", "done"}]
             /\ step' \in [Calls -> 0 .. MaxChunks + 2]
             /\ \A d \in Calls : step'[d] <= IF tool[d] = "push" THEN Decode(d) ELSE Insmod(d)
             /\ answer' \in [Calls -> {"none", "ok", "failed"}]
             /\ waiters' \in Seq(Calls)
  BY <1>2 DEF TypeOK, End, Goto
<1>3. CASE step[c] < Decode(c) /\ Command(c, step[c] + 1)
  <2>1. step[c] + 1 \in 0 .. MaxChunks + 2 /\ step[c] + 1 <= Decode(c)
        /\ Decode(c) <= Insmod(c)
    BY <1>3 DEF TypeOK, Decode, Insmod
  <2>2. step[c] + 1 <= IF tool[c] = "push" THEN Decode(c) ELSE Insmod(c)
    BY <2>1 DEF Decode, Insmod, TypeOK
  <2> QED
    BY <1>1, <1>3, <2>1, <2>2
<1>4. CASE step[c] = Decode(c) /\ tool[c] = "install" /\ Command(c, Insmod(c))
  <2>1. Insmod(c) \in 0 .. MaxChunks + 2
    BY DEF TypeOK, Insmod
  <2>2. Insmod(c) <= IF tool[c] = "push" THEN Decode(c) ELSE Insmod(c)
    BY <1>4, <2>1
  <2> QED
    BY <1>1, <1>4, <2>1, <2>2
<1> QED
  BY <1>2, <1>3, <1>4 DEF Proceed

\* What the board does keeps the files typed.
LEMMA EffectTyped ==
  ASSUME TypeOK, NEW l \in Lines, NEW s \in {"ok", "err"}, Effect(l, s)
  PROVE  /\ b64' \in [Paths -> Contents \union {NoFile}]
         /\ disk' \in [Paths -> Contents \union {NoFile}]
         /\ loaded' \in [Calls -> Contents \union {NoFile}]
<1> DEFINE c == l.of
           p == path[c]
           part == IF b64[p] = NoFile THEN <<>> ELSE b64[p]
<1>1. c \in Calls /\ p \in Paths /\ part \in Contents /\ <<>> \in Contents
  BY DEF Lines, TypeOK, Contents
<1>2. l.at \in 1 .. size[c] => Append(part, <<c, l.at>>) \in Contents
  BY <1>1, PushAssumption DEF TypeOK, Contents, Parts
<1>3. b64[p] # NoFile => b64[p] \in Contents
  BY <1>1 DEF TypeOK
<1>4. disk[p] # NoFile => disk[p] \in Contents
  BY <1>1 DEF TypeOK
<1> QED
  BY <1>1, <1>2, <1>3, <1>4 DEF Effect, TypeOK, boardVars

\* Every step keeps every field typed.
LEMMA TypeStep == TypeOK /\ [Next]_vars => TypeOK'
<1> SUFFICES ASSUME TypeOK, [Next]_vars PROVE TypeOK'
  OBVIOUS
<1> USE PushAssumption DEF askVars, boardVars
<1>1. CASE UNCHANGED vars
  BY <1>1 DEF TypeOK, vars, callVars, Decode, Insmod
<1>2. CASE Execute
  <2>1. /\ lines # <<>> /\ Head(lines) \in Lines /\ Tail(lines) \in Seq(Lines)
    BY <1>2, TailFacts DEF Execute, TypeOK
  <2>2. PICK s \in {"ok", "err"} :
          /\ Effect(Head(lines), s)
          /\ faulty' = IF s = "err" /\ Head(lines).at <= size[Head(lines).of]
                       THEN faulty \union {Head(lines).of} ELSE faulty
          /\ reply' = IF pc[Head(lines).of] = "sent"
                           /\ step[Head(lines).of] = Head(lines).at
                      THEN [reply EXCEPT ![Head(lines).of] = s] ELSE reply
    BY <1>2 DEF Execute
  <2>3. /\ b64' \in [Paths -> Contents \union {NoFile}]
        /\ disk' \in [Paths -> Contents \union {NoFile}]
        /\ loaded' \in [Calls -> Contents \union {NoFile}]
    BY <2>1, <2>2, EffectTyped
  <2>4. Head(lines).of \in Calls
    BY <2>1 DEF Lines
  <2>5. faulty' \subseteq Calls /\ reply' \in [Calls -> {"none", "ok", "err"}]
    BY <2>2, <2>4 DEF TypeOK
  <2>6. UNCHANGED <<tool, path, size, pc, step, answer, lock, waiters, met>>
        /\ lines' = Tail(lines)
    BY <1>2 DEF Execute
  <2> QED
    BY <2>1, <2>3, <2>5, <2>6 DEF TypeOK, Decode, Insmod
<1>3. ASSUME NEW c \in Calls, Invoke(c) PROVE TypeOK'
  BY <1>3 DEF TypeOK, Invoke, Command, Goto, Decode, Insmod
<1>4. ASSUME NEW c \in Calls, Grant(c) PROVE TypeOK'
  <2>1. Line(c) \in Lines
    BY DEF TypeOK, Line, Lines
  <2>2. waiters' \in Seq(Calls) /\ lines' \in Seq(Lines)
    BY <1>4, <2>1, TailFacts, AppendFacts DEF TypeOK, Grant
  <2> QED
    BY <1>4, <2>2 DEF TypeOK, Grant, Goto, Decode, Insmod
<1>5. ASSUME NEW c \in Calls, Return(c) PROVE TypeOK'
  <2>1. UNCHANGED <<tool, path, size, reply, lines, b64, disk, loaded, faulty, met>>
        /\ lock' = NoCall /\ Proceed(c)
    BY <1>5 DEF Return
  <2> QED
    BY <2>1, ProceedTyped DEF TypeOK, Decode, Insmod
<1>6. ASSUME NEW c \in Calls, GiveUp(c) PROVE TypeOK'
  BY <1>6 DEF TypeOK, GiveUp, End, Goto, Decode, Insmod
<1> QED
  BY <1>1, <1>2, <1>3, <1>4, <1>5, <1>6 DEF Next, Run

-----------------------------------------------------------------------------
(* The lock and its queue                                                  *)

\* The queue after a call was appended that was not in it, and after the call
\* at its head has left.
LEMMA QueueAppend ==
  ASSUME TypeOK, LockInv, NEW c \in Calls, pc[c] # "lock"
  PROVE  LET w == Append(waiters, c) IN
         /\ \A i \in DOMAIN w : w[i] = c \/ (w[i] \in Calls \ {c} /\ pc[w[i]] = "lock")
         /\ \A i, j \in DOMAIN w : w[i] = w[j] => i = j
<1>1. /\ DOMAIN waiters = 1 .. Len(waiters) /\ Len(waiters) \in Nat
      /\ DOMAIN Append(waiters, c) = 1 .. Len(waiters) + 1
      /\ \A i \in 1 .. Len(waiters) : Append(waiters, c)[i] = waiters[i]
      /\ Append(waiters, c)[Len(waiters) + 1] = c
  BY AppendFacts DEF TypeOK
<1>2. \A i \in 1 .. Len(waiters) :
        /\ waiters[i] \in Calls /\ pc[waiters[i]] = "lock" /\ waiters[i] # c
  BY <1>1, ElementOfSeq DEF TypeOK, LockInv
<1> QED
  BY <1>1, <1>2 DEF LockInv

LEMMA Queued ==
  ASSUME TypeOK, LockInv, NEW c \in Calls, pc[c] # "lock",
         pc' = [pc EXCEPT ![c] = "lock"], waiters' = Append(waiters, c),
         \A d \in Calls : pc'[d] = "sent" <=> lock' = d
  PROVE  LockInv'
<1> DEFINE w == Append(waiters, c)
<1>1. /\ \A i \in DOMAIN w : w[i] = c \/ (w[i] \in Calls \ {c} /\ pc[w[i]] = "lock")
      /\ \A i, j \in DOMAIN w : w[i] = w[j] => i = j
  BY QueueAppend
<1>2. pc'[c] = "lock" /\ \A d \in Calls \ {c} : pc'[d] = pc[d]
  BY DEF TypeOK
<1>3. \A i \in DOMAIN w : pc'[w[i]] = "lock"
  BY <1>1, <1>2
<1> QED
  BY <1>1, <1>3 DEF LockInv

LEMMA QueueTail ==
  ASSUME TypeOK, LockInv, waiters # <<>>
  PROVE  /\ Head(waiters) \in Calls /\ pc[Head(waiters)] = "lock"
         /\ \A i \in DOMAIN Tail(waiters) :
              /\ Tail(waiters)[i] \in Calls \ {Head(waiters)}
              /\ pc[Tail(waiters)[i]] = "lock"
         /\ \A i, j \in DOMAIN Tail(waiters) :
              Tail(waiters)[i] = Tail(waiters)[j] => i = j
<1>1. /\ Len(waiters) \in Nat \ {0} /\ DOMAIN waiters = 1 .. Len(waiters)
      /\ Head(waiters) = waiters[1]
      /\ DOMAIN Tail(waiters) = 1 .. Len(waiters) - 1
      /\ \A i \in 1 .. Len(waiters) - 1 : Tail(waiters)[i] = waiters[i + 1]
  BY TailFacts DEF TypeOK
<1>2. \A i \in 1 .. Len(waiters) : waiters[i] \in Calls /\ pc[waiters[i]] = "lock"
  BY <1>1, ElementOfSeq DEF TypeOK, LockInv
<1>3. \A i, j \in 1 .. Len(waiters) : waiters[i] = waiters[j] => i = j
  BY <1>1 DEF LockInv
<1> QED
  BY <1>1, <1>2, <1>3

\* The lock is taken and released together with the place of its owner.
LEMMA LockStep == TypeOK /\ LockInv /\ [Next]_vars => LockInv'
<1> SUFFICES ASSUME TypeOK, LockInv, [Next]_vars PROVE LockInv'
  OBVIOUS
<1> USE PushAssumption
<1>0. NoCall \notin Calls /\ \A c \in Calls : pc[c] = "sent" <=> lock = c
  BY DEF LockInv
<1>1. CASE UNCHANGED vars
  BY <1>1 DEF vars, callVars, LockInv
<1>2. CASE Execute
  BY <1>2 DEF Execute, LockInv
<1>3. ASSUME NEW c \in Calls, Invoke(c) PROVE LockInv'
  <2>1. /\ pc[c] = "new" /\ pc' = [pc EXCEPT ![c] = "lock"]
        /\ waiters' = Append(waiters, c) /\ lock' = lock
    BY <1>3 DEF Invoke, Command, Goto
  <2> QED
    BY <2>1, <1>0, Queued DEF TypeOK
<1>4. ASSUME NEW c \in Calls, Grant(c) PROVE LockInv'
  <2>1. /\ lock = NoCall /\ waiters # <<>> /\ Head(waiters) = c
        /\ lock' = c /\ waiters' = Tail(waiters)
        /\ pc' = [pc EXCEPT ![c] = "sent"]
    BY <1>4 DEF Grant, Goto
  <2>2. /\ c \in Calls
        /\ \A i \in DOMAIN waiters' : waiters'[i] \in Calls \ {c} /\ pc[waiters'[i]] = "lock"
        /\ \A i, j \in DOMAIN waiters' : waiters'[i] = waiters'[j] => i = j
    BY <2>1, QueueTail
  <2>3. pc'[c] = "sent" /\ \A d \in Calls \ {c} : pc'[d] = pc[d]
    BY <2>1 DEF TypeOK
  <2>4. \A d \in Calls : pc'[d] = "sent" <=> lock' = d
    BY <1>0, <2>1, <2>3
  <2>5. \A i \in DOMAIN waiters' : pc'[waiters'[i]] = "lock"
    BY <2>2, <2>3
  <2> QED
    BY <2>2, <2>4, <2>5 DEF LockInv
<1>5. ASSUME NEW c \in Calls, lock' = NoCall, pc[c] = "sent",
             pc' = [pc EXCEPT ![c] = "done"], waiters' = waiters
      PROVE  LockInv'
  BY <1>5, <1>0 DEF LockInv, TypeOK
<1>6. ASSUME NEW c \in Calls, Return(c) PROVE LockInv'
  <2>1. pc[c] = "sent" /\ lock' = NoCall
    BY <1>6 DEF Return
  <2>2. ASSUME NEW s, Command(c, s) PROVE LockInv'
    <3>1. pc' = [pc EXCEPT ![c] = "lock"] /\ waiters' = Append(waiters, c)
      BY <2>2 DEF Command, Goto
    <3> QED
      BY <2>1, <3>1, <1>0, Queued DEF TypeOK
  <2>3. ASSUME NEW a, End(c, a) PROVE LockInv'
    BY <2>1, <2>3, <1>5 DEF End, Goto
  <2> QED
    BY <1>6, <2>2, <2>3 DEF Return, Proceed
<1>7. ASSUME NEW c \in Calls, GiveUp(c) PROVE LockInv'
  BY <1>5, <1>7 DEF GiveUp, End, Goto
<1> QED
  BY <1>1, <1>2, <1>3, <1>4, <1>6, <1>7 DEF Next, Run

-----------------------------------------------------------------------------
(* The lines                                                               *)

\* What executing the first line leaves typed.
LEMMA LinesTail ==
  ASSUME TypeOK, LinesInv, lines # <<>>, lines' = Tail(lines)
  PROVE  /\ Len(lines) \in Nat \ {0} /\ DOMAIN lines = 1 .. Len(lines)
         /\ Head(lines) = lines[1]
         /\ Head(lines) \in Lines /\ Head(lines).of \in Calls
         /\ Len(lines') = Len(lines) - 1 /\ DOMAIN lines' = 1 .. Len(lines) - 1
         /\ \A i \in 1 .. Len(lines) - 1 : lines'[i] = lines[i + 1]
         /\ \A i \in DOMAIN lines' : lines'[i].of # Head(lines).of
         /\ \A d \in Calls : Pending(d)' => Pending(d)
<1>1. /\ Len(lines) \in Nat \ {0} /\ DOMAIN lines = 1 .. Len(lines)
      /\ Head(lines) = lines[1]
      /\ Head(lines) \in Lines
      /\ Len(lines') = Len(lines) - 1 /\ DOMAIN lines' = 1 .. Len(lines) - 1
      /\ \A i \in 1 .. Len(lines) - 1 : lines'[i] = lines[i + 1]
  BY TailFacts DEF TypeOK
<1>2. \A i, j \in 1 .. Len(lines) : lines[i].of = lines[j].of => i = j
  BY <1>1 DEF LinesInv
<1>3. \A i \in DOMAIN lines' : lines'[i].of # Head(lines).of
  BY <1>1, <1>2
<1>4. Head(lines).of \in Calls
  BY <1>1 DEF Lines
<1>5. \A d \in Calls : Pending(d)' => Pending(d)
  BY <1>1 DEF Pending
<1> QED
  BY <1>1, <1>3, <1>4, <1>5

LEMMA LineOfCall ==
  ASSUME TypeOK
  PROVE  \A i \in 1 .. Len(lines) : lines[i] \in Lines /\ lines[i].of \in Calls
<1>1. \A i \in 1 .. Len(lines) : lines[i] \in Lines
  BY ElementOfSeq DEF TypeOK
<1> QED
  BY <1>1 DEF Lines

\* While the board is at the line of a call that waits for it, there is no
\* other line.
LEMMA WaitedLine ==
  ASSUME TypeOK, LinesInv, lines # <<>>
  PROVE  LET c == Head(lines).of IN
         /\ Head(lines).at = step[c] /\ reply[c] = "none"
         /\ pc[c] = "done" \/ (pc[c] = "sent" /\ Len(lines) = 1)
<1>1. Len(lines) \in Nat \ {0} /\ DOMAIN lines = 1 .. Len(lines) /\ Head(lines) = lines[1]
  BY TailFacts DEF TypeOK
<1>2. Head(lines).of \in Calls
  BY <1>1, LineOfCall
<1> QED
  BY <1>1, <1>2 DEF LinesInv, LineInv, Line

\* What typing the line of c makes of the lines.
LEMMA LinesAppend ==
  ASSUME TypeOK, LinesInv, NEW c \in Calls, lines' = Append(lines, Line(c))
  PROVE  /\ Len(lines) \in Nat /\ DOMAIN lines = 1 .. Len(lines)
         /\ Len(lines') = Len(lines) + 1 /\ DOMAIN lines' = 1 .. Len(lines) + 1
         /\ \A i \in 1 .. Len(lines) : lines'[i] = lines[i]
         /\ lines'[Len(lines) + 1] = Line(c)
         /\ Line(c).of = c
         /\ \A d \in Calls \ {c} : Pending(d)' => Pending(d)
<1>1. Line(c) \in Lines /\ Line(c).of = c
  BY PushAssumption DEF TypeOK, Line, Lines
<1>2. /\ Len(lines) \in Nat /\ DOMAIN lines = 1 .. Len(lines)
      /\ Len(lines') = Len(lines) + 1 /\ DOMAIN lines' = 1 .. Len(lines) + 1
      /\ \A i \in 1 .. Len(lines) : lines'[i] = lines[i]
      /\ lines'[Len(lines) + 1] = Line(c)
  BY <1>1, AppendFacts DEF TypeOK
<1>3. \A d \in Calls \ {c} : Pending(d)' => Pending(d)
  BY <1>1, <1>2 DEF Pending
<1> QED
  BY <1>1, <1>2, <1>3

\* A call that is not waiting for a status, or that has it, has no line, unless
\* it has given up.
LEMMA NoLine ==
  ASSUME TypeOK, LinesInv, NEW c \in Calls, Pending(c)
  PROVE  reply[c] = "none" /\ pc[c] \in {"sent", "done"}
BY DEF LinesInv, LineInv, Pending

\* A step that types and executes nothing keeps the lines as they should be,
\* if it leaves alone the calls that have one, or makes them give up.
LEMMA LinesKept ==
  ASSUME TypeOK, LinesInv, lines' = lines, reply' = reply, NEW c \in Calls,
         \A d \in Calls \ {c} : pc'[d] = pc[d] /\ step'[d] = step[d],
         ~Pending(c) \/ (pc'[c] = "done" /\ step'[c] = step[c]),
         pc'[c] # "sent"
  PROVE  LinesInv'
<1>1. DOMAIN lines = 1 .. Len(lines)
      /\ \A i \in 1 .. Len(lines) : lines[i] \in Lines /\ lines[i].of \in Calls
  BY LenProperties, LineOfCall DEF TypeOK
<1>2. ASSUME NEW i \in DOMAIN lines, NEW d \in Calls, LineInv(i, d)
      PROVE  LineInv(i, d)'
  <2>1. CASE d = c
    BY <1>1, <1>2, <2>1 DEF LineInv, Line, Pending
  <2>2. CASE d # c
    BY <1>1, <1>2, <2>2 DEF LineInv, Line
  <2> QED
    BY <2>1, <2>2
<1>3. OneConversation'
  BY DEF LinesInv, OneConversation, Line
<1>4. \A i, j \in DOMAIN lines : lines[i].of = lines[j].of => i = j
  BY DEF LinesInv
<1> QED
  BY <1>2, <1>3, <1>4 DEF LinesInv

LEMMA LinesStep == TypeOK /\ LockInv /\ LinesInv /\ [Next]_vars => LinesInv'
<1> SUFFICES ASSUME TypeOK, LockInv, LinesInv, [Next]_vars PROVE LinesInv'
  OBVIOUS
<1>1. CASE UNCHANGED vars
  BY <1>1 DEF vars, callVars, LinesInv, LineInv, OneConversation, Line
<1>2. CASE Execute
  <2> DEFINE c == Head(lines).of
  <2>1. lines # <<>> /\ lines' = Tail(lines)
        /\ UNCHANGED <<pc, step>>
    BY <1>2 DEF Execute
  <2>2. PICK s \in {"ok", "err"} :
          reply' = IF pc[c] = "sent" THEN [reply EXCEPT ![c] = s] ELSE reply
    BY <1>2, <2>1, WaitedLine DEF Execute
  <2>3. \A d \in Calls \ {c} : reply'[d] = reply[d]
    BY <2>2 DEF TypeOK
  <2>4. \A i \in DOMAIN lines' : i + 1 \in DOMAIN lines /\ lines'[i] = lines[i + 1]
                                  /\ lines'[i].of \in Calls \ {c}
    <3>1. \A i \in 1 .. Len(lines) : lines[i].of \in Calls
      BY LineOfCall
    <3> QED
      BY <2>1, <3>1, LinesTail
  <2>5. ASSUME NEW i \in DOMAIN lines', NEW d \in Calls PROVE LineInv(i, d)'
    <3> SUFFICES ASSUME lines'[i].of = d
                 PROVE  /\ lines'[i] = [of |-> d, at |-> step[d]] /\ reply'[d] = "none"
                        /\ (pc[d] = "sent" /\ i = Len(lines')) \/ pc[d] = "done"
      BY <2>1 DEF LineInv, Line
    <3>1. /\ lines[i + 1] = [of |-> d, at |-> step[d]] /\ reply[d] = "none"
          /\ (pc[d] = "sent" /\ i + 1 = Len(lines)) \/ pc[d] = "done"
      BY <2>4 DEF LinesInv, LineInv, Line
    <3> QED
      BY <2>1, <2>3, <2>4, <3>1, LinesTail
  <2>6. \A i, j \in DOMAIN lines' : lines'[i].of = lines'[j].of => i = j
    <3>1. \A i, j \in DOMAIN lines : lines[i].of = lines[j].of => i = j
      BY DEF LinesInv
    <3> QED
      BY <2>1, <2>4, <3>1, LinesTail
  <2>7. OneConversation'
    <3> SUFFICES ASSUME NEW d \in Calls, pc[d] = "sent", reply'[d] = "none"
                 PROVE  lines' # <<>> /\ lines'[Len(lines')] = Line(d)
      BY <2>1 DEF OneConversation, Line
    <3>1. d # c /\ reply[d] = "none"
      <4>1. CASE d = c
        BY <2>2, <4>1 DEF TypeOK
      <4>2. CASE d # c
        BY <2>3, <4>2
      <4> QED
        BY <4>1, <4>2
    <3>2. lines[Len(lines)] = Line(d) /\ Line(d).of = d
      BY <3>1 DEF LinesInv, OneConversation, Line
    <3>3. Len(lines) # 1
      BY <2>1, <3>1, <3>2, LinesTail
    <3>4. Len(lines) - 1 \in DOMAIN lines' /\ Len(lines') = Len(lines) - 1
          /\ lines'[Len(lines) - 1] = lines[Len(lines)]
      BY <2>1, <3>3, LinesTail
    <3>5. DOMAIN <<>> = {}
      OBVIOUS
    <3> QED
      BY <3>2, <3>4, <3>5
  <2> QED
    BY <2>5, <2>6, <2>7 DEF LinesInv
<1>3. ASSUME NEW c \in Calls, Invoke(c) PROVE LinesInv'
  <2>1. /\ pc[c] = "new" /\ pc' = [pc EXCEPT ![c] = "lock"]
        /\ step' = [step EXCEPT ![c] = 0] /\ UNCHANGED <<lines, reply>>
    BY <1>3 DEF Invoke, Command, Goto
  <2>2. ~Pending(c)
    BY <2>1, NoLine
  <2> QED
    BY <2>1, <2>2, LinesKept DEF TypeOK
<1>4. ASSUME NEW c \in Calls, Grant(c) PROVE LinesInv'
  <2>1. /\ lines' = Append(lines, Line(c))
        /\ reply' = [reply EXCEPT ![c] = "none"] /\ pc' = [pc EXCEPT ![c] = "sent"]
        /\ step' = step /\ pc[c] = "lock" /\ lock = NoCall
    BY <1>4, QueueTail DEF Grant, Goto
  <2>2. /\ reply'[c] = "none" /\ pc'[c] = "sent"
        /\ \A d \in Calls \ {c} : reply'[d] = reply[d] /\ pc'[d] = pc[d]
        /\ \A d \in Calls : Line(d)' = Line(d)
    BY <2>1 DEF TypeOK, Line
  <2>3. \A d \in Calls : pc[d] # "sent"
    BY <2>1, PushAssumption DEF LockInv
  <2>4. \A i \in 1 .. Len(lines) : lines[i].of \in Calls \ {c}
    <3>1. \A i \in 1 .. Len(lines) : lines[i].of \in Calls
      BY LineOfCall
    <3>2. \A i \in 1 .. Len(lines) : lines[i].of # c
      BY <2>1, NoLine, LinesAppend DEF Pending
    <3> QED
      BY <3>1, <3>2
  <2>5. \A i \in 1 .. Len(lines), d \in Calls : lines[i].of = d =>
          lines[i] = Line(d) /\ reply[d] = "none" /\ pc[d] = "done"
    BY <2>1, <2>3, LinesAppend DEF LinesInv, LineInv
  <2>6. \A i, j \in 1 .. Len(lines) : lines[i].of = lines[j].of => i = j
    BY <2>1, LinesAppend DEF LinesInv
  <2>7. ASSUME NEW i \in 1 .. Len(lines) + 1, NEW d \in Calls PROVE LineInv(i, d)'
    <3>1. CASE i = Len(lines) + 1
      BY <2>1, <2>2, <3>1, LinesAppend DEF LineInv
    <3>2. CASE i \in 1 .. Len(lines)
      BY <2>1, <2>2, <2>4, <2>5, <3>2, LinesAppend DEF LineInv
    <3> QED
      BY <3>1, <3>2
  <2>8. \A i, j \in 1 .. Len(lines) + 1 : lines'[i].of = lines'[j].of => i = j
    BY <2>1, <2>4, <2>6, LinesAppend
  <2>9. OneConversation'
    <3>1. \A d \in Calls : pc'[d] = "sent" => d = c
      BY <2>2, <2>3
    <3>2. lines' # <<>>
      BY <2>1, LinesAppend
    <3> QED
      BY <2>1, <2>2, <3>1, <3>2, LinesAppend DEF OneConversation
  <2> QED
    BY <2>1, <2>7, <2>8, <2>9, LinesAppend DEF LinesInv
<1>5. ASSUME NEW c \in Calls, Return(c) PROVE LinesInv'
  <2>1. ~Pending(c)
    BY <1>5, NoLine DEF Return
  <2>2. /\ \A d \in Calls \ {c} : pc'[d] = pc[d] /\ step'[d] = step[d]
        /\ pc'[c] # "sent"
    BY <1>5 DEF Return, Proceed, Command, End, Goto, TypeOK
  <2> QED
    BY <1>5, <2>1, <2>2, LinesKept DEF Return
<1>6. ASSUME NEW c \in Calls, GiveUp(c) PROVE LinesInv'
  <2>1. /\ pc' = [pc EXCEPT ![c] = "done"] /\ step' = step
        /\ UNCHANGED <<lines, reply>>
    BY <1>6 DEF GiveUp, End, Goto
  <2> QED
    BY <2>1, LinesKept DEF TypeOK
<1> QED
  BY <1>1, <1>2, <1>3, <1>4, <1>5, <1>6 DEF Next, Run
-----------------------------------------------------------------------------
(* The files                                                               *)

\* What the board does with each command that succeeds.
LEMMA EffectCases ==
  ASSUME TypeOK, NEW c \in Calls, NEW l, l.of = c, NEW k \in Nat, l.at = k,
         NEW s \in {"ok", "err"}, Effect(l, s)
  PROVE  /\ k = 0 /\ s = "ok" => b64' = [b64 EXCEPT ![path[c]] = NoFile]
         /\ k \in 1 .. size[c] /\ s = "ok" =>
              b64' = [b64 EXCEPT ![path[c]] =
                        Append(IF b64[path[c]] = NoFile THEN <<>> ELSE b64[path[c]],
                               <<c, k>>)]
         /\ k = size[c] + 1 /\ s = "ok" =>
              /\ b64[path[c]] # NoFile
              /\ disk' = [disk EXCEPT ![path[c]] = b64[path[c]]]
         /\ k = size[c] + 2 /\ s = "ok" =>
              loaded' = [loaded EXCEPT ![c] = disk[path[c]]]
         /\ k # size[c] + 2 \/ s # "ok" => loaded' = loaded
<1>0. size[c] \in Nat
  BY PushAssumption DEF TypeOK
<1>1. s = "err" => loaded' = loaded
  BY DEF Effect, boardVars
<1>2. CASE k = 0 /\ s = "ok"
  BY <1>0, <1>2 DEF Effect, Decode, Insmod
<1>3. CASE k \in 1 .. size[c] /\ s = "ok"
  BY <1>0, <1>3 DEF Effect, Decode, Insmod
<1>4. CASE k = size[c] + 1 /\ s = "ok"
  BY <1>0, <1>4 DEF Effect, Decode, Insmod
<1>5. CASE k = size[c] + 2 /\ s = "ok"
  BY <1>0, <1>5 DEF Effect, Decode, Insmod
<1>6. CASE k > size[c] + 2 /\ s = "ok"
  BY <1>0, <1>6 DEF Effect, Decode, Insmod
<1> QED
  BY <1>0, <1>1, <1>2, <1>3, <1>4, <1>5, <1>6

\* The first line, executed, is that of a call that is at work: it was alone
\* on its path, the file is as the call will find it at its next command.
LEMMA OwnLine ==
  ASSUME TypeOK, LinesInv, Execute, NEW c \in Calls, lines # <<>>,
         Head(lines).of = c, Busy(c), WorkInv(c), c \notin faulty'
  PROVE  WorkInv(c)'
<1> DEFINE p == path[c]
<1> USE PushAssumption
<1>1. /\ pc[c] = "sent" /\ reply[c] = "none" /\ Head(lines).at = step[c]
      /\ Len(lines) = 1
  BY WaitedLine DEF Busy
<1>2. PICK s \in {"ok", "err"} :
        /\ Effect(Head(lines), s)
        /\ faulty' = IF s = "err" /\ step[c] <= size[c] THEN faulty \union {c} ELSE faulty
        /\ reply' = [reply EXCEPT ![c] = s]
  BY <1>1 DEF Execute
<1>3. /\ lines' = Tail(lines)
      /\ UNCHANGED <<tool, path, size, pc, step>>
  BY DEF Execute, askVars
<1>4. \A d \in Calls : ~Pending(d)'
  BY <1>1, <1>3, LinesTail DEF Pending
<1>5. /\ reply'[c] = s /\ Upcoming(c)' = step[c] + 1 /\ Upcoming(c) = step[c]
      /\ Decode(c)' = size[c] + 1 /\ Insmod(c)' = size[c] + 2 /\ File(c)' = File(c)
      /\ size[c] \in 0 .. MaxChunks /\ step[c] \in 0 .. MaxChunks + 2 /\ p \in Paths
  BY <1>1, <1>2, <1>3 DEF TypeOK, Upcoming, Decode, Insmod, File
<1>6. \A d \in Calls \ {c} : path[d] = p => ~Busy(d)'
  BY <1>3 DEF WorkInv, Busy
<1>7. s = "err" => step[c] > size[c]
  BY <1>2, <1>5
<1>8. step[c] + 1 \in 1 .. size[c] + 1 => b64'[p] = Chunks(c, step[c])
  <2>1. CASE step[c] = 0
    <3>1. b64' = [b64 EXCEPT ![p] = NoFile]
      BY <1>1, <1>2, <1>5, <1>7, <2>1, EffectCases
    <3> QED
      BY <1>5, <2>1, <3>1 DEF TypeOK, Chunks
  <2>2. CASE step[c] \in 1 .. size[c]
    <3>1. b64[p] = Chunks(c, step[c] - 1)
      BY <1>5, <2>2 DEF WorkInv, Decode
    <3>2. b64' = [b64 EXCEPT ![p] =
                    Append(IF b64[p] = NoFile THEN <<>> ELSE b64[p], <<c, step[c]>>)]
      BY <1>1, <1>2, <1>5, <1>7, <2>2, EffectCases
    <3>3. Append(IF b64[p] = NoFile THEN <<>> ELSE b64[p], <<c, step[c]>>)
            = Chunks(c, step[c])
      <4>1. step[c] - 1 \in 0 .. MaxChunks - 1 /\ (step[c] - 1) + 1 = step[c]
        BY <1>5, <2>2
      <4>2. Append(IF Chunks(c, step[c] - 1) = NoFile THEN <<>> ELSE Chunks(c, step[c] - 1),
                   <<c, (step[c] - 1) + 1>>) = Chunks(c, (step[c] - 1) + 1)
        BY <4>1, ChunksAppend
      <4> QED
        BY <3>1, <4>1, <4>2
    <3> QED
      BY <1>5, <3>2, <3>3 DEF TypeOK
  <2> QED
    BY <1>5, <2>1, <2>2
<1>9. step[c] + 1 = size[c] + 2 /\ s = "ok" => disk'[p] = File(c)
  <2> SUFFICES ASSUME step[c] = size[c] + 1, s = "ok" PROVE disk'[p] = File(c)
    BY <1>5
  <2>1. b64[p] = Chunks(c, size[c])
    BY <1>5 DEF WorkInv, Decode
  <2>2. b64[p] # NoFile /\ disk' = [disk EXCEPT ![p] = b64[p]]
    BY <1>1, <1>2, <1>5, EffectCases
  <2>3. Chunks(c, size[c]) = File(c)
    BY <2>1, <2>2 DEF Chunks, File
  <2> QED
    BY <1>5, <2>1, <2>2, <2>3 DEF TypeOK
<1>10. Upcoming(c)' \in 1 .. Decode(c)' => b64'[p] = Chunks(c, Upcoming(c)' - 1)
  BY <1>5, <1>8
<1>11. Upcoming(c)' = Insmod(c)' /\ ~(pc'[c] = "sent" /\ reply'[c] = "err") =>
         disk'[p] = File(c)'
  BY <1>1, <1>3, <1>5, <1>9
<1>12. path' = path
  BY <1>3
<1> QED
  BY <1>4, <1>6, <1>10, <1>11, <1>12 DEF WorkInv, Chunks

\* The first line, executed, does nothing to the files of another path.
LEMMA OtherLine ==
  ASSUME TypeOK, NEW l \in Lines, NEW s \in {"ok", "err"}, Effect(l, s),
         NEW p \in Paths, p # path[l.of]
  PROVE  b64'[p] = b64[p] /\ disk'[p] = disk[p]
<1>1. l.of \in Calls /\ path[l.of] \in Paths
  BY DEF Lines, TypeOK
<1> QED
  BY <1>1 DEF Effect, TypeOK, boardVars

\* Executing a line keeps the files as they should be.
LEMMA ExecuteFiles ==
  ASSUME TypeOK, LinesInv, FilesInv, Execute
  PROVE  FilesInv'
<1> DEFINE h == Head(lines)
           c == h.of
<1> USE PushAssumption
<1>1. /\ lines # <<>> /\ lines' = Tail(lines)
      /\ UNCHANGED <<tool, path, size, pc, step, met>>
  BY DEF Execute, askVars
<1>2. PICK s \in {"ok", "err"} :
        /\ Effect(h, s)
        /\ faulty' = IF s = "err" /\ h.at <= size[c] THEN faulty \union {c} ELSE faulty
        /\ reply' = IF pc[c] = "sent" /\ step[c] = h.at
                    THEN [reply EXCEPT ![c] = s] ELSE reply
  BY DEF Execute
<1>3. /\ h \in Lines /\ c \in Calls /\ path[c] \in Paths /\ h = lines[1]
      /\ h.at = step[c] /\ step[c] \in Nat
      /\ Len(lines) \in Nat \ {0} /\ DOMAIN lines = 1 .. Len(lines)
      /\ Pending(c)
  BY <1>1, LinesTail, WaitedLine DEF TypeOK, Pending
<1>4. \A d \in Calls \ {c} : reply'[d] = reply[d]
  BY <1>2 DEF TypeOK
<1>5. /\ \A d \in Calls : Busy(d)' = Busy(d) /\ (Pending(d)' => Pending(d))
      /\ \A d \in Calls : Decode(d)' = Decode(d) /\ Insmod(d)' = Insmod(d)
                           /\ File(d)' = File(d)
  BY <1>1, LinesTail DEF Busy, Decode, Insmod, File
<1>6. \A d \in Calls : path[d] # path[c] =>
        b64'[path[d]] = b64[path[d]] /\ disk'[path[d]] = disk[path[d]]
  BY <1>2, <1>3, OtherLine DEF TypeOK
<1>7. ASSUME NEW d \in Calls, d \notin faulty' \union met' PROVE WorkInv(d)'
  <2>1. d \notin faulty \union met /\ WorkInv(d)
    BY <1>1, <1>2, <1>7 DEF FilesInv
  <2>2. CASE d = c /\ Busy(c)
    BY <1>1, <1>7, <2>1, <2>2, OwnLine
  <2>3. CASE d = c /\ ~Busy(c)
    BY <1>5, <2>3 DEF WorkInv
  <2>4. CASE d # c
    <3> SUFFICES ASSUME Busy(d) PROVE WorkInv(d)'
      BY <1>5 DEF WorkInv
    <3>1. Upcoming(d)' = Upcoming(d) /\ reply'[d] = reply[d]
      BY <1>1, <1>4, <2>4 DEF Upcoming
    <3>2. path[d] = path[c] => Upcoming(d) = 0
      BY <1>3, <2>1, <2>4 DEF WorkInv
    <3>3. Upcoming(d)' \in 1 .. Decode(d)' =>
            b64'[path[d]] = Chunks(d, Upcoming(d)' - 1)
      BY <1>5, <1>6, <2>1, <3>1, <3>2 DEF WorkInv
    <3>4. Upcoming(d)' = Insmod(d)' /\ ~(pc'[d] = "sent" /\ reply'[d] = "err") =>
            disk'[path[d]] = File(d)'
      <4>1. Insmod(d) # 0
        BY DEF Insmod, TypeOK
      <4> QED
        BY <1>1, <1>5, <1>6, <2>1, <3>1, <3>2, <4>1 DEF WorkInv
    <3>5. \A e \in Calls \ {d} : path[e] = path[d] =>
            ~Busy(e)' /\ (Upcoming(d)' # 0 => ~Pending(e)')
      BY <1>5, <2>1, <3>1 DEF WorkInv
    <3>6. path' = path
      BY <1>1
    <3> QED
      BY <3>3, <3>4, <3>5, <3>6 DEF WorkInv, Chunks
  <2> QED
    BY <2>2, <2>3, <2>4
<1>8. ASSUME NEW d \in Calls, d \notin faulty' \union met' PROVE LateInv(d)'
  <2>1. d \notin faulty \union met /\ LateInv(d)
    BY <1>1, <1>2, <1>8 DEF FilesInv
  <2>2. ASSUME NEW i \in DOMAIN lines', pc[d] = "done", step[d] = Insmod(d),
               lines'[i].of = d
        PROVE  /\ disk'[path[d]] = File(d)
               /\ \A j \in 1 .. i - 1 : path[lines'[j].of] # path[d]
    <3>1. /\ i \in 1 .. Len(lines) - 1 /\ i + 1 \in DOMAIN lines
          /\ lines[i + 1].of = d
          /\ \A j \in 1 .. i - 1 : lines'[j] = lines[j + 1]
      BY <1>1, <1>3, <2>2, LinesTail
    <3>2. /\ disk[path[d]] = File(d)
          /\ \A j \in 1 .. i : path[lines[j].of] # path[d]
      BY <2>1, <2>2, <3>1 DEF LateInv
    <3>3. path[c] # path[d]
      BY <1>3, <3>1, <3>2
    <3>4. \A j \in 1 .. i - 1 : path[lines'[j].of] # path[d]
      BY <3>1, <3>2
    <3> QED
      BY <1>6, <3>2, <3>3, <3>4
  <2> QED
    BY <1>1, <1>5, <2>2 DEF LateInv
<1>9. LoadedIntact'
  <2> SUFFICES ASSUME NEW d \in Calls, d \notin faulty' \union met'
               PROVE  loaded'[d] \in {NoFile, File(d)}
    BY <1>5 DEF LoadedIntact
  <2>1. d \notin faulty \union met /\ loaded[d] \in {NoFile, File(d)}
    BY <1>1, <1>2 DEF FilesInv, LoadedIntact
  <2>2. CASE d = c /\ step[c] = size[c] + 2 /\ s = "ok"
    <3>1. loaded'[c] = disk[path[c]]
      BY <1>2, <1>3, <2>2, EffectCases DEF TypeOK
    <3>2. CASE pc[c] = "done"
      <4>1. LateInv(c)
        BY <2>1, <2>2 DEF FilesInv
      <4>2. disk[path[c]] = File(c)
        BY <1>3, <2>2, <3>2, <4>1 DEF LateInv, Insmod
      <4> QED
        BY <2>2, <3>1, <4>2
    <3>3. CASE pc[c] = "sent"
      <4>1. WorkInv(c) /\ reply[c] = "none"
        BY <1>1, <2>1, <2>2, WaitedLine DEF FilesInv
      <4>2. disk[path[c]] = File(c)
        BY <2>2, <3>3, <4>1 DEF WorkInv, Busy, Upcoming, Insmod
      <4> QED
        BY <2>2, <3>1, <4>2
    <3> QED
      BY <1>1, <3>2, <3>3, WaitedLine
  <2>3. CASE ~(step[c] = size[c] + 2 /\ s = "ok")
    BY <1>2, <1>3, <2>1, <2>3, EffectCases
  <2>4. CASE d # c
    <3>1. loaded' = loaded \/ loaded' = [loaded EXCEPT ![c] = disk[path[c]]]
      BY <1>2, <1>3, EffectCases
    <3>2. loaded'[d] = loaded[d]
      BY <2>4, <3>1 DEF TypeOK
    <3> QED
      BY <2>1, <3>2
  <2> QED
    BY <2>2, <2>3, <2>4
<1> QED
  BY <1>7, <1>8, <1>9 DEF FilesInv

\* A step of the host on behalf of c leaves what the other calls rely on,
\* unless c comes to be at work on their path.
LEMMA OthersKept ==
  ASSUME TypeOK, NEW c \in Calls, NEW d \in Calls \ {c}, WorkInv(d), LateInv(d),
         UNCHANGED <<tool, path, size, boardVars>>,
         pc'[d] = pc[d], step'[d] = step[d], reply'[d] = reply[d],
         \A e \in Calls \ {c} : Busy(e)' => Busy(e),
         \A e \in Calls \ {c} : Pending(e)' => Pending(e),
         Busy(d) /\ path[c] = path[d] =>
           (Busy(c)' => Busy(c)) /\ (Pending(c)' => Pending(c)),
         \A i \in DOMAIN lines' : lines'[i].of = d =>
           i \in DOMAIN lines /\ \A j \in 1 .. i : lines'[j] = lines[j]
  PROVE  WorkInv(d)' /\ LateInv(d)'
<1>1. /\ Busy(d)' = Busy(d) /\ Upcoming(d)' = Upcoming(d)
      /\ Decode(d)' = Decode(d) /\ Insmod(d)' = Insmod(d) /\ File(d)' = File(d)
      /\ path' = path /\ b64' = b64 /\ disk' = disk
  BY DEF Busy, Upcoming, Decode, Insmod, File, boardVars
<1>2. Busy(d) => \A e \in Calls \ {d} : path[e] = path[d] =>
        ~Busy(e)' /\ (Upcoming(d)' # 0 => ~Pending(e)')
  BY <1>1 DEF WorkInv
<1>3. WorkInv(d)'
  BY <1>1, <1>2 DEF WorkInv, Chunks
<1>4. ASSUME NEW i \in DOMAIN lines', lines'[i].of = d, pc[d] = "done",
             step[d] = Insmod(d)
      PROVE  /\ disk[path[d]] = File(d)
             /\ \A j \in 1 .. i - 1 : path[lines'[j].of] # path[d]
  <2>1. i \in DOMAIN lines /\ \A j \in 1 .. i : lines'[j] = lines[j]
    BY <1>4
  <2>2. DOMAIN lines = 1 .. Len(lines) /\ Len(lines) \in Nat
    BY LenProperties DEF TypeOK
  <2>3. lines[i].of = d
    BY <1>4, <2>1, <2>2
  <2>4. /\ disk[path[d]] = File(d)
        /\ \A j \in 1 .. i - 1 : path[lines[j].of] # path[d]
    BY <1>4, <2>1, <2>3 DEF LateInv
  <2> QED
    BY <2>1, <2>2, <2>4
<1>5. LateInv(d)'
  BY <1>1, <1>4 DEF LateInv
<1> QED
  BY <1>3, <1>5

\* The steps of the host do not touch what was loaded.
LEMMA LoadedKept ==
  ASSUME LoadedIntact, UNCHANGED <<size, loaded, faulty>>, met \subseteq met'
  PROVE  LoadedIntact'
BY DEF LoadedIntact, File

LEMMA InvokeFiles ==
  ASSUME TypeOK, LinesInv, FilesInv, NEW c \in Calls, Invoke(c)
  PROVE  FilesInv'
<1> USE PushAssumption
<1> DEFINE others == {d \in Calls : Busy(d) /\ path[d] = path[c]}
<1>1. /\ pc[c] = "new" /\ pc' = [pc EXCEPT ![c] = "lock"]
      /\ step' = [step EXCEPT ![c] = 0]
      /\ met' = met \union others \union (IF others = {} THEN {} ELSE {c})
      /\ UNCHANGED <<tool, path, size, reply, lines, boardVars, faulty>>
  BY DEF Invoke, Command, Goto, askVars
<1>2. /\ pc'[c] = "lock" /\ step'[c] = 0
      /\ \A d \in Calls \ {c} : pc'[d] = pc[d] /\ step'[d] = step[d]
  BY <1>1 DEF TypeOK
<1>3. /\ \A d \in Calls : Pending(d)' = Pending(d)
      /\ \A d \in Calls \ {c} : Busy(d)' = Busy(d)
  BY <1>1, <1>2 DEF Pending, Busy
<1>4. ASSUME NEW d \in Calls \ {c}, d \notin faulty' \union met'
      PROVE  WorkInv(d)' /\ LateInv(d)'
  <2>1. d \notin faulty \union met /\ ~(Busy(d) /\ path[d] = path[c])
    BY <1>1, <1>4
  <2>2. DOMAIN lines = 1 .. Len(lines) /\ Len(lines) \in Nat
    BY LenProperties DEF TypeOK
  <2> QED
    BY <1>1, <1>2, <1>3, <2>1, <2>2, OthersKept DEF FilesInv
<1>5. ASSUME c \notin met' PROVE WorkInv(c)' /\ LateInv(c)'
  <2>1. \A d \in Calls \ {c} : path[d] = path[c] => ~Busy(d)'
    BY <1>1, <1>3, <1>5
  <2>2. Upcoming(c)' = 0
    BY <1>2 DEF Upcoming
  <2>3. Insmod(c)' # 0 /\ path' = path
    BY <1>1 DEF Insmod, TypeOK
  <2>4. WorkInv(c)'
    BY <2>1, <2>2, <2>3 DEF WorkInv
  <2> QED
    BY <1>2, <2>4 DEF LateInv
<1>6. LoadedIntact'
  BY <1>1, LoadedKept DEF FilesInv, boardVars
<1> QED
  BY <1>4, <1>5, <1>6 DEF FilesInv

LEMMA GrantFiles ==
  ASSUME TypeOK, LockInv, LinesInv, FilesInv, NEW c \in Calls, Grant(c)
  PROVE  FilesInv'
<1> USE PushAssumption
<1>1. /\ lines' = Append(lines, Line(c))
      /\ reply' = [reply EXCEPT ![c] = "none"] /\ pc' = [pc EXCEPT ![c] = "sent"]
      /\ pc[c] = "lock"
      /\ UNCHANGED <<tool, path, size, step, boardVars, faulty, met>>
  BY QueueTail DEF Grant, Goto, askVars
<1>2. /\ pc'[c] = "sent" /\ reply'[c] = "none"
      /\ \A d \in Calls \ {c} : pc'[d] = pc[d] /\ reply'[d] = reply[d]
      /\ step' = step
  BY <1>1 DEF TypeOK
<1>3. /\ \A d \in Calls : Busy(d)' = Busy(d)
      /\ \A d \in Calls \ {c} : Pending(d)' => Pending(d)
  BY <1>1, <1>2, LinesAppend DEF Busy
<1>4. Busy(c)
  BY <1>1 DEF Busy
<1>5. ASSUME NEW d \in Calls \ {c}, d \notin faulty \union met
      PROVE  WorkInv(d)' /\ LateInv(d)'
  <2>1. WorkInv(d) /\ LateInv(d)
    BY <1>5 DEF FilesInv
  <2>2. ~(Busy(d) /\ path[c] = path[d])
    BY <1>4, <2>1 DEF WorkInv
  <2>3. \A i \in DOMAIN lines' : lines'[i].of = d =>
          i \in DOMAIN lines /\ \A j \in 1 .. i : lines'[j] = lines[j]
    BY <1>1, LinesAppend
  <2> QED
    BY <1>1, <1>2, <1>3, <2>1, <2>2, <2>3, OthersKept
<1>6. ASSUME c \notin faulty \union met PROVE WorkInv(c)' /\ LateInv(c)'
  <2>1. WorkInv(c)
    BY <1>6 DEF FilesInv
  <2>2. /\ Upcoming(c)' = Upcoming(c) /\ Upcoming(c) = step[c]
        /\ Decode(c)' = Decode(c) /\ Insmod(c)' = Insmod(c) /\ File(c)' = File(c)
        /\ path' = path /\ b64' = b64 /\ disk' = disk
    BY <1>1, <1>2 DEF Upcoming, Decode, Insmod, File, boardVars
  <2>3. WorkInv(c)'
    BY <1>1, <1>3, <1>4, <2>1, <2>2 DEF WorkInv, Chunks
  <2> QED
    BY <1>2, <2>3 DEF LateInv
<1>7. LoadedIntact'
  BY <1>1, LoadedKept DEF FilesInv, boardVars
<1> QED
  BY <1>1, <1>5, <1>6, <1>7 DEF FilesInv

LEMMA ReturnFiles ==
  ASSUME TypeOK, LinesInv, FilesInv, NEW c \in Calls, Return(c)
  PROVE  FilesInv'
<1> USE PushAssumption
<1>1. /\ pc[c] = "sent" /\ reply[c] # "none"
      /\ UNCHANGED <<tool, path, size, reply, lines, boardVars, faulty, met>>
  BY DEF Return, askVars
<1>2. /\ \A d \in Calls \ {c} : pc'[d] = pc[d] /\ step'[d] = step[d]
      /\ \/ pc'[c] = "done"
         \/ /\ pc'[c] = "lock" /\ step'[c] = step[c] + 1
            /\ step[c] + 1 = Insmod(c) => reply[c] = "ok"
  BY DEF Return, Proceed, Command, End, Goto, TypeOK, Decode, Insmod
<1>3. ~Pending(c) /\ Busy(c)
  BY <1>1, NoLine DEF Busy
<1>4. /\ \A d \in Calls : Pending(d)' = Pending(d)
      /\ \A d \in Calls \ {c} : Busy(d)' = Busy(d)
  BY <1>1, <1>2 DEF Pending, Busy
<1>5. ASSUME NEW d \in Calls \ {c}, d \notin faulty \union met
      PROVE  WorkInv(d)' /\ LateInv(d)'
  <2>1. DOMAIN lines = 1 .. Len(lines) /\ Len(lines) \in Nat
    BY LenProperties DEF TypeOK
  <2> QED
    BY <1>1, <1>2, <1>3, <1>4, <1>5, <2>1, OthersKept DEF FilesInv
<1>6. ASSUME c \notin faulty \union met PROVE WorkInv(c)' /\ LateInv(c)'
  <2>1. WorkInv(c)
    BY <1>6 DEF FilesInv
  <2>2. /\ Decode(c)' = Decode(c) /\ Insmod(c)' = Insmod(c) /\ File(c)' = File(c)
        /\ path' = path /\ b64' = b64 /\ disk' = disk /\ reply' = reply
    BY <1>1 DEF Decode, Insmod, File, boardVars
  <2>3. CASE pc'[c] = "done"
    <3>1. ~Busy(c)' /\ ~Pending(c)'
      BY <1>3, <1>4, <2>3 DEF Busy
    <3> QED
      BY <3>1 DEF WorkInv, LateInv, Pending
  <2>4. CASE /\ pc'[c] = "lock" /\ step'[c] = step[c] + 1
             /\ step[c] + 1 = Insmod(c) => reply[c] = "ok"
    <3>1. Upcoming(c)' = Upcoming(c) /\ Upcoming(c) = step[c] + 1
      BY <1>1, <2>4 DEF Upcoming
    <3>2. WorkInv(c)'
      BY <1>1, <1>3, <1>4, <2>1, <2>2, <2>4, <3>1 DEF WorkInv, Chunks
    <3> QED
      BY <2>4, <3>2 DEF LateInv
  <2> QED
    BY <1>2, <2>3, <2>4
<1>7. LoadedIntact'
  BY <1>1, LoadedKept DEF FilesInv, boardVars
<1> QED
  BY <1>1, <1>5, <1>6, <1>7 DEF FilesInv

LEMMA GiveUpFiles ==
  ASSUME TypeOK, LinesInv, FilesInv, NEW c \in Calls, GiveUp(c)
  PROVE  FilesInv'
<1> USE PushAssumption
<1>1. /\ pc[c] = "sent" /\ reply[c] = "none" /\ pc' = [pc EXCEPT ![c] = "done"]
      /\ UNCHANGED <<tool, path, size, step, reply, lines, boardVars, faulty, met>>
  BY DEF GiveUp, End, Goto, askVars
<1>2. pc'[c] = "done" /\ \A d \in Calls \ {c} : pc'[d] = pc[d]
  BY <1>1 DEF TypeOK
<1>3. /\ \A d \in Calls : Pending(d)' = Pending(d)
      /\ \A d \in Calls \ {c} : Busy(d)' = Busy(d)
      /\ Busy(c) /\ ~Busy(c)'
  BY <1>1, <1>2 DEF Pending, Busy
<1>4. DOMAIN lines = 1 .. Len(lines) /\ Len(lines) \in Nat
  BY LenProperties DEF TypeOK
<1>5. ASSUME NEW d \in Calls \ {c}, d \notin faulty \union met
      PROVE  WorkInv(d)' /\ LateInv(d)'
  BY <1>1, <1>2, <1>3, <1>4, <1>5, OthersKept DEF FilesInv
<1>6. ASSUME c \notin faulty \union met PROVE LateInv(c)'
  <2> SUFFICES ASSUME step[c] = Insmod(c), NEW i \in DOMAIN lines, lines[i].of = c
               PROVE  /\ disk[path[c]] = File(c)
                      /\ \A j \in 1 .. i - 1 : path[lines[j].of] # path[c]
    BY <1>1 DEF LateInv, Insmod, File, boardVars
  <2>1. WorkInv(c) /\ Upcoming(c) = Insmod(c) /\ Insmod(c) # 0
    BY <1>1, <1>6 DEF FilesInv, Upcoming, Insmod, TypeOK
  <2>2. disk[path[c]] = File(c)
    BY <1>1, <1>3, <2>1 DEF WorkInv
  <2>3. ASSUME NEW j \in 1 .. i - 1 PROVE path[lines[j].of] # path[c]
    <3>1. j \in DOMAIN lines /\ lines[j].of \in Calls /\ lines[j].of # c
      BY <1>4, LineOfCall DEF LinesInv
    <3>2. Pending(lines[j].of)
      BY <3>1 DEF Pending
    <3> QED
      BY <1>3, <2>1, <3>1, <3>2 DEF WorkInv
  <2> QED
    BY <2>2, <2>3
<1>7. WorkInv(c)'
  BY <1>3 DEF WorkInv
<1>8. LoadedIntact'
  BY <1>1, LoadedKept DEF FilesInv, boardVars
<1> QED
  BY <1>1, <1>5, <1>6, <1>7, <1>8 DEF FilesInv

-----------------------------------------------------------------------------
\* The invariant holds at first.
LEMMA InitInvariant == Init => IInv
<1> SUFFICES ASSUME Init PROVE IInv
  OBVIOUS
<1> USE PushAssumption
<1>1. TypeOK
  <2>1. waiters \in Seq(Calls) /\ lines \in Seq(Lines)
    BY DEF Init
  <2>2. \A c \in Calls :
          step[c] <= IF tool[c] = "push" THEN Decode(c) ELSE Insmod(c)
    <3> SUFFICES ASSUME NEW c \in Calls
                 PROVE  step[c] <= IF tool[c] = "push" THEN Decode(c) ELSE Insmod(c)
      OBVIOUS
    <3>1. step[c] = 0 /\ size[c] \in Nat
      BY DEF Init
    <3> QED
      BY <3>1 DEF Decode, Insmod
  <2>3. tool \in [Calls -> {"push", "install"}]
    BY DEF Init
  <2> QED
    BY <2>1, <2>2, <2>3 DEF Init, TypeOK
<1>2. LockInv /\ LinesInv
  BY DEF Init, LockInv, LinesInv, OneConversation
<1>3. \A c \in Calls : ~Busy(c) /\ pc[c] = "new"
  BY DEF Init, Busy
<1>4. FilesInv
  BY <1>3 DEF Init, FilesInv, WorkInv, LateInv, LoadedIntact
<1> QED
  BY <1>1, <1>2, <1>4 DEF IInv

\* Every step preserves it.
LEMMA NextInvariant == IInv /\ [Next]_vars => IInv'
<1> SUFFICES ASSUME IInv, [Next]_vars PROVE IInv'
  OBVIOUS
<1>1. TypeOK /\ LockInv /\ LinesInv /\ FilesInv
  BY DEF IInv
<1>2. TypeOK' /\ LockInv' /\ LinesInv'
  BY <1>1, TypeStep, LockStep, LinesStep
<1>3. ASSUME UNCHANGED vars PROVE FilesInv'
  BY <1>1, <1>3
  DEF vars, askVars, callVars, boardVars, FilesInv, WorkInv, LateInv, LoadedIntact,
      Busy, Pending, Upcoming, Decode, Insmod, File, Chunks
<1>4. ASSUME Execute PROVE FilesInv'
  BY <1>1, <1>4, ExecuteFiles
<1>5. ASSUME NEW c \in Calls, Invoke(c) \/ Run(c) PROVE FilesInv'
  BY <1>1, <1>5, InvokeFiles, GrantFiles, ReturnFiles, GiveUpFiles DEF Run
<1>6. FilesInv'
  BY <1>3, <1>4, <1>5 DEF Next
<1> QED
  BY <1>2, <1>6 DEF IInv

\* For any number of calls and paths, files of any length and any replies of
\* the board, the invariant holds.
THEOREM Invariance == Spec => []IInv
<1> QED
  BY InitInvariant, NextInvariant, PTL DEF Spec

\* Every variable keeps its type.
THEOREM TypeCorrect == Spec => []TypeOK
<1>1. IInv => TypeOK
  BY DEF IInv
<1> QED
  BY <1>1, Invariance, PTL

\* While the host waits for a command, no other call types into the console.
THEOREM ConsoleOfOne == Spec => []OneConversation
<1>1. IInv => OneConversation
  BY DEF IInv, LinesInv
<1> QED
  BY <1>1, Invariance, PTL

\* insmod loads the local file of a call that was alone on its path and whose
\* rm and chunks were executed.
THEOREM InsmodLoadsFile == Spec => []LoadedIntact
<1>1. IInv => LoadedIntact
  BY DEF IInv, FilesInv
<1> QED
  BY <1>1, Invariance, PTL

\* A push reports OK when the complete copy is on the board, if it was alone on
\* its path and its rm and chunks were executed.
THEOREM PushReportsCopy == Spec => PushedIntact
<1> DEFINE Copied == \A c \in Calls \ (faulty \union met) :
                       tool[c] = "push" /\ answer[c] # "ok" /\ answer'[c] = "ok"
                         => disk'[path[c]] = File(c)
<1>1. IInv /\ [Next]_vars => [Copied]_vars
  <2> SUFFICES ASSUME IInv, Next PROVE Copied
    OBVIOUS
  <2> SUFFICES ASSUME NEW c \in Calls, c \notin faulty \union met,
                      tool[c] = "push", answer[c] # "ok", answer'[c] = "ok"
               PROVE  disk'[path[c]] = File(c)
    OBVIOUS
  <2>1. TypeOK /\ WorkInv(c)
    BY DEF IInv, FilesInv
  <2>2. Return(c)
    <3>1. CASE Execute
      BY <3>1 DEF Execute
    <3>2. ASSUME NEW d \in Calls, Invoke(d) \/ Grant(d) PROVE FALSE
      BY <3>2 DEF Invoke, Command, Grant
    <3>3. ASSUME NEW d \in Calls, GiveUp(d) PROVE FALSE
      BY <2>1, <3>3 DEF GiveUp, End, TypeOK
    <3>4. ASSUME NEW d \in Calls, Return(d) PROVE d = c
      BY <2>1, <3>4 DEF Return, Proceed, Command, End, TypeOK
    <3> QED
      BY <3>1, <3>2, <3>3, <3>4 DEF Next, Run
  <2>3. /\ pc[c] = "sent" /\ step[c] = Decode(c) /\ reply[c] = "ok" /\ disk' = disk
    BY <2>1, <2>2 DEF Return, Proceed, Command, End, TypeOK, Decode, Insmod, boardVars
  <2>4. Upcoming(c) = Insmod(c)
    BY <2>1, <2>3, PushAssumption DEF Upcoming, Decode, Insmod, TypeOK
  <2> QED
    BY <2>1, <2>3, <2>4 DEF WorkInv, Busy
<1> QED
  BY <1>1, Invariance, PTL DEF Spec, PushedIntact
=============================================================================
