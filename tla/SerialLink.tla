----------------------------- MODULE SerialLink -----------------------------
(***************************************************************************)
(* How SerialTransport._run_sync tells the output of one command from the  *)
(* rest of what a console prints (transports/serial.py).  Every command is *)
(* followed by an `echo <marker>:$?` with a marker of its own; the host    *)
(* reads what has arrived, in chunks cut anywhere, until it believes that  *)
(* it has seen the marker, or until its deadline.  The board echoes each   *)
(* line when it arrives and executes the lines in order, however long that *)
(* takes: a command given up by the host still runs.                       *)
(* The lock of `run` admits one command at a time.                         *)
(***************************************************************************)
EXTENDS Naturals, Sequences, FiniteSets, FiniteSetsExt, SequencesExt

CONSTANTS
  Cmds,   \* commands, each run once
  NoCmd,  \* the host is between two commands
  Codes   \* exit statuses, as the digits that `$?` prints

ASSUME LinkAssumption ==
  /\ NoCmd \notin Cmds
  /\ Codes \subseteq Seq(0 .. 9) \ {<<>>}
  /\ \A code \in Codes : code[1] = 0 => code = <<0>>

VARIABLES
  cmd,      \* the command _run_sync is in
  buf,      \* its buf
  result,   \* result[c]: what run() returned for c
  expired,  \* history: the commands ended by their deadline
  wire,     \* printed by the board and not yet read by the host
  lines,    \* commands typed and not yet executed
  printed,  \* the first of them has printed its output
  status    \* status[c]: exit status of c on the board, <<>> before

hostVars == <<cmd, buf, result, expired>>
boardVars == <<lines, printed, status>>
vars == <<hostVars, wire, boardVars>>

\* What the console prints: the echo of a command line, with its marker but
\* no digits after it; a line of output; a marker line, as the marker and a
\* colon, the digits, and the end of the line.
Token(kind, c, d) == [kind |-> kind, of |-> c, digit |-> d]
Echo(c) == Token("echo", c, 0)
Output(c) == Token("output", c, 0)
Marker(c) == Token("marker", c, 0)
Digit(d) == Token("digit", NoCmd, d)
Eol == Token("eol", NoCmd, 0)
IsDigit(t) == t.kind = "digit"

NoResult == [kind |-> "none", out |-> {}, code |-> <<>>]
Error == [kind |-> "error", out |-> {}, code |-> <<>>]
Result(out, code) == [kind |-> "ok", out |-> out, code |-> code]

Tokens ==
  {Echo(c) : c \in Cmds} \union {Output(c) : c \in Cmds} \union {Marker(c) : c \in Cmds}
    \union {Digit(d) : d \in 0 .. 9} \union {Eol}
Results ==
  {NoResult, Error}
    \union [kind : {"ok"}, out : SUBSET Cmds, code : Seq(0 .. 9) \ {<<>>}]

TypeOK ==
  /\ cmd \in Cmds \union {NoCmd}
  /\ buf \in Seq(Tokens) /\ wire \in Seq(Tokens)
  /\ result \in [Cmds -> Results]
  /\ expired \subseteq Cmds
  /\ lines \in Seq(Cmds)
  /\ printed \in BOOLEAN /\ (printed => lines # <<>>)
  /\ status \in [Cmds -> Codes \union {<<>>}]

Init ==
  /\ cmd = NoCmd /\ buf = <<>> /\ expired = {}
  /\ result = [c \in Cmds |-> NoResult]
  /\ wire = <<>>
  /\ lines = <<>> /\ printed = FALSE
  /\ status = [c \in Cmds |-> <<>>]

-----------------------------------------------------------------------------
(* Reading the buffer                                                      *)

\* the digits of b that follow position i without a gap
DigitsAfter(b, i) ==
  LET run == {j \in i .. Len(b) : \A k \in i + 1 .. j : IsDigit(b[k])}
  IN  [k \in 1 .. Cardinality(run) - 1 |-> b[i + k].digit]

\* _MARKER_RE: the marker of any command, digits, and the end of a line or
\* of what has been read so far
MarkerSeen(b) ==
  \E i \in DOMAIN b :
    LET n == Len(DigitsAfter(b, i)) IN
    /\ b[i].kind = "marker"
    /\ n > 0
    /\ i + n < Len(b) => b[i + n + 1] = Eol

\* Mutant: the loop ends at the first sight of the command's own marker.
EndsOnEcho(b, c) == \E i \in DOMAIN b : b[i] \in {Echo(c), Marker(c)}

\* the test that ends the read loop
Complete(b, c) ==
  /\ \E i \in DOMAIN b : b[i] \in {Echo(c), Marker(c)}
  /\ MarkerSeen(b)

\* Mutant: the output ends at the first marker of any command.
SplitAny(b, c) ==
  LET ends == {i \in DOMAIN b : b[i].kind = "marker" /\ DigitsAfter(b, i) # <<>>}
      outputs == {i \in 1 .. Min(ends) - 1 : b[i].kind = "output"}
  IN  IF ends = {} THEN Error
      ELSE Result({b[i].of : i \in outputs}, DigitsAfter(b, Min(ends)))

\* Mutant: the pattern does not insist on digits after the marker.
SplitLenient(b, c) ==
  LET ends == {i \in DOMAIN b : b[i] \in {Echo(c), Marker(c)}}
      outputs == {i \in 1 .. Min(ends) - 1 : b[i].kind = "output"}
  IN  IF ends = {} THEN Error
      ELSE Result({b[i].of : i \in outputs}, DigitsAfter(b, Min(ends)))

\* _split_output: everything before the command's own marker with digits is
\* output, but for echoes and lines with a marker; without one it raises
SplitOutput(b, c) ==
  LET ends == {i \in DOMAIN b : b[i] = Marker(c) /\ DigitsAfter(b, i) # <<>>}
      outputs == {i \in 1 .. Min(ends) - 1 : b[i].kind = "output"}
  IN  IF ends = {} THEN Error
      ELSE Result({b[i].of : i \in outputs}, DigitsAfter(b, Min(ends)))

-----------------------------------------------------------------------------
(* The host                                                                *)

\* what has arrived is drained, and the wrapped command written
Send(c) ==
  /\ cmd = NoCmd
  /\ result[c] = NoResult
  /\ cmd' = c
  /\ buf' = <<>>
  /\ \E arrived \in 0 .. Len(wire) :
       wire' = Append(SubSeq(wire, arrived + 1, Len(wire)), Echo(c))
  /\ lines' = Append(lines, c)
  /\ UNCHANGED <<result, expired, printed, status>>

Finish(b) ==
  /\ result' = [result EXCEPT ![cmd] = SplitOutput(b, cmd)]
  /\ cmd' = NoCmd
  /\ buf' = <<>>

\* Mutant: only the last chunk is searched for the marker.
ReadChunk ==
  /\ cmd # NoCmd
  /\ \E arrived \in 1 .. Len(wire) :
       LET b == buf \o SubSeq(wire, 1, arrived)
           chunk == SubSeq(wire, 1, arrived)
       IN  /\ wire' = SubSeq(wire, arrived + 1, Len(wire))
           /\ \/ Complete(chunk, cmd) /\ Finish(b)
              \/ ~Complete(chunk, cmd) /\ buf' = b /\ UNCHANGED <<cmd, result>>
  /\ UNCHANGED <<expired, boardVars>>

\* one turn of the loop: all that has arrived is read
Read ==
  /\ cmd # NoCmd
  /\ \E arrived \in 1 .. Len(wire) :
       LET b == buf \o SubSeq(wire, 1, arrived) IN
       /\ wire' = SubSeq(wire, arrived + 1, Len(wire))
       /\ \/ Complete(b, cmd) /\ Finish(b)
          \/ ~Complete(b, cmd) /\ buf' = b /\ UNCHANGED <<cmd, result>>
  /\ UNCHANGED <<expired, boardVars>>

\* Mutant: a command whose time is up is typed again, once.
DeadlineRetries ==
  /\ cmd # NoCmd
  /\ cmd \notin expired
  /\ expired' = expired \union {cmd}
  /\ wire' = Append(wire, Echo(cmd))
  /\ lines' = Append(lines, cmd)
  /\ UNCHANGED <<cmd, buf, result, printed, status>>

\* time is up: _split_output is given what there is
Deadline ==
  /\ cmd # NoCmd
  /\ Finish(buf)
  /\ expired' = expired \union {cmd}
  /\ UNCHANGED <<wire, boardVars>>

-----------------------------------------------------------------------------
(* The board                                                               *)

PrintOutput ==
  /\ lines # <<>> /\ ~printed
  /\ wire' = Append(wire, Output(Head(lines)))
  /\ printed' = TRUE
  /\ UNCHANGED <<hostVars, lines, status>>

\* the command ends and its marker line is printed
Execute ==
  /\ printed
  /\ \E code \in Codes :
       /\ wire' = wire \o <<Marker(Head(lines))>>
                    \o [i \in 1 .. Len(code) |-> Digit(code[i])] \o <<Eol>>
       /\ status' = [status EXCEPT ![Head(lines)] = code]
  /\ lines' = Tail(lines)
  /\ printed' = FALSE
  /\ UNCHANGED hostVars

Next ==
  \/ \E c \in Cmds : Send(c)
  \/ Read \/ Deadline \/ PrintOutput \/ Execute

Spec == Init /\ [][Next]_vars

\* A console that delivers, a board that goes on executing: nothing is assumed
\* of the deadline.
FairSpec == Spec /\ WF_vars(Read) /\ WF_vars(PrintOutput) /\ WF_vars(Execute)

-----------------------------------------------------------------------------
Succeeded(c) == result[c].kind = "ok"

\* A result is never made up: the command has ended on the board, its own
\* output is in the result, and the exit status reported, which may be cut
\* short, is zero exactly if the command's was.
SuccessIsReal ==
  \A c \in Cmds : Succeeded(c) =>
    /\ status[c] # <<>>
    /\ c \in result[c].out
    /\ IsPrefix(result[c].code, status[c])
    /\ result[c].code = <<0>> <=> status[c] = <<0>>

\* The serial run() keeps the promise of the Transport interface: a command is
\* executed at most once, also if it was given up, and an exit status of zero
\* is that of the command.  (Interface(c)!Spec for every c, under one [].)
Interface(c) == INSTANCE Transport WITH
  answer   <- IF cmd = c THEN "asked"
              ELSE IF ~Succeeded(c) THEN IF result[c] = Error THEN "error" ELSE "new"
              ELSE IF result[c].code = <<0>> THEN "ok" ELSE "failed",
  executed <- IF status[c] = <<>> THEN "no"
              ELSE IF status[c] = <<0>> THEN "ok" ELSE "failed"
ImplementsTransport ==
  /\ \A c \in Cmds : Interface(c)!Init
  /\ [][\A c \in Cmds : Interface(c)!Next \/ UNCHANGED Interface(c)!vars]_vars

\* As long as every command before it was awaited to its end, the result of a
\* command has no output but its own.
OwnOutputUnlessExpired ==
  \A c \in Cmds : Succeeded(c) /\ expired = {} => result[c].out = {c}

\* As long as no deadline has passed, the read loop never ends on a buffer
\* that _split_output cannot use.
NoErrorUnlessExpired ==
  \A c \in Cmds : result[c] = Error => expired # {}

\* The loop does not need its deadline: wherever the chunks are cut and
\* whatever was given up before, it notices when a command has ended.
EveryCommandAnswered ==
  \A c \in Cmds : cmd = c ~> cmd # c
=============================================================================
