--------------------------- MODULE SerialLinkProofs ---------------------------
(***************************************************************************)
(* Proofs about SerialLink, for any number of commands and any exit        *)
(* statuses: what a result says is true, wherever the chunks are cut and   *)
(* whatever was given up, and every command is a behaviour of Transport.   *)
(***************************************************************************)
EXTENDS SerialLink, SequenceFacts

-----------------------------------------------------------------------------
(* The inductive invariant                                                 *)

\* what the console has printed since the command was sent, and what was left
\* unread at that time, as far as _run_sync gets to see it
Heard == buf \o wire

\* Behind every marker are the digits of the status and the end of the line.
Whole(s, st) ==
  \A i \in DOMAIN s, c \in Cmds : s[i] = Marker(c) =>
    /\ st[c] # <<>>
    /\ i + Len(st[c]) + 1 <= Len(s)
    /\ \A k \in 1 .. Len(st[c]) : s[i + k] = Digit(st[c][k])
    /\ s[i + Len(st[c]) + 1] = Eol

\* A marker of c is printed after its output.
Ordered(s, c) ==
  \A i \in DOMAIN s : s[i] = Marker(c) => \E j \in 1 .. i - 1 : s[j] = Output(c)

Has(s, t) == \E i \in DOMAIN s : s[i] = t

\* There is nothing of another command than c, but for digits and line ends.
Only(s, c) == \A i \in DOMAIN s : s[i].of \in {c, NoCmd}

\* Behind a marker are only digits and line ends.
Closed(s) ==
  \A i \in DOMAIN s : s[i].kind = "marker" =>
    \A j \in i + 1 .. Len(s) : s[j].of = NoCmd

\* What is typed has not been executed, and is awaited or was given up.
LinesInv ==
  /\ \A i \in DOMAIN lines : /\ status[lines[i]] = <<>>
                             /\ cmd = lines[i] \/ result[lines[i]] = Error
  /\ \A i, j \in DOMAIN lines : lines[i] = lines[j] => i = j

\* A command that was not sent has left no trace.
UnsentInv ==
  /\ \A c \in Cmds : result[c] = NoResult /\ cmd # c =>
       status[c] = <<>> /\ \A i \in DOMAIN wire : wire[i].of # c
  /\ cmd # NoCmd => result[cmd] = NoResult
  /\ cmd = NoCmd => buf = <<>>

\* What is printed, and of the command sent last.
PrintedInv ==
  /\ Whole(Heard, status)
  /\ cmd # NoCmd =>
       /\ Ordered(Heard, cmd)
       /\ printed /\ lines[1] = cmd => Has(Heard, Output(cmd))

\* As long as no deadline has passed, there is only one command at a time.
QuietInv ==
  expired = {} =>
    /\ cmd = NoCmd => lines = <<>> /\ Only(wire, NoCmd)
    /\ cmd # NoCmd => /\ \A i \in DOMAIN lines : lines[i] = cmd
                      /\ Only(Heard, cmd) /\ Closed(Heard)

\* The inductive invariant: what the console has printed is whole and in
\* order, and what was concluded from it is true.
IInv ==
  /\ TypeOK /\ LinesInv /\ UnsentInv /\ PrintedInv /\ QuietInv
  /\ SuccessIsReal /\ OwnOutputUnlessExpired /\ NoErrorUnlessExpired

-----------------------------------------------------------------------------
(* Tokens                                                                  *)

LEMMA TokenFacts ==
  ASSUME NEW t \in Tokens
  PROVE  /\ t.kind \in {"echo", "output", "marker"} => t.of \in Cmds
         /\ t.of \in Cmds => t.kind \in {"echo", "output", "marker"}
         /\ t.of \in Cmds \/ t.of = NoCmd
         /\ t.kind = "marker" => t = Marker(t.of)
         /\ t.kind = "output" => t = Output(t.of)
<1> DEFINE Good == /\ t.kind \in {"echo", "output", "marker"} => t.of \in Cmds
                   /\ t.of \in Cmds => t.kind \in {"echo", "output", "marker"}
                   /\ t.of \in Cmds \/ t.of = NoCmd
                   /\ t.kind = "marker" => t = Marker(t.of)
                   /\ t.kind = "output" => t = Output(t.of)
<1>1. NoCmd \notin Cmds
  BY LinkAssumption
<1>2. CASE t = Eol
  BY <1>1, <1>2 DEF Token, Eol
<1>3. ASSUME NEW d \in 0 .. 9, t = Digit(d) PROVE Good
  BY <1>1, <1>3 DEF Token, Digit
<1>4. ASSUME NEW c \in Cmds, t = Echo(c) PROVE Good
  BY <1>4 DEF Token, Echo
<1>5. ASSUME NEW c \in Cmds, t = Output(c) PROVE Good
  BY <1>5 DEF Token, Output
<1>6. ASSUME NEW c \in Cmds, t = Marker(c) PROVE Good
  BY <1>6 DEF Token, Marker
<1>7. \/ t = Eol
      \/ \E d \in 0 .. 9 : t = Digit(d)
      \/ \E c \in Cmds : t \in {Echo(c), Output(c), Marker(c)}
  BY DEF Tokens
<1> QED
  BY <1>2, <1>3, <1>4, <1>5, <1>6, <1>7

LEMMA TokensAre ==
  /\ \A c \in Cmds : {Echo(c), Output(c), Marker(c)} \subseteq Tokens
  /\ \A d \in 0 .. 9 : Digit(d) \in Tokens
  /\ Eol \in Tokens
<1>1. \A c \in Cmds : {Echo(c), Output(c), Marker(c)} \subseteq Tokens
  BY Zenon DEF Tokens
<1>2. \A d \in 0 .. 9 : Digit(d) \in Tokens
  BY Zenon DEF Tokens
<1>3. Eol \in Tokens
  BY Zenon DEF Tokens
<1> QED
  BY <1>1, <1>2, <1>3

LEMMA TokensDiffer ==
  ASSUME NEW c \in Cmds
  PROVE  /\ \A d \in Cmds : Marker(c) = Marker(d) => c = d
         /\ \A d \in Cmds : Output(c) = Output(d) => c = d
         /\ \A d \in Cmds : Marker(c) # Output(d) /\ Marker(c) # Echo(d)
         /\ \A d \in 0 .. 9 : Marker(c) # Digit(d) /\ Output(c) # Digit(d)
         /\ Marker(c) # Eol /\ Output(c) # Eol
         /\ Marker(c).kind = "marker" /\ Marker(c).of = c
         /\ Output(c).kind = "output" /\ Output(c).of = c
         /\ Echo(c).kind = "echo" /\ Echo(c).of = c
         /\ Eol.of = NoCmd /\ Eol.kind = "eol"
         /\ \A d \in 0 .. 9 : /\ Digit(d).of = NoCmd /\ Digit(d).kind = "digit"
                              /\ Digit(d).digit = d
BY DEF Token, Echo, Output, Marker, Digit, Eol

\* The digits behind position i are those of code that are there.
LEMMA DigitsFollow ==
  ASSUME NEW b \in Seq(Tokens), NEW i \in 1 .. Len(b), NEW code \in Seq(0 .. 9),
         NEW m \in 0 .. Len(code), i + m <= Len(b),
         \A k \in 1 .. m : b[i + k] = Digit(code[k]),
         i + m < Len(b) => b[i + m + 1] = Eol
  PROVE  DigitsAfter(b, i) = SubSeq(code, 1, m)
<1> DEFINE run == {j \in i .. Len(b) : \A k \in i + 1 .. j : IsDigit(b[k])}
<1>1. Len(b) \in Nat /\ Len(code) \in Nat
  BY LenProperties
<1>2. \A k \in i + 1 .. i + m : IsDigit(b[k])
  <2> SUFFICES ASSUME NEW k \in i + 1 .. i + m PROVE IsDigit(b[k])
    OBVIOUS
  <2>1. k - i \in 1 .. m /\ i + (k - i) = k
    BY <1>1
  <2>2. b[k] = Digit(code[k - i])
    BY <2>1
  <2> QED
    BY <2>2 DEF IsDigit, Digit, Token
<1>3. i + m < Len(b) => ~IsDigit(b[i + m + 1])
  BY DEF IsDigit, Eol, Token
<1>4. run = i .. i + m
  <2>1. ASSUME NEW j \in i .. i + m PROVE j \in run
    BY <1>1, <1>2, <2>1
  <2>2. ASSUME NEW j \in run PROVE j <= i + m
    BY <1>1, <1>3, <2>2
  <2> QED
    BY <1>1, <2>1, <2>2
<1>5. Cardinality(run) = m + 1
  <2>1. i \in Int /\ i + m \in Int
    BY <1>1
  <2>2. Cardinality(i .. i + m) = IF i > i + m THEN 0 ELSE (i + m) - i + 1
    BY <2>1, FS_Interval
  <2>3. Cardinality(i .. i + m) = m + 1
    BY <1>1, <2>2
  <2> QED
    BY <1>4, <2>3
<1>6. DigitsAfter(b, i) = [k \in 1 .. m |-> b[i + k].digit]
  <2>1. Cardinality(run) - 1 = m
    BY <1>5
  <2> QED
    BY <2>1 DEF DigitsAfter
<1>7. \A k \in 1 .. m : b[i + k].digit = code[k] /\ code[k] \in 0 .. 9
  <2>1. \A k \in 1 .. m : k \in 1 .. Len(code) /\ b[i + k] = Digit(code[k])
    BY <1>1
  <2>2. \A k \in 1 .. m : code[k] \in 0 .. 9
    BY <2>1, ElementOfSeq
  <2>3. \A d \in 0 .. 9 : Digit(d).digit = d
    BY DEF Digit, Token
  <2> QED
    BY <2>1, <2>2, <2>3
<1>8. DigitsAfter(b, i) = [k \in 1 .. m |-> code[k]]
  BY <1>6, <1>7
<1>9. DigitsAfter(b, i) \in Seq(0 .. 9) /\ Len(DigitsAfter(b, i)) = m
  BY <1>7, <1>8
<1>10. /\ SubSeq(code, 1, m) \in Seq(0 .. 9) /\ Len(SubSeq(code, 1, m)) = m
       /\ \A k \in 1 .. m : SubSeq(code, 1, m)[k] = code[k]
  BY PrefixFacts
<1> QED
  BY <1>8, <1>9, <1>10, SeqEqual

-----------------------------------------------------------------------------
(* What _split_output makes of what was heard                              *)

\* The digits behind a marker are a beginning of the status.
LEMMA DigitsTrue ==
  ASSUME NEW c \in Cmds, NEW b \in Seq(Tokens), NEW w \in Seq(Tokens),
         NEW st \in [Cmds -> Codes \union {<<>>}], Whole(b \o w, st),
         NEW i \in 1 .. Len(b), b[i] = Marker(c)
  PROVE  /\ st[c] \in Codes
         /\ \E m \in 0 .. Len(st[c]) :
              /\ DigitsAfter(b, i) = SubSeq(st[c], 1, m)
              /\ m = 0 => i = Len(b)
<1>1. /\ Len(b) \in Nat /\ Len(w) \in Nat /\ Len(b \o w) = Len(b) + Len(w)
      /\ DOMAIN (b \o w) = 1 .. Len(b) + Len(w)
      /\ \A j \in 1 .. Len(b) : (b \o w)[j] = b[j]
  BY ConcatFacts
<1>2. i \in DOMAIN (b \o w) /\ (b \o w)[i] = Marker(c)
  BY <1>1
<1>3. PICK code : code = st[c]
  OBVIOUS
<1>4. PICK n : n = Len(code)
  OBVIOUS
<1>5. /\ code # <<>>
      /\ i + n + 1 <= Len(b \o w)
      /\ \A k \in 1 .. n : (b \o w)[i + k] = Digit(code[k])
      /\ (b \o w)[i + n + 1] = Eol
  BY <1>2, <1>3, <1>4 DEF Whole
<1>6. code \in Codes /\ code \in Seq(0 .. 9) /\ n \in Nat \ {0}
  <2>1. code \in Codes
    BY <1>3, <1>5
  <2>2. code \in Seq(0 .. 9)
    BY <2>1, LinkAssumption
  <2> QED
    BY <1>4, <1>5, <2>1, <2>2, EmptySeq
<1>7. ASSUME NEW m \in 0 .. n, i + m <= Len(b), i + m < Len(b) => m = n
      PROVE  DigitsAfter(b, i) = SubSeq(code, 1, m)
  <2>1. \A k \in 1 .. m : b[i + k] = Digit(code[k])
    <3> SUFFICES ASSUME NEW k \in 1 .. m PROVE b[i + k] = Digit(code[k])
      OBVIOUS
    <3>1. i + k \in 1 .. Len(b) /\ k \in 1 .. n
      BY <1>1, <1>6, <1>7
    <3> QED
      BY <1>1, <1>5, <3>1
  <2>2. i + m < Len(b) => b[i + m + 1] = Eol
    <3> SUFFICES ASSUME i + m < Len(b) PROVE b[i + m + 1] = Eol
      OBVIOUS
    <3>1. m = n /\ i + m + 1 \in 1 .. Len(b)
      BY <1>1, <1>6, <1>7
    <3> QED
      BY <1>1, <1>5, <3>1
  <2>3. m \in 0 .. Len(code)
    BY <1>4
  <2> QED
    BY <1>6, <1>7, <2>1, <2>2, <2>3, DigitsFollow
<1>8. CASE i + n < Len(b)
  <2>1. n \in 0 .. n /\ i + n <= Len(b)
    BY <1>1, <1>6, <1>8
  <2>2. DigitsAfter(b, i) = SubSeq(code, 1, n)
    BY <1>7, <2>1
  <2>3. n # 0
    BY <1>6
  <2> QED
    BY <1>3, <1>4, <1>6, <2>1, <2>2, <2>3
<1>9. CASE i + n >= Len(b)
  <2>1. PICK m \in 0 .. n : i + m = Len(b)
    <3>1. Len(b) - i \in 0 .. n /\ i + (Len(b) - i) = Len(b)
      BY <1>1, <1>6, <1>9
    <3> QED
      BY <3>1
  <2>2. DigitsAfter(b, i) = SubSeq(code, 1, m)
    BY <1>1, <1>7, <2>1
  <2>3. m = 0 => i = Len(b)
    BY <1>1, <2>1
  <2> QED
    BY <1>3, <1>4, <1>6, <2>2, <2>3
<1> QED
  BY <1>1, <1>6, <1>8, <1>9

\* A beginning of a status that is not empty tells success from failure.
LEMMA PrefixTrue ==
  ASSUME NEW code \in Codes, NEW m \in 1 .. Len(code)
  PROVE  /\ SubSeq(code, 1, m) \in Seq(0 .. 9) \ {<<>>}
         /\ IsPrefix(SubSeq(code, 1, m), code)
         /\ SubSeq(code, 1, m) = <<0>> <=> code = <<0>>
<1> DEFINE s == SubSeq(code, 1, m)
<1>1. code \in Seq(0 .. 9) /\ Len(code) \in Nat
  <2>1. code \in Seq(0 .. 9)
    BY LinkAssumption
  <2> QED
    BY <2>1, LenProperties
<1>2. s \in Seq(0 .. 9) /\ Len(s) = m /\ \A i \in 1 .. m : s[i] = code[i]
  BY <1>1, PrefixFacts
<1>3. Len(<<>>) = 0 /\ Len(<<0>>) = 1 /\ <<0>>[1] = 0
  OBVIOUS
<1>4. s # <<>>
  BY <1>2, <1>3
<1>5. SubSeq(s, 1, Len(s)) = s
  BY <1>2, SubSeqFull
<1>6. IsPrefix(s, code)
  BY <1>1, <1>2, <1>5 DEF IsPrefix
<1>7. s = <<0>> => code = <<0>>
  <2>1. s[1] = code[1]
    BY <1>2
  <2>2. s = <<0>> => code[1] = 0
    BY <1>3, <2>1
  <2> QED
    BY <2>2, LinkAssumption
<1>8. code = <<0>> => s = <<0>>
  <2> HAVE code = <<0>>
  <2>1. m = 1
    BY <1>3
  <2>2. SubSeq(code, 1, Len(code)) = code
    BY <1>1, SubSeqFull
  <2> QED
    BY <1>3, <2>1, <2>2
<1> QED
  BY <1>2, <1>4, <1>6, <1>7, <1>8

\* b has an end of c: its marker, and digits.
EndOf(b, c) == {i \in DOMAIN b : b[i] = Marker(c) /\ DigitsAfter(b, i) # <<>>}

\* What r says of c is true, if the status of c is code and s was heard.
Truthful(r, c, code, s) ==
  /\ r \in Results /\ r.kind = "ok"
  /\ code # <<>>
  /\ c \in r.out
  /\ IsPrefix(r.code, code)
  /\ r.code = <<0>> <=> code = <<0>>
  /\ Only(s, c) => r.out = {c}

\* What _split_output returns is true; it raises only without an end.
LEMMA SplitTrue ==
  ASSUME NEW c \in Cmds, NEW b \in Seq(Tokens), NEW w \in Seq(Tokens),
         NEW st \in [Cmds -> Codes \union {<<>>}],
         Whole(b \o w, st), Ordered(b \o w, c),
         NEW r, r = SplitOutput(b, c)
  PROVE  \/ r = Error /\ EndOf(b, c) = {}
         \/ Truthful(r, c, st[c], b \o w)
<1> DEFINE ends == EndOf(b, c)
           e == Min(ends)
           outputs == {i \in 1 .. e - 1 : b[i].kind = "output"}
<1>1. CASE ends = {}
  BY <1>1 DEF SplitOutput, EndOf
<1>2. CASE ends # {}
  <2>1. /\ DOMAIN b = 1 .. Len(b) /\ Len(b) \in Nat /\ Len(b \o w) = Len(b) + Len(w)
        /\ DOMAIN (b \o w) = 1 .. Len(b) + Len(w) /\ Len(w) \in Nat
        /\ \A j \in 1 .. Len(b) : (b \o w)[j] = b[j]
    BY ConcatFacts
  <2>2. e \in 1 .. Len(b) /\ b[e] = Marker(c) /\ DigitsAfter(b, e) # <<>>
    <3>1. ends \subseteq Nat
      BY <2>1 DEF EndOf
    <3>2. e \in ends
      BY <1>2, <3>1, LeastNatural
    <3> QED
      BY <2>1, <3>2 DEF EndOf
  <2>3. r = [kind |-> "ok", out |-> {b[i].of : i \in outputs}, code |-> DigitsAfter(b, e)]
    BY <1>2 DEF SplitOutput, EndOf, Result
  <2>4. r.kind = "ok" /\ r.out = {b[i].of : i \in outputs} /\ r.code = DigitsAfter(b, e)
    BY <2>3
  <2> HIDE DEF e, ends
  <2>5. PICK m \in 0 .. Len(st[c]) : DigitsAfter(b, e) = SubSeq(st[c], 1, m)
    BY <2>2, DigitsTrue
  <2>6. st[c] \in Codes /\ st[c] \in Seq(0 .. 9)
    <3>1. st[c] \in Codes
      BY <2>2, DigitsTrue
    <3> QED
      BY <3>1, LinkAssumption
  <2>7. m \in 1 .. Len(st[c])
    <3>1. m = 0 => SubSeq(st[c], 1, m) = <<>>
      BY SubSeqEmpty
    <3> QED
      BY <2>2, <2>5, <2>6, <3>1, LenProperties
  <2>8. /\ r.code \in Seq(0 .. 9) \ {<<>>} /\ IsPrefix(r.code, st[c])
        /\ r.code = <<0>> <=> st[c] = <<0>>
    <3>1. PICK code \in Codes : code = st[c]
      BY <2>6
    <3>2. m \in 1 .. Len(code) /\ r.code = SubSeq(code, 1, m)
      BY <2>4, <2>5, <2>7, <3>1
    <3>3. /\ SubSeq(code, 1, m) \in Seq(0 .. 9) \ {<<>>}
          /\ IsPrefix(SubSeq(code, 1, m), code)
          /\ SubSeq(code, 1, m) = <<0>> <=> code = <<0>>
      BY <3>2, PrefixTrue
    <3> QED
      BY <3>1, <3>2, <3>3
  <2>9. \A i \in outputs : b[i].of \in Cmds /\ b[i] = Output(b[i].of) /\ i \in 1 .. Len(b)
    <3> SUFFICES ASSUME NEW i \in outputs
                 PROVE  b[i].of \in Cmds /\ b[i] = Output(b[i].of) /\ i \in 1 .. Len(b)
      OBVIOUS
    <3>1. i \in 1 .. Len(b)
      BY <2>1, <2>2
    <3>2. b[i] \in Tokens
      BY <3>1, ElementOfSeq
    <3> QED
      BY <3>1, <3>2, TokenFacts
  <2>10. r \in Results
    BY <2>3, <2>4, <2>8, <2>9 DEF Results
  <2>11. PICK j \in 1 .. e - 1 : b[j] = Output(c)
    <3>1. e \in DOMAIN (b \o w) /\ (b \o w)[e] = Marker(c)
      BY <2>1, <2>2
    <3>2. PICK j \in 1 .. e - 1 : (b \o w)[j] = Output(c)
      BY <3>1 DEF Ordered
    <3>3. j \in 1 .. Len(b)
      BY <2>1, <2>2
    <3> QED
      BY <2>1, <3>2, <3>3
  <2>12. c \in r.out
    <3>1. b[j].kind = "output" /\ b[j].of = c
      BY <2>11, TokensDiffer
    <3> QED
      BY <2>4, <3>1
  <2>13. Only(b \o w, c) => r.out = {c}
    <3> SUFFICES ASSUME Only(b \o w, c), NEW i \in outputs PROVE b[i].of = c
      BY <2>4, <2>12
    <3>1. (b \o w)[i].of \in {c, NoCmd}
      BY <2>1, <2>9 DEF Only
    <3> QED
      BY <2>1, <2>9, <3>1, LinkAssumption
  <2> QED
    BY <2>4, <2>6, <2>8, <2>10, <2>12, <2>13, LinkAssumption DEF Truthful
<1> QED
  BY <1>1, <1>2

-----------------------------------------------------------------------------
(* Reading on, and printing more                                           *)

LEMMA CodeFacts ==
  ASSUME NEW code \in Codes \union {<<>>}
  PROVE  code \in Seq(0 .. 9) /\ Len(code) \in Nat
<1>1. code \in Seq(0 .. 9)
  BY LinkAssumption, EmptySeq
<1> QED
  BY <1>1, LenProperties

\* What is whole stays whole without its beginning.
LEMMA WholeRest ==
  ASSUME NEW b \in Seq(Tokens), NEW w \in Seq(Tokens),
         NEW st \in [Cmds -> Codes \union {<<>>}], Whole(b \o w, st)
  PROVE  Whole(w, st)
<1> DEFINE h == b \o w
<1>1. /\ Len(b) \in Nat /\ Len(w) \in Nat /\ Len(h) = Len(b) + Len(w)
      /\ DOMAIN w = 1 .. Len(w) /\ DOMAIN h = 1 .. Len(b) + Len(w)
      /\ \A j \in 1 .. Len(w) : h[Len(b) + j] = w[j]
  BY ConcatFacts
<1>2. Whole(h, st)
  OBVIOUS
<1> HIDE DEF h
<1> SUFFICES ASSUME NEW i \in 1 .. Len(w), NEW c \in Cmds, w[i] = Marker(c)
             PROVE  /\ st[c] # <<>>
                    /\ i + Len(st[c]) + 1 <= Len(w)
                    /\ \A k \in 1 .. Len(st[c]) : w[i + k] = Digit(st[c][k])
                    /\ w[i + Len(st[c]) + 1] = Eol
  BY <1>1 DEF Whole
<1>3. PICK code \in Codes \union {<<>>} : code = st[c]
  OBVIOUS
<1>4. PICK n \in Nat : n = Len(code)
  BY CodeFacts
<1>5. PICK j \in DOMAIN h : j = Len(b) + i
  BY <1>1
<1>6. h[j] = Marker(c)
  BY <1>1, <1>5
<1>7. /\ code # <<>>
      /\ j + n + 1 <= Len(h)
      /\ \A k \in 1 .. n : h[j + k] = Digit(code[k])
      /\ h[j + n + 1] = Eol
  BY <1>2, <1>3, <1>4, <1>6 DEF Whole
<1>8. i + n + 1 <= Len(w)
  BY <1>1, <1>5, <1>7
<1>9. \A k \in 1 .. n : w[i + k] = h[j + k]
  <2> SUFFICES ASSUME NEW k \in 1 .. n PROVE w[i + k] = h[j + k]
    OBVIOUS
  <2>1. i + k \in 1 .. Len(w) /\ Len(b) + (i + k) = j + k
    BY <1>1, <1>5, <1>8
  <2> QED
    BY <1>1, <2>1
<1>10. w[i + n + 1] = h[j + n + 1]
  <2>1. i + n + 1 \in 1 .. Len(w) /\ Len(b) + (i + n + 1) = j + n + 1
    BY <1>1, <1>5, <1>8
  <2> QED
    BY <1>1, <2>1
<1>11. /\ code # <<>>
       /\ i + n + 1 <= Len(w)
       /\ \A k \in 1 .. n : w[i + k] = Digit(code[k])
       /\ w[i + n + 1] = Eol
  BY <1>7, <1>8, <1>9, <1>10
<1> QED
  BY <1>3, <1>4, <1>11

\* What was read of whole output, and what is read later, is part of it.
LEMMA PartsFacts ==
  ASSUME NEW b \in Seq(Tokens), NEW w \in Seq(Tokens)
  PROVE  /\ \A i \in DOMAIN w : \E j \in DOMAIN (b \o w) : w[i] = (b \o w)[j]
         /\ \A c : Only(b \o w, c) => Only(w, c) /\ Only(b, c)
<1>1. /\ Len(b) \in Nat /\ Len(w) \in Nat
      /\ DOMAIN b = 1 .. Len(b)
      /\ DOMAIN w = 1 .. Len(w) /\ DOMAIN (b \o w) = 1 .. Len(b) + Len(w)
      /\ \A j \in 1 .. Len(b) : (b \o w)[j] = b[j]
      /\ \A j \in 1 .. Len(w) : (b \o w)[Len(b) + j] = w[j]
  BY ConcatFacts
<1>2. \A i \in DOMAIN w : \E j \in DOMAIN (b \o w) : w[i] = (b \o w)[j]
  <2> SUFFICES ASSUME NEW i \in DOMAIN w PROVE \E j \in DOMAIN (b \o w) : w[i] = (b \o w)[j]
    OBVIOUS
  <2>1. Len(b) + i \in DOMAIN (b \o w) /\ w[i] = (b \o w)[Len(b) + i]
    BY <1>1
  <2> QED
    BY <2>1
<1>3. \A i \in DOMAIN b : i \in DOMAIN (b \o w) /\ b[i] = (b \o w)[i]
  BY <1>1
<1> QED
  BY <1>2, <1>3 DEF Only

\* Printing t, which is no marker.
LEMMA AppendKeeps ==
  ASSUME NEW s \in Seq(Tokens), NEW t \in Tokens, t.kind # "marker",
         NEW st \in [Cmds -> Codes \union {<<>>}]
  PROVE  /\ Whole(s, st) => Whole(Append(s, t), st)
         /\ \A c \in Cmds : Ordered(s, c) => Ordered(Append(s, t), c)
         /\ \A c \in Cmds : Only(s, c) /\ t.of \in {c, NoCmd} => Only(Append(s, t), c)
<1> DEFINE a == Append(s, t)
<1>1. /\ a \in Seq(Tokens) /\ Len(s) \in Nat /\ Len(a) = Len(s) + 1
      /\ DOMAIN s = 1 .. Len(s) /\ DOMAIN a = 1 .. Len(s) + 1
      /\ \A i \in 1 .. Len(s) : a[i] = s[i]
      /\ a[Len(s) + 1] = t
  BY AppendFacts
<1> HIDE DEF a
<1>2. \A i \in DOMAIN a : i \in DOMAIN s \/ a[i] = t
  BY <1>1
<1>3. \A c \in Cmds : t # Marker(c)
  BY TokensDiffer
<1>4. ASSUME Whole(s, st), NEW i \in DOMAIN a, NEW c \in Cmds, a[i] = Marker(c)
      PROVE  /\ st[c] # <<>>
             /\ i + Len(st[c]) + 1 <= Len(a)
             /\ \A k \in 1 .. Len(st[c]) : a[i + k] = Digit(st[c][k])
             /\ a[i + Len(st[c]) + 1] = Eol
  <2>1. PICK code \in Codes \union {<<>>} : code = st[c]
    OBVIOUS
  <2>2. PICK n \in Nat : n = Len(code)
    BY CodeFacts
  <2>3. i \in 1 .. Len(s) /\ s[i] = Marker(c)
    BY <1>1, <1>2, <1>3, <1>4
  <2>4. /\ code # <<>>
        /\ i + n + 1 <= Len(s)
        /\ \A k \in 1 .. n : s[i + k] = Digit(code[k])
        /\ s[i + n + 1] = Eol
    BY <1>1, <1>4, <2>1, <2>2, <2>3 DEF Whole
  <2>5. i + n + 1 <= Len(a) /\ i + n + 1 \in 1 .. Len(s)
    BY <1>1, <2>3, <2>4
  <2>6. \A k \in 1 .. n : i + k \in 1 .. Len(s)
    BY <1>1, <2>3, <2>4
  <2> QED
    BY <1>1, <2>1, <2>2, <2>4, <2>5, <2>6
<1>5. ASSUME NEW c \in Cmds, Ordered(s, c), NEW i \in DOMAIN a, a[i] = Marker(c)
      PROVE  \E j \in 1 .. i - 1 : a[j] = Output(c)
  <2>1. i \in 1 .. Len(s) /\ s[i] = Marker(c)
    BY <1>1, <1>2, <1>3, <1>5
  <2>2. PICK j \in 1 .. i - 1 : s[j] = Output(c)
    BY <1>1, <1>5, <2>1 DEF Ordered
  <2>3. j \in 1 .. Len(s)
    BY <1>1, <2>1
  <2> QED
    BY <1>1, <2>2, <2>3
<1>6. ASSUME NEW c \in Cmds, Only(s, c), t.of \in {c, NoCmd} PROVE Only(a, c)
  BY <1>1, <1>2, <1>6 DEF Only
<1>7. Whole(s, st) => Whole(a, st)
  BY <1>4 DEF Whole
<1>8. \A c \in Cmds : Ordered(s, c) => Ordered(a, c)
  BY <1>5 DEF Ordered
<1> QED
  BY <1>6, <1>7, <1>8 DEF a

\* What a command prints when it ends.
Ending(c, code) == <<Marker(c)>> \o [i \in 1 .. Len(code) |-> Digit(code[i])] \o <<Eol>>

LEMMA EndingFacts ==
  ASSUME NEW c \in Cmds, NEW code \in Codes
  PROVE  /\ Ending(c, code) \in Seq(Tokens)
         /\ Len(code) \in Nat /\ Len(Ending(c, code)) = Len(code) + 2
         /\ Ending(c, code)[1] = Marker(c)
         /\ \A k \in 1 .. Len(code) : Ending(c, code)[1 + k] = Digit(code[k])
         /\ Ending(c, code)[Len(code) + 2] = Eol
<1> DEFINE m == <<Marker(c)>>
           d == [i \in 1 .. Len(code) |-> Digit(code[i])]
           e == <<Eol>>
<1>1. PICK n \in Nat : n = Len(code)
  BY CodeFacts
<1>2. /\ m \in Seq(Tokens) /\ Len(m) = 1 /\ m[1] = Marker(c)
      /\ e \in Seq(Tokens) /\ Len(e) = 1 /\ e[1] = Eol
  BY TokensAre
<1>3. \A i \in 1 .. n : code[i] \in 0 .. 9
  BY <1>1, CodeFacts, ElementOfSeq
<1>4. d \in Seq(Tokens) /\ Len(d) = n /\ \A k \in 1 .. n : d[k] = Digit(code[k])
  <2>1. \A i \in 1 .. n : Digit(code[i]) \in Tokens
    BY <1>3, TokensAre
  <2> QED
    BY <1>1, <2>1
<1> HIDE DEF m, d, e
<1>5. /\ m \o d \in Seq(Tokens) /\ Len(m \o d) = 1 + n
      /\ (m \o d)[1] = Marker(c)
      /\ \A k \in 1 .. n : (m \o d)[1 + k] = Digit(code[k])
  <2>1. /\ m \o d \in Seq(Tokens) /\ Len(m \o d) = Len(m) + Len(d)
        /\ \A i \in 1 .. Len(m) : (m \o d)[i] = m[i]
        /\ \A i \in 1 .. Len(d) : (m \o d)[Len(m) + i] = d[i]
    <3>1. m \in Seq(Tokens) /\ d \in Seq(Tokens)
      BY <1>2, <1>4
    <3> QED
      BY <3>1, ConcatFacts
  <2> QED
    BY <1>2, <1>4, <2>1
<1> DEFINE h == m \o d
           t == h \o e
<1> HIDE DEF h
<1>6. /\ h \in Seq(Tokens) /\ Len(h) = 1 + n
      /\ h[1] = Marker(c)
      /\ \A k \in 1 .. n : h[1 + k] = Digit(code[k])
  BY <1>5 DEF h
<1>7. /\ t \in Seq(Tokens) /\ Len(t) = Len(h) + Len(e)
      /\ \A i \in 1 .. Len(h) : t[i] = h[i]
      /\ \A i \in 1 .. Len(e) : t[Len(h) + i] = e[i]
  <2>1. h \in Seq(Tokens) /\ e \in Seq(Tokens)
    BY <1>2, <1>6
  <2> QED
    BY <2>1, ConcatFacts
<1> HIDE DEF t
<1>8. Len(t) = n + 2 /\ t[1] = Marker(c) /\ \A k \in 1 .. n : t[1 + k] = Digit(code[k])
  BY <1>2, <1>6, <1>7
<1>9. t[n + 2] = Eol
  <2>1. 1 \in 1 .. Len(e) /\ Len(h) + 1 = n + 2
    BY <1>2, <1>6
  <2> QED
    BY <1>2, <1>7, <2>1
<1>10. t = Ending(c, code)
  BY DEF t, h, m, d, e, Ending
<1> QED
  BY <1>1, <1>7, <1>8, <1>9, <1>10

LEMMA EndingAfter ==
  ASSUME NEW w \in Seq(Tokens), NEW c \in Cmds, NEW code \in Codes
  PROVE  w \o <<Marker(c)>> \o [i \in 1 .. Len(code) |-> Digit(code[i])] \o <<Eol>>
           = w \o Ending(c, code)
<1> DEFINE m == <<Marker(c)>>
           d == [i \in 1 .. Len(code) |-> Digit(code[i])]
           md == m \o d
           e == <<Eol>>
<1>1. m \in Seq(Tokens) /\ e \in Seq(Tokens)
  BY TokensAre
<1>2. d \in Seq(Tokens)
  <2>1. Len(code) \in Nat /\ \A i \in 1 .. Len(code) : code[i] \in 0 .. 9
    BY CodeFacts, ElementOfSeq
  <2>2. \A i \in 1 .. Len(code) : Digit(code[i]) \in Tokens
    BY <2>1, TokensAre
  <2> QED
    BY <2>1, <2>2
<1> HIDE DEF m, d, e
<1>3. md \in Seq(Tokens)
  BY <1>1, <1>2, ConcatProperties
<1>4. (w \o m) \o d = w \o md
  BY <1>1, <1>2, ConcatAssociative
<1> HIDE DEF md
<1>5. (w \o md) \o e = w \o (md \o e)
  BY <1>1, <1>3, ConcatAssociative
<1>6. ((w \o m) \o d) \o e = w \o (md \o e)
  BY <1>4, <1>5
<1> QED
  BY <1>6 DEF Ending, md, m, d, e

\* Printing the end of c, which had not ended before.
LEMMA EndingKeeps ==
  ASSUME NEW s \in Seq(Tokens), NEW c \in Cmds, NEW code \in Codes,
         NEW st \in [Cmds -> Codes \union {<<>>}], Whole(s, st), st[c] = <<>>
  PROVE  LET a == s \o Ending(c, code) IN
         /\ Whole(a, [st EXCEPT ![c] = code])
         /\ \A d \in Cmds : Ordered(s, d) /\ (d = c => Has(s, Output(c))) => Ordered(a, d)
         /\ Only(s, c) => Only(a, c) /\ Closed(a)
<1> DEFINE e == Ending(c, code)
           a == s \o e
           en == [st EXCEPT ![c] = code]
<1>1. PICK n \in Nat : n = Len(code)
  BY CodeFacts
<1>2. PICK l \in Nat : l = Len(s)
  BY LenProperties
<1>3. /\ e \in Seq(Tokens) /\ Len(e) = n + 2 /\ e[1] = Marker(c)
      /\ \A k \in 1 .. n : e[1 + k] = Digit(code[k])
      /\ e[n + 2] = Eol
  BY <1>1, EndingFacts
<1> HIDE DEF e
<1>4. /\ a \in Seq(Tokens) /\ Len(a) = l + (n + 2)
      /\ DOMAIN s = 1 .. l /\ DOMAIN a = 1 .. l + (n + 2)
      /\ \A i \in 1 .. l : a[i] = s[i]
      /\ \A i \in 1 .. n + 2 : a[l + i] = e[i]
  <2>1. e \in Seq(Tokens)
    BY <1>3
  <2>2. /\ a \in Seq(Tokens) /\ Len(a) = Len(s) + Len(e)
        /\ DOMAIN s = 1 .. Len(s) /\ DOMAIN a = 1 .. Len(s) + Len(e)
        /\ \A i \in 1 .. Len(s) : a[i] = s[i]
        /\ \A i \in 1 .. Len(e) : a[Len(s) + i] = e[i]
    BY <2>1, ConcatFacts
  <2> QED
    BY <1>2, <1>3, <2>2
<1> HIDE DEF a
<1>5. a[l + 1] = Marker(c)
  BY <1>3, <1>4
<1>6. \A k \in 1 .. n : a[l + 1 + k] = Digit(code[k])
  <2> SUFFICES ASSUME NEW k \in 1 .. n PROVE a[l + 1 + k] = Digit(code[k])
    OBVIOUS
  <2>1. 1 + k \in 1 .. n + 2 /\ l + (1 + k) = l + 1 + k
    OBVIOUS
  <2> QED
    BY <1>3, <1>4, <2>1
<1>7. a[l + 1 + n + 1] = Eol
  <2>1. n + 2 \in 1 .. n + 2 /\ l + (n + 2) = l + 1 + n + 1
    OBVIOUS
  <2> QED
    BY <1>3, <1>4, <2>1
<1>8. \A i \in DOMAIN s : s[i] # Marker(c)
  BY DEF Whole
<1>9. ASSUME NEW i \in DOMAIN a, i \notin DOMAIN s, i # l + 1
      PROVE  /\ a[i].of = NoCmd /\ a[i].kind # "marker"
             /\ \A d \in Cmds : a[i] # Marker(d)
  <2>1. a[i] = Eol \/ \E k \in 1 .. n : a[i] = Digit(code[k])
    <3>1. CASE i = l + 1 + n + 1
      BY <1>7, <3>1
    <3>2. CASE i # l + 1 + n + 1
      <4>1. i \in Nat /\ i > l + 1 /\ i < l + 1 + n + 1
        BY <1>4, <1>9, <3>2
      <4>2. i - (l + 1) \in 1 .. n /\ l + 1 + (i - (l + 1)) = i
        BY <4>1
      <4> QED
        BY <1>6, <4>2
    <3> QED
      BY <3>1, <3>2
  <2>2. \A k \in 1 .. n : code[k] \in 0 .. 9
    BY <1>1, CodeFacts, ElementOfSeq
  <2>3. a[i] = Eol \/ \E k \in 0 .. 9 : a[i] = Digit(k)
    BY <2>1, <2>2
  <2>4. /\ Eol.of = NoCmd /\ Eol.kind # "marker"
        /\ \A k \in 0 .. 9 : Digit(k).of = NoCmd /\ Digit(k).kind # "marker"
    BY TokensDiffer
  <2>5. \A d \in Cmds : Marker(d).kind = "marker"
    BY TokensDiffer
  <2>6. a[i].of = NoCmd /\ a[i].kind # "marker"
    BY <2>3, <2>4
  <2> QED
    BY <2>5, <2>6
<1>10. ASSUME NEW i \in DOMAIN a, NEW d \in Cmds, a[i] = Marker(d)
       PROVE  \/ i \in DOMAIN s /\ s[i] = Marker(d) /\ d # c
              \/ i = l + 1 /\ d = c
  <2>1. CASE i \in DOMAIN s
    BY <1>4, <1>8, <1>10, <2>1
  <2>2. CASE i = l + 1
    BY <1>5, <1>10, <2>2, TokensDiffer
  <2> QED
    BY <1>9, <1>10, <2>1, <2>2
<1>11. Whole(a, en)
  <2> SUFFICES ASSUME NEW i \in DOMAIN a, NEW d \in Cmds, a[i] = Marker(d)
               PROVE  /\ en[d] # <<>>
                      /\ i + Len(en[d]) + 1 <= Len(a)
                      /\ \A k \in 1 .. Len(en[d]) : a[i + k] = Digit(en[d][k])
                      /\ a[i + Len(en[d]) + 1] = Eol
    BY DEF Whole
  <2>1. CASE i = l + 1 /\ d = c
    <3>1. en[d] = code /\ code # <<>>
      BY <2>1, LinkAssumption
    <3>2. i + n + 1 <= Len(a)
      BY <1>4, <2>1
    <3>3. /\ \A k \in 1 .. n : a[i + k] = Digit(code[k])
          /\ a[i + n + 1] = Eol
      BY <1>6, <1>7, <2>1
    <3> QED
      BY <1>1, <3>1, <3>2, <3>3
  <2>2. CASE i \in DOMAIN s /\ s[i] = Marker(d) /\ d # c
    <3>1. PICK old \in Codes \union {<<>>} : old = st[d] /\ old = en[d]
      BY <2>2
    <3>2. PICK m \in Nat : m = Len(old)
      BY CodeFacts
    <3>3. /\ old # <<>>
          /\ i + m + 1 <= l
          /\ \A k \in 1 .. m : s[i + k] = Digit(old[k])
          /\ s[i + m + 1] = Eol
      BY <1>2, <2>2, <3>1, <3>2 DEF Whole
    <3>4. i \in 1 .. l
      BY <1>4, <2>2
    <3>5. i + m + 1 <= Len(a) /\ i + m + 1 \in 1 .. l
      BY <1>4, <3>3, <3>4
    <3>6. \A k \in 1 .. m : i + k \in 1 .. l
      BY <3>3, <3>4
    <3> QED
      BY <1>4, <3>1, <3>2, <3>3, <3>5, <3>6
  <2> QED
    BY <1>10, <2>1, <2>2
<1>12. ASSUME NEW d \in Cmds, Ordered(s, d), d = c => Has(s, Output(c)),
              NEW i \in DOMAIN a, a[i] = Marker(d)
       PROVE  \E j \in 1 .. i - 1 : a[j] = Output(d)
  <2>1. CASE i = l + 1 /\ d = c
    <3>1. PICK j \in DOMAIN s : s[j] = Output(c)
      BY <1>12, <2>1 DEF Has
    <3>2. j \in 1 .. i - 1 /\ a[j] = s[j]
      BY <1>4, <2>1
    <3> QED
      BY <2>1, <3>1, <3>2
  <2>2. CASE i \in DOMAIN s /\ s[i] = Marker(d)
    <3>1. PICK j \in 1 .. i - 1 : s[j] = Output(d)
      BY <1>12, <2>2 DEF Ordered
    <3>2. j \in 1 .. l
      BY <1>4, <2>2
    <3> QED
      BY <1>4, <3>1, <3>2
  <2> QED
    BY <1>10, <1>12, <2>1, <2>2
<1>13. ASSUME Only(s, c) PROVE Only(a, c) /\ Closed(a)
  <2>1. \A i \in DOMAIN s : a[i].of \in {c, NoCmd} /\ a[i].kind # "marker"
    <3> SUFFICES ASSUME NEW i \in DOMAIN s
                 PROVE  a[i].of \in {c, NoCmd} /\ a[i].kind # "marker"
      OBVIOUS
    <3>1. a[i] = s[i] /\ s[i] \in Tokens
      BY <1>4, <1>2, ElementOfSeq
    <3>2. s[i].of \in {c, NoCmd}
      BY <1>13 DEF Only
    <3>3. s[i].kind = "marker" => s[i] = Marker(c)
      BY <3>1, <3>2, TokenFacts, LinkAssumption
    <3> QED
      BY <1>8, <3>1, <3>2, <3>3
  <2>2. a[l + 1].of = c
    BY <1>5, TokensDiffer
  <2>3. \A i \in DOMAIN a : i \in DOMAIN s \/ i = l + 1 \/ (a[i].of = NoCmd /\ a[i].kind # "marker")
    BY <1>9
  <2>4. Only(a, c)
    BY <2>1, <2>2, <2>3 DEF Only
  <2>5. \A i \in DOMAIN a : a[i].kind = "marker" => i = l + 1
    BY <2>1, <2>3
  <2>6. \A j \in l + 2 .. Len(a) : a[j].of = NoCmd
    <3> SUFFICES ASSUME NEW j \in l + 2 .. Len(a) PROVE a[j].of = NoCmd
      OBVIOUS
    <3>1. j \in DOMAIN a /\ j \notin DOMAIN s /\ j # l + 1
      BY <1>4
    <3> QED
      BY <1>9, <3>1
  <2>7. Closed(a)
    <3> SUFFICES ASSUME NEW i \in DOMAIN a, a[i].kind = "marker",
                        NEW j \in i + 1 .. Len(a)
                 PROVE  a[j].of = NoCmd
      BY DEF Closed
    <3>1. j \in l + 2 .. Len(a)
      BY <2>5
    <3> QED
      BY <2>6, <3>1
  <2> QED
    BY <2>4, <2>7
<1>14. \A d \in Cmds : Ordered(s, d) /\ (d = c => Has(s, Output(c))) => Ordered(a, d)
  BY <1>12 DEF Ordered
<1> QED
  BY <1>11, <1>13, <1>14 DEF a, e

-----------------------------------------------------------------------------
(* The inductive invariant is one                                          *)

LEMMA InitIInv == Init => IInv
<1> SUFFICES ASSUME Init PROVE IInv
  OBVIOUS
<1>1. /\ cmd = NoCmd /\ buf = <<>> /\ wire = <<>> /\ lines = <<>>
      /\ printed = FALSE /\ expired = {}
      /\ \A c \in Cmds : result[c] = NoResult /\ status[c] = <<>>
  BY DEF Init
<1>2. <<>> \in Seq(Tokens) /\ <<>> \in Seq(Cmds) /\ DOMAIN <<>> = {}
  BY EmptySeq
<1>3. TypeOK
  BY <1>2 DEF Init, TypeOK, Results
<1>4. Heard = <<>>
  BY <1>1 DEF Heard
<1>5. DOMAIN Heard = {} /\ DOMAIN wire = {} /\ DOMAIN lines = {}
  BY <1>1, <1>2, <1>4
<1>6. LinesInv
  BY <1>5 DEF LinesInv
<1>7. UnsentInv
  BY <1>1, <1>5 DEF UnsentInv
<1>8. PrintedInv
  BY <1>1, <1>5 DEF PrintedInv, Whole
<1>9. QuietInv
  BY <1>1, <1>5 DEF QuietInv, Only
<1>10. \A c \in Cmds : ~Succeeded(c) /\ result[c] # Error
  BY <1>1 DEF Succeeded, NoResult, Error
<1> QED
  BY <1>3, <1>6, <1>7, <1>8, <1>9, <1>10
  DEF IInv, SuccessIsReal, OwnOutputUnlessExpired, NoErrorUnlessExpired

\* What was printed before a command that has not been sent is not about it.
LEMMA SendKeeps ==
  ASSUME IInv, NEW c \in Cmds, Send(c)
  PROVE  IInv'
<1>1. /\ cmd = NoCmd /\ result[c] = NoResult /\ cmd' = c /\ buf' = <<>>
      /\ lines' = Append(lines, c) /\ UNCHANGED <<result, expired, printed, status>>
  BY DEF Send
<1>2. PICK k \in 0 .. Len(wire) : wire' = Append(SubSeq(wire, k + 1, Len(wire)), Echo(c))
  BY DEF Send
<1>3. /\ wire \in Seq(Tokens) /\ lines \in Seq(Cmds) /\ status \in [Cmds -> Codes \union {<<>>}]
      /\ result \in [Cmds -> Results] /\ NoCmd \notin Cmds
  BY LinkAssumption DEF IInv, TypeOK
<1> DEFINE p == SubSeq(wire, 1, k)
           r == SubSeq(wire, k + 1, Len(wire))
<1>4. p \in Seq(Tokens) /\ r \in Seq(Tokens) /\ p \o r = wire
  BY <1>3, CutFacts
<1> HIDE DEF p, r
<1>5. wire' = Append(r, Echo(c)) /\ Echo(c) \in Tokens
  BY <1>2, TokensAre DEF r
<1>6. /\ wire' \in Seq(Tokens) /\ DOMAIN wire' = 1 .. Len(r) + 1
      /\ DOMAIN r = 1 .. Len(r) /\ Len(r) \in Nat
      /\ \A i \in DOMAIN r : wire'[i] = r[i]
      /\ wire'[Len(r) + 1] = Echo(c)
  BY <1>4, <1>5, AppendFacts
<1>7. Heard' = wire' /\ Heard = wire
  <2>1. buf = <<>>
    BY <1>1 DEF IInv, UnsentInv
  <2> QED
    BY <1>1, <1>3, <1>6, <2>1, ConcatEmptySeq DEF Heard
<1>8. /\ lines' \in Seq(Cmds) /\ lines' # <<>> /\ Len(lines) \in Nat
      /\ DOMAIN lines = 1 .. Len(lines) /\ DOMAIN lines' = 1 .. Len(lines) + 1
      /\ \A i \in DOMAIN lines : lines'[i] = lines[i]
      /\ lines'[Len(lines) + 1] = c
  BY <1>1, <1>3, AppendFacts
<1>9. TypeOK'
  <2>1. buf' \in Seq(Tokens)
    BY <1>1, EmptySeq
  <2> QED
    BY <1>1, <1>6, <1>8, <2>1 DEF IInv, TypeOK
<1>10. /\ status[c] = <<>>
       /\ \A i \in DOMAIN lines : /\ lines[i] \in Cmds /\ lines[i] # c
                                  /\ status[lines[i]] = <<>> /\ result[lines[i]] = Error
  <2>1. status[c] = <<>>
    BY <1>1, <1>3 DEF IInv, UnsentInv
  <2>2. \A i \in DOMAIN lines : lines[i] \in Cmds
    BY <1>3, <1>8, ElementOfSeq
  <2>3. NoResult # Error
    BY DEF NoResult, Error
  <2> QED
    BY <1>1, <1>3, <2>1, <2>2, <2>3 DEF IInv, LinesInv
<1>11. LinesInv'
  <2>1. \A i \in DOMAIN lines' : i \in DOMAIN lines \/ i = Len(lines) + 1
    BY <1>8
  <2>2. \A i \in DOMAIN lines' : /\ status'[lines'[i]] = <<>>
                                 /\ cmd' = lines'[i] \/ result'[lines'[i]] = Error
    BY <1>1, <1>8, <1>10, <2>1
  <2>3. \A i, j \in DOMAIN lines' : lines'[i] = lines'[j] => i = j
    BY <1>8, <1>10, <2>1 DEF IInv, LinesInv
  <2> QED
    BY <2>2, <2>3 DEF LinesInv
<1>12. \A i \in DOMAIN wire' : wire'[i] = Echo(c) \/ \E j \in DOMAIN wire : wire'[i] = wire[j]
  <2>1. \A i \in DOMAIN r : \E j \in DOMAIN wire : r[i] = wire[j]
    BY <1>4, PartsFacts
  <2>2. \A i \in DOMAIN wire' : i \in DOMAIN r \/ i = Len(r) + 1
    BY <1>6
  <2> QED
    BY <1>6, <2>1, <2>2
<1>13. Echo(c).of = c /\ Echo(c).kind = "echo"
  BY TokensDiffer
<1>14. UnsentInv'
  <2>1. ASSUME NEW d \in Cmds, result[d] = NoResult, d # c
        PROVE  status[d] = <<>> /\ \A i \in DOMAIN wire' : wire'[i].of # d
    BY <1>1, <1>3, <1>12, <1>13, <2>1 DEF IInv, UnsentInv
  <2> QED
    BY <1>1, <1>3, <2>1 DEF UnsentInv
<1>15. \A i \in DOMAIN wire' : wire'[i].kind = "marker" => wire'[i] # Marker(c) /\ wire'[i].of # c
  <2>1. \A i \in DOMAIN wire : wire[i].of # c
    BY <1>1, <1>3 DEF IInv, UnsentInv
  <2>2. Marker(c).of = c
    BY TokensDiffer
  <2> QED
    BY <1>12, <1>13, <2>1, <2>2
<1>16. PrintedInv'
  <2>1. Whole(r, status)
    BY <1>3, <1>4, <1>7, WholeRest DEF IInv, PrintedInv
  <2>2. Whole(Append(r, Echo(c)), status)
    BY <1>3, <1>4, <1>5, <1>13, <2>1, AppendKeeps
  <2>3. Whole(Heard', status')
    BY <1>1, <1>5, <1>7, <2>2
  <2>4. Ordered(Heard', cmd')
    <3>1. \A i \in DOMAIN wire' : wire'[i] # Marker(c)
      BY <1>15, TokensDiffer
    <3> QED
      BY <1>1, <1>7, <3>1 DEF Ordered
  <2>5. printed => lines'[1] # c
    <3> SUFFICES ASSUME printed PROVE lines'[1] # c
      OBVIOUS
    <3>1. 1 \in DOMAIN lines
      <4>1. lines # <<>>
        BY DEF IInv, TypeOK
      <4> QED
        BY <1>3, <1>8, <4>1, EmptySeq
    <3> QED
      BY <1>8, <1>10, <3>1
  <2> QED
    BY <1>1, <2>3, <2>4, <2>5 DEF PrintedInv
<1>17. QuietInv'
  <2> SUFFICES ASSUME expired = {}
               PROVE  /\ \A i \in DOMAIN lines' : lines'[i] = c
                      /\ Only(wire', c) /\ Closed(wire')
    BY <1>1, <1>3, <1>7 DEF QuietInv
  <2>1. lines = <<>> /\ Only(wire, NoCmd)
    BY <1>1 DEF IInv, QuietInv
  <2>2. \A i \in DOMAIN lines' : lines'[i] = c
    <3>1. Len(lines) = 0
      BY <2>1, EmptySeq
    <3> QED
      BY <1>8, <3>1
  <2>3. Only(wire', c)
    BY <1>12, <1>13, <2>1 DEF Only
  <2>4. \A i \in DOMAIN wire' : wire'[i].kind # "marker"
    <3> SUFFICES ASSUME NEW i \in DOMAIN wire', wire'[i].kind = "marker" PROVE FALSE
      OBVIOUS
    <3>1. PICK j \in DOMAIN wire : wire'[i] = wire[j]
      BY <1>12, <1>13
    <3>2. wire[j] \in Tokens /\ wire[j].of = NoCmd
      <4>1. wire[j] \in Tokens
        BY <1>3, ElementOfSeq, LenProperties
      <4> QED
        BY <2>1, <4>1 DEF Only
    <3> QED
      BY <1>3, <3>1, <3>2, TokenFacts
  <2>5. Closed(wire')
    BY <2>4 DEF Closed
  <2> QED
    BY <2>2, <2>3, <2>5
<1>18. SuccessIsReal' /\ OwnOutputUnlessExpired' /\ NoErrorUnlessExpired'
  BY <1>1 DEF IInv, SuccessIsReal, OwnOutputUnlessExpired, NoErrorUnlessExpired, Succeeded
<1> QED
  BY <1>9, <1>11, <1>14, <1>16, <1>17, <1>18 DEF IInv

\* What run() returns for a command is true, and if no deadline has passed it
\* is all there was to hear (Read to the end, Deadline).
LEMMA FinishKeeps ==
  ASSUME IInv, cmd # NoCmd, NEW b \in Seq(Tokens), wire' \in Seq(Tokens),
         b \o wire' = Heard, Finish(b), UNCHANGED boardVars,
         \A i \in DOMAIN wire' : \E j \in DOMAIN wire : wire'[i] = wire[j],
         \/ expired' = expired \union {cmd}
         \/ expired' = expired /\ MarkerSeen(b)
  PROVE  IInv'
<1>1. /\ cmd \in Cmds /\ cmd' = NoCmd /\ buf' = <<>> /\ NoCmd \notin Cmds
      /\ result \in [Cmds -> Results] /\ status \in [Cmds -> Codes \union {<<>>}]
      /\ lines \in Seq(Cmds) /\ expired \subseteq Cmds
      /\ UNCHANGED <<lines, printed, status>>
  BY LinkAssumption DEF IInv, TypeOK, Finish, boardVars
<1>2. PICK r : r = SplitOutput(b, cmd)
  OBVIOUS
<1>3. result' = [result EXCEPT ![cmd] = r]
  BY <1>2 DEF Finish
<1>4. Whole(b \o wire', status) /\ Ordered(b \o wire', cmd)
  BY DEF IInv, PrintedInv
<1>5. \/ r = Error /\ EndOf(b, cmd) = {}
      \/ Truthful(r, cmd, status[cmd], b \o wire')
  <2>1. PICK c \in Cmds : c = cmd
    BY <1>1
  <2>2. PICK w \in Seq(Tokens) : w = wire'
    OBVIOUS
  <2>3. Whole(b \o w, status) /\ Ordered(b \o w, c) /\ r = SplitOutput(b, c)
    BY <1>2, <1>4, <2>1, <2>2
  <2>4. \/ r = Error /\ EndOf(b, c) = {}
        \/ Truthful(r, c, status[c], b \o w)
    BY <1>1, <2>3, SplitTrue
  <2> QED
    BY <2>1, <2>2, <2>4
<1>6. /\ result'[cmd] = r
      /\ \A d \in Cmds : d # cmd => result'[d] = result[d]
  BY <1>1, <1>3
<1>7. r # NoResult /\ Error # NoResult /\ Error.kind # "ok"
  BY <1>5 DEF NoResult, Error, Truthful
<1>8. \A i \in DOMAIN lines : lines[i] \in Cmds
  BY <1>1, ElementOfSeq, LenProperties
<1>9. Heard' = wire'
  BY <1>1, ConcatEmptySeq DEF Heard
<1>10. TypeOK'
  <2>1. buf' \in Seq(Tokens)
    BY <1>1, EmptySeq
  <2>2. r \in Results
    BY <1>5 DEF Results, Truthful
  <2>3. result' \in [Cmds -> Results]
    BY <1>1, <1>3, <2>2
  <2>4. expired' \subseteq Cmds
    BY <1>1
  <2> QED
    BY <1>1, <2>1, <2>3, <2>4 DEF IInv, TypeOK
<1>11. LinesInv'
  <2>1. \A i \in DOMAIN lines : /\ status[lines[i]] = <<>>
                                /\ cmd = lines[i] \/ result[lines[i]] = Error
    BY DEF IInv, LinesInv
  <2>2. \A i \in DOMAIN lines : result'[lines[i]] = Error
    BY <1>5, <1>6, <1>8, <2>1 DEF Truthful
  <2>3. \A i, j \in DOMAIN lines : lines[i] = lines[j] => i = j
    BY DEF IInv, LinesInv
  <2> QED
    BY <1>1, <2>1, <2>2, <2>3 DEF LinesInv
<1>12. UnsentInv'
  <2>1. ASSUME NEW d \in Cmds, result'[d] = NoResult
        PROVE  status[d] = <<>> /\ \A i \in DOMAIN wire' : wire'[i].of # d
    <3>1. d # cmd /\ result[d] = NoResult
      BY <1>6, <1>7, <2>1
    <3> QED
      BY <3>1 DEF IInv, UnsentInv
  <2> QED
    BY <1>1, <2>1 DEF UnsentInv
<1>13. PrintedInv'
  BY <1>1, <1>4, <1>9, WholeRest DEF PrintedInv
<1>14. QuietInv'
  <2> SUFFICES ASSUME expired' = {} PROVE lines = <<>> /\ Only(wire', NoCmd)
    BY <1>1 DEF QuietInv
  <2>1. /\ expired = {} /\ MarkerSeen(b)
    OBVIOUS
  <2>2. /\ \A i \in DOMAIN lines : lines[i] = cmd
        /\ Only(b \o wire', cmd) /\ Closed(b \o wire')
    BY <2>1 DEF IInv, QuietInv
  <2>3. PICK i \in DOMAIN b : b[i].kind = "marker"
    BY <2>1 DEF MarkerSeen
  <2>4. /\ DOMAIN b = 1 .. Len(b) /\ Len(b) \in Nat /\ Len(wire') \in Nat
        /\ DOMAIN wire' = 1 .. Len(wire')
        /\ Len(b \o wire') = Len(b) + Len(wire')
        /\ DOMAIN (b \o wire') = 1 .. Len(b) + Len(wire')
        /\ \A j \in 1 .. Len(b) : (b \o wire')[j] = b[j]
        /\ \A j \in 1 .. Len(wire') : (b \o wire')[Len(b) + j] = wire'[j]
    BY ConcatFacts
  <2>5. i \in DOMAIN (b \o wire') /\ (b \o wire')[i] = b[i]
    BY <2>3, <2>4
  <2>6. b[i] = Marker(cmd)
    <3>1. b[i] \in Tokens
      BY <2>3, <2>4, ElementOfSeq
    <3>2. b[i].of \in {cmd, NoCmd}
      BY <2>2, <2>5 DEF Only
    <3> QED
      BY <1>1, <2>3, <3>1, <3>2, TokenFacts
  <2>7. status[cmd] # <<>>
    BY <1>1, <1>4, <2>5, <2>6 DEF Whole
  <2>8. lines = <<>>
    <3>1. DOMAIN lines = {}
      BY <2>2, <2>7 DEF IInv, LinesInv
    <3> QED
      BY <1>1, <3>1, LenProperties, EmptySeq
  <2>9. \A j \in DOMAIN wire' : wire'[j].of = NoCmd
    <3> SUFFICES ASSUME NEW j \in 1 .. Len(wire') PROVE wire'[j].of = NoCmd
      BY <2>4
    <3>1. Len(b) + j \in i + 1 .. Len(b \o wire')
      BY <2>3, <2>4
    <3>2. (b \o wire')[Len(b) + j].of = NoCmd
      BY <2>2, <2>3, <2>5, <3>1 DEF Closed
    <3> QED
      BY <2>4, <3>2
  <2> QED
    BY <2>8, <2>9 DEF Only
<1>15. SuccessIsReal'
  <2> SUFFICES ASSUME NEW c \in Cmds, result'[c].kind = "ok"
               PROVE  /\ status[c] # <<>>
                      /\ c \in result'[c].out
                      /\ IsPrefix(result'[c].code, status[c])
                      /\ result'[c].code = <<0>> <=> status[c] = <<0>>
    BY <1>1 DEF SuccessIsReal, Succeeded
  <2>1. CASE c = cmd
    BY <1>5, <1>6, <1>7, <2>1 DEF Truthful
  <2>2. CASE c # cmd
    BY <1>6, <2>2 DEF IInv, SuccessIsReal, Succeeded
  <2> QED
    BY <2>1, <2>2
<1>16. OwnOutputUnlessExpired'
  <2> SUFFICES ASSUME NEW c \in Cmds, result'[c].kind = "ok", expired' = {}
               PROVE  result'[c].out = {c}
    BY DEF OwnOutputUnlessExpired, Succeeded
  <2>1. expired = {}
    OBVIOUS
  <2>2. CASE c = cmd
    <3>1. Only(b \o wire', cmd)
      BY <2>1 DEF IInv, QuietInv
    <3> QED
      BY <1>5, <1>6, <1>7, <2>2, <3>1 DEF Truthful
  <2>3. CASE c # cmd
    BY <1>6, <2>1, <2>3 DEF IInv, OwnOutputUnlessExpired, Succeeded
  <2> QED
    BY <2>2, <2>3
<1>17. NoErrorUnlessExpired'
  <2> SUFFICES ASSUME NEW c \in Cmds, result'[c] = Error, expired' = {}
               PROVE  FALSE
    BY DEF NoErrorUnlessExpired
  <2>1. /\ expired = {} /\ MarkerSeen(b)
    OBVIOUS
  <2>2. c = cmd
    BY <1>6, <2>1 DEF IInv, NoErrorUnlessExpired
  <2>3. EndOf(b, cmd) = {}
    BY <1>5, <1>6, <1>7, <2>2 DEF Truthful
  <2>4. PICK i \in DOMAIN b : /\ b[i].kind = "marker"
                              /\ Len(DigitsAfter(b, i)) > 0
    BY <2>1 DEF MarkerSeen
  <2>5. DigitsAfter(b, i) # <<>>
    <3>1. ~(Len(<<>>) > 0)
      BY EmptySeq
    <3> QED
      BY <2>4, <3>1
  <2>6. b[i] = Marker(cmd)
    <3>1. b[i] \in Tokens
      BY <2>4, ElementOfSeq, LenProperties
    <3>2. Only(b \o wire', cmd)
      BY <2>1 DEF IInv, QuietInv
    <3>3. b[i].of \in {cmd, NoCmd}
      BY <3>2, PartsFacts DEF Only
    <3> QED
      BY <1>1, <2>4, <3>1, <3>3, TokenFacts
  <2> QED
    BY <2>3, <2>4, <2>5, <2>6 DEF EndOf
<1> QED
  BY <1>10, <1>11, <1>12, <1>13, <1>14, <1>15, <1>16, <1>17 DEF IInv

LEMMA ReadKeeps ==
  ASSUME IInv, Read
  PROVE  IInv'
<1>1. cmd # NoCmd /\ UNCHANGED <<expired, boardVars>>
  BY DEF Read
<1>2. buf \in Seq(Tokens) /\ wire \in Seq(Tokens) /\ Len(wire) \in Nat
  BY LenProperties DEF IInv, TypeOK
<1>3. PICK k, b :
        /\ k \in 1 .. Len(wire)
        /\ b = buf \o SubSeq(wire, 1, k)
        /\ wire' = SubSeq(wire, k + 1, Len(wire))
        /\ \/ Complete(b, cmd) /\ Finish(b)
           \/ ~Complete(b, cmd) /\ buf' = b /\ UNCHANGED <<cmd, result>>
  BY DEF Read
<1>4. b \in Seq(Tokens) /\ wire' \in Seq(Tokens) /\ b \o wire' = Heard
  <2>1. k \in 0 .. Len(wire)
    BY <1>2, <1>3
  <2>2. SubSeq(wire, k + 1, Len(wire)) \in Seq(Tokens)
    BY <1>2, <2>1, CutFacts
  <2>3. /\ buf \o SubSeq(wire, 1, k) \in Seq(Tokens)
        /\ (buf \o SubSeq(wire, 1, k)) \o SubSeq(wire, k + 1, Len(wire)) = buf \o wire
    BY <1>2, <2>1, ReadFacts
  <2> QED
    BY <1>3, <2>2, <2>3 DEF Heard
<1>5. \A i \in DOMAIN wire' : \E j \in DOMAIN wire : wire'[i] = wire[j]
  <2>1. k \in 0 .. Len(wire)
    BY <1>2, <1>3
  <2> DEFINE p == SubSeq(wire, 1, k)
             r == SubSeq(wire, k + 1, Len(wire))
  <2>2. p \in Seq(Tokens) /\ r \in Seq(Tokens) /\ p \o r = wire
    BY <1>2, <2>1, CutFacts
  <2> HIDE DEF p, r
  <2>3. \A i \in DOMAIN r : \E j \in DOMAIN (p \o r) : r[i] = (p \o r)[j]
    BY <2>2, PartsFacts
  <2> QED
    BY <1>3, <2>2, <2>3 DEF r
<1>6. CASE Complete(b, cmd) /\ Finish(b)
  <2>1. MarkerSeen(b)
    BY <1>6 DEF Complete
  <2> QED
    BY <1>1, <1>4, <1>5, <1>6, <2>1, FinishKeeps
<1>7. CASE buf' = b /\ UNCHANGED <<cmd, result>>
  <2>1. UNCHANGED <<cmd, result, expired, lines, printed, status, Heard>>
    BY <1>1, <1>4, <1>7 DEF boardVars, Heard
  <2>2. TypeOK'
    BY <1>4, <1>7, <2>1 DEF IInv, TypeOK
  <2>3. LinesInv'
    BY <2>1 DEF IInv, LinesInv
  <2>4. UnsentInv'
    BY <1>1, <1>5, <2>1 DEF IInv, UnsentInv
  <2>5. PrintedInv'
    BY <2>1 DEF IInv, PrintedInv
  <2>6. QuietInv'
    BY <1>1, <2>1 DEF IInv, QuietInv
  <2>7. SuccessIsReal' /\ OwnOutputUnlessExpired' /\ NoErrorUnlessExpired'
    BY <2>1 DEF IInv, SuccessIsReal, OwnOutputUnlessExpired, NoErrorUnlessExpired, Succeeded
  <2> QED
    BY <2>2, <2>3, <2>4, <2>5, <2>6, <2>7 DEF IInv
<1> QED
  BY <1>3, <1>6, <1>7

LEMMA DeadlineKeeps ==
  ASSUME IInv, Deadline
  PROVE  IInv'
<1>1. /\ cmd # NoCmd /\ Finish(buf) /\ expired' = expired \union {cmd}
      /\ wire' = wire /\ UNCHANGED boardVars
  BY DEF Deadline
<1>2. buf \in Seq(Tokens) /\ wire' \in Seq(Tokens) /\ buf \o wire' = Heard
  BY <1>1 DEF IInv, TypeOK, Heard
<1>3. \A i \in DOMAIN wire' : \E j \in DOMAIN wire : wire'[i] = wire[j]
  BY <1>1
<1> QED
  BY <1>1, <1>2, <1>3, FinishKeeps

\* The first of the lines typed has not been executed, has printed no marker
\* of its own, and is awaited or was given up.
LEMMA HeadFacts ==
  ASSUME IInv, lines # <<>>
  PROVE  /\ Head(lines) \in Cmds /\ Head(lines) = lines[1] /\ 1 \in DOMAIN lines
         /\ status[Head(lines)] = <<>>
         /\ cmd = Head(lines) \/ (result[Head(lines)] = Error /\ result[Head(lines)] # NoResult)
         /\ expired = {} => cmd = Head(lines) /\ Only(Heard, cmd)
<1>1. lines \in Seq(Cmds) /\ lines # <<>>
  BY DEF IInv, TypeOK
<1>2. Head(lines) \in Cmds /\ Head(lines) = lines[1] /\ 1 \in DOMAIN lines
  BY <1>1, HeadTailProperties, LenProperties, EmptySeq
<1>3. Error # NoResult
  BY DEF Error, NoResult
<1>4. expired = {} => cmd = Head(lines) /\ Only(Heard, cmd)
  BY <1>2 DEF IInv, QuietInv
<1> QED
  BY <1>2, <1>3, <1>4 DEF IInv, LinesInv

LEMMA PrintOutputKeeps ==
  ASSUME IInv, PrintOutput
  PROVE  IInv'
<1>1. /\ lines # <<>> /\ wire' = Append(wire, Output(Head(lines))) /\ printed' = TRUE
      /\ UNCHANGED <<cmd, buf, result, expired, lines, status>>
  BY DEF PrintOutput, hostVars
<1>2. /\ buf \in Seq(Tokens) /\ wire \in Seq(Tokens)
      /\ status \in [Cmds -> Codes \union {<<>>}] /\ cmd \in Cmds \union {NoCmd}
      /\ NoCmd \notin Cmds
  BY LinkAssumption DEF IInv, TypeOK
<1>3. PICK h \in Cmds : h = Head(lines)
  BY <1>1, HeadFacts
<1>4. PICK t \in Tokens : t = Output(h)
  BY TokensAre
<1>5. t.of = h /\ t.kind = "output"
  BY <1>4, TokensDiffer
<1>6. /\ wire' \in Seq(Tokens) /\ Len(wire) \in Nat
      /\ DOMAIN wire = 1 .. Len(wire) /\ DOMAIN wire' = 1 .. Len(wire) + 1
      /\ \A i \in 1 .. Len(wire) : wire'[i] = wire[i]
      /\ wire'[Len(wire) + 1] = t
  <2>1. wire' = Append(wire, t)
    BY <1>1, <1>3, <1>4
  <2> QED
    BY <1>2, <2>1, AppendFacts
<1>7. Heard' = Append(Heard, t) /\ Heard \in Seq(Tokens)
  <2>1. Heard \in Seq(Tokens)
    BY <1>2, ConcatProperties DEF Heard
  <2>2. buf \o Append(wire, t) = Append(buf \o wire, t)
    <3>1. Append(wire, t) = wire \o <<t>>
      BY <1>2, AppendIsConcat
    <3>2. Append(buf \o wire, t) = (buf \o wire) \o <<t>>
      BY <2>1, AppendIsConcat DEF Heard
    <3>3. <<t>> \in Seq(Tokens)
      OBVIOUS
    <3>4. (buf \o wire) \o <<t>> = buf \o (wire \o <<t>>)
      BY <1>2, <3>3, ConcatAssociative
    <3> QED
      BY <3>1, <3>2, <3>4
  <2> QED
    BY <1>1, <1>3, <1>4, <2>1, <2>2 DEF Heard
<1>8. TypeOK'
  BY <1>1, <1>6 DEF IInv, TypeOK
<1>9. LinesInv'
  BY <1>1 DEF IInv, LinesInv
<1>10. UnsentInv'
  <2>1. ASSUME NEW d \in Cmds, result[d] = NoResult, cmd # d
        PROVE  status[d] = <<>> /\ \A i \in DOMAIN wire' : wire'[i].of # d
    <3>1. h # d
      BY <1>1, <1>3, <2>1, HeadFacts
    <3>2. status[d] = <<>> /\ \A i \in DOMAIN wire : wire[i].of # d
      BY <2>1 DEF IInv, UnsentInv
    <3>3. \A i \in DOMAIN wire' : i \in DOMAIN wire \/ i = Len(wire) + 1
      BY <1>6
    <3> QED
      BY <1>5, <1>6, <3>1, <3>2, <3>3
  <2>2. cmd # NoCmd => result[cmd] = NoResult
    BY DEF IInv, UnsentInv
  <2>3. cmd = NoCmd => buf = <<>>
    BY DEF IInv, UnsentInv
  <2> QED
    BY <1>1, <2>1, <2>2, <2>3 DEF UnsentInv
<1>11. PrintedInv'
  <2>1. Whole(Heard', status')
    BY <1>1, <1>2, <1>5, <1>7, AppendKeeps DEF IInv, PrintedInv
  <2>2. cmd # NoCmd => Ordered(Heard', cmd)
    BY <1>2, <1>5, <1>7, AppendKeeps DEF IInv, PrintedInv
  <2>3. h = cmd => Has(Heard', Output(cmd))
    <3>1. Len(Heard) + 1 \in DOMAIN Append(Heard, t) /\ Append(Heard, t)[Len(Heard) + 1] = t
      BY <1>7, AppendFacts
    <3> QED
      BY <1>4, <1>7, <3>1 DEF Has
  <2>4. lines[1] = h
    BY <1>1, <1>3, HeadFacts
  <2> QED
    BY <1>1, <2>1, <2>2, <2>3, <2>4 DEF PrintedInv
<1>12. QuietInv'
  <2> SUFFICES ASSUME expired = {}
               PROVE  /\ cmd # NoCmd
                      /\ \A i \in DOMAIN lines : lines[i] = cmd
                      /\ Only(Heard', cmd) /\ Closed(Heard')
    BY <1>1 DEF QuietInv
  <2>1. cmd = h /\ Only(Heard, h) /\ status[h] = <<>>
    BY <1>1, <1>3, HeadFacts
  <2>2. \A i \in DOMAIN lines : lines[i] = cmd
    BY <1>2, <2>1 DEF IInv, QuietInv
  <2>3. Only(Heard', cmd)
    BY <1>2, <1>5, <1>7, <2>1, AppendKeeps
  <2>4. \A i \in DOMAIN Heard' : Heard'[i].kind # "marker"
    <3> SUFFICES ASSUME NEW i \in DOMAIN Heard', Heard'[i].kind = "marker" PROVE FALSE
      OBVIOUS
    <3>1. Heard' \in Seq(Tokens)
      BY <1>7, AppendFacts
    <3>2. Heard'[i] \in Tokens
      BY <3>1, ElementOfSeq, LenProperties
    <3>3. Heard'[i] = Marker(h)
      BY <1>2, <2>1, <2>3, <3>2, TokenFacts DEF Only
    <3>4. Whole(Heard', status)
      BY <1>1, <1>2, <1>5, <1>7, AppendKeeps DEF IInv, PrintedInv
    <3> QED
      BY <2>1, <3>3, <3>4 DEF Whole
  <2>5. Closed(Heard')
    BY <2>4 DEF Closed
  <2> QED
    BY <1>2, <2>1, <2>2, <2>3, <2>5
<1>13. SuccessIsReal' /\ OwnOutputUnlessExpired' /\ NoErrorUnlessExpired'
  BY <1>1 DEF IInv, SuccessIsReal, OwnOutputUnlessExpired, NoErrorUnlessExpired, Succeeded
<1> QED
  BY <1>8, <1>9, <1>10, <1>11, <1>12, <1>13 DEF IInv

LEMMA ExecuteKeeps ==
  ASSUME IInv, Execute
  PROVE  IInv'
<1>1. /\ printed /\ lines # <<>> /\ lines' = Tail(lines) /\ printed' = FALSE
      /\ UNCHANGED <<cmd, buf, result, expired>>
  BY DEF IInv, TypeOK, Execute, hostVars
<1>2. PICK h \in Cmds : h = Head(lines)
  BY <1>1, HeadFacts
<1>3. PICK code \in Codes : /\ wire' = wire \o <<Marker(h)>>
                                 \o [i \in 1 .. Len(code) |-> Digit(code[i])] \o <<Eol>>
                            /\ status' = [status EXCEPT ![h] = code]
  BY <1>2 DEF Execute
<1>4. /\ buf \in Seq(Tokens) /\ wire \in Seq(Tokens) /\ lines \in Seq(Cmds)
      /\ status \in [Cmds -> Codes \union {<<>>}] /\ cmd \in Cmds \union {NoCmd}
      /\ NoCmd \notin Cmds
  BY LinkAssumption DEF IInv, TypeOK
<1>5. PICK e \in Seq(Tokens) : e = Ending(h, code)
  BY EndingFacts
<1>6. wire' = wire \o e
  BY <1>3, <1>4, <1>5, EndingAfter
<1>7. Heard' = Heard \o e /\ Heard \in Seq(Tokens)
  <2>1. (buf \o wire) \o e = buf \o (wire \o e)
    BY <1>4, ConcatAssociative
  <2>2. Heard \in Seq(Tokens)
    BY <1>4, ConcatProperties DEF Heard
  <2> QED
    BY <1>1, <1>6, <2>1, <2>2 DEF Heard
<1>8. /\ status[h] = <<>> /\ lines[1] = h
      /\ cmd = h \/ (result[h] = Error /\ result[h] # NoResult)
      /\ expired = {} => cmd = h /\ Only(Heard, h)
  BY <1>1, <1>2, HeadFacts
<1>9. /\ status' \in [Cmds -> Codes \union {<<>>}]
      /\ status'[h] = code /\ code # <<>>
      /\ \A d \in Cmds : d # h => status'[d] = status[d]
  BY <1>3, <1>4, LinkAssumption
<1>10. /\ lines' \in Seq(Cmds) /\ Len(lines) \in Nat
       /\ DOMAIN lines = 1 .. Len(lines) /\ DOMAIN lines' = 1 .. Len(lines) - 1
       /\ \A i \in DOMAIN lines' : lines'[i] = lines[i + 1] /\ i + 1 \in DOMAIN lines
  <2>1. Len(lines) \in Nat /\ DOMAIN lines = 1 .. Len(lines)
    BY <1>4, LenProperties
  <2>2. /\ Tail(lines) \in Seq(Cmds) /\ Len(Tail(lines)) = Len(lines) - 1
        /\ \A i \in 1 .. Len(Tail(lines)) : Tail(lines)[i] = lines[i + 1]
    BY <1>1, <1>4, HeadTailProperties
  <2>3. DOMAIN lines' = 1 .. Len(lines) - 1
    BY <1>1, <2>2, LenProperties
  <2> QED
    BY <1>1, <2>1, <2>2, <2>3
<1>11. TypeOK'
  <2>1. wire' \in Seq(Tokens)
    BY <1>4, <1>6, ConcatProperties
  <2> QED
    BY <1>1, <1>9, <1>10, <2>1 DEF IInv, TypeOK
<1>12. \A i \in DOMAIN lines' : lines'[i] \in Cmds /\ lines'[i] # h
  <2>1. \A i \in DOMAIN lines' : i + 1 # 1 /\ 1 \in DOMAIN lines
    BY <1>10
  <2>2. \A i \in DOMAIN lines' : lines[i + 1] # h
    BY <1>8, <1>10, <2>1 DEF IInv, LinesInv
  <2> QED
    BY <1>10, <2>2, ElementOfSeq
<1>13. LinesInv'
  <2>1. \A i \in DOMAIN lines' : /\ status'[lines'[i]] = <<>>
                                 /\ cmd = lines'[i] \/ result[lines'[i]] = Error
    BY <1>9, <1>10, <1>12 DEF IInv, LinesInv
  <2>2. \A i, j \in DOMAIN lines' : lines'[i] = lines'[j] => i = j
    <3> SUFFICES ASSUME NEW i \in DOMAIN lines', NEW j \in DOMAIN lines', lines'[i] = lines'[j]
                 PROVE  i = j
      OBVIOUS
    <3>1. i + 1 = j + 1
      BY <1>10 DEF IInv, LinesInv
    <3> QED
      BY <1>10, <3>1
  <2> QED
    BY <1>1, <2>1, <2>2 DEF LinesInv
<1>14. \A i \in DOMAIN wire' : \/ \E j \in DOMAIN wire : wire'[i] = wire[j]
                               \/ wire'[i].of \in {h, NoCmd}
  <2>1. Only(e, h)
    <3>1. <<>> \in Seq(Tokens) /\ <<>> \o e = e
      BY <1>5, EmptySeq, ConcatEmptySeq
    <3>2. PICK n \in Seq(Tokens) : n = <<>>
      BY <3>1
    <3>3. DOMAIN n = {}
      BY <3>2, EmptySeq
    <3>4. PICK st \in [Cmds -> Codes \union {<<>>}] : st = [c \in Cmds |-> <<>>]
      OBVIOUS
    <3>5. Whole(n, st) /\ st[h] = <<>> /\ Only(n, h)
      BY <3>3, <3>4 DEF Whole, Only
    <3>6. Only(n \o Ending(h, code), h)
      BY <3>5, EndingKeeps
    <3> QED
      BY <1>5, <3>1, <3>2, <3>6
  <2>2. /\ Len(wire) \in Nat /\ Len(e) \in Nat
        /\ DOMAIN wire = 1 .. Len(wire) /\ DOMAIN e = 1 .. Len(e)
        /\ DOMAIN wire' = 1 .. Len(wire) + Len(e)
        /\ \A i \in 1 .. Len(wire) : wire'[i] = wire[i]
        /\ \A i \in 1 .. Len(e) : wire'[Len(wire) + i] = e[i]
    BY <1>4, <1>6, ConcatFacts
  <2> SUFFICES ASSUME NEW i \in DOMAIN wire', i \notin DOMAIN wire
               PROVE  wire'[i].of \in {h, NoCmd}
    BY <2>2
  <2>3. PICK j \in DOMAIN e : i = Len(wire) + j
    <3>1. i - Len(wire) \in DOMAIN e /\ i = Len(wire) + (i - Len(wire))
      BY <2>2
    <3> QED
      BY <3>1
  <2> QED
    BY <2>1, <2>2, <2>3 DEF Only
<1>15. UnsentInv'
  <2>1. ASSUME NEW d \in Cmds, result[d] = NoResult, cmd # d
        PROVE  status'[d] = <<>> /\ \A i \in DOMAIN wire' : wire'[i].of # d
    <3>1. h # d
      BY <1>8, <2>1
    <3>2. status[d] = <<>> /\ \A i \in DOMAIN wire : wire[i].of # d
      BY <2>1 DEF IInv, UnsentInv
    <3> QED
      BY <1>4, <1>9, <1>14, <3>1, <3>2
  <2>2. cmd # NoCmd => result[cmd] = NoResult
    BY DEF IInv, UnsentInv
  <2>3. cmd = NoCmd => buf = <<>>
    BY DEF IInv, UnsentInv
  <2> QED
    BY <1>1, <2>1, <2>2, <2>3 DEF UnsentInv
<1>16. /\ Whole(Heard', status')
       /\ \A d \in Cmds : Ordered(Heard, d) /\ (d = h => Has(Heard, Output(h))) => Ordered(Heard', d)
       /\ Only(Heard, h) => Only(Heard', h) /\ Closed(Heard')
  <2>1. Whole(Heard, status)
    BY DEF IInv, PrintedInv
  <2>2. PICK s \in Seq(Tokens), st \in [Cmds -> Codes \union {<<>>}] : s = Heard /\ st = status
    BY <1>4, <1>7
  <2>3. Whole(s, st) /\ st[h] = <<>>
    BY <1>8, <2>1, <2>2
  <2>4. /\ Whole(s \o Ending(h, code), [st EXCEPT ![h] = code])
        /\ \A d \in Cmds : Ordered(s, d) /\ (d = h => Has(s, Output(h)))
                             => Ordered(s \o Ending(h, code), d)
        /\ Only(s, h) => Only(s \o Ending(h, code), h) /\ Closed(s \o Ending(h, code))
    BY <2>3, EndingKeeps
  <2>5. Heard' = s \o Ending(h, code) /\ status' = [st EXCEPT ![h] = code]
    BY <1>3, <1>5, <1>7, <2>2
  <2> QED
    BY <2>2, <2>4, <2>5
<1>17. PrintedInv'
  <2>1. cmd # NoCmd => Ordered(Heard', cmd)
    <3> SUFFICES ASSUME cmd # NoCmd PROVE Ordered(Heard', cmd)
      OBVIOUS
    <3>1. cmd \in Cmds /\ Ordered(Heard, cmd) /\ (cmd = h => Has(Heard, Output(h)))
      BY <1>1, <1>4, <1>8 DEF IInv, PrintedInv
    <3> QED
      BY <1>16, <3>1
  <2> QED
    BY <1>1, <1>16, <2>1 DEF PrintedInv
<1>18. QuietInv'
  <2> SUFFICES ASSUME expired = {}
               PROVE  /\ cmd # NoCmd
                      /\ \A i \in DOMAIN lines' : lines'[i] = cmd
                      /\ Only(Heard', cmd) /\ Closed(Heard')
    BY <1>1 DEF QuietInv
  <2>1. cmd = h /\ Only(Heard, h)
    BY <1>8
  <2>2. \A i \in DOMAIN lines' : lines'[i] = cmd
    BY <1>4, <1>10, <2>1 DEF IInv, QuietInv
  <2> QED
    BY <1>4, <1>16, <2>1, <2>2
<1>19. SuccessIsReal'
  <2> SUFFICES ASSUME NEW c \in Cmds, result[c].kind = "ok"
               PROVE  c # h /\ status'[c] = status[c]
    BY <1>1 DEF IInv, SuccessIsReal, Succeeded
  <2>1. status[c] # <<>>
    BY DEF IInv, SuccessIsReal, Succeeded
  <2> QED
    BY <1>8, <1>9, <2>1
<1>20. OwnOutputUnlessExpired' /\ NoErrorUnlessExpired'
  BY <1>1 DEF IInv, OwnOutputUnlessExpired, NoErrorUnlessExpired, Succeeded
<1> QED
  BY <1>11, <1>13, <1>15, <1>17, <1>18, <1>19, <1>20 DEF IInv

LEMMA StepIInv == IInv /\ [Next]_vars => IInv'
<1> SUFFICES ASSUME IInv, [Next]_vars PROVE IInv'
  OBVIOUS
<1>1. CASE \E c \in Cmds : Send(c)
  BY <1>1, SendKeeps
<1>2. CASE UNCHANGED vars
  BY <1>2 DEF vars, hostVars, boardVars, IInv, TypeOK, LinesInv, UnsentInv, PrintedInv,
     QuietInv, Heard, SuccessIsReal, OwnOutputUnlessExpired, NoErrorUnlessExpired, Succeeded
<1> QED
  BY <1>1, <1>2, ReadKeeps, DeadlineKeeps, PrintOutputKeeps, ExecuteKeeps DEF Next

-----------------------------------------------------------------------------
(* Every command is a behaviour of Transport                               *)

\* what is substituted for the variables of Transport
AnswerOf(c) ==
  IF cmd = c THEN "asked"
  ELSE IF ~Succeeded(c) THEN IF result[c] = Error THEN "error" ELSE "new"
  ELSE IF result[c].code = <<0>> THEN "ok" ELSE "failed"
Executed(c) == IF status[c] = <<>> THEN "no" ELSE IF status[c] = <<0>> THEN "ok" ELSE "failed"

Maps(c) == Interface(c)!Next \/ UNCHANGED Interface(c)!vars

\* a step of Transport, in terms of what is substituted for its variables
LEMMA MapsTo ==
  ASSUME NEW c,
         \/ AnswerOf(c)' = AnswerOf(c) /\ Executed(c)' = Executed(c)
         \/ /\ AnswerOf(c) = "new" /\ AnswerOf(c)' = "asked"
            /\ Executed(c)' = Executed(c)
         \/ /\ Executed(c) = "no" /\ AnswerOf(c) \in {"asked", "failed", "error"}
            /\ Executed(c)' \in {"ok", "failed"}
            /\ AnswerOf(c)' = AnswerOf(c)
         \/ /\ AnswerOf(c) = "asked"
            /\ AnswerOf(c)' \in {"ok", "failed", "error"}
            /\ AnswerOf(c)' = "ok" => Executed(c) = "ok"
            /\ Executed(c)' = Executed(c)
  PROVE  Maps(c)
BY DEF Maps, AnswerOf, Executed, Interface!Next, Interface!Ask, Interface!Execute,
       Interface!Answer, Interface!vars

LEMMA SendMaps ==
  ASSUME IInv, NEW d \in Cmds, Send(d), NEW c \in Cmds
  PROVE  Maps(c)
<1>1. /\ cmd = NoCmd /\ cmd' = d /\ result[d] = NoResult /\ NoCmd \notin Cmds
      /\ UNCHANGED <<result, status>>
  BY LinkAssumption DEF Send
<1>2. Executed(c)' = Executed(c)
  BY <1>1 DEF Executed
<1>3. CASE c = d
  <2>1. AnswerOf(c) = "new" /\ AnswerOf(c)' = "asked"
    BY <1>1, <1>3 DEF AnswerOf, Succeeded, NoResult, Error
  <2> QED
    BY <1>2, <2>1, MapsTo
<1>4. CASE c # d
  <2>1. AnswerOf(c)' = AnswerOf(c)
    BY <1>1, <1>4 DEF AnswerOf, Succeeded
  <2> QED
    BY <1>2, <2>1, MapsTo
<1> QED
  BY <1>3, <1>4

\* A command is answered while it is awaited, and what it is told is true.
LEMMA FinishMaps ==
  ASSUME IInv, IInv', cmd # NoCmd, NEW b, Finish(b), UNCHANGED status, NEW c \in Cmds
  PROVE  Maps(c)
<1>1. /\ cmd \in Cmds /\ cmd' = NoCmd /\ NoCmd \notin Cmds
      /\ result' = [result EXCEPT ![cmd] = SplitOutput(b, cmd)]
      /\ result \in [Cmds -> Results] /\ status' = status
  BY LinkAssumption DEF IInv, TypeOK, Finish
<1>2. Executed(c)' = Executed(c)
  BY <1>1 DEF Executed
<1>3. CASE c = cmd
  <2>1. AnswerOf(c) = "asked"
    BY <1>3 DEF AnswerOf
  <2>2. result'[c] = Error \/ result'[c].kind = "ok"
    <3>1. result'[c] = SplitOutput(b, c)
      BY <1>1, <1>3
    <3> QED
      BY <3>1 DEF SplitOutput, Result
  <2>3. AnswerOf(c)' \in {"ok", "failed", "error"}
    BY <1>1, <1>3, <2>2 DEF AnswerOf, Succeeded
  <2>4. AnswerOf(c)' = "ok" => result'[c].kind = "ok" /\ result'[c].code = <<0>>
    BY <1>1, <1>3 DEF AnswerOf, Succeeded
  <2>5. AnswerOf(c)' = "ok" => status'[c] = <<0>>
    BY <2>4 DEF IInv, SuccessIsReal, Succeeded
  <2>6. AnswerOf(c)' = "ok" => Executed(c) = "ok"
    <3>1. <<0>> # <<>>
      OBVIOUS
    <3> QED
      BY <1>1, <2>5, <3>1 DEF Executed
  <2> QED
    BY <1>2, <2>1, <2>3, <2>6, MapsTo
<1>4. CASE c # cmd
  <2>1. AnswerOf(c)' = AnswerOf(c)
    BY <1>1, <1>4 DEF AnswerOf, Succeeded
  <2> QED
    BY <1>2, <2>1, MapsTo
<1> QED
  BY <1>3, <1>4

\* The board executes what is awaited or was given up.
LEMMA ExecuteMaps ==
  ASSUME IInv, Execute, NEW c \in Cmds
  PROVE  Maps(c)
<1>1. printed /\ lines # <<>> /\ UNCHANGED <<cmd, result>>
  BY DEF IInv, TypeOK, Execute, hostVars
<1>2. PICK h \in Cmds : h = Head(lines)
  BY <1>1, HeadFacts
<1>3. PICK code \in Codes : status' = [status EXCEPT ![h] = code]
  BY <1>2 DEF Execute
<1>4. status \in [Cmds -> Codes \union {<<>>}] /\ code # <<>>
  BY LinkAssumption DEF IInv, TypeOK
<1>5. AnswerOf(c)' = AnswerOf(c)
  BY <1>1 DEF AnswerOf, Succeeded
<1>6. CASE c = h
  <2>1. status[h] = <<>> /\ (cmd = h \/ result[h] = Error)
    BY <1>1, <1>2, HeadFacts
  <2>2. Executed(c) = "no" /\ Executed(c)' \in {"ok", "failed"}
    BY <1>3, <1>4, <1>6, <2>1 DEF Executed
  <2>3. AnswerOf(c) \in {"asked", "error"}
    BY <1>6, <2>1 DEF AnswerOf, Succeeded, Error
  <2> QED
    BY <1>5, <2>2, <2>3, MapsTo
<1>7. CASE c # h
  <2>1. Executed(c)' = Executed(c)
    BY <1>3, <1>4, <1>7 DEF Executed
  <2> QED
    BY <1>5, <2>1, MapsTo
<1> QED
  BY <1>6, <1>7

LEMMA StepMaps ==
  ASSUME IInv, [Next]_vars, NEW c \in Cmds
  PROVE  Maps(c)
<1>1. IInv'
  BY StepIInv
<1>2. ASSUME NEW d \in Cmds, Send(d) PROVE Maps(c)
  BY <1>2, SendMaps
<1>3. ASSUME UNCHANGED <<cmd, result, status>> PROVE Maps(c)
  <2>1. AnswerOf(c)' = AnswerOf(c) /\ Executed(c)' = Executed(c)
    BY <1>3 DEF AnswerOf, Executed, Succeeded
  <2> QED
    BY <2>1, MapsTo
<1>4. CASE Read
  <2>1. cmd # NoCmd /\ UNCHANGED status
    BY <1>4 DEF Read, boardVars
  <2>2. PICK b : Finish(b) \/ UNCHANGED <<cmd, result>>
    BY <1>4 DEF Read
  <2> QED
    BY <1>1, <1>3, <2>1, <2>2, FinishMaps
<1>5. CASE Deadline
  BY <1>1, <1>5, FinishMaps DEF Deadline, boardVars
<1>6. CASE PrintOutput
  BY <1>3, <1>6 DEF PrintOutput, hostVars
<1>7. CASE Execute
  BY <1>7, ExecuteMaps
<1>8. CASE UNCHANGED vars
  BY <1>3, <1>8 DEF vars, hostVars, boardVars
<1> QED
  BY <1>2, <1>4, <1>5, <1>6, <1>7, <1>8 DEF Next

LEMMA InitMaps ==
  ASSUME Init, NEW c \in Cmds
  PROVE  Interface(c)!Init
<1>1. cmd # c /\ result[c] = NoResult /\ status[c] = <<>>
  BY LinkAssumption DEF Init
<1>2. AnswerOf(c) = "new" /\ Executed(c) = "no"
  BY <1>1 DEF AnswerOf, Executed, Succeeded, NoResult, Error
<1> QED
  BY <1>2 DEF AnswerOf, Executed, Interface!Init

-----------------------------------------------------------------------------
(* Theorems                                                                *)

\* Whatever was given up and wherever the chunks are cut, what the console has
\* printed is whole and in order, and what was concluded from it is true.
THEOREM Invariance == Spec => []IInv
BY InitIInv, StepIInv, PTL DEF Spec

\* Every variable keeps its type: whatever _split_output returns is an error
\* or a status of at least one digit.
THEOREM TypeCorrect == Spec => []TypeOK
<1>1. IInv => TypeOK
  BY DEF IInv
<1> QED
  BY Invariance, <1>1, PTL

\* No result of run() is made up: the command has ended, its output is there,
\* and the status is zero exactly if the command's was (_split_output).
THEOREM ResultsTrue == Spec => []SuccessIsReal
<1>1. IInv => SuccessIsReal
  BY DEF IInv
<1> QED
  BY Invariance, <1>1, PTL

\* As long as no deadline has passed, a command gets its own output only,
\* although the marker pattern of the read loop matches that of any command.
THEOREM OutputOwn == Spec => []OwnOutputUnlessExpired
<1>1. IInv => OwnOutputUnlessExpired
  BY DEF IInv
<1> QED
  BY Invariance, <1>1, PTL

\* ... and the loop does not end on a buffer _split_output cannot use.
THEOREM LoopEndsInTime == Spec => []NoErrorUnlessExpired
<1>1. IInv => NoErrorUnlessExpired
  BY DEF IInv
<1> QED
  BY Invariance, <1>1, PTL

\* Every command of the serial run() is a behaviour of Transport: executed at
\* most once, also if it was given up, and no success is reported that was none.
THEOREM TransportImplemented == Spec => ImplementsTransport
<1>1. Init => \A c \in Cmds : Interface(c)!Init
  BY InitMaps
<1>2. IInv /\ [Next]_vars =>
        [\A c \in Cmds : Interface(c)!Next \/ UNCHANGED Interface(c)!vars]_vars
  BY StepMaps DEF Maps
<1> QED
  BY Invariance, <1>1, <1>2, PTL DEF Spec, ImplementsTransport
=============================================================================
